---------------------------- MODULE ChartProofs ----------------------------
(***************************************************************************)
(* The chart of a signal for a log of any length, over any values: the     *)
(* points that getSignalGraph collects, the line that onAddSignal draws of *)
(* them, and the binary search of startSearchIndex on that line.  ChartInv *)
(* is the inductive invariant, part by part: what is collected, what is    *)
(* drawn, what is searched.                                                *)
(***************************************************************************)
EXTENDS Chart, SequenceTheorems, TLAPS

(***************************************************************************)
(* The points collected: those seen so far are in the order of time, none  *)
(* of them later than the message seen last; and they start with the log.  *)
(***************************************************************************)
LogOK == log \in Seq(Message) /\ log # <<>> /\ Ordered(log)

ProgressOK ==
  /\ pc \in {"loop", "last", "draw", "done"} /\ endHasId \in BOOLEAN
  /\ row \in 0 .. Len(log)
  /\ pc # "loop" => row = Len(log)

DataOK ==
  /\ data \in Seq(Point)
  /\ \A i, j \in DOMAIN data : i <= j => data[i][1] <= data[j][1]
  /\ \A i \in DOMAIN data : row > 0 /\ data[i][1] <= log[row].time

Seen == \E i \in 1 .. row : log[i].hasId

SpanOK ==
  /\ ~Finished /\ data # <<>> => Seen
  /\ Seen => data # <<>> /\ data[1][1] = log[1].time
  /\ row > 0 /\ log[row].hasId => Last(data)[1] = log[row].time
  /\ Finished /\ ~endHasId => data # <<>> /\ Last(data)[1] = log[row].time

(* The rows of the signal among those seen, and the points made of them.   *)
OwnRows(own) ==
  /\ own \in Seq(1 .. row) /\ Len(own) <= row
  /\ Range(own) = {i \in 1 .. row : log[i].hasId}
  /\ \A i, j \in DOMAIN own : i < j => own[i] < own[j]

PointsOf(own) ==
  /\ data[1] = <<log[1].time, log[own[1]].value>>
  /\ \A i \in DOMAIN own : data[i + 1] = <<log[own[i]].time, log[own[i]].value>>

ValuesOK ==
  \E own \in Seq(1 .. row) :
    /\ OwnRows(own)
    /\ ~Finished => Len(data) = IF own = <<>> THEN 0 ELSE Len(own) + 1
    /\ own # <<>> => PointsOf(own)
    /\ own # <<>> /\ Finished =>
         /\ Len(data) = Len(own) + (IF endHasId THEN 1 ELSE 2)
         /\ ~endHasId => Last(data) = <<log[row].time, log[Last(own)].value>>

(***************************************************************************)
(* The points drawn: up to the last of them, j, everything is on the line; *)
(* the points passed since then are at its height.                         *)
(***************************************************************************)
LineUpTo(j) ==
  /\ series # <<>> /\ Last(series) = data[j]
  /\ \A k \in 1 .. j : OnDrawnLine(k)
  /\ \A k \in j + 1 .. point : ~Important(k) /\ ~Differ(data[j][2], data[k][2])

SeriesOK ==
  /\ point \in 0 .. Len(data)
  /\ ~Finished => point = 0
  /\ pc = "done" => point = Len(data)
  /\ series \in Seq(Point)
  /\ point = 0 => series = <<>>
  /\ point > 0 => \E j \in 1 .. point : LineUpTo(j)
  /\ \A i \in DOMAIN series : \E k \in 1 .. point : series[i] = data[k]
  /\ \A i, j \in DOMAIN series : i <= j => series[i][1] <= series[j][1]

GraphInv == LogOK /\ ProgressOK /\ DataOK /\ SpanOK /\ ValuesOK /\ SeriesOK

(***************************************************************************)
(* The search: none before the chart is there.                             *)
(***************************************************************************)
SearchOK ==
  /\ x \in Int
  /\ pc # "done" => search = "idle" /\ first = 0 /\ count = 0
  /\ search = "clamp" => count = 0
  /\ SearchIsSound /\ LabelsPointUnderMouse

ChartInv == GraphInv /\ SearchOK

-----------------------------------------------------------------------------
(* A log has a first message, and times are numbers.                       *)
LEMMA LogFacts ==
  ASSUME LogOK
  PROVE  /\ Len(log) \in Nat \ {0} /\ DOMAIN log = 1 .. Len(log)
         /\ \A i \in 1 .. Len(log) : log[i] \in Message
         /\ \A i, j \in 1 .. Len(log) : i <= j => log[i].time <= log[j].time
         /\ Time \subseteq Int
<1>1. log \in Seq(Message) /\ log # <<>>
  BY DEF LogOK
<1>2. Len(log) \in Nat \ {0} /\ DOMAIN log = 1 .. Len(log)
  BY <1>1, EmptySeq, LenProperties
<1>3. \A i \in 1 .. Len(log) : log[i] \in Message
  BY <1>1, ElementOfSeq
<1>4. Time \subseteq Int
  BY BoundAssumption DEF Time
<1>5. ASSUME NEW i \in 1 .. Len(log), NEW j \in 1 .. Len(log), i <= j
      PROVE  log[i].time <= log[j].time
  <2>1. CASE i = j
    <3>1. log[i].time \in Int
      BY <1>3, <1>4 DEF Message
    <3>2. QED
      BY <2>1, <3>1
  <2>2. CASE i # j
    BY <1>2, <1>5, <2>2 DEF LogOK, Ordered
  <2>3. QED
    BY <2>1, <2>2
<1>6. QED
  BY <1>2, <1>3, <1>4, <1>5

(* The point for a message of the signal, after the one at the start of    *)
(* the log if there was no point yet.                                      *)
LEMMA AddPoint ==
  ASSUME NEW d \in Seq(Point), NEW b \in Point, NEW e \in Point,
         NEW D, D = Append(IF d = <<>> THEN <<b>> ELSE d, e)
  PROVE  /\ D \in Seq(Point) /\ D # <<>> /\ D[Len(D)] = e
         /\ Len(D) = IF d = <<>> THEN 2 ELSE Len(d) + 1
         /\ D[1] = IF d = <<>> THEN b ELSE d[1]
         /\ \A i \in 1 .. Len(D) : i = 1 \/ i = Len(D) \/ i \in 1 .. Len(d)
         /\ \A i \in 1 .. Len(d) : D[i] = d[i]
<1>1. CASE d = <<>>
  <2>1. <<b>> \in Seq(Point) /\ Len(<<b>>) = 1 /\ <<b>>[1] = b
    OBVIOUS
  <2>2. Len(d) = 0
    BY <1>1
  <2>3. D = Append(<<b>>, e)
    BY <1>1
  <2>4. /\ D \in Seq(Point) /\ D # <<>> /\ Len(D) = 2
        /\ D[1] = b /\ D[2] = e
    BY <2>1, <2>3, AppendProperties
  <2>5. QED
    BY <1>1, <2>2, <2>4
<1>2. CASE d # <<>>
  <2>1. Len(d) \in Nat \ {0}
    BY <1>2, EmptySeq
  <2>2. D = Append(d, e)
    BY <1>2
  <2>3. /\ D \in Seq(Point) /\ D # <<>> /\ Len(D) = Len(d) + 1
        /\ \A i \in 1 .. Len(d) : D[i] = d[i]
        /\ D[Len(d) + 1] = e
    BY <2>2, AppendProperties
  <2>4. QED
    BY <1>2, <2>1, <2>3
<1>3. QED
  BY <1>1, <1>2

-----------------------------------------------------------------------------
(* The loop over the log.                                                  *)

LEMMA AddMessageFacts ==
  ASSUME GraphInv, AddMessage, log[row + 1].hasId
  PROVE  /\ data' \in Seq(Point) /\ data' # <<>>
         /\ Last(data') = <<log[row + 1].time, log[row + 1].value>>
         /\ Len(data') = IF data = <<>> THEN 2 ELSE Len(data) + 1
         /\ data'[1] = IF data = <<>> THEN <<log[1].time, log[row + 1].value>> ELSE data[1]
         /\ \A i \in 1 .. Len(data') : i = 1 \/ i = Len(data') \/ i \in 1 .. Len(data)
         /\ \A i \in 1 .. Len(data) : data'[i] = data[i]
<1> DEFINE b == <<log[1].time, log[row + 1].value>>
           e == <<log[row + 1].time, log[row + 1].value>>
<1>1. row + 1 \in 1 .. Len(log) /\ 1 \in 1 .. Len(log)
  BY LogFacts DEF GraphInv, ProgressOK, AddMessage
<1>2. b \in Point /\ e \in Point
  BY <1>1, LogFacts DEF GraphInv, Message, Point
<1>3. data \in Seq(Point)
  BY DEF GraphInv, DataOK
<1>4. data' = Append(IF data = <<>> THEN <<b>> ELSE data, e)
  BY DEF AddMessage, firstTime
<1> HIDE DEF b, e
<1>5. /\ data' \in Seq(Point) /\ data' # <<>> /\ data'[Len(data')] = e
      /\ Len(data') = IF data = <<>> THEN 2 ELSE Len(data) + 1
      /\ data'[1] = IF data = <<>> THEN b ELSE data[1]
      /\ \A i \in 1 .. Len(data') : i = 1 \/ i = Len(data') \/ i \in 1 .. Len(data)
      /\ \A i \in 1 .. Len(data) : data'[i] = data[i]
  BY <1>2, <1>3, <1>4, AddPoint
<1>6. QED
  BY <1>5 DEF b, e, Last

(* What each action leaves alone.                                          *)
LEMMA StepProgressOK ==
  ASSUME LogOK, ProgressOK, [Next]_vars
  PROVE  LogOK' /\ ProgressOK' /\ log' = log /\ endHasId' = endHasId
<1>0. Len(log) \in Nat
  BY LogFacts
<1>1. log' = log /\ endHasId' = endHasId
  BY DEF Next, vars, AddMessage, LoopEnds, AddLast, DrawPoint, DrawEnds
<1>2. LogOK'
  BY <1>1 DEF LogOK, Ordered
<1>3. ProgressOK'
  BY <1>0, <1>1
     DEF ProgressOK, Next, vars, AddMessage, LoopEnds, AddLast, DrawPoint, DrawEnds
<1>4. QED
  BY <1>1, <1>2, <1>3

(* One more message is seen: those of the signal so far.                   *)
LEMMA SeenNext ==
  ASSUME LogOK, ProgressOK, AddMessage
  PROVE  /\ row \in Nat /\ row + 1 \in 1 .. Len(log) /\ row' = row + 1 /\ log' = log
         /\ {i \in 1 .. row' : log'[i].hasId} =
              {i \in 1 .. row : log[i].hasId} \cup (IF log[row + 1].hasId THEN {row + 1} ELSE {})
<1>1. row \in Nat /\ row + 1 \in 1 .. Len(log) /\ row' = row + 1 /\ log' = log
  BY LogFacts DEF ProgressOK, AddMessage
<1>2. 1 .. row + 1 = (1 .. row) \cup {row + 1}
  BY <1>1
<1>3. QED
  BY <1>1, <1>2

(* The points are those of the time that has been seen, in order.          *)
LEMMA StepDataOK == GraphInv /\ [Next]_vars => DataOK'
<1> SUFFICES ASSUME GraphInv, [Next]_vars PROVE DataOK'
  OBVIOUS
<1>1. /\ data \in Seq(Point) /\ Len(data) \in Nat /\ DOMAIN data = 1 .. Len(data)
      /\ \A i, j \in 1 .. Len(data) : i <= j => data[i][1] <= data[j][1]
      /\ \A i \in 1 .. Len(data) : row > 0 /\ data[i][1] <= log[row].time
  BY LenProperties DEF GraphInv, DataOK
<1>2. row \in 0 .. Len(log) /\ (pc # "loop" => row = Len(log))
  BY DEF GraphInv, ProgressOK
<1>3. /\ Len(log) \in Nat \ {0}
      /\ \A i \in 1 .. Len(log) : log[i] \in Message /\ log[i].time \in Int
      /\ \A i, j \in 1 .. Len(log) : i <= j => log[i].time <= log[j].time
  BY LogFacts DEF GraphInv, Message
<1>4. \A i \in 1 .. Len(data) : data[i][1] \in Int
  BY <1>1, LogFacts, ElementOfSeq DEF GraphInv, Point
<1>5. CASE AddMessage
  <2>1. row + 1 \in 1 .. Len(log) /\ row' = row + 1 /\ log' = log
    BY <1>5, SeenNext DEF GraphInv
  <2>2. CASE ~log[row + 1].hasId
    <3>1. data' = data
      BY <1>5, <2>2 DEF AddMessage
    <3>2. \A i \in 1 .. Len(data) : data[i][1] <= log[row + 1].time
      BY <1>1, <1>2, <1>3, <1>4, <2>1
    <3>3. QED
      BY <1>1, <1>2, <2>1, <3>1, <3>2 DEF DataOK
  <2>3. CASE log[row + 1].hasId
    <3> DEFINE t == log[row + 1].time
    <3>1. /\ data' \in Seq(Point) /\ data'[Len(data')] = <<t, log[row + 1].value>>
          /\ Len(data') = IF data = <<>> THEN 2 ELSE Len(data) + 1
          /\ data'[1] = IF data = <<>> THEN <<log[1].time, log[row + 1].value>> ELSE data[1]
          /\ \A i \in 1 .. Len(data') : i = 1 \/ i = Len(data') \/ i \in 1 .. Len(data)
          /\ \A i \in 1 .. Len(data) : data'[i] = data[i]
      BY <1>5, <2>3, AddMessageFacts DEF Last
    <3>2. data'[1][1] = IF data = <<>> THEN log[1].time ELSE data[1][1]
      BY <3>1
    <3>3. data'[Len(data')][1] = t
      BY <3>1
    <3>4. t \in Int /\ log[1].time <= t /\ log[1].time \in Int
      BY <1>3, <2>1
    <3>5. \A i \in 1 .. Len(data) : data[i][1] <= t
      BY <1>1, <1>2, <1>3, <1>4, <2>1
    <3>6. data = <<>> => Len(data) = 0
      OBVIOUS
    <3>7. data # <<>> => Len(data) > 0
      BY <1>1, EmptySeq
    <3> HIDE DEF t
    <3>8. \A i, j \in 1 .. Len(data') : i <= j => data'[i][1] <= data'[j][1]
      <4> SUFFICES ASSUME NEW i \in 1 .. Len(data'), NEW j \in 1 .. Len(data'), i <= j
                   PROVE  data'[i][1] <= data'[j][1]
        OBVIOUS
      <4>1. CASE data = <<>>
        BY <3>1, <3>2, <3>3, <3>4, <4>1
      <4>2. CASE data # <<>>
        <5>1. Len(data') = Len(data) + 1 /\ Len(data) > 0
          BY <3>1, <3>7, <4>2
        <5>2. CASE j = Len(data')
          <6>1. i = j \/ (i \in 1 .. Len(data) /\ data'[i] = data[i])
            BY <1>1, <3>1, <5>1, <5>2
          <6>2. QED
            BY <3>3, <3>4, <3>5, <5>2, <6>1
        <5>3. CASE j # Len(data')
          <6>1. i \in 1 .. Len(data) /\ j \in 1 .. Len(data)
            BY <1>1, <5>1, <5>3
          <6>2. QED
            BY <1>1, <3>1, <6>1
        <5>4. QED
          BY <5>2, <5>3
      <4>3. QED
        BY <4>1, <4>2
    <3>9. \A i \in 1 .. Len(data') : data'[i][1] <= t
      <4>1. Len(data') \in 1 .. Len(data')
        BY <1>1, <3>1
      <4>2. QED
        BY <1>1, <3>1, <3>3, <3>4, <3>8, <4>1
    <3>10. DOMAIN data' = 1 .. Len(data')
      BY <3>1, LenProperties
    <3>11. QED
      BY <1>2, <2>1, <3>1, <3>8, <3>9, <3>10 DEF DataOK, t
  <2>4. QED
    BY <2>2, <2>3
<1>6. CASE AddLast
  <2>1. row = Len(log) /\ row' = row /\ log' = log
    BY <1>2, <1>6 DEF AddLast
  <2>2. CASE endHasId
    <3>1. data' = data
      BY <1>6, <2>2 DEF AddLast
    <3>2. QED
      BY <1>1, <2>1, <3>1 DEF DataOK
  <2>3. CASE ~endHasId
    <3> DEFINE e == <<lastTime, lastValue>>
    <3>1. lastTime = log[row].time /\ lastTime \in Time /\ lastTime \in Int
      BY <1>3, <2>1 DEF lastTime, Message
    <3>2. lastValue \in Values
      <4>1. CASE data = <<>>
        BY <4>1, ValuesAssumption DEF lastValue
      <4>2. CASE data # <<>>
        <5>1. Len(data) \in 1 .. Len(data)
          BY <1>1, <4>2, EmptySeq
        <5>2. data[Len(data)] \in Point
          BY <1>1, <5>1, ElementOfSeq
        <5>3. QED
          BY <4>2, <5>2 DEF lastValue, Last, Point
      <4>3. QED
        BY <4>1, <4>2
    <3>3. e \in Point /\ e[1] = log[row].time
      BY <3>1, <3>2 DEF Point
    <3>4. data' = Append(data, e)
      BY <1>6, <2>3 DEF AddLast
    <3> HIDE DEF e
    <3>5. /\ data' \in Seq(Point) /\ Len(data') = Len(data) + 1
          /\ \A i \in 1 .. Len(data) : data'[i] = data[i]
          /\ data'[Len(data) + 1] = e
      BY <1>1, <3>3, <3>4, AppendProperties
    <3>6. DOMAIN data' = 1 .. Len(data) + 1
      BY <3>5, LenProperties
    <3>7. \A i \in 1 .. Len(data) + 1 : data'[i][1] <= log[row].time
      BY <1>1, <1>3, <2>1, <3>3, <3>5
    <3>8. \A i, j \in 1 .. Len(data) + 1 : i <= j => data'[i][1] <= data'[j][1]
      <4> SUFFICES ASSUME NEW i \in 1 .. Len(data) + 1, NEW j \in 1 .. Len(data) + 1, i <= j
                   PROVE  data'[i][1] <= data'[j][1]
        OBVIOUS
      <4>1. CASE j = Len(data) + 1
        BY <1>1, <3>3, <3>5, <3>7, <4>1
      <4>2. CASE j # Len(data) + 1
        <5>1. i \in 1 .. Len(data) /\ j \in 1 .. Len(data)
          BY <1>1, <4>2
        <5>2. QED
          BY <1>1, <3>5, <5>1
      <4>3. QED
        BY <4>1, <4>2
    <3>9. QED
      BY <1>3, <2>1, <3>5, <3>6, <3>7, <3>8 DEF DataOK
  <2>4. QED
    BY <2>2, <2>3
<1>7. CASE UNCHANGED <<log, row, data>>
  BY <1>7 DEF GraphInv, DataOK
<1>8. QED
  BY <1>5, <1>6, <1>7 DEF Next, vars, LoopEnds, DrawPoint, DrawEnds

(* The first point is at the start of the log, and the last one at the     *)
(* time of the last message, where that is one of the signal.              *)
LEMMA StepSpanOK == GraphInv /\ [Next]_vars => SpanOK'
<1> SUFFICES ASSUME GraphInv, [Next]_vars PROVE SpanOK'
  OBVIOUS
<1>1. /\ data \in Seq(Point) /\ Len(data) \in Nat
      /\ SpanOK /\ LogOK /\ ProgressOK
  BY LenProperties DEF GraphInv, DataOK
<1>2. log' = log /\ endHasId' = endHasId
  BY <1>1, StepProgressOK
<1>3. CASE AddMessage
  <2>1. /\ row \in Nat /\ row + 1 \in 1 .. Len(log) /\ row' = row + 1
        /\ Seen' = (Seen \/ log[row + 1].hasId)
    BY <1>1, <1>2, <1>3, SeenNext DEF Seen
  <2>2. pc = "loop" /\ pc' = "loop"
    BY <1>3 DEF AddMessage
  <2>3. CASE log[row + 1].hasId
    <3>1. /\ data' # <<>>
          /\ Last(data') = <<log[row + 1].time, log[row + 1].value>>
          /\ data'[1] = IF data = <<>> THEN <<log[1].time, log[row + 1].value>> ELSE data[1]
      BY <1>3, <2>3, AddMessageFacts
    <3>2. data'[1][1] = log[1].time
      BY <1>1, <2>2, <3>1 DEF SpanOK, Finished
    <3>3. Last(data')[1] = log[row + 1].time
      BY <3>1
    <3>4. QED
      BY <1>2, <2>1, <2>2, <2>3, <3>1, <3>2, <3>3 DEF SpanOK, Finished
  <2>4. CASE ~log[row + 1].hasId
    <3>1. data' = data
      BY <1>3, <2>4 DEF AddMessage
    <3>2. QED
      BY <1>1, <1>2, <2>1, <2>2, <2>4, <3>1 DEF SpanOK, Finished
  <2>5. QED
    BY <2>3, <2>4
<1>4. CASE AddLast
  <2>1. /\ row' = row /\ pc = "last" /\ pc' = "draw" /\ row = Len(log) /\ row > 0
    BY <1>1, <1>4, LogFacts DEF AddLast, ProgressOK
  <2>2. Seen' = Seen
    BY <1>2, <2>1 DEF Seen
  <2>3. CASE endHasId
    BY <1>1, <1>2, <1>4, <2>1, <2>2, <2>3 DEF AddLast, SpanOK, Finished
  <2>4. CASE ~endHasId
    <3> DEFINE e == <<lastTime, lastValue>>
    <3>1. data' = Append(data, e) /\ e[1] = log[row].time
      BY <1>4, <2>4 DEF AddLast, lastTime
    <3>2. data' \in Seq(Point)
      BY StepDataOK DEF DataOK
    <3> HIDE DEF e
    <3>3. Last(data') = e /\ data' # <<>> /\ (data # <<>> => data'[1] = data[1])
      <4>1. Len(data') = Len(data) + 1
        BY <1>1, <3>1, SMT
      <4>2. data' # <<>>
        BY <1>1, <4>1, EmptySeq
      <4>3. data'[Len(data) + 1] = e
        BY <1>1, <3>1, SMT
      <4>4. data # <<>> => data'[1] = data[1]
        BY <1>1, <3>1, EmptySeq, SMT
      <4>5. QED
        BY <4>1, <4>2, <4>3, <4>4 DEF Last
    <3>4. QED
      BY <1>1, <1>2, <2>1, <2>2, <2>4, <3>1, <3>3 DEF SpanOK, Finished
  <2>5. QED
    BY <2>3, <2>4
<1>5. CASE LoopEnds
  BY <1>1, <1>2, <1>5 DEF LoopEnds, SpanOK, Seen, Finished
<1>6. CASE DrawPoint \/ DrawEnds \/ UNCHANGED vars
  BY <1>1, <1>2, <1>6 DEF DrawPoint, DrawEnds, vars, SpanOK, Seen, Finished
<1>7. QED
  BY <1>3, <1>4, <1>5, <1>6 DEF Next

(* The rows of the signal, with the message that is one of them.           *)
LEMMA OwnRowsNext ==
  ASSUME LogOK, ProgressOK, AddMessage, log[row + 1].hasId,
         NEW own \in Seq(1 .. row), OwnRows(own),
         NEW next, next = Append(own, row + 1)
  PROVE  /\ next \in Seq(1 .. row') /\ Len(next) <= row'
         /\ Range(next) = {i \in 1 .. row' : log'[i].hasId}
         /\ \A i, j \in DOMAIN next : i < j => next[i] < next[j]
         /\ Len(next) = Len(own) + 1 /\ next[Len(own) + 1] = row + 1
         /\ \A i \in 1 .. Len(own) : next[i] = own[i]
<1>1. /\ row \in Nat /\ row' = row + 1 /\ log' = log
      /\ {i \in 1 .. row' : log'[i].hasId} = {i \in 1 .. row : log[i].hasId} \cup {row + 1}
  BY SeenNext
<1>2. /\ Len(own) \in Nat /\ DOMAIN own = 1 .. Len(own) /\ Len(own) <= row
      /\ Range(own) = {i \in 1 .. row : log[i].hasId}
      /\ \A i, j \in 1 .. Len(own) : i < j => own[i] < own[j]
      /\ \A i \in 1 .. Len(own) : own[i] \in 1 .. row
  BY LenProperties, ElementOfSeq DEF OwnRows
<1>3. own \in Seq(1 .. row + 1) /\ row + 1 \in 1 .. row + 1
  BY <1>1, SeqMonotonic
<1>4. /\ next \in Seq(1 .. row + 1) /\ Len(next) = Len(own) + 1
      /\ next[Len(own) + 1] = row + 1
      /\ \A i \in 1 .. Len(own) : next[i] = own[i]
  BY <1>3, AppendProperties
<1>5. DOMAIN next = (1 .. Len(own)) \cup {Len(own) + 1}
  BY <1>2, <1>4, LenProperties
<1>6. Range(next) = Range(own) \cup {row + 1}
  <2>1. {next[i] : i \in 1 .. Len(own)} = {own[i] : i \in 1 .. Len(own)}
    BY <1>4
  <2>2. Range(next) = {next[i] : i \in 1 .. Len(own)} \cup {next[Len(own) + 1]}
    BY <1>5, Zenon DEF Range
  <2>3. QED
    BY <1>2, <1>4, <2>1, <2>2 DEF Range
<1>7. \A i, j \in DOMAIN next : i < j => next[i] < next[j]
  <2> SUFFICES ASSUME NEW i \in DOMAIN next, NEW j \in DOMAIN next, i < j
               PROVE  next[i] < next[j]
    OBVIOUS
  <2>1. i \in 1 .. Len(own) /\ next[i] = own[i] /\ own[i] \in 1 .. row
    BY <1>2, <1>4, <1>5
  <2>2. CASE j = Len(own) + 1
    BY <1>1, <1>4, <2>1, <2>2
  <2>3. CASE j # Len(own) + 1
    BY <1>2, <1>4, <1>5, <2>1, <2>3
  <2>4. QED
    BY <2>2, <2>3
<1>8. QED
  BY <1>1, <1>2, <1>4, <1>6, <1>7

(* Each point carries the value of its message.                            *)
LEMMA StepValuesOK == GraphInv /\ [Next]_vars => ValuesOK'
<1> SUFFICES ASSUME GraphInv, [Next]_vars PROVE ValuesOK'
  OBVIOUS
<1>1. /\ data \in Seq(Point) /\ Len(data) \in Nat
      /\ LogOK /\ ProgressOK /\ ValuesOK
  BY LenProperties DEF GraphInv, DataOK
<1>2. log' = log /\ endHasId' = endHasId
  BY <1>1, StepProgressOK
<1>3. PICK own \in Seq(1 .. row) :
        /\ OwnRows(own)
        /\ ~Finished => Len(data) = IF own = <<>> THEN 0 ELSE Len(own) + 1
        /\ own # <<>> => PointsOf(own)
        /\ own # <<>> /\ Finished =>
             /\ Len(data) = Len(own) + (IF endHasId THEN 1 ELSE 2)
             /\ ~endHasId => Last(data) = <<log[row].time, log[Last(own)].value>>
  BY <1>1 DEF ValuesOK
<1>4. /\ Len(own) \in Nat /\ DOMAIN own = 1 .. Len(own)
      /\ (own = <<>> => Len(own) = 0) /\ (own # <<>> => Len(own) > 0)
  BY EmptySeq, LenProperties
<1>5. CASE AddMessage /\ log[row + 1].hasId
  <2>a. /\ LogOK /\ ProgressOK /\ AddMessage /\ log[row + 1].hasId
        /\ own \in Seq(1 .. row) /\ OwnRows(own)
    BY <1>1, <1>3, <1>5
  <2>0. PICK next : next = Append(own, row + 1)
    OBVIOUS
  <2>1. /\ next \in Seq(1 .. row') /\ Len(next) <= row'
        /\ Range(next) = {i \in 1 .. row' : log'[i].hasId}
        /\ \A i, j \in DOMAIN next : i < j => next[i] < next[j]
        /\ Len(next) = Len(own) + 1 /\ next[Len(own) + 1] = row + 1
        /\ \A i \in 1 .. Len(own) : next[i] = own[i]
    <3>1. next \in Seq(1 .. row') /\ Len(next) <= row'
      BY <2>a, <2>0, OwnRowsNext
    <3>2. Range(next) = {i \in 1 .. row' : log'[i].hasId}
      BY <2>a, <2>0, OwnRowsNext
    <3>3. \A i, j \in DOMAIN next : i < j => next[i] < next[j]
      BY <2>a, <2>0, OwnRowsNext
    <3>4. Len(next) = Len(own) + 1 /\ next[Len(own) + 1] = row + 1
      BY <2>a, <2>0, OwnRowsNext
    <3>5. \A i \in 1 .. Len(own) : next[i] = own[i]
      BY <2>a, <2>0, OwnRowsNext
    <3>6. QED
      BY <3>1, <3>2, <3>3, <3>4, <3>5
  <2>2. next # <<>> /\ DOMAIN next = 1 .. Len(own) + 1
    BY <1>4, <2>1, EmptySeq, LenProperties
  <2>3. ~Finished /\ ~Finished'
    BY <1>5 DEF AddMessage, Finished
  <2>4. Len(data) = 0 <=> data = <<>>
    BY <1>1, EmptySeq
  <2>5. /\ data'[Len(data')] = <<log[row + 1].time, log[row + 1].value>>
        /\ Len(data') = IF data = <<>> THEN 2 ELSE Len(data) + 1
        /\ data'[1] = IF data = <<>> THEN <<log[1].time, log[row + 1].value>> ELSE data[1]
        /\ \A i \in 1 .. Len(data) : data'[i] = data[i]
    BY <1>5, AddMessageFacts DEF Last
  <2>6. Len(data') = Len(own) + 2
    BY <1>3, <1>4, <2>3, <2>4, <2>5
  <2>7. PointsOf(next)'
    <3>1. data'[1] = <<log[1].time, log[next[1]].value>>
      <4>1. CASE own = <<>>
        BY <1>3, <1>4, <2>1, <2>3, <2>4, <2>5, <4>1
      <4>2. CASE own # <<>>
        <5>1. data # <<>> /\ data[1] = <<log[1].time, log[own[1]].value>>
          BY <1>3, <1>4, <2>3, <2>4, <4>2 DEF PointsOf
        <5>2. next[1] = own[1]
          BY <1>4, <2>1, <4>2
        <5>3. QED
          BY <2>5, <5>1, <5>2
      <4>3. QED
        BY <4>1, <4>2
    <3>2. ASSUME NEW i \in 1 .. Len(own) + 1
          PROVE  data'[i + 1] = <<log[next[i]].time, log[next[i]].value>>
      <4>1. CASE i = Len(own) + 1
        BY <1>4, <2>1, <2>5, <2>6, <4>1
      <4>2. CASE i # Len(own) + 1
        <5>1. i \in 1 .. Len(own) /\ own # <<>> /\ next[i] = own[i]
          BY <1>4, <2>1, <4>2
        <5>2. i + 1 \in 1 .. Len(data)
          BY <1>3, <1>4, <2>3, <5>1
        <5>3. data[i + 1] = <<log[own[i]].time, log[own[i]].value>>
          BY <1>3, <1>4, <5>1 DEF PointsOf
        <5>4. QED
          BY <2>5, <5>1, <5>2, <5>3
      <4>3. QED
        BY <4>1, <4>2
    <3>3. QED
      BY <1>2, <2>2, <3>1, <3>2 DEF PointsOf
  <2>8. QED
    BY <1>4, <2>1, <2>2, <2>3, <2>6, <2>7 DEF ValuesOK, OwnRows
<1>6. CASE AddMessage /\ ~log[row + 1].hasId
  <2>1. /\ row' = row + 1 /\ row \in Nat
        /\ {i \in 1 .. row' : log'[i].hasId} = {i \in 1 .. row : log[i].hasId}
    BY <1>1, <1>6, SeenNext
  <2>2. data' = data /\ ~Finished /\ ~Finished'
    BY <1>6 DEF AddMessage, Finished
  <2>3. own \in Seq(1 .. row')
    BY <2>1, SeqMonotonic
  <2>4. OwnRows(own)'
    BY <1>3, <1>4, <2>1, <2>3 DEF OwnRows
  <2>5. PointsOf(own)' = PointsOf(own)
    BY <1>2, <2>2 DEF PointsOf
  <2>6. QED
    BY <1>3, <2>2, <2>3, <2>4, <2>5 DEF ValuesOK
<1>7. CASE AddLast
  <2>1. /\ row' = row /\ ~Finished /\ Finished'
    BY <1>7 DEF AddLast, Finished
  <2>2. OwnRows(own)' /\ own \in Seq(1 .. row')
    BY <1>2, <1>3, <2>1 DEF OwnRows
  <2>3. CASE own = <<>>
    BY <2>1, <2>2, <2>3 DEF ValuesOK
  <2>4. CASE own # <<>>
    <3>1. Len(data) = Len(own) + 1 /\ PointsOf(own) /\ data # <<>>
      BY <1>1, <1>3, <1>4, <2>1, <2>4, EmptySeq
    <3>2. Len(own) \in 1 .. Len(own) /\ Last(own) = own[Len(own)]
      BY <1>4, <2>4 DEF Last
    <3>3. lastValue = log[Last(own)].value
      <4>1. data[Len(own) + 1] = <<log[Last(own)].time, log[Last(own)].value>>
        BY <1>4, <3>1, <3>2 DEF PointsOf
      <4>2. QED
        BY <3>1, <4>1 DEF lastValue, Last
    <3>4. CASE endHasId
      <4>1. data' = data
        BY <1>7, <3>4 DEF AddLast
      <4>2. PointsOf(own)'
        BY <1>2, <3>1, <4>1 DEF PointsOf
      <4>3. QED
        BY <1>2, <2>1, <2>2, <3>1, <3>4, <4>1, <4>2 DEF ValuesOK
    <3>5. CASE ~endHasId
      <4> DEFINE e == <<lastTime, lastValue>>
      <4>1. data' = Append(data, e) /\ e = <<log[row].time, log[Last(own)].value>>
        BY <1>7, <3>3, <3>5 DEF AddLast, lastTime
      <4> HIDE DEF e
      <4>2. /\ Len(data') = Len(data) + 1 /\ data'[Len(data) + 1] = e
            /\ \A i \in 1 .. Len(data) : data'[i] = data[i]
        BY <1>1, <4>1, SMT
      <4>3. PointsOf(own)'
        <5>1. data'[1] = data[1] /\ \A i \in 1 .. Len(own) : data'[i + 1] = data[i + 1]
          BY <1>4, <3>1, <4>2
        <5>2. QED
          BY <1>2, <1>4, <3>1, <5>1 DEF PointsOf
      <4>4. Last(data') = <<log[row].time, log[Last(own)].value>>
        BY <4>1, <4>2 DEF Last
      <4>5. Len(data') = Len(own) + 2
        BY <1>4, <3>1, <4>2
      <4>6. QED
        BY <1>2, <2>1, <2>2, <3>5, <4>3, <4>4, <4>5 DEF ValuesOK
    <3>6. QED
      BY <3>4, <3>5
  <2>5. QED
    BY <2>3, <2>4
<1>8. CASE LoopEnds \/ DrawPoint \/ DrawEnds \/ UNCHANGED vars
  <2>1. UNCHANGED <<log, row, data, endHasId>> /\ Finished' = Finished
    BY <1>8 DEF LoopEnds, DrawPoint, DrawEnds, vars, Finished
  <2>2. OwnRows(own)' /\ PointsOf(own)' = PointsOf(own)
    BY <1>3, <2>1 DEF OwnRows, PointsOf
  <2>3. QED
    BY <1>3, <2>1, <2>2 DEF ValuesOK
<1>9. QED
  BY <1>5, <1>6, <1>7, <1>8 DEF Next

-----------------------------------------------------------------------------
(* The loop that draws.                                                    *)

(* A point that is kept goes to the end of the series.                     *)
LEMMA KeepPoint ==
  ASSUME GraphInv, DrawPoint, Important(point + 1)
  PROVE  /\ series' \in Seq(Point) /\ series' # <<>> /\ Len(series) \in Nat
         /\ Len(series') = Len(series) + 1 /\ DOMAIN series' = 1 .. Len(series) + 1
         /\ DOMAIN series = 1 .. Len(series)
         /\ series'[Len(series) + 1] = data[point + 1]
         /\ \A i \in 1 .. Len(series) : series'[i] = series[i]
<1>1. data \in Seq(Point) /\ series \in Seq(Point) /\ point + 1 \in 1 .. Len(data)
  BY LenProperties DEF GraphInv, DataOK, SeriesOK, DrawPoint
<1>2. data[point + 1] \in Point
  BY <1>1, ElementOfSeq
<1>3. series' = Append(series, data[point + 1])
  BY DEF DrawPoint
<1>4. /\ series' \in Seq(Point) /\ series' # <<>>
      /\ Len(series') = Len(series) + 1
      /\ series'[Len(series) + 1] = data[point + 1]
      /\ \A i \in 1 .. Len(series) : series'[i] = series[i]
  BY <1>1, <1>2, <1>3, AppendProperties
<1>5. QED
  BY <1>1, <1>4, LenProperties

(* What was on the line stays on it.                                       *)
LEMMA LineGrows ==
  ASSUME GraphInv, DrawPoint, NEW k, OnDrawnLine(k)
  PROVE  OnDrawnLine(k)'
<1>1. data' = data
  BY DEF DrawPoint
<1>2. CASE ~Important(point + 1)
  BY <1>1, <1>2 DEF DrawPoint, OnDrawnLine
<1>3. CASE Important(point + 1)
  <2>1. /\ Len(series) \in Nat /\ Len(series') = Len(series) + 1
        /\ DOMAIN series' = 1 .. Len(series) + 1 /\ DOMAIN series = 1 .. Len(series)
        /\ \A i \in 1 .. Len(series) : series'[i] = series[i]
    BY <1>3, KeepPoint
  <2>2. CASE \E i \in DOMAIN series : series[i] = data[k]
    BY <1>1, <2>1, <2>2 DEF OnDrawnLine
  <2>3. ASSUME NEW i \in 1 .. Len(series) - 1,
               /\ series[i][1] <= data[k][1] /\ data[k][1] <= series[i + 1][1]
               /\ ~Differ(series[i][2], data[k][2]) /\ ~Differ(series[i + 1][2], data[k][2])
        PROVE  OnDrawnLine(k)'
    <3>1. /\ i \in 1 .. Len(series') - 1
          /\ series'[i] = series[i] /\ series'[i + 1] = series[i + 1]
      BY <2>1, <2>3
    <3>2. QED
      BY <1>1, <2>3, <3>1 DEF OnDrawnLine
  <2>4. QED
    BY <2>2, <2>3 DEF OnDrawnLine
<1>4. QED
  BY <1>2, <1>3

(* The points passed since the last one that was kept are at its height,   *)
(* so that the next one that is kept has them on the line.                 *)
LEMMA LineUpToNext ==
  ASSUME GraphInv, DrawPoint
  PROVE  \E j \in 1 .. point' : LineUpTo(j)'
<1>1. /\ data' = data /\ point' = point + 1
      /\ Len(data) \in Nat /\ point \in Nat /\ point + 1 <= Len(data)
      /\ SeriesOK
  BY LenProperties DEF GraphInv, DataOK, SeriesOK, DrawPoint
<1>2. /\ \A a, b \in 1 .. Len(data) : a <= b => data[a][1] <= data[b][1]
      /\ \A a \in 1 .. Len(data) : data[a][1] \in Int
  BY LogFacts, LenProperties, ElementOfSeq DEF GraphInv, DataOK, Point
<1>3. \A k : Important(k)' = Important(k)
  BY <1>1 DEF Important
<1>4. CASE point = 0
  <2>1. Important(1)
    BY DEF Important
  <2>2. series = <<>> /\ Len(series) = 0
    BY <1>1, <1>4 DEF SeriesOK
  <2>3. series' # <<>> /\ Len(series') = 1 /\ DOMAIN series' = 1 .. 1 /\ series'[1] = data[1]
    BY <1>4, <2>1, <2>2, KeepPoint
  <2>4. OnDrawnLine(1)'
    BY <1>1, <2>3 DEF OnDrawnLine
  <2>5. LineUpTo(1)'
    BY <1>1, <1>4, <2>3, <2>4 DEF LineUpTo, Last
  <2>6. QED
    BY <1>1, <1>4, <2>5
<1>5. CASE point > 0
  <2>1. PICK j \in 1 .. point : LineUpTo(j)
    BY <1>1, <1>5 DEF SeriesOK
  <2>2. /\ series # <<>> /\ series[Len(series)] = data[j]
        /\ \A k \in 1 .. j : OnDrawnLine(k)
        /\ \A k \in j + 1 .. point : ~Important(k) /\ ~Differ(data[j][2], data[k][2])
    BY <2>1 DEF LineUpTo, Last
  <2>3. \A k \in 1 .. j : OnDrawnLine(k)'
    BY <2>2, LineGrows
  <2>4. CASE ~Important(point + 1)
    <3>1. series' = series
      BY <2>4 DEF DrawPoint
    <3>2. ~Differ(data[point + 1][2], data[point][2])
      BY <1>1, <1>5, <2>4 DEF Important
    <3>3. j = point \/ ~Differ(data[j][2], data[point][2])
      BY <1>1, <2>1, <2>2
    <3>4. ~Differ(data[j][2], data[point + 1][2])
      BY <3>2, <3>3 DEF Differ
    <3>5. \A k \in j + 1 .. point + 1 : ~Important(k) /\ ~Differ(data[j][2], data[k][2])
      BY <1>1, <2>1, <2>2, <2>4, <3>4
    <3>6. LineUpTo(j)'
      BY <1>1, <1>3, <2>2, <2>3, <3>1, <3>5 DEF LineUpTo, Last, Differ
    <3>7. QED
      BY <1>1, <2>1, <3>6
  <2>5. CASE Important(point + 1)
    <3>1. /\ series' # <<>> /\ Len(series) \in Nat /\ Len(series) > 0
          /\ Len(series') = Len(series) + 1 /\ DOMAIN series' = 1 .. Len(series) + 1
          /\ series'[Len(series) + 1] = data[point + 1]
          /\ series'[Len(series)] = data[j]
      BY <1>1, <2>2, <2>5, KeepPoint, EmptySeq DEF SeriesOK
    <3>0. PICK p : p = point + 1
      OBVIOUS
    <3>2. OnDrawnLine(p)'
      BY <1>1, <3>0, <3>1 DEF OnDrawnLine
    <3>3. ASSUME NEW k \in j + 1 .. point PROVE OnDrawnLine(k)'
      <4>1. k \in 1 .. Len(data) /\ j \in 1 .. Len(data) /\ j <= k /\ k <= point + 1
            /\ point + 1 \in 1 .. Len(data)
        BY <1>1, <2>1, <3>3
      <4>2. data[j][1] <= data[k][1] /\ data[k][1] <= data[point + 1][1]
        BY <1>2, <4>1
      <4>3. ~Differ(data[j][2], data[k][2]) /\ ~Differ(data[j][2], data[point][2])
        BY <1>1, <2>1, <2>2, <3>3
      <4>4. ~Differ(data[point][2], data[point + 1][2])
        <5>1. point \in j + 1 .. point
          BY <1>1, <2>1, <3>3
        <5>2. ~Important(point)
          BY <2>2, <5>1
        <5>3. QED
          BY <5>2 DEF Important
      <4>5. ~Differ(data[point + 1][2], data[k][2])
        BY <4>3, <4>4 DEF Differ
      <4>6. Len(series) \in 1 .. Len(series') - 1
        BY <3>1
      <4>7. QED
        BY <1>1, <3>1, <4>2, <4>3, <4>5, <4>6 DEF OnDrawnLine, Differ
    <3>4. \A k \in 1 .. p : OnDrawnLine(k)'
      BY <1>1, <2>1, <2>3, <3>0, <3>2, <3>3
    <3>5. LineUpTo(p)'
      BY <1>1, <3>0, <3>1, <3>4 DEF LineUpTo, Last
    <3>6. QED
      BY <1>1, <3>0, <3>5
  <2>6. QED
    BY <2>4, <2>5
<1>6. QED
  BY <1>1, <1>4, <1>5

(* Each turn of the loop that draws keeps it, and the others do not draw.  *)
LEMMA StepSeriesOK == GraphInv /\ [Next]_vars => SeriesOK'
<1> SUFFICES ASSUME GraphInv, [Next]_vars PROVE SeriesOK'
  OBVIOUS
<1>1. SeriesOK /\ data \in Seq(Point) /\ Len(data) \in Nat /\ data' \in Seq(Point)
  BY StepDataOK, LenProperties DEF GraphInv, DataOK
<1>2. CASE AddMessage \/ LoopEnds \/ AddLast
  <2>1. point' = 0 /\ series' = <<>> /\ pc' # "done"
    BY <1>1, <1>2 DEF SeriesOK, AddMessage, LoopEnds, AddLast, Finished
  <2>2. Len(data') \in Nat
    BY <1>1, LenProperties
  <2>3. DOMAIN series' = {} /\ series' \in Seq(Point)
    BY <2>1, EmptySeq, LenProperties
  <2>4. QED
    BY <2>1, <2>2, <2>3 DEF SeriesOK
<1>3. CASE DrawPoint
  <2>1. /\ data' = data /\ point' = point + 1 /\ point \in Nat /\ point' \in 0 .. Len(data)
        /\ Finished' /\ pc' # "done"
    BY <1>1, <1>3 DEF SeriesOK, DrawPoint, Finished
  <2>2. CASE ~Important(point + 1)
    <3>1. series' = series
      BY <1>3, <2>2 DEF DrawPoint
    <3>2. point # 0
      BY <2>2 DEF Important
    <3>3. \A i \in DOMAIN series : \E k \in 1 .. point' : series[i] = data[k]
      BY <1>1, <2>1 DEF SeriesOK
    <3>4. QED
      BY <1>1, <1>3, <2>1, <3>1, <3>2, <3>3, LineUpToNext DEF SeriesOK
  <2>3. CASE Important(point + 1)
    <3>1. /\ series' \in Seq(Point) /\ Len(series) \in Nat
          /\ DOMAIN series' = 1 .. Len(series) + 1 /\ DOMAIN series = 1 .. Len(series)
          /\ series'[Len(series) + 1] = data[point + 1]
          /\ \A i \in 1 .. Len(series) : series'[i] = series[i]
      BY <1>3, <2>3, KeepPoint
    <3>2. \A i \in 1 .. Len(series) : \E k \in 1 .. point : series[i] = data[k]
      BY <1>1, <3>1 DEF SeriesOK
    <3>3. \A i \in 1 .. Len(series) + 1 : \E k \in 1 .. point + 1 : series'[i] = data[k]
      <4> SUFFICES ASSUME NEW i \in 1 .. Len(series) + 1
                   PROVE  \E k \in 1 .. point + 1 : series'[i] = data[k]
        OBVIOUS
      <4>1. CASE i = Len(series) + 1
        BY <2>1, <3>1, <4>1
      <4>2. CASE i # Len(series) + 1
        <5>1. i \in 1 .. Len(series)
          BY <3>1, <4>2
        <5>2. PICK k \in 1 .. point : series[i] = data[k]
          BY <3>2, <5>1
        <5>3. k \in 1 .. point + 1 /\ series'[i] = data[k]
          BY <2>1, <3>1, <5>1, <5>2
        <5>4. QED
          BY <5>3
      <4>3. QED
        BY <4>1, <4>2
    <3>4. \A a, b \in 1 .. Len(data) : a <= b => data[a][1] <= data[b][1]
      BY <1>1, LenProperties DEF GraphInv, DataOK
    <3>5. \A i, j \in 1 .. Len(series) + 1 : i <= j => series'[i][1] <= series'[j][1]
      <4> SUFFICES ASSUME NEW i \in 1 .. Len(series) + 1, NEW j \in 1 .. Len(series) + 1, i <= j
                   PROVE  series'[i][1] <= series'[j][1]
        OBVIOUS
      <4>1. CASE j = Len(series) + 1
        <5>1. PICK k \in 1 .. point + 1 : series'[i] = data[k]
          BY <3>3
        <5>2. k \in 1 .. Len(data) /\ point + 1 \in 1 .. Len(data) /\ k <= point + 1
          BY <1>1, <2>1, <5>1
        <5>3. data[k][1] <= data[point + 1][1]
          BY <3>4, <5>2
        <5>4. QED
          BY <3>1, <4>1, <5>1, <5>3
      <4>2. CASE j # Len(series) + 1
        <5>1. i \in 1 .. Len(series) /\ j \in 1 .. Len(series)
          BY <3>1, <4>2
        <5>2. series[i][1] <= series[j][1]
          BY <1>1, <3>1, <5>1 DEF SeriesOK
        <5>3. QED
          BY <3>1, <5>1, <5>2
      <4>3. QED
        BY <4>1, <4>2
    <3>6. point' # 0
      BY <2>1
    <3>7. QED
      BY <1>3, <2>1, <3>1, <3>3, <3>5, <3>6, LineUpToNext DEF SeriesOK
  <2>4. QED
    BY <2>2, <2>3
<1>4. CASE DrawEnds
  <2>1. /\ UNCHANGED <<data, point, series>> /\ point = Len(data) /\ Finished /\ Finished'
        /\ \A k : OnDrawnLine(k)' = OnDrawnLine(k) /\ Important(k)' = Important(k)
    BY <1>4 DEF DrawEnds, Finished, OnDrawnLine, Important
  <2>2. \A j : LineUpTo(j)' = LineUpTo(j)
    BY <2>1 DEF LineUpTo
  <2>3. QED
    BY <1>1, <2>1, <2>2 DEF SeriesOK
<1>5. CASE UNCHANGED vars
  <2>1. /\ UNCHANGED <<data, point, series, pc>> /\ Finished' = Finished
        /\ \A k : OnDrawnLine(k)' = OnDrawnLine(k) /\ Important(k)' = Important(k)
    BY <1>5 DEF vars, Finished, OnDrawnLine, Important
  <2>2. \A j : LineUpTo(j)' = LineUpTo(j)
    BY <2>1 DEF LineUpTo
  <2>3. QED
    BY <1>1, <2>1, <2>2 DEF SeriesOK
<1>6. QED
  BY <1>2, <1>3, <1>4, <1>5 DEF Next

-----------------------------------------------------------------------------
(* Nothing is collected or drawn at the start.                             *)
LEMMA InitGraphInv == Init => GraphInv
<1> SUFFICES ASSUME Init PROVE GraphInv
  OBVIOUS
<1>1. log \in UNION {[1 .. n -> Message] : n \in 0 .. MaxLog} /\ log # <<>> /\ Ordered(log)
  BY DEF Init, BoundedSeq, SeqOf
<1>2. log \in Seq(Message)
  BY <1>1, BoundAssumption, SeqDef
<1>3. Len(log) \in Nat /\ data = <<>> /\ series = <<>> /\ row = 0 /\ point = 0 /\ pc = "loop"
  BY <1>2, LenProperties DEF Init
<1>4. DOMAIN data = {} /\ DOMAIN series = {} /\ Len(data) = 0
      /\ data \in Seq(Point) /\ series \in Seq(Point)
  BY <1>3, EmptySeq
<1>5. LogOK /\ ProgressOK
  BY <1>1, <1>2, <1>3 DEF LogOK, ProgressOK, Init
<1>6. DataOK
  BY <1>4 DEF DataOK
<1>7. SpanOK
  BY <1>3 DEF SpanOK, Seen, Finished
<1>8. ValuesOK
  <2>1. /\ <<>> \in Seq(1 .. row) /\ Len(<<>>) <= row
        /\ Range(<<>>) = {i \in 1 .. row : log[i].hasId}
    BY <1>3, EmptySeq DEF Range
  <2>2. OwnRows(<<>>)
    BY <2>1 DEF OwnRows
  <2>3. PICK own \in Seq(1 .. row) : own = <<>> /\ OwnRows(own)
    BY <2>1, <2>2
  <2>4. ~Finished
    BY <1>3 DEF Finished
  <2>5. QED
    BY <1>4, <2>3, <2>4 DEF ValuesOK
<1>9. SeriesOK
  BY <1>3, <1>4 DEF SeriesOK, Finished
<1>10. QED
  BY <1>5, <1>6, <1>7, <1>8, <1>9 DEF GraphInv

(* Every step of getSignalGraph and of onAddSignal keeps the invariant.    *)
LEMMA StepGraphInv == GraphInv /\ [Next]_vars => GraphInv'
BY StepProgressOK, StepDataOK, StepSpanOK, StepValuesOK, StepSeriesOK DEF GraphInv

-----------------------------------------------------------------------------
(* The search on the line.                                                 *)

(* The x of a series are numbers, and never decrease.                      *)
LEMMA PointsOrdered ==
  ASSUME GraphInv
  PROVE  /\ Len(series) \in Nat
         /\ Points \in [0 .. Len(series) - 1 -> Int]
         /\ \A i, j \in 0 .. Len(series) - 1 : i <= j => Points[i] <= Points[j]
<1>1. series \in Seq(Point) /\ Len(series) \in Nat /\ DOMAIN series = 1 .. Len(series)
  BY LenProperties DEF GraphInv, SeriesOK
<1>2. \A i \in 1 .. Len(series) : series[i][1] \in Int
  BY <1>1, ElementOfSeq, LogFacts DEF GraphInv, Point
<1>3. \A i, j \in 1 .. Len(series) : i <= j => series[i][1] <= series[j][1]
  BY <1>1 DEF GraphInv, SeriesOK
<1>4. \A i \in 0 .. Len(series) - 1 : i + 1 \in 1 .. Len(series) /\ Points[i] = series[i + 1][1]
  BY <1>1 DEF Points
<1>5. QED
  BY <1>1, <1>2, <1>3, <1>4 DEF Points

(* One turn of the loop keeps the points that are settled.                 *)
LEMMA SearchStep ==
  ASSUME GraphInv, SearchOK, Mouse!Search, UNCHANGED vars
  PROVE  SearchIsSound'
<1> DEFINE size == Len(series)
<1>1. /\ size \in Nat /\ Points \in [0 .. size - 1 -> Int]
      /\ \A i, j \in 0 .. size - 1 : i <= j => Points[i] <= Points[j]
      /\ size' = size /\ Points' = Points
  BY PointsOrdered DEF vars, Points
<1>2. /\ x \in Int /\ search = "search" /\ count > 0
      /\ first \in 0 .. size /\ count \in 0 .. size /\ first + count <= size
      /\ \A i \in 0 .. size - 1 : /\ i < first => Points[i] < x
                                  /\ i >= first + count => Points[i] >= x
  BY DEF SearchOK, SearchIsSound, Mouse!Search, Mouse!TypeOK, Mouse!SearchInv, Mouse!Index
<1> DEFINE half == count \div 2
           mid == first + half
<1>3. half \in Nat /\ half < count /\ mid \in 0 .. size - 1
  BY <1>1, <1>2
<1>4. /\ x' = x /\ search' = search
      /\ IF Points[mid] < x
           THEN first' = mid + 1 /\ count' = count - half - 1
           ELSE first' = first /\ count' = half
  BY DEF Mouse!Search, Mouse!it, Mouse!step
<1> HIDE DEF size, half
<1>5. CASE Points[mid] < x
  <2>1. \A i \in 0 .. size - 1 : i <= mid => Points[i] < x
    BY <1>1, <1>2, <1>3, <1>5
  <2>2. /\ first' = mid + 1 /\ count' = count - half - 1
        /\ first' \in 0 .. size /\ count' \in 0 .. size /\ first' + count' = first + count
    BY <1>1, <1>2, <1>3, <1>4, <1>5
  <2>3. \A i \in 0 .. size - 1 : /\ i < first' => Points[i] < x
                                 /\ i >= first' + count' => Points[i] >= x
    BY <1>1, <1>2, <1>3, <2>1, <2>2
  <2>4. QED
    BY <1>1, <1>2, <1>4, <2>2, <2>3
       DEF SearchIsSound, Mouse!TypeOK, Mouse!SearchInv, Mouse!Index, size
<1>6. CASE ~(Points[mid] < x)
  <2>1. \A i \in 0 .. size - 1 : i >= mid => Points[i] >= x
    BY <1>1, <1>2, <1>3, <1>6
  <2>2. /\ first' = first /\ count' = half
        /\ first' \in 0 .. size /\ count' \in 0 .. size /\ first' + count' = mid
        /\ mid <= size
    BY <1>1, <1>2, <1>3, <1>4, <1>6
  <2>3. \A i \in 0 .. size - 1 : /\ i < first' => Points[i] < x
                                 /\ i >= first' + count' => Points[i] >= x
    BY <1>1, <1>2, <1>3, <2>1, <2>2
  <2>4. QED
    BY <1>1, <1>2, <1>4, <2>2, <2>3
       DEF SearchIsSound, Mouse!TypeOK, Mouse!SearchInv, Mouse!Index, size
<1>7. QED
  BY <1>5, <1>6

(* The clamp leaves the index alone unless it is 0, and between the first  *)
(* point and the last it is not.                                           *)
LEMMA ClampStep ==
  ASSUME GraphInv, SearchOK, Mouse!Clamp, UNCHANGED vars
  PROVE  SearchOK'
<1> DEFINE size == Len(series)
<1>1. size \in Nat /\ size' = size /\ Points' = Points /\ pc' = pc
  BY PointsOrdered DEF vars, Points
<1>2. /\ x \in Int /\ search = "clamp" /\ count = 0
      /\ first \in 0 .. size
      /\ \A i \in 0 .. size - 1 : /\ i < first => Points[i] < x
                                  /\ i >= first => Points[i] >= x
  BY DEF SearchOK, SearchIsSound, Mouse!Clamp, Mouse!TypeOK, Mouse!SearchInv, Mouse!Index
<1>3. /\ x' = x /\ count' = count /\ search' = "found"
      /\ first' = IF first = 0 THEN -1 ELSE first
  BY <1>2 DEF Mouse!Clamp
<1> HIDE DEF size
<1>4. SearchIsSound'
  BY <1>1, <1>2, <1>3 DEF SearchIsSound, Mouse!TypeOK, Mouse!SearchInv, Mouse!Index, size
<1>5. LabelsPointUnderMouse'
  <2>1. Points \in [0 .. size - 1 -> Int]
    BY PointsOrdered DEF size
  <2>2. ASSUME size > 0, Points[0] < x, x <= Points[size - 1]
        PROVE  first' \in 0 .. size - 1
    <3>1. 0 \in 0 .. size - 1 /\ size - 1 \in 0 .. size - 1
      BY <1>1, <2>2
    <3>2. first # 0 /\ first # size
      BY <1>1, <1>2, <2>1, <2>2, <3>1
    <3>3. QED
      BY <1>1, <1>2, <1>3, <3>2
  <2>3. ASSUME first' \in 0 .. size - 1
        PROVE  /\ x <= Points[first'] \/ first' = size - 1
               /\ \A i \in 0 .. first' - 1 : Points[i] < x
    <3>1. first' = first /\ first \in 0 .. size - 1
      BY <1>3, <2>3
    <3>2. x <= Points[first]
      BY <1>1, <1>2, <2>1, <3>1
    <3>3. \A i \in 0 .. first - 1 : Points[i] < x
      BY <1>1, <1>2, <3>1
    <3>4. QED
      BY <3>1, <3>2, <3>3
  <2>4. QED
    BY <1>1, <1>3, <2>2, <2>3
       DEF LabelsPointUnderMouse, Mouse!FindsPointUnderMouse, Mouse!Index, size
<1>6. search = "clamp" /\ pc = "done"
  BY <1>2 DEF SearchOK
<1>7. QED
  BY <1>1, <1>2, <1>3, <1>4, <1>5, <1>6 DEF SearchOK

(* While the line is made there is no search, and on the line each         *)
(* movement of the mouse starts one.                                       *)
LEMMA StepSearchOK == GraphInv /\ SearchOK /\ [ChartNext]_chartVars => SearchOK'
<1> SUFFICES ASSUME GraphInv, SearchOK, [ChartNext]_chartVars PROVE SearchOK'
  OBVIOUS
<1>1. CASE AddSignal
  <2>1. pc # "done" /\ UNCHANGED <<x, first, count, search>>
    BY <1>1 DEF AddSignal, Next, AddMessage, LoopEnds, AddLast, DrawPoint, DrawEnds
  <2>2. x \in Int /\ search = "idle" /\ first = 0 /\ count = 0
    BY <2>1 DEF SearchOK
  <2>3. Len(series') \in Nat
    BY <1>1, StepSeriesOK, LenProperties DEF AddSignal, SeriesOK
  <2>4. QED
    BY <2>1, <2>2, <2>3
       DEF SearchOK, SearchIsSound, LabelsPointUnderMouse, Mouse!TypeOK, Mouse!SearchInv,
           Mouse!FindsPointUnderMouse
<1>2. CASE MouseMove
  <2>1. /\ pc' = "done" /\ series' = series /\ Points' = Points
        /\ first' = 0 /\ count' = Len(series) /\ search' = "search"
        /\ x' \in -1 .. MaxTime + 1
    BY <1>2 DEF MouseMove, Mouse!MouseMove, vars, Points
  <2>2. x' \in Int /\ Len(series) \in Nat
    BY <2>1, BoundAssumption, PointsOrdered
  <2>3. QED
    BY <2>1, <2>2
       DEF SearchOK, SearchIsSound, LabelsPointUnderMouse, Mouse!TypeOK, Mouse!SearchInv,
           Mouse!Index, Mouse!FindsPointUnderMouse
<1>3. CASE UNCHANGED vars /\ Mouse!Search
  <2>1. SearchIsSound'
    BY <1>3, SearchStep
  <2>2. search = "search" /\ search' = "search" /\ x' = x
    BY <1>3 DEF Mouse!Search
  <2>3. pc' = "done"
    BY <1>3, <2>2 DEF SearchOK, vars
  <2>4. QED
    BY <2>1, <2>2, <2>3
       DEF SearchOK, LabelsPointUnderMouse, Mouse!FindsPointUnderMouse
<1>4. CASE UNCHANGED vars /\ Mouse!SearchEnds
  BY <1>4 DEF Mouse!SearchEnds, vars, SearchOK, SearchIsSound, LabelsPointUnderMouse,
     Mouse!TypeOK, Mouse!SearchInv, Mouse!Index, Mouse!FindsPointUnderMouse, Points
<1>5. CASE UNCHANGED vars /\ Mouse!Clamp
  BY <1>5, ClampStep
<1>6. CASE UNCHANGED chartVars
  BY <1>6 DEF chartVars, vars, SearchOK, SearchIsSound, LabelsPointUnderMouse,
     Mouse!TypeOK, Mouse!SearchInv, Mouse!Index, Mouse!FindsPointUnderMouse, Points
<1>7. QED
  BY <1>1, <1>2, <1>3, <1>4, <1>5, <1>6
     DEF ChartNext, StartSearchIndex, Mouse!StartSearchIndex

(* All of ChartInv holds in every state.                                   *)
LEMMA ChartInvariant == ChartSpec => []ChartInv
<1>1. ChartInit => ChartInv
  <2> SUFFICES ASSUME ChartInit PROVE ChartInv
    OBVIOUS
  <2>1. GraphInv
    BY InitGraphInv DEF ChartInit
  <2>2. x = 0 /\ first = 0 /\ count = 0 /\ search = "idle" /\ Len(series) \in Nat
    BY <2>1, PointsOrdered DEF ChartInit
  <2>3. SearchOK
    BY <2>2 DEF SearchOK, SearchIsSound, LabelsPointUnderMouse, Mouse!TypeOK,
       Mouse!SearchInv, Mouse!FindsPointUnderMouse
  <2>4. QED
    BY <2>1, <2>3 DEF ChartInv
<1>2. [ChartNext]_chartVars => [Next]_vars
  BY DEF ChartNext, chartVars, AddSignal, MouseMove, StartSearchIndex
<1>3. ChartInv /\ [ChartNext]_chartVars => ChartInv'
  BY <1>2, StepGraphInv, StepSearchOK DEF ChartInv
<1>4. QED
  BY <1>1, <1>3, PTL DEF ChartSpec

-----------------------------------------------------------------------------
(***************************************************************************)
(* Every graph of a signal that occurs in the log starts and ends with the *)
(* log, if the comparison behind its end does not hide the last point.     *)
(***************************************************************************)
THEOREM GraphSpansLogIfPresent == ChartSpec => []SpansLogIfPresent
<1>1. ChartInv => SpansLogIfPresent
  <2> SUFFICES ASSUME ChartInv, Finished, Present, ~endHasId \/ Last(log).hasId
               PROVE  data[1][1] = log[1].time /\ Last(data)[1] = Last(log).time
    BY DEF SpansLogIfPresent
  <2>1. row = Len(log) /\ Len(log) > 0 /\ DOMAIN log = 1 .. Len(log)
    <3>1. LogOK /\ row = Len(log)
      BY DEF ChartInv, GraphInv, ProgressOK, Finished
    <3>2. QED
      BY <3>1, LogFacts
  <2>2. Seen
    BY <2>1 DEF Present, Seen
  <2>3. QED
    BY <2>1, <2>2 DEF ChartInv, GraphInv, SpanOK, Last
<1>2. QED
  BY <1>1, ChartInvariant, PTL

(***************************************************************************)
(* getSignalGraph collects the values of the signal's own messages, in     *)
(* their order, and nothing else but the two ends of the line.             *)
(***************************************************************************)
THEOREM GraphDataIsTheSignal == ChartSpec => []DataIsTheSignal
<1>1. ChartInv => DataIsTheSignal
  <2> SUFFICES ASSUME ChartInv, pc = "done", Present PROVE DataIsTheSignal
    BY DEF DataIsTheSignal
  <2>1. row = Len(log) /\ Len(log) \in Nat /\ DOMAIN log = 1 .. Len(log) /\ Finished
    BY LogFacts DEF ChartInv, GraphInv, ProgressOK, Finished
  <2>2. PICK own \in Seq(1 .. row) :
          /\ OwnRows(own)
          /\ own # <<>> => PointsOf(own)
          /\ own # <<>> =>
               /\ Len(data) = Len(own) + (IF endHasId THEN 1 ELSE 2)
               /\ ~endHasId => Last(data) = <<log[row].time, log[Last(own)].value>>
    BY <2>1 DEF ChartInv, GraphInv, ValuesOK
  <2>3. own # <<>>
    <3>1. PICK i \in DOMAIN log : log[i].hasId
      BY DEF Present
    <3>2. i \in Range(own)
      BY <2>1, <2>2, <3>1 DEF OwnRows
    <3>3. QED
      BY <3>2 DEF Range
  <2>4. own \in BoundedSeq(DOMAIN log, Len(log))
    <3>1. own \in [1 .. Len(own) -> 1 .. row] /\ Len(own) \in 0 .. row
      BY <2>1, <2>2, LenProperties DEF OwnRows
    <3>2. QED
      BY <2>1, <3>1 DEF BoundedSeq, SeqOf
  <2>5. /\ Range(own) = {i \in DOMAIN log : log[i].hasId}
        /\ \A i, j \in DOMAIN own : i < j => own[i] < own[j]
    BY <2>1, <2>2 DEF OwnRows
  <2>6. /\ data[1] = <<log[1].time, log[own[1]].value>>
        /\ \A i \in DOMAIN own : data[i + 1] = <<log[own[i]].time, log[own[i]].value>>
    BY <2>2, <2>3 DEF PointsOf
  <2>7. log[row] = Last(log)
    BY <2>1 DEF Last
  <2>8. QED
    BY <2>2, <2>3, <2>4, <2>5, <2>6, <2>7 DEF DataIsTheSignal
<1>2. QED
  BY <1>1, ChartInvariant, PTL

(***************************************************************************)
(* The points that onAddSignal leaves out are on the line that is drawn,   *)
(* however many of them there are in a row.                                *)
(***************************************************************************)
THEOREM GraphDrawnLineIsData == ChartSpec => []DrawnLineIsData
<1>1. ChartInv => DrawnLineIsData
  <2> SUFFICES ASSUME ChartInv, pc = "done", NEW k \in DOMAIN data PROVE OnDrawnLine(k)
    BY DEF DrawnLineIsData
  <2>1. /\ point = Len(data) /\ Len(data) \in Nat /\ k \in 1 .. Len(data)
    BY LenProperties DEF ChartInv, GraphInv, DataOK, SeriesOK
  <2>2. PICK j \in 1 .. point : LineUpTo(j)
    BY <2>1 DEF ChartInv, GraphInv, SeriesOK
  <2>3. Important(point)
    BY <2>1 DEF Important
  <2>4. j = point
    BY <2>1, <2>2, <2>3 DEF LineUpTo
  <2>5. QED
    BY <2>1, <2>2, <2>4 DEF LineUpTo
<1>2. QED
  BY <1>1, ChartInvariant, PTL

(***************************************************************************)
(* startSearchIndex has the mouse between the points it has ruled out,     *)
(* wherever the mouse is and however long the line.                        *)
(***************************************************************************)
THEOREM ChartSearchIsSound == ChartSpec => []SearchIsSound
<1>1. ChartInv => SearchIsSound
  BY DEF ChartInv, SearchOK
<1>2. QED
  BY <1>1, ChartInvariant, PTL

(***************************************************************************)
(* A label is of the first point not left of the mouse, or of the last one *)
(* if there is none, wherever the mouse is; and there is a label if the    *)
(* mouse is between the first point and the last.                          *)
(***************************************************************************)
THEOREM ChartLabelsPointUnderMouse == ChartSpec => []LabelsPointUnderMouse
<1>1. ChartInv => LabelsPointUnderMouse
  BY DEF ChartInv, SearchOK
<1>2. QED
  BY <1>1, ChartInvariant, PTL

(***************************************************************************)
(* A turn of the loop of startSearchIndex, after which the loop goes on,   *)
(* leaves at most half of the points there were, of a line that stays as   *)
(* it is: what SearchTerminates takes besides the fairness of the loop.    *)
(* It is stated of the action, in states of the invariant that             *)
(* ChartInvariant says always holds, for an action property lets pass a    *)
(* turn that changes nothing, the one that never ends.                     *)
(***************************************************************************)
HalvesTheRange ==
  search = "search" /\ search' = "search" =>
    /\ count \in Nat \ {0} /\ count' \in Nat /\ 2 * count' <= count
    /\ x' = x /\ series' = series

THEOREM ChartSearchHalvesTheRange ==
  ChartInv /\ StartSearchIndex => HalvesTheRange
<1>1. ASSUME ChartInv, StartSearchIndex, search = "search", search' = "search"
      PROVE  HalvesTheRange
  <2>1. count \in 0 .. Len(series) /\ Len(series) \in Nat
    BY <1>1, PointsOrdered DEF ChartInv, SearchOK, SearchIsSound, Mouse!TypeOK
  <2>2. UNCHANGED vars /\ Mouse!Search
    BY <1>1 DEF StartSearchIndex, Mouse!StartSearchIndex, Mouse!SearchEnds, Mouse!Clamp
  <2>3. count \in Nat \ {0} /\ x' = x /\ series' = series
    BY <2>1, <2>2 DEF Mouse!Search, vars
  <2>4. count' = count - count \div 2 - 1 \/ count' = count \div 2
    BY <2>2 DEF Mouse!Search, Mouse!step
  <2>5. count' \in Nat /\ 2 * count' <= count
    BY <2>3, <2>4
  <2>6. QED
    BY <2>3, <2>5 DEF HalvesTheRange
<1>2. QED
  BY <1>1 DEF HalvesTheRange
=============================================================================
