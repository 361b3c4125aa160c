---------------------------- MODULE SignalGraph ----------------------------
(***************************************************************************)
(* The line of a chart: CanSignal::getSignalGraph collects the points of a *)
(* signal from the log, one message at a time, and MainWindow::onAddSignal *)
(* leaves out the points inside a horizontal stretch.  A log message is    *)
(* its time, its id and the value parseSignal gives for it; NaN differs    *)
(* from everything, itself included.                                       *)
(***************************************************************************)
EXTENDS Integers, Sequences, SequencesExt

CONSTANTS
  Values, NaN,
  MaxTime,    \* bound: times are 0 .. MaxTime
  MaxLog      \* bound: the length of the log

ASSUME BoundAssumption == MaxTime \in Nat /\ MaxLog \in Nat \ {0}
ASSUME ValuesAssumption == NaN \in Values /\ 0 \in Values

VARIABLES
  log,          \* not empty; hasId: the message has the id of the signal
  row,          \* the messages the loop has seen
  data,         \* ret of getSignalGraph
  point,        \* the points of data that onAddSignal has seen
  series,       \* the points of the QLineSeries
  endHasId,     \* the comparison of id with the id behind the end of the log
  pc

vars == <<log, row, data, point, series, endHasId, pc>>

Time == 0 .. MaxTime
Message == [time : Time, hasId : BOOLEAN, value : Values]
Point == Time \X Values

(* Logs are recorded in the order of time.                                 *)
Ordered(l) == \A i, j \in DOMAIN l : i < j => l[i].time <= l[j].time

TypeOK ==
  /\ row \in 0 .. Len(log)
  /\ data \in Seq(Point)
  /\ point \in 0 .. Len(data)
  /\ series \in Seq(Point)
  /\ endHasId \in BOOLEAN
  /\ pc \in {"loop", "last", "draw", "done"}

Init ==
  /\ log \in {l \in BoundedSeq(Message, MaxLog) : l # <<>> /\ Ordered(l)}
  /\ row = 0
  /\ data = <<>> /\ point = 0 /\ series = <<>>
  /\ endHasId \in BOOLEAN
  /\ pc = "loop"

firstTime == log[1].time
lastTime == log[row].time

(* Mutant: the value is not remembered across messages.                    *)
lastValueForgotten == 0

(* The value of the last message of the signal, 0 if there was none.       *)
lastValue == IF data = <<>> THEN 0 ELSE Last(data)[2]

-----------------------------------------------------------------------------
(* Mutant: no point at the start of the log is added.                      *)
AddMessageLate ==
  /\ pc = "loop" /\ row < Len(log)
  /\ row' = row + 1
  /\ data' = IF log[row + 1].hasId
               THEN Append(data, <<log[row + 1].time, log[row + 1].value>>)
               ELSE data
  /\ UNCHANGED <<log, point, series, endHasId, pc>>

(* One turn of the loop over the log.                                      *)
AddMessage ==
  /\ pc = "loop" /\ row < Len(log)
  /\ row' = row + 1
  /\ LET m == log[row + 1]
         begun == IF data = <<>> THEN << <<firstTime, m.value>> >> ELSE data
     IN  data' = IF m.hasId THEN Append(begun, <<m.time, m.value>>) ELSE data
  /\ UNCHANGED <<log, point, series, endHasId, pc>>

LoopEnds ==
  /\ pc = "loop" /\ row = Len(log)
  /\ pc' = "last"
  /\ UNCHANGED <<log, row, data, point, series, endHasId>>

(* The last timestamp is added unless log.end()->id is the id; log.end()   *)
(* is one behind the last message, so the comparison may go either way.    *)
AddLast ==
  /\ pc = "last"
  /\ pc' = "draw"
  /\ data' = IF endHasId THEN data ELSE Append(data, <<lastTime, lastValue>>)
  /\ UNCHANGED <<log, row, point, series, endHasId>>

(* The comparison of two values by !=.                                     *)
Differ(a, b) == a = NaN \/ b = NaN \/ a # b

(* Mutant: a point is kept only if it differs from the one before it.      *)
ImportantStepsOnly(k) ==
  \/ k \in {1, Len(data)}
  \/ Differ(data[k][2], data[k - 1][2])

(* The points that are drawn: with fewer than three all of them, else the  *)
(* first, the last, and any that differs from a neighbour.                 *)
Important(k) ==
  \/ Len(data) < 3
  \/ k \in {1, Len(data)}
  \/ Differ(data[k][2], data[k - 1][2])
  \/ Differ(data[k][2], data[k + 1][2])

(* The loop of onAddSignal that fills the series, one point at a time.     *)
DrawPoint ==
  /\ pc = "draw" /\ point < Len(data)
  /\ point' = point + 1
  /\ series' = IF Important(point + 1) THEN Append(series, data[point + 1]) ELSE series
  /\ UNCHANGED <<log, row, data, endHasId, pc>>

DrawEnds ==
  /\ pc = "draw" /\ point = Len(data)
  /\ pc' = "done"
  /\ UNCHANGED <<log, row, data, point, series, endHasId>>

Next == AddMessage \/ LoopEnds \/ AddLast \/ DrawPoint \/ DrawEnds

Spec == Init /\ [][Next]_vars

-----------------------------------------------------------------------------
Present == \E i \in DOMAIN log : log[i].hasId
Finished == pc \in {"draw", "done"}

(* A signal that occurs in the log spans the whole log, provided the       *)
(* comparison with the element behind the end went the right way or the    *)
(* last message is one of the signal.                                      *)
SpansLogIfPresent ==
  Finished /\ Present /\ (~endHasId \/ Last(log).hasId) =>
    data[1][1] = log[1].time /\ Last(data)[1] = Last(log).time

(* The points are those of the signal's own messages, in their order and   *)
(* with their values, and between two of them the line has no other value: *)
(* there is one point more at the start of the log, with the first value,  *)
(* and one at its end, with the last, if the end is added.                 *)
DataIsTheSignal ==
  pc = "done" /\ Present =>
    \E own \in BoundedSeq(DOMAIN log, Len(log)) :
      /\ Range(own) = {i \in DOMAIN log : log[i].hasId}
      /\ \A i, j \in DOMAIN own : i < j => own[i] < own[j]
      /\ Len(data) = Len(own) + (IF endHasId THEN 1 ELSE 2)
      /\ data[1] = <<log[1].time, log[own[1]].value>>
      /\ \A i \in DOMAIN own : data[i + 1] = <<log[own[i]].time, log[own[i]].value>>
      /\ ~endHasId => Last(data) = <<Last(log).time, log[Last(own)].value>>

(* Leaving points out does not change the line: each point of data is a    *)
(* point of the series, or lies between two neighbours in the series of    *)
(* the same height.                                                        *)
OnDrawnLine(k) ==
  \/ \E i \in DOMAIN series : series[i] = data[k]
  \/ \E i \in 1 .. Len(series) - 1 :
       /\ series[i][1] <= data[k][1] /\ data[k][1] <= series[i + 1][1]
       /\ ~Differ(series[i][2], data[k][2]) /\ ~Differ(series[i + 1][2], data[k][2])

DrawnLineIsData == pc = "done" => \A k \in DOMAIN data : OnDrawnLine(k)

-----------------------------------------------------------------------------
(* What the code does not meet: TLC finds a counterexample (see README.md). *)

(* What the comment in getSignalGraph says: the first and the last         *)
(* timestamp are included, so that all graphs have the same x-axis range.  *)
(* (Stated of the runs in which the comparison behind the end of the log   *)
(* goes the way that adds the last timestamp.)                             *)
SameRange ==
  Finished /\ ~endHasId => data[1][1] = log[1].time /\ Last(data)[1] = Last(log).time
=============================================================================
