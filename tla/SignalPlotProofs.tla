-------------------------- MODULE SignalPlotProofs --------------------------
(***************************************************************************)
(* The properties of SignalPlot for all databases, logs, settings and      *)
(* numbers of charts.  PlotInv is the inductive invariant.                 *)
(***************************************************************************)
EXTENDS SignalPlot, SequenceTheorems, TLAPS

(* What removeItem leaves of a list.                                       *)
LEMMA RemoveAtFacts ==
  ASSUME NEW S, NEW s \in Seq(S), NEW i \in DOMAIN s
  PROVE  /\ RemoveAt(s, i) \in Seq(S)
         /\ Len(RemoveAt(s, i)) = Len(s) - 1
         /\ \A j \in 1 .. Len(s) - 1 :
              RemoveAt(s, i)[j] = IF j < i THEN s[j] ELSE s[j + 1]
<1> DEFINE a == SubSeq(s, 1, i - 1)
           b == SubSeq(s, i + 1, Len(s))
<1>1. /\ i \in 1 .. Len(s) /\ Len(s) \in Nat
      /\ \A j \in 1 .. Len(s) : s[j] \in S
  BY LenProperties
<1>2. /\ a \in Seq(S) /\ Len(a) = i - 1
      /\ \A j \in 1 .. i - 1 : a[j] = s[j]
  <2>1. \A j \in 1 .. i - 1 : s[j] \in S
    BY <1>1
  <2>2. QED
    BY <1>1, <2>1, SubSeqProperties, Z3
<1>3. /\ b \in Seq(S) /\ Len(b) = Len(s) - i
      /\ \A j \in 1 .. Len(s) - i : b[j] = s[i + j]
  <2>1. \A j \in i + 1 .. Len(s) : s[j] \in S
    BY <1>1
  <2>2. QED
    BY <1>1, <2>1, SubSeqProperties, Z3
<1> DEFINE c == RemoveAt(s, i)
<1>4. c = a \o b
  BY DEF RemoveAt
<1> HIDE DEF a, b, c
<1>5. c \in Seq(S) /\ Len(c) = Len(a) + Len(b)
  BY <1>2, <1>3, <1>4, ConcatProperties
<1>6. \A j \in 1 .. Len(a) + Len(b) : c[j] = IF j <= Len(a) THEN a[j] ELSE b[j - Len(a)]
  BY <1>2, <1>3, <1>4, ConcatProperties
<1>7. ASSUME NEW j \in 1 .. Len(s) - 1
      PROVE  c[j] = IF j < i THEN s[j] ELSE s[j + 1]
  <2>1. CASE j < i
    <3>1. j \in 1 .. i - 1 /\ j \in 1 .. Len(a) + Len(b) /\ j <= Len(a)
      BY <1>1, <1>2, <1>3, <2>1
    <3>2. c[j] = a[j]
      BY <1>6, <3>1
    <3>3. QED
      BY <1>2, <2>1, <3>1, <3>2
  <2>2. CASE ~(j < i)
    <3>1. j - (i - 1) \in 1 .. Len(s) - i /\ j \in 1 .. Len(a) + Len(b) /\ ~(j <= Len(a))
      BY <1>1, <1>2, <1>3, <2>2
    <3>2. c[j] = b[j - (i - 1)] /\ i + (j - (i - 1)) = j + 1
      BY <1>1, <1>2, <1>6, <3>1
    <3>3. b[j - (i - 1)] = s[i + (j - (i - 1))]
      BY <1>3, <3>1
    <3>4. QED
      BY <2>2, <3>2, <3>3
  <2>3. QED
    BY <2>1, <2>2
<1>8. QED
  BY <1>1, <1>2, <1>3, <1>5, <1>7 DEF c

(* A list without repetitions loses exactly the element removed.           *)
LEMMA RemoveInjective ==
  ASSUME NEW S, NEW s \in Seq(S), NEW i \in DOMAIN s, IsInjective(s)
  PROVE  /\ IsInjective(RemoveAt(s, i))
         /\ Range(RemoveAt(s, i)) = Range(s) \ {s[i]}
<1> DEFINE t == RemoveAt(s, i)
<1>1. /\ DOMAIN s = 1 .. Len(s) /\ Len(s) \in Nat
      /\ DOMAIN t = 1 .. Len(s) - 1
      /\ \A j \in 1 .. Len(s) - 1 : t[j] = IF j < i THEN s[j] ELSE s[j + 1]
  BY RemoveAtFacts, LenProperties
<1> HIDE DEF t
<1>2. IsInjective(t)
  <2>1. ASSUME NEW j \in DOMAIN t
        PROVE  \E k \in DOMAIN s : t[j] = s[k] /\ k = IF j < i THEN j ELSE j + 1
    BY <1>1, <2>1
  <2>2. ASSUME NEW j \in DOMAIN t, NEW k \in DOMAIN t, t[j] = t[k] PROVE j = k
    <3>1. PICK p \in DOMAIN s, q \in DOMAIN s :
            /\ t[j] = s[p] /\ p = IF j < i THEN j ELSE j + 1
            /\ t[k] = s[q] /\ q = IF k < i THEN k ELSE k + 1
      BY <2>1
    <3>2. p = q
      BY <2>2, <3>1 DEF IsInjective
    <3>3. j \in Nat /\ k \in Nat /\ i \in Nat
      BY <1>1
    <3>4. QED
      BY <3>1, <3>2, <3>3
  <2>3. QED
    BY <2>2 DEF IsInjective
<1>3. ASSUME NEW j \in DOMAIN t PROVE t[j] \in Range(s) \ {s[i]}
  BY <1>1, <1>3 DEF IsInjective, Range
<1>4. ASSUME NEW e \in Range(s) \ {s[i]} PROVE e \in Range(t)
  <2>1. PICK j \in DOMAIN s : e = s[j]
    BY DEF Range
  <2>2. CASE j < i
    BY <1>1, <2>1, <2>2 DEF Range
  <2>3. CASE j > i
    <3>1. j - 1 \in DOMAIN t /\ t[j - 1] = e
      BY <1>1, <2>1, <2>3
    <3>2. QED
      BY <3>1 DEF Range
  <2>4. QED
    BY <1>1, <1>4, <2>1, <2>2, <2>3
<1>5. QED
  BY <1>2, <1>3, <1>4 DEF Range, t

(* What appending a new element does to a list without repetitions.        *)
LEMMA AppendInjectiveList ==
  ASSUME NEW S, NEW s \in Seq(S), NEW e \in S \ Range(s), IsInjective(s)
  PROVE  /\ IsInjective(Append(s, e))
         /\ Range(Append(s, e)) = Range(s) \cup {e}
<1> DEFINE t == Append(s, e)
<1>1. /\ DOMAIN s = 1 .. Len(s) /\ Len(s) \in Nat
      /\ DOMAIN t = 1 .. Len(s) + 1
      /\ \A j \in 1 .. Len(s) : t[j] = s[j]
      /\ t[Len(s) + 1] = e
  BY AppendProperties, LenProperties
<1> HIDE DEF t
<1>2. IsInjective(t)
  BY <1>1 DEF IsInjective, Range
<1>3. Range(t) \subseteq Range(s) \cup {e}
  BY <1>1 DEF Range
<1>4. Range(s) \cup {e} \subseteq Range(t)
  BY <1>1 DEF Range
<1>5. QED
  BY <1>2, <1>3, <1>4 DEF t

-----------------------------------------------------------------------------
(* What the settings make of a chart, but for tick counts that Qt ignores. *)
HasSize(c, size, width, ticks, y) ==
  /\ c.width = time * width
  /\ c.height = size
  /\ XTickCount(ticks) >= 2 => c.xTick = XTickCount(ticks)
  /\ y >= 2 => c.yTick = y

(* updateChartAxis gives a chart this size and changes nothing else.       *)
LEMMA ResizedFacts ==
  ASSUME time \in Nat, NEW c \in Chart,
         NEW size \in Nat, NEW width \in Nat, NEW ticks \in Nat, NEW y \in Nat
  PROVE  /\ Resized(c, size, width, ticks, y) \in Chart
         /\ Resized(c, size, width, ticks, y).signal = c.signal
         /\ Resized(c, size, width, ticks, y).log = c.log
         /\ HasSize(Resized(c, size, width, ticks, y), size, width, ticks, y)
<1>1. time * width \in Nat /\ time * ticks \in Nat
  OBVIOUS
<1>2. XTickCount(ticks) \in Nat
  BY <1>1 DEF XTickCount
<1>3. QED
  BY <1>1, <1>2 DEF Resized, Chart, SetTickCount, HasSize

(* A new chart has the size of the others.                                 *)
LEMMA NewChartFacts ==
  ASSUME TypeOK, NEW signal \in Signals
  PROVE  /\ NewChart(signal) \in Chart
         /\ NewChart(signal).signal = signal
         /\ NewChart(signal).log = log
         /\ HasSize(NewChart(signal), minChartSize, widthPerSec, tickPerSec, yTick)
<1> DEFINE c == [NoChart EXCEPT !.signal = signal, !.log = log,
                                !.xTick = DefaultTickCount, !.yTick = DefaultTickCount]
<1>1. c \in Chart /\ c.signal = signal /\ c.log = log
  BY DEF NoChart, Chart, DefaultTickCount, TypeOK
<1>2. NewChart(signal) = Resized(c, minChartSize, widthPerSec, tickPerSec, yTick)
  BY DEF NewChart
<1>3. /\ time \in Nat /\ minChartSize \in Nat /\ widthPerSec \in Nat
      /\ tickPerSec \in Nat /\ yTick \in Nat
  BY DEF TypeOK
<1> HIDE DEF c
<1>4. ASSUME NEW r \in Chart
      PROVE  LET new == Resized(r, minChartSize, widthPerSec, tickPerSec, yTick)
             IN  new \in Chart /\ new.signal = r.signal /\ new.log = r.log
  BY <1>3, <1>4, ResizedFacts
<1>5. HasSize(NewChart(signal), minChartSize, widthPerSec, tickPerSec, yTick)
  BY <1>1, <1>2, <1>3, ResizedFacts
<1>6. QED
  BY <1>1, <1>2, <1>4, <1>5, Zenon

(* Each button sets the settings to numbers and resizes the charts.        *)
LEMMA ButtonResizes ==
  ASSUME TypeOK, AxisButton
  PROVE  \E size, y, width, ticks \in Nat : Resize(size, y, width, ticks)
<1> USE DEF TypeOK
<1>1. CASE OnAddXTick \/ OnRemXTick
  BY <1>1 DEF OnAddXTick, OnRemXTick
<1>2. CASE OnAddYTick \/ OnRemYTick
  BY <1>2 DEF OnAddYTick, OnRemYTick
<1>3. CASE OnZoomInX \/ OnZoomOutX
  BY <1>3 DEF OnZoomInX, OnZoomOutX
<1>4. CASE OnZoomInY \/ OnZoomOutY
  BY <1>4, SettingsAssumption DEF OnZoomInY, OnZoomOutY
<1>5. CASE OnResetAllAxis
  BY <1>5, SettingsAssumption DEF OnResetAllAxis
<1>6. QED
  BY <1>1, <1>2, <1>3, <1>4, <1>5 DEF AxisButton

-----------------------------------------------------------------------------
(* What is in a database.                                                  *)
LEMMA DbFacts ==
  ASSUME msgDb \in Dbs
  PROVE  /\ DOMAIN msgDb = 1 .. Len(msgDb) /\ Len(msgDb) \in Nat
         /\ msgDb # <<>> => 1 \in DOMAIN msgDb
         /\ Names(msgDb) \in Seq(Ids) /\ DOMAIN Names(msgDb) = DOMAIN msgDb
         /\ \A m \in DOMAIN msgDb :
              /\ msgDb[m].id \in Ids
              /\ msgDb[m].signals \in Seq(Signals)
              /\ msgDb[m].signals # <<>> => 1 \in DOMAIN msgDb[m].signals
              /\ \A s \in DOMAIN msgDb[m].signals : msgDb[m].signals[s] \in Signals
<1>1. /\ DOMAIN msgDb = 1 .. Len(msgDb) /\ Len(msgDb) \in Nat
      /\ msgDb # <<>> => 1 \in DOMAIN msgDb
  BY DbsAssumption, LenProperties, EmptySeq
<1>2. ASSUME NEW m \in DOMAIN msgDb
      PROVE  /\ msgDb[m].id \in Ids
             /\ msgDb[m].signals \in Seq(Signals)
             /\ msgDb[m].signals # <<>> => 1 \in DOMAIN msgDb[m].signals
             /\ \A s \in DOMAIN msgDb[m].signals : msgDb[m].signals[s] \in Signals
  <2> DEFINE sigs == msgDb[m].signals
  <2>1. msgDb[m].id \in Ids /\ Range(sigs) \subseteq Signals
    BY <1>2 DEF Ids, Signals
  <2>2. sigs \in Seq(Range(sigs))
    BY <1>2, DbsAssumption
  <2> HIDE DEF sigs
  <2>3. sigs \in Seq(Signals)
    BY <2>1, <2>2, SeqMonotonic
  <2>4. /\ sigs # <<>> => 1 \in DOMAIN sigs
        /\ \A s \in DOMAIN sigs : sigs[s] \in Signals
    BY <2>3, LenProperties, EmptySeq, ElementOfSeq
  <2>5. QED
    BY <2>1, <2>3, <2>4 DEF sigs
<1>3. Names(msgDb) \in Seq(Ids) /\ DOMAIN Names(msgDb) = DOMAIN msgDb
  BY <1>1, <1>2, SeqDef DEF Names
<1>4. QED
  BY <1>1, <1>2, <1>3

(* What onMsgIndexChanged makes of the dialog.                             *)
LEMMA DialogFacts ==
  ASSUME msgDb \in Dbs, NEW d \in DialogState, NEW m \in DOMAIN msgDb
  PROVE  LET n == OnMsgIndexChanged(d, m)
         IN  /\ n \in DialogState
             /\ n.cmbMessage = m /\ n.messages = d.messages
             /\ n.signals = msgDb[m].signals
             /\ n.cmbSignal \in {0} \cup DOMAIN msgDb[m].signals
<1>1. /\ m \in Nat /\ msgDb[m].signals \in Seq(Signals)
      /\ msgDb[m].signals # <<>> => 1 \in DOMAIN msgDb[m].signals
  BY DbFacts
<1> DEFINE k == IF msgDb[m].signals = <<>> THEN 0 ELSE 1
           n == OnMsgIndexChanged(d, m)
<1>2. k \in Nat /\ k \in {0} \cup DOMAIN msgDb[m].signals
  BY <1>1
<1>3. n = [d EXCEPT !.cmbMessage = m, !.signals = msgDb[m].signals, !.cmbSignal = k]
  BY DEF OnMsgIndexChanged
<1> HIDE DEF k, n
<1>4. n \in DialogState
  BY <1>1, <1>2, <1>3 DEF DialogState
<1>5. n.cmbMessage = m /\ n.messages = d.messages
  BY <1>3 DEF DialogState
<1>6. n.signals = msgDb[m].signals /\ n.cmbSignal = k
  BY <1>3 DEF DialogState
<1>7. QED
  BY <1>2, <1>4, <1>5, <1>6 DEF n

(* No chart is a chart of the empty log.                                   *)
LEMMA NoChartType == NoChart \in Chart
BY LogsAssumption DEF NoChart, Chart

(* The types are kept by every step; removeItem needs that the two lists   *)
(* are as long as each other.                                              *)
LEMMA TypeStep == TypeOK /\ RowsMatchCharts /\ [Next]_vars => TypeOK'
<1> SUFFICES ASSUME TypeOK, RowsMatchCharts, [Next]_vars PROVE TypeOK'
  OBVIOUS
<1>1. ASSUME NEW size \in Nat, NEW y \in Nat, NEW width \in Nat, NEW ticks \in Nat,
             Resize(size, y, width, ticks)
      PROVE  TypeOK'
  <2>1. ASSUME NEW w \in ChartIds
        PROVE  chart[w] \in Chart /\ Resized(chart[w], size, width, ticks, y) \in Chart
    BY <2>1, ResizedFacts DEF TypeOK
  <2>2. chart' \in [ChartIds -> Chart]
    BY <1>1, <2>1 DEF Resize
  <2>3. QED
    BY <1>1, <2>2 DEF Resize, TypeOK, loaded, control
<1>2. ASSUME NEW row \in {0} \cup DOMAIN items, OnSignalPlotMenu(row) PROVE TypeOK'
  <2>1. row \in Nat
    BY LenProperties DEF TypeOK
  <2>2. NoDialog \in DialogState
    BY EmptySeq DEF NoDialog, DialogState
  <2>3. QED
    BY <1>2, <2>1, <2>2 DEF OnSignalPlotMenu, TypeOK, loaded, plots, settings
<1>3. CASE DismissMenu
  BY <1>3 DEF DismissMenu, TypeOK, loaded, plots, settings
<1>4. CASE OnRemoveSignal
  <2>1. CASE Undefined
    BY <2>1 DEF Undefined, TypeOK, loaded, plots, settings
  <2>2. CASE menuRow \in DOMAIN items /\ RemoveItem(menuRow) /\ ui' = "idle"
             /\ UNCHANGED <<loaded, settings, menuRow, dialog, fresh>>
    <3>1. items' \in Seq(Item)
      BY <2>2, RemoveAtFacts DEF RemoveItem, TypeOK
    <3>2. menuRow \in DOMAIN widgets
      BY <2>2, LenProperties DEF TypeOK, RowsMatchCharts
    <3>3. widgets' \in Seq(ChartIds)
      BY <2>2, <3>2, RemoveAtFacts DEF RemoveItem, TypeOK
    <3>4. chart' \in [ChartIds -> Chart]
      BY <2>2, NoChartType DEF RemoveItem, TypeOK
    <3>5. QED
      BY <2>2, <3>1, <3>3, <3>4 DEF RemoveItem, TypeOK, loaded, settings
  <2>3. QED
    BY <1>4, <2>1, <2>2 DEF OnRemoveSignal
<1>5. CASE OnAddSignal
  <2>1. [NoDialog EXCEPT !.messages = Names(msgDb)] \in DialogState
    BY DbFacts, EmptySeq DEF NoDialog, DialogState, TypeOK
  <2>2. dialog' \in DialogState
    BY <1>5, <2>1, DbFacts, DialogFacts DEF OnAddSignal, TypeOK
  <2>3. QED
    BY <1>5, <2>2 DEF OnAddSignal, TypeOK, loaded, plots, settings
<1>6. ASSUME NEW m \in DOMAIN dialog.messages, SelectMessage(m) PROVE TypeOK'
  <2>1. CASE Undefined
    BY <2>1 DEF Undefined, TypeOK, loaded, plots, settings
  <2>2. CASE /\ m \in DOMAIN msgDb /\ dialog' = OnMsgIndexChanged(dialog, m)
             /\ UNCHANGED <<loaded, plots, settings, ui, menuRow, fresh>>
    <3>1. dialog' \in DialogState
      BY <2>2, DialogFacts DEF TypeOK
    <3>2. QED
      BY <2>2, <3>1 DEF TypeOK, loaded, plots, settings
  <2>3. QED
    BY <1>6, <2>1, <2>2 DEF SelectMessage
<1>7. ASSUME NEW s \in DOMAIN dialog.signals, SelectSignal(s) PROVE TypeOK'
  <2>1. dialog.signals \in Seq(Signals)
    BY DEF TypeOK, DialogState
  <2>2. s \in Nat
    BY <1>7, <2>1, LenProperties
  <2>3. dialog' \in DialogState
    BY <1>7, <2>2 DEF SelectSignal, TypeOK, DialogState
  <2>4. QED
    BY <1>7, <2>3 DEF SelectSignal, TypeOK, loaded, plots, settings
<1>8. ASSUME NEW result \in {"Accepted", "Rejected"}, DialogDone(result) PROVE TypeOK'
  <2> DEFINE m == dialog.cmbMessage
             s == dialog.cmbSignal
  <2>1. CASE Undefined
    BY <2>1 DEF Undefined, TypeOK, loaded, plots, settings
  <2>2. CASE /\ m \in DOMAIN msgDb /\ s \in DOMAIN msgDb[m].signals
             /\ AddChart(m, s) /\ ui' = "idle"
             /\ dialog' = [NoDialog EXCEPT !.result = result]
             /\ UNCHANGED <<loaded, settings, menuRow, fresh>>
    <3>1. msgDb[m].id \in Ids /\ msgDb[m].signals[s] \in Signals
      BY <2>2, DbFacts DEF TypeOK
    <3>2. PICK w \in ChartIds \ graphlayout :
            /\ items' = Append(items, [msgId |-> msgDb[m].id,
                                       signal |-> msgDb[m].signals[s]])
            /\ widgets' = Append(widgets, w)
            /\ graphlayout' = graphlayout \cup {w}
            /\ chart' = [chart EXCEPT ![w] = NewChart(msgDb[m].signals[s])]
      BY <2>2 DEF AddChart
    <3>3. items' \in Seq(Item)
      BY <3>1, <3>2, AppendProperties DEF Item, TypeOK
    <3>4. widgets' \in Seq(ChartIds)
      BY <3>2, AppendProperties DEF TypeOK
    <3>5. chart' \in [ChartIds -> Chart]
      BY <3>1, <3>2, NewChartFacts DEF TypeOK
    <3>6. dialog' \in DialogState
      BY <2>2, EmptySeq DEF NoDialog, DialogState
    <3>7. QED
      BY <2>2, <3>2, <3>3, <3>4, <3>5, <3>6 DEF TypeOK, loaded, settings
  <2>3. QED
    BY <1>8, <2>1, <2>2 DEF DialogDone
<1>9. ASSUME NEW l \in Logs, OnLoadLogFile(l) PROVE TypeOK'
  <2>1. chart' \in [ChartIds -> Chart] /\ items' \in Seq(Item) /\ widgets' \in Seq(ChartIds)
    BY <1>9, NoChartType, EmptySeq DEF OnLoadLogFile, Reset
  <2>2. time' \in Nat
    BY <1>9, LogsAssumption DEF OnLoadLogFile, TypeOK
  <2>3. QED
    BY <1>9, <2>1, <2>2 DEF OnLoadLogFile, Reset, TypeOK, settings
<1>10. ASSUME NEW d \in Dbs, OnLoadDbcFile(d) PROVE TypeOK'
  BY <1>10 DEF OnLoadDbcFile, TypeOK, plots, settings
<1>11. CASE UNCHANGED vars
  BY <1>11 DEF vars, TypeOK
<1>12. CASE AxisButton
  BY <1>1, <1>12, ButtonResizes
<1>13. QED
  BY <1>2, <1>3, <1>4, <1>5, <1>6, <1>7, <1>8, <1>9, <1>10, <1>11, <1>12
     DEF Next, Menu, Dialog, Load

-----------------------------------------------------------------------------
(* PlotInv is inductive.                                                   *)
LEMMA InitPlotInv == Init => TypeOK /\ PlotInv
<1> SUFFICES ASSUME Init PROVE TypeOK /\ PlotInv
  OBVIOUS
<1>1. TypeOK
  <2>1. chart \in [ChartIds -> Chart] /\ items \in Seq(Item) /\ widgets \in Seq(ChartIds)
    BY NoChartType, EmptySeq DEF Init
  <2>2. dialog \in DialogState
    BY EmptySeq DEF Init, NoDialog, DialogState
  <2>3. QED
    BY <2>1, <2>2, DbsAssumption, LogsAssumption, SettingsAssumption DEF Init, TypeOK
<1>2. RowsMatchCharts
  BY DEF Init, RowsMatchCharts, IsInjective, Range
<1>3. QED
  BY <1>1, <1>2 DEF Init, PlotInv, ChartsShowCurrentLog, ChartsFollowSettings,
                    TimeIsOfLog, DialogShowsMsgDb

(* A row taken off both lists.                                             *)
LEMMA RemoveKeeps ==
  ASSUME TypeOK, PlotInv, NEW row \in DOMAIN items, RemoveItem(row)
  PROVE  /\ RowsMatchCharts'
         /\ graphlayout' \subseteq graphlayout
         /\ \A w \in graphlayout' : chart'[w] = chart[w]
<1>1. /\ items \in Seq(Item) /\ widgets \in Seq(ChartIds)
      /\ row \in DOMAIN widgets /\ DOMAIN items = 1 .. Len(items)
      /\ Len(items) = Len(widgets) /\ Len(items) \in Nat
  BY LenProperties DEF TypeOK, PlotInv, RowsMatchCharts
<1>2. /\ widgets' \in Seq(ChartIds) /\ items' \in Seq(Item)
      /\ Len(widgets') = Len(items) - 1 /\ Len(items') = Len(items) - 1
      /\ \A j \in 1 .. Len(items) - 1 :
           /\ widgets'[j] = IF j < row THEN widgets[j] ELSE widgets[j + 1]
           /\ items'[j] = IF j < row THEN items[j] ELSE items[j + 1]
  BY <1>1, RemoveAtFacts DEF RemoveItem
<1>3. /\ IsInjective(widgets')
      /\ Range(widgets') = Range(widgets) \ {widgets[row]}
  BY <1>1, RemoveInjective DEF RemoveItem, PlotInv, RowsMatchCharts
<1>4. /\ graphlayout' = graphlayout \ {widgets[row]}
      /\ \A w \in graphlayout' : chart'[w] = chart[w]
  BY DEF RemoveItem, TypeOK
<1>5. Range(widgets') = graphlayout'
  BY <1>3, <1>4 DEF PlotInv, RowsMatchCharts
<1>6. ASSUME NEW i \in DOMAIN items' PROVE chart'[widgets'[i]].signal = items'[i].signal
  <2>1. i \in 1 .. Len(items) - 1 /\ i \in DOMAIN widgets'
    BY <1>2, <1>6, LenProperties
  <2>2. chart'[widgets'[i]] = chart[widgets'[i]]
    BY <1>4, <1>5, <2>1 DEF Range
  <2>3. PICK j \in DOMAIN items : widgets'[i] = widgets[j] /\ items'[i] = items[j]
    BY <1>1, <1>2, <2>1
  <2>4. QED
    BY <2>2, <2>3 DEF PlotInv, RowsMatchCharts
<1>7. QED
  BY <1>2, <1>3, <1>4, <1>5, <1>6 DEF RowsMatchCharts

(* A chart added to both.                                                  *)
LEMMA AddKeeps ==
  ASSUME TypeOK, PlotInv, NEW m \in DOMAIN msgDb, NEW s \in DOMAIN msgDb[m].signals,
         NEW w \in ChartIds \ graphlayout,
         items' = Append(items, [msgId |-> msgDb[m].id, signal |-> msgDb[m].signals[s]]),
         widgets' = Append(widgets, w),
         graphlayout' = graphlayout \cup {w},
         chart' = [chart EXCEPT ![w] = NewChart(msgDb[m].signals[s])]
  PROVE  RowsMatchCharts'
<1> DEFINE item == [msgId |-> msgDb[m].id, signal |-> msgDb[m].signals[s]]
<1>1. item \in Item /\ item.signal \in Signals /\ item.signal = msgDb[m].signals[s]
  BY DbFacts DEF TypeOK, Item
<1>2. items' = Append(items, item) /\ chart' = [chart EXCEPT ![w] = NewChart(item.signal)]
  BY <1>1
<1> HIDE DEF item
<1>3. /\ items \in Seq(Item) /\ widgets \in Seq(ChartIds)
      /\ DOMAIN items = 1 .. Len(items) /\ DOMAIN widgets = 1 .. Len(items)
      /\ Len(items) = Len(widgets) /\ Len(items) \in Nat
  BY LenProperties DEF TypeOK, PlotInv, RowsMatchCharts
<1>4. /\ Len(items') = Len(items) + 1 /\ DOMAIN items' = 1 .. Len(items) + 1
      /\ \A i \in 1 .. Len(items) : items'[i] = items[i]
      /\ items'[Len(items) + 1] = item
  BY <1>1, <1>2, <1>3, AppendProperties, LenProperties
<1>5. /\ Len(widgets') = Len(items) + 1
      /\ \A i \in 1 .. Len(items) : widgets'[i] = widgets[i]
      /\ widgets'[Len(items) + 1] = w
  BY <1>3, AppendProperties
<1>6. w \notin Range(widgets) /\ IsInjective(widgets) /\ Range(widgets) = graphlayout
  BY DEF PlotInv, RowsMatchCharts
<1>7. IsInjective(widgets') /\ Range(widgets') = graphlayout'
  BY <1>3, <1>6, AppendInjectiveList
<1>8. ASSUME NEW i \in DOMAIN items' PROVE chart'[widgets'[i]].signal = items'[i].signal
  <2>1. CASE i \in 1 .. Len(items)
    <3>1. widgets[i] \in graphlayout /\ widgets[i] # w
      BY <1>3, <1>6, <2>1 DEF Range
    <3>2. chart'[widgets'[i]] = chart[widgets[i]] /\ items'[i] = items[i]
      BY <1>2, <1>4, <1>5, <2>1, <3>1 DEF TypeOK
    <3>3. QED
      BY <1>3, <2>1, <3>2 DEF PlotInv, RowsMatchCharts
  <2>2. CASE i = Len(items) + 1
    <3>1. chart'[widgets'[i]] = NewChart(item.signal) /\ items'[i] = item
      BY <1>2, <1>4, <1>5, <2>2 DEF TypeOK
    <3>2. NewChart(item.signal).signal = item.signal
      BY <1>1, NewChartFacts
    <3>3. QED
      BY <3>1, <3>2
  <2>3. QED
    BY <1>3, <1>4, <1>8, <2>1, <2>2
<1>9. QED
  BY <1>4, <1>5, <1>7, <1>8 DEF RowsMatchCharts

(* A step that leaves the plots, the log and the settings alone.           *)
LEMMA PlotsUntouched ==
  ASSUME PlotInv, UNCHANGED <<log, time, plots, settings>>
  PROVE  /\ RowsMatchCharts' /\ ChartsShowCurrentLog' /\ ChartsFollowSettings'
         /\ TimeIsOfLog'
BY DEF PlotInv, RowsMatchCharts, ChartsShowCurrentLog, ChartsFollowSettings, TimeIsOfLog,
       plots, settings, XTickCount

(* Every handler of the plots keeps the inductive invariant.               *)
LEMMA StepPlotInv == TypeOK /\ PlotInv /\ [Next]_vars => PlotInv'
<1> SUFFICES ASSUME TypeOK, PlotInv, [Next]_vars PROVE PlotInv'
  OBVIOUS
<1>1. CASE AxisButton
  <2>1. PICK size \in Nat, y \in Nat, width \in Nat, ticks \in Nat :
          Resize(size, y, width, ticks)
    BY <1>1, ButtonResizes
  <2>2. /\ UNCHANGED <<log, time, items, widgets, graphlayout, ui, fresh>>
        /\ minChartSize' = size /\ yTick' = y /\ widthPerSec' = width /\ tickPerSec' = ticks
        /\ ui = "idle"
    BY <2>1 DEF Resize, loaded, control
  <2>3. ASSUME NEW w \in graphlayout
        PROVE  /\ chart'[w].signal = chart[w].signal /\ chart'[w].log = chart[w].log
               /\ HasSize(chart'[w], size, width, ticks, y)
    <3>1. w \in ChartIds /\ w \in Range(widgets) /\ chart[w] \in Chart /\ time \in Nat
      BY <2>3 DEF TypeOK, PlotInv, RowsMatchCharts
    <3>2. chart'[w] = Resized(chart[w], size, width, ticks, y)
      BY <2>1, <3>1 DEF Resize
    <3>3. HasSize(chart'[w], size, width, ticks, y)
      BY <3>1, <3>2, ResizedFacts
    <3>4. ASSUME NEW c \in Chart
          PROVE  LET r == Resized(c, size, width, ticks, y)
                 IN  r.signal = c.signal /\ r.log = c.log
      BY <3>1, <3>4, ResizedFacts
    <3>5. QED
      BY <3>1, <3>2, <3>3, <3>4, Zenon
  <2>4. RowsMatchCharts'
    <3>1. \A i \in DOMAIN items : widgets[i] \in graphlayout
      BY LenProperties DEF TypeOK, PlotInv, RowsMatchCharts, Range
    <3>2. QED
      BY <2>2, <2>3, <3>1 DEF PlotInv, RowsMatchCharts
  <2>5. ChartsShowCurrentLog' /\ TimeIsOfLog'
    BY <2>2, <2>3 DEF PlotInv, ChartsShowCurrentLog, TimeIsOfLog
  <2>6. ChartsFollowSettings'
    BY <2>2, <2>3 DEF ChartsFollowSettings, HasSize, XTickCount
  <2>7. DialogShowsMsgDb'
    BY <2>2 DEF DialogShowsMsgDb
  <2>8. QED
    BY <2>4, <2>5, <2>6, <2>7 DEF PlotInv
<1>2. ASSUME NEW row \in {0} \cup DOMAIN items, OnSignalPlotMenu(row) PROVE PlotInv'
  <2>1. DialogShowsMsgDb'
    BY <1>2 DEF OnSignalPlotMenu, DialogShowsMsgDb, loaded, plots
  <2>2. QED
    BY <1>2, <2>1, PlotsUntouched DEF OnSignalPlotMenu, PlotInv, loaded
<1>3. CASE DismissMenu
  <2>1. DialogShowsMsgDb'
    BY <1>3 DEF DismissMenu, DialogShowsMsgDb
  <2>2. QED
    BY <1>3, <2>1, PlotsUntouched DEF DismissMenu, PlotInv, loaded
<1>4. CASE OnRemoveSignal
  <2>1. CASE Undefined
    <3>1. DialogShowsMsgDb'
      BY <2>1 DEF Undefined, DialogShowsMsgDb
    <3>2. QED
      BY <2>1, <3>1, PlotsUntouched DEF Undefined, PlotInv, loaded
  <2>2. CASE menuRow \in DOMAIN items /\ RemoveItem(menuRow) /\ ui' = "idle"
             /\ UNCHANGED <<loaded, settings, menuRow, dialog, fresh>>
    <3>1. /\ RowsMatchCharts' /\ graphlayout' \subseteq graphlayout
          /\ \A w \in graphlayout' : chart'[w] = chart[w]
      BY <2>2, RemoveKeeps
    <3>2. ChartsShowCurrentLog' /\ TimeIsOfLog'
      BY <2>2, <3>1 DEF PlotInv, ChartsShowCurrentLog, TimeIsOfLog, loaded
    <3>3. ChartsFollowSettings'
      BY <2>2, <3>1 DEF PlotInv, ChartsFollowSettings, XTickCount, loaded, settings
    <3>4. DialogShowsMsgDb'
      BY <2>2 DEF DialogShowsMsgDb
    <3>5. QED
      BY <3>1, <3>2, <3>3, <3>4 DEF PlotInv
  <2>3. QED
    BY <1>4, <2>1, <2>2 DEF OnRemoveSignal
<1>5. CASE OnAddSignal
  <2>1. DialogShowsMsgDb'
    <3> SUFFICES ASSUME fresh PROVE DialogShowsMsgDb'
      BY <1>5 DEF OnAddSignal, DialogShowsMsgDb
    <3> DEFINE d == [NoDialog EXCEPT !.messages = Names(msgDb)]
    <3>1. msgDb \in Dbs /\ 1 \in DOMAIN msgDb
      BY <1>5, DbFacts DEF OnAddSignal, TypeOK, PlotInv, DialogShowsMsgDb
    <3>2. d \in DialogState /\ d.messages = Names(msgDb)
      BY <3>1, DbFacts, EmptySeq DEF NoDialog, DialogState
    <3>3. dialog' = OnMsgIndexChanged(d, 1) /\ ui' = "dialog" /\ msgDb' = msgDb
      BY <1>5, <3>1, EmptySeq DEF OnAddSignal, loaded
    <3> HIDE DEF d
    <3>4. /\ dialog'.cmbMessage = 1 /\ dialog'.messages = Names(msgDb)
          /\ dialog'.signals = msgDb[1].signals
          /\ dialog'.cmbSignal \in {0} \cup DOMAIN msgDb[1].signals
      BY <3>1, <3>2, <3>3, DialogFacts
    <3>5. QED
      BY <3>1, <3>3, <3>4 DEF DialogShowsMsgDb, Names
  <2>2. QED
    BY <1>5, <2>1, PlotsUntouched DEF OnAddSignal, PlotInv, loaded
<1>6. ASSUME NEW m \in DOMAIN dialog.messages, SelectMessage(m) PROVE PlotInv'
  <2>1. CASE Undefined
    <3>1. DialogShowsMsgDb'
      BY <2>1 DEF Undefined, DialogShowsMsgDb
    <3>2. QED
      BY <2>1, <3>1, PlotsUntouched DEF Undefined, PlotInv, loaded
  <2>2. CASE /\ m \in DOMAIN msgDb /\ dialog' = OnMsgIndexChanged(dialog, m)
             /\ UNCHANGED <<loaded, plots, settings, ui, menuRow, fresh>>
    <3>1. /\ dialog'.cmbMessage = m /\ dialog'.messages = dialog.messages
          /\ dialog'.signals = msgDb[m].signals
          /\ dialog'.cmbSignal \in {0} \cup DOMAIN msgDb[m].signals
      BY <2>2, DialogFacts DEF TypeOK
    <3>2. DialogShowsMsgDb'
      <4>1. ui = "dialog" /\ msgDb' = msgDb /\ ui' = ui /\ fresh' = fresh
        BY <1>6, <2>2 DEF SelectMessage, loaded
      <4>2. QED
        BY <2>2, <3>1, <4>1 DEF PlotInv, DialogShowsMsgDb, Names
    <3>3. QED
      BY <2>2, <3>2, PlotsUntouched DEF PlotInv, loaded
  <2>3. QED
    BY <1>6, <2>1, <2>2 DEF SelectMessage
<1>7. ASSUME NEW s \in DOMAIN dialog.signals, SelectSignal(s) PROVE PlotInv'
  <2>1. /\ dialog'.cmbMessage = dialog.cmbMessage /\ dialog'.messages = dialog.messages
        /\ dialog'.signals = dialog.signals /\ dialog'.cmbSignal = s
    BY <1>7 DEF SelectSignal, TypeOK, DialogState
  <2>2. DialogShowsMsgDb'
    BY <1>7, <2>1 DEF SelectSignal, PlotInv, DialogShowsMsgDb, Names, loaded
  <2>3. QED
    BY <1>7, <2>2, PlotsUntouched DEF SelectSignal, PlotInv, loaded
<1>8. ASSUME NEW result \in {"Accepted", "Rejected"}, DialogDone(result) PROVE PlotInv'
  <2> DEFINE m == dialog.cmbMessage
             s == dialog.cmbSignal
  <2>1. CASE Undefined
    <3>1. DialogShowsMsgDb'
      BY <2>1 DEF Undefined, DialogShowsMsgDb
    <3>2. QED
      BY <2>1, <3>1, PlotsUntouched DEF Undefined, PlotInv, loaded
  <2>2. CASE /\ m \in DOMAIN msgDb /\ s \in DOMAIN msgDb[m].signals /\ log # EmptyLog
             /\ AddChart(m, s) /\ ui' = "idle"
             /\ UNCHANGED <<loaded, settings, menuRow, fresh>>
    <3>1. PICK w \in ChartIds \ graphlayout :
            /\ items' = Append(items, [msgId |-> msgDb[m].id,
                                       signal |-> msgDb[m].signals[s]])
            /\ widgets' = Append(widgets, w)
            /\ graphlayout' = graphlayout \cup {w}
            /\ chart' = [chart EXCEPT ![w] = NewChart(msgDb[m].signals[s])]
      BY <2>2 DEF AddChart
    <3>2. RowsMatchCharts'
      BY <2>2, <3>1, AddKeeps
    <3>3. /\ chart'[w].log = log
          /\ HasSize(chart'[w], minChartSize, widthPerSec, tickPerSec, yTick)
      <4>1. msgDb[m].signals[s] \in Signals
        BY <2>2, DbFacts DEF TypeOK
      <4>2. chart'[w] = NewChart(msgDb[m].signals[s])
        BY <3>1 DEF TypeOK
      <4>3. QED
        BY <4>1, <4>2, NewChartFacts
    <3>4. \A v \in graphlayout : chart'[v] = chart[v]
      BY <3>1 DEF TypeOK
    <3>5. ChartsShowCurrentLog' /\ TimeIsOfLog'
      BY <2>2, <3>1, <3>3, <3>4 DEF PlotInv, ChartsShowCurrentLog, TimeIsOfLog, loaded
    <3>6. ChartsFollowSettings'
      BY <2>2, <3>1, <3>3, <3>4
         DEF PlotInv, ChartsFollowSettings, HasSize, XTickCount, loaded, settings
    <3>7. DialogShowsMsgDb'
      BY <2>2 DEF DialogShowsMsgDb
    <3>8. QED
      BY <3>2, <3>5, <3>6, <3>7 DEF PlotInv
  <2>3. QED
    BY <1>8, <2>1, <2>2 DEF DialogDone
<1>9. ASSUME NEW l \in Logs, OnLoadLogFile(l) PROVE PlotInv'
  <2>1. RowsMatchCharts'
    BY <1>9 DEF OnLoadLogFile, Reset, RowsMatchCharts, IsInjective, Range
  <2>2. DialogShowsMsgDb'
    BY <1>9 DEF OnLoadLogFile, DialogShowsMsgDb
  <2>3. QED
    BY <1>9, <2>1, <2>2
       DEF OnLoadLogFile, Reset, PlotInv, ChartsShowCurrentLog, ChartsFollowSettings,
           TimeIsOfLog
<1>10. ASSUME NEW d \in Dbs, OnLoadDbcFile(d) PROVE PlotInv'
  <2>1. DialogShowsMsgDb'
    BY <1>10 DEF OnLoadDbcFile, DialogShowsMsgDb
  <2>2. QED
    BY <1>10, <2>1, PlotsUntouched DEF OnLoadDbcFile, PlotInv
<1>11. CASE UNCHANGED vars
  <2>1. DialogShowsMsgDb'
    BY <1>11 DEF vars, PlotInv, DialogShowsMsgDb, Names
  <2>2. QED
    BY <1>11, <2>1, PlotsUntouched DEF vars, PlotInv, plots, settings
<1>12. QED
  BY <1>1, <1>2, <1>3, <1>4, <1>5, <1>6, <1>7, <1>8, <1>9, <1>10, <1>11
     DEF Next, Menu, Dialog, Load

(* Hence it holds in every state.                                          *)
LEMMA PlotInvariant == Spec => [](TypeOK /\ PlotInv)
<1>1. TypeOK /\ PlotInv /\ [Next]_vars => TypeOK' /\ PlotInv'
  BY TypeStep, StepPlotInv DEF PlotInv
<1>2. QED
  BY <1>1, InitPlotInv, PTL DEF Spec

(***************************************************************************)
(* However signals are added and removed and whatever is loaded in         *)
(* between, SignalPlotListModel::items, its widgets and the layout stay in *)
(* step.                                                                   *)
(***************************************************************************)
THEOREM PlotRowsMatchCharts == Spec => []RowsMatchCharts
<1>1. PlotInv => RowsMatchCharts
  BY DEF PlotInv
<1>2. QED
  BY <1>1, PlotInvariant, PTL

(* onLoadLogFile leaves no chart of an older log, nor one of its width.    *)
THEOREM PlotChartsShowCurrentLog == Spec => []ChartsShowCurrentLog
<1>1. PlotInv => ChartsShowCurrentLog
  BY DEF PlotInv
<1>2. QED
  BY <1>1, PlotInvariant, PTL

(* updateChartAxis and onAddSignal give every chart the same size.         *)
THEOREM PlotChartsFollowSettings == Spec => []ChartsFollowSettings
<1>1. PlotInv => ChartsFollowSettings
  BY DEF PlotInv
<1>2. QED
  BY <1>1, PlotInvariant, PTL

(* onAddSignal adds the message and the signal that its dialog shows, and  *)
(* after a load a signal of one message of the database all the same.      *)
THEOREM DialogAddsWhatIsShown == Spec => AddsWhatIsShown
<1> DEFINE A == Len(items') > Len(items) =>
                  /\ fresh => Last(items') = [msgId  |-> dialog.messages[dialog.cmbMessage],
                                              signal |-> dialog.signals[dialog.cmbSignal]]
                  /\ \E m \in DOMAIN msgDb :
                       /\ Last(items').msgId = msgDb[m].id
                       /\ Last(items').signal \in Range(msgDb[m].signals)
<1>1. TypeOK /\ PlotInv /\ [Next]_vars => [A]_vars
  <2> SUFFICES ASSUME TypeOK, PlotInv, Next PROVE A
    BY DEF A
  <2>1. /\ items \in Seq(Item) /\ Len(items) \in Nat
    BY LenProperties DEF TypeOK
  <2>2. CASE UNCHANGED items
    BY <2>1, <2>2 DEF A
  <2>3. CASE OnRemoveSignal
    <3>1. CASE Undefined
      BY <2>2, <3>1 DEF Undefined, plots
    <3>2. CASE menuRow \in DOMAIN items /\ items' = RemoveAt(items, menuRow)
      <4>1. Len(items') = Len(items) - 1
        BY <2>1, <3>2, RemoveAtFacts
      <4>2. QED
        BY <2>1, <4>1 DEF A
    <3>3. QED
      BY <2>3, <3>1, <3>2 DEF OnRemoveSignal, RemoveItem
  <2>4. ASSUME NEW result \in {"Accepted", "Rejected"}, DialogDone(result) PROVE A
    <3> DEFINE m == dialog.cmbMessage
               s == dialog.cmbSignal
               item == [msgId |-> msgDb[m].id, signal |-> msgDb[m].signals[s]]
    <3>1. CASE Undefined
      BY <2>2, <3>1 DEF Undefined, plots
    <3>2. CASE /\ m \in DOMAIN msgDb /\ s \in DOMAIN msgDb[m].signals
               /\ items' = Append(items, item)
      <4>1. item \in Item
        BY <3>2, DbFacts DEF TypeOK, Item
      <4> HIDE DEF item
      <4>2. Last(items') = item
        BY <2>1, <3>2, <4>1, AppendProperties DEF Last
      <4>3. fresh => item = [msgId |-> dialog.messages[m], signal |-> dialog.signals[s]]
        BY <2>4, <3>2 DEF DialogDone, PlotInv, DialogShowsMsgDb, Names, item
      <4>4. item.msgId = msgDb[m].id /\ item.signal \in Range(msgDb[m].signals)
        BY <3>2 DEF item, Range
      <4>5. QED
        BY <3>2, <4>2, <4>3, <4>4 DEF A
    <3>3. QED
      BY <2>4, <3>1, <3>2 DEF DialogDone, AddChart
  <2>5. ASSUME NEW l \in Logs, OnLoadLogFile(l) PROVE A
    <3>1. items' = <<>> /\ Len(<<>>) = 0
      BY <2>5, EmptySeq DEF OnLoadLogFile, Reset
    <3>2. QED
      BY <2>1, <3>1 DEF A
  <2>6. CASE AxisButton
    BY <2>2, <2>6, ButtonResizes DEF Resize
  <2>7. QED
    <3>1. ASSUME NEW row \in {0} \cup DOMAIN items, OnSignalPlotMenu(row)
          PROVE  UNCHANGED items
      BY <3>1 DEF OnSignalPlotMenu, plots
    <3>2. ASSUME DismissMenu \/ OnAddSignal PROVE UNCHANGED items
      BY <3>2 DEF DismissMenu, OnAddSignal, plots
    <3>3. ASSUME NEW k, SelectMessage(k) \/ SelectSignal(k) PROVE UNCHANGED items
      BY <3>3 DEF SelectMessage, SelectSignal, Undefined, plots
    <3>4. ASSUME NEW d, OnLoadDbcFile(d) PROVE UNCHANGED items
      BY <3>4 DEF OnLoadDbcFile, plots
    <3>5. QED
      BY <2>2, <2>3, <2>4, <2>5, <2>6, <3>1, <3>2, <3>3, <3>4
         DEF Next, Menu, Dialog, Load
<1>2. QED
  BY <1>1, PlotInvariant, PTL DEF Spec, AddsWhatIsShown, A

(* Only a load while the menu or the dialog is open, an empty log or a     *)
(* message without signals makes the slots of the plots read out of range. *)
THEOREM PlotUndefinedOnlyWhenStale == Spec => UndefinedOnlyWhenStale
<1> DEFINE A == ui' = "undefined" =>
                  \/ ~fresh
                  \/ log = EmptyLog
                  \/ ui = "dialog" /\ dialog.cmbMessage # 0 /\ dialog.cmbSignal = 0
<1>1. TypeOK /\ PlotInv /\ [Next]_vars => [A]_vars
  <2> SUFFICES ASSUME TypeOK, PlotInv, Next PROVE A
    BY DEF A
  <2>1. CASE OnRemoveSignal
    BY <2>1 DEF OnRemoveSignal, PlotInv, DialogShowsMsgDb, A
  <2>2. ASSUME NEW m \in DOMAIN dialog.messages, SelectMessage(m) PROVE A
    <3>1. fresh => DOMAIN dialog.messages = DOMAIN msgDb
      BY <2>2 DEF SelectMessage, PlotInv, DialogShowsMsgDb, Names
    <3>2. ui = "dialog"
      BY <2>2 DEF SelectMessage
    <3>3. QED
      BY <2>2, <3>1, <3>2 DEF SelectMessage, A
  <2>3. ASSUME NEW result \in {"Accepted", "Rejected"}, DialogDone(result) PROVE A
    <3>1. ui = "dialog"
      BY <2>3 DEF DialogDone
    <3>2. ASSUME fresh, log # EmptyLog, Undefined PROVE dialog.cmbSignal = 0
      BY <2>3, <3>1, <3>2 DEF DialogDone, Undefined, PlotInv, DialogShowsMsgDb
    <3>3. fresh => dialog.cmbMessage \in DOMAIN msgDb /\ DOMAIN msgDb = 1 .. Len(msgDb)
      BY <3>1, DbFacts DEF TypeOK, PlotInv, DialogShowsMsgDb
    <3>4. QED
      BY <2>3, <3>1, <3>2, <3>3 DEF DialogDone, A
  <2>4. CASE AxisButton
    BY <2>4, ButtonResizes DEF Resize, control, A
  <2>5. QED
    <3>1. ASSUME NEW row \in {0} \cup DOMAIN items, OnSignalPlotMenu(row)
          PROVE  ui' # "undefined"
      BY <3>1 DEF OnSignalPlotMenu
    <3>2. ASSUME DismissMenu \/ OnAddSignal PROVE ui' # "undefined"
      BY <3>2 DEF DismissMenu, OnAddSignal
    <3>3. ASSUME NEW k, SelectSignal(k) \/ OnLoadLogFile(k) \/ OnLoadDbcFile(k)
          PROVE  ui' # "undefined"
      BY <3>3 DEF SelectSignal, OnLoadLogFile, OnLoadDbcFile
    <3>4. QED
      BY <2>1, <2>2, <2>3, <2>4, <3>1, <3>2, <3>3 DEF Next, Menu, Dialog, Load, A
<1>2. QED
  BY <1>1, PlotInvariant, PTL DEF Spec, UndefinedOnlyWhenStale, A
=============================================================================
