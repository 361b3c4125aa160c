-------------------------- MODULE MainWindowProofs --------------------------
(***************************************************************************)
(* Proofs about the window as one system, for any files, databases,        *)
(* filters, colours and settings: everything on the screen is of the files *)
(* that were loaded (ScreenInv), and nothing opened while no file is being *)
(* read goes stale (WaitInv).                                              *)
(***************************************************************************)
EXTENDS MainWindow, FiniteSetTheorems, SequenceTheorems, WellFoundedInduction, TLAPS

(* Numbers have a least one.                                               *)
LEMMA LeastNumber ==
  ASSUME NEW T, T \subseteq Nat, T # {}
  PROVE  \E m \in T : \A n \in T : m <= n
<1> DEFINE R == OpToRel(<, Nat)
<1>1. IsWellFoundedOn(R, Nat)
  BY NatLessThanWellFounded
<1>2. \A i, j \in Nat : i < j => <<i, j>> \in R
  BY DEF OpToRel
<1> HIDE DEF R
<1>3. PICK m \in T : \A n \in T : ~ (<<n, m>> \in R)
  BY <1>1, WFMin
<1>4. \A n \in T : m \in Nat /\ n \in Nat /\ ~(n < m)
  BY <1>2, <1>3
<1>5. QED
  BY <1>4

(***************************************************************************)
(* What Ascending chooses, and that it exists: the inverse of the rank of  *)
(* an element, the number of elements up to it.                            *)
(***************************************************************************)
LEMMA AscendingFacts ==
  ASSUME NEW n \in Nat, NEW S, S \subseteq 1 .. n
  PROVE  /\ Range(View!Ascending(S)) = S
         /\ \A i, j \in DOMAIN View!Ascending(S) : i < j => View!Ascending(S)[i] < View!Ascending(S)[j]
<1> DEFINE N == Cardinality(S)
           Below(r) == {q \in S : q <= r}
           rank == [r \in S |-> Cardinality(Below(r))]
           f == [i \in 1 .. N |-> CHOOSE r \in S : rank[r] = i]
<1>1. S \subseteq Int /\ IsFiniteSet(S) /\ N \in Nat
  <2>1. 1 \in Int /\ n \in Int
    OBVIOUS
  <2>2. IsFiniteSet(1 .. n)
    BY <2>1, FS_Interval
  <2>3. S \in SUBSET (1 .. n) /\ S \subseteq Int
    OBVIOUS
  <2>4. IsFiniteSet(S)
    BY <2>2, <2>3, FS_Subset
  <2>5. QED
    BY <2>3, <2>4, FS_CardinalityType
<1>2. ASSUME NEW r \in S
      PROVE  IsFiniteSet(Below(r)) /\ rank[r] \in 1 .. N
  <2>1. Below(r) \in SUBSET S /\ Below(r) # {}
    BY <1>1
  <2>2. IsFiniteSet(Below(r)) /\ Cardinality(Below(r)) <= N
    BY <1>1, <2>1, FS_Subset
  <2>3. Cardinality(Below(r)) \in Nat /\ Cardinality(Below(r)) # 0
    BY <2>1, <2>2, FS_CardinalityType, FS_EmptySet
  <2>4. rank[r] = Cardinality(Below(r))
    OBVIOUS
  <2> HIDE DEF Below, rank, N
  <2>5. QED
    BY <1>1, <2>2, <2>3, <2>4
<1>3. ASSUME NEW r \in S, NEW q \in S, r < q PROVE rank[r] < rank[q]
  <2>0. \A p \in S : p \in Int
    BY <1>1
  <2>1. Below(r) \in SUBSET Below(q) /\ Below(r) # Below(q)
    <3>1. \A p \in Below(r) : p \in Below(q)
      BY <1>3, <2>0
    <3>2. q \in Below(q) /\ q \notin Below(r)
      BY <1>3, <2>0
    <3>3. QED
      BY <3>1, <3>2
  <2>2. /\ Cardinality(Below(r)) <= Cardinality(Below(q))
        /\ Cardinality(Below(q)) # Cardinality(Below(r))
    BY <1>2, <2>1, FS_Subset
  <2>3. rank[r] \in Int /\ rank[q] \in Int
    BY <1>2
  <2>4. rank[r] = Cardinality(Below(r)) /\ rank[q] = Cardinality(Below(q))
    OBVIOUS
  <2> HIDE DEF Below, rank
  <2>5. QED
    BY <2>2, <2>3, <2>4
<1> HIDE DEF rank
<1>4. ASSUME NEW r \in S, NEW q \in S, rank[r] = rank[q] PROVE r = q
  <2> HIDE DEF f, N, Below
  <2>1. r \in Int /\ q \in Int /\ rank[r] \in Int
    BY <1>1, <1>2
  <2>2. ~(r < q) /\ ~(q < r)
    BY <1>3, <1>4, <2>1
  <2>3. QED
    BY <2>1, <2>2
<1>5. rank \in Surjection(S, 1 .. N)
  <2>1. rank \in [S -> 1 .. N]
    BY <1>2 DEF rank
  <2>2. rank \in Injection(S, 1 .. N)
    BY <1>4, <2>1 DEF Injection, IsInjective
  <2>3. IsFiniteSet(1 .. N) /\ Cardinality(1 .. N) = N
    <3>1. 1 \in Int /\ N \in Int
      BY <1>1
    <3>2. QED
      BY <1>1, <3>1, FS_Interval
  <2>4. QED
    BY <2>2, <2>3, FS_Injection
<1>6. \A i \in 1 .. N : f[i] \in S /\ rank[f[i]] = i
  BY <1>5 DEF Surjection
<1>7. f \in [1 .. N -> S]
  BY <1>6
<1>8. Range(f) = S
  <2>1. ASSUME NEW r \in S PROVE rank[r] \in 1 .. N /\ f[rank[r]] = r
    BY <1>2, <1>4, <1>6
  <2> HIDE DEF f, N
  <2>2. QED
    BY <1>7, <2>1 DEF Range
<1>9. ASSUME NEW i \in DOMAIN f, NEW j \in DOMAIN f, i < j PROVE f[i] < f[j]
  <2>1. i \in 1 .. N /\ j \in 1 .. N
    OBVIOUS
  <2> HIDE DEF f, N
  <2>2. PICK r \in S, q \in S : r = f[i] /\ q = f[j] /\ rank[r] = i /\ rank[q] = j
    BY <1>6, <2>1
  <2>3. r \in Int /\ q \in Int /\ i \in Int /\ j \in Int
    BY <1>1, <2>1
  <2>4. r # q /\ ~(q < r)
    BY <1>3, <1>9, <2>2, <2>3
  <2>5. QED
    BY <2>2, <2>3, <2>4
<1>10. \E g \in [1 .. Cardinality(S) -> S] :
         Range(g) = S /\ \A i, j \in DOMAIN g : i < j => g[i] < g[j]
  <2> HIDE DEF f
  <2>1. QED
    BY <1>7, <1>8, <1>9
<1>11. View!Cardinality(S) = Cardinality(S)
  BY DEF View!Cardinality, Cardinality, View!IsFiniteSet, IsFiniteSet
<1>12. QED
  BY <1>10, <1>11 DEF View!Ascending, View!Range, Range

-----------------------------------------------------------------------------
USE WindowAssumption

(* The inductive invariant: what is on display has been asked for, the log *)
(* is that of the file whose log it is, and every chart was drawn from it. *)
FilesExist ==
  /\ lineLogPath \in DOMAIN LogOf \cup {NoFile}
  /\ lineDbcPath \in DOMAIN DbOf

ChartsAreOfLog ==
  /\ graphlayout \subseteq Plot!ChartIds
  /\ DOMAIN chart = Plot!ChartIds
  /\ \A w \in Plot!ChartIds : DOMAIN chart[w] = DOMAIN Plot!NoChart
  /\ \A w \in graphlayout : chart[w].log = log

WindowInv ==
  /\ FilesExist
  /\ msgDb \in Seq(View!DbMessage)
  /\ log = LogRead(logFile)
  /\ ChartsAreOfLog
  /\ LabelIsOfThisLog

(* What is on the screen: what was asked for last, unless it is still to   *)
(* come; the messages of the file, whatever colours they were given since; *)
(* the rows that the filters accept; the lists, of which neither reads     *)
(* beyond the database.                                                    *)
NewestIsShown ==
  /\ up /\ ~logPending => logFile = lineLogPath
  /\ up /\ ~dbcPending => dbcFile = lineDbcPath

SameMessages(d, e) ==
  /\ DOMAIN d = DOMAIN e
  /\ \A m \in DOMAIN d : /\ d[m].id = e[m].id /\ d[m].name = e[m].name
                         /\ d[m].signals = e[m].signals

DbIsOfFile == dbcFile \in DOMAIN DbOf /\ SameMessages(msgDb, DbOf[dbcFile])

TableIsOfFiles ==
  Range(visible) =
    {row \in DOMAIN log : View!FilterAcceptsRow(log, DbOf[dbcFile], regex, row)}

ScreenInv ==
  NewestIsShown /\ log \in Logs /\ DbIsOfFile /\ TableIsOfFiles /\ View!ListsAreCurrent

(* What is open: one thing at a time; and if nothing was being read when   *)
(* it was opened, then nothing is, and its row or its choice exists.       *)
OneOpen ==
  /\ fileDialog # "none" => viewUi = "idle" /\ plotUi = "idle"
  /\ viewUi = "idle" \/ plotUi = "idle"

MenuIsOnLog == viewUi # "undefined" /\ (viewUi = "menu" => viewMenu.row \in DOMAIN log)

PlotMenuIsOnList == plotUi = "menu" => msgDb # <<>> /\ menuRow \in {0} \cup DOMAIN items

DialogIsOfDb ==
  plotUi = "dialog" =>
    /\ dialog.cmbMessage \in DOMAIN msgDb
    /\ dialog.messages = Plot!Names(Colourless(msgDb))
    /\ dialog.signals = msgDb[dialog.cmbMessage].signals
    /\ dialog.cmbSignal \in {0} \cup DOMAIN dialog.signals

WaitInv ==
  /\ OneOpen
  /\ DOMAIN dialog = DOMAIN Plot!NoDialog
  /\ waited => /\ viewUi # "idle" \/ plotUi # "idle" => ~logPending /\ ~dbcPending
               /\ MenuIsOnLog /\ PlotMenuIsOnList /\ DialogIsOfDb

-----------------------------------------------------------------------------
(* A colour changes nothing else of a database.                            *)
LEMMA SetColorFacts ==
  ASSUME msgDb \in Seq(View!DbMessage), NEW c \in Colors, View!SetColor(c)
  PROVE  /\ msgDb' \in Seq(View!DbMessage)
         /\ SameMessages(msgDb', msgDb) /\ Len(msgDb') = Len(msgDb)
<1> DEFINE k == View!FindMessage(msgDb, msgDb[editRow].id)
<1>1. msgDb' = [msgDb EXCEPT ![k].color = c]
  BY DEF View!SetColor
<1>2. /\ Len(msgDb) \in Nat /\ DOMAIN msgDb = 1 .. Len(msgDb)
      /\ \A m \in DOMAIN msgDb : msgDb[m] \in View!DbMessage
  OBVIOUS
<1>3. DOMAIN msgDb' = 1 .. Len(msgDb)
  BY <1>1, <1>2
<1>4. ASSUME NEW m \in DOMAIN msgDb
      PROVE  /\ msgDb'[m] \in View!DbMessage
             /\ msgDb'[m].id = msgDb[m].id /\ msgDb'[m].name = msgDb[m].name
             /\ msgDb'[m].signals = msgDb[m].signals
  <2>1. msgDb'[m] = IF m = k THEN [msgDb[m] EXCEPT !.color = c] ELSE msgDb[m]
    BY <1>1, <1>4
  <2>2. PICK r \in View!DbMessage : r = msgDb[m]
    BY <1>2, <1>4
  <2>3. /\ [r EXCEPT !.color = c] \in View!DbMessage
        /\ [r EXCEPT !.color = c].id = r.id /\ [r EXCEPT !.color = c].name = r.name
        /\ [r EXCEPT !.color = c].signals = r.signals
    BY DEF View!DbMessage
  <2>4. QED
    BY <2>1, <2>2, <2>3
<1>5. msgDb' \in Seq(View!DbMessage)
  <2>1. msgDb' \in [1 .. Len(msgDb) -> View!DbMessage]
    BY <1>1, <1>2, <1>4
  <2>2. msgDb' \in UNION {[1 .. n -> View!DbMessage] : n \in Nat}
    BY <1>2, <2>1, Zenon
  <2>3. QED
    BY <2>2, SeqDef, Zenon
<1>6. SameMessages(msgDb', msgDb) /\ Len(msgDb') = Len(msgDb)
  BY <1>2, <1>3, <1>4, <1>5, LenProperties DEF SameMessages
<1>7. QED
  BY <1>5, <1>6

(* The plots do not see it.                                                *)
LEMMA SameColourless ==
  ASSUME NEW d, NEW e, SameMessages(d, e)
  PROVE  Colourless(d) = Colourless(e)
BY Zenon DEF SameMessages, Colourless

-----------------------------------------------------------------------------
(* The steps of the plots, whichever the user takes, leave the log alone,  *)
(* and draw charts of no other log.                                        *)
LEMMA PlotsKeepLog ==
  ASSUME Plot!AxisButton \/ Plot!Menu \/ Plot!Dialog
  PROVE  log' = log
BY DEF Plot!AxisButton, Plot!OnAddXTick, Plot!OnRemXTick, Plot!OnAddYTick, Plot!OnRemYTick,
       Plot!OnZoomInX, Plot!OnZoomOutX, Plot!OnZoomInY, Plot!OnZoomOutY,
       Plot!OnResetAllAxis, Plot!Resize, Plot!Menu, Plot!OnSignalPlotMenu,
       Plot!DismissMenu, Plot!OnRemoveSignal, Plot!OnAddSignal, Plot!Dialog,
       Plot!SelectMessage, Plot!SelectSignal, Plot!DialogDone, Plot!Undefined, Plot!loaded

(* And those of the table and the lists leave the log alone, and of the    *)
(* database all but its colours.                                           *)
LEMMA ViewsKeepLog ==
  ASSUME msgDb \in Seq(View!DbMessage), View!Highlight \/ View!Filter \/ View!Messages
  PROVE  /\ log' = log
         /\ msgDb' \in Seq(View!DbMessage)
         /\ SameMessages(msgDb', msgDb) /\ Colourless(msgDb') = Colourless(msgDb)
<1>1. CASE \E c \in Colors : View!SetColor(c)
  <2>1. log' = log
    BY <1>1 DEF View!SetColor
  <2>2. QED
    BY <1>1, <2>1, SetColorFacts, SameColourless
<1>2. CASE ~ \E c \in Colors : View!SetColor(c)
  <2>1. log' = log /\ msgDb' = msgDb
    BY <1>2 DEF View!Highlight, View!OnContextMenu, View!DismissMenu, View!MsgAction,
         View!IdAction, View!Filter, View!OnHeaderContextMenu, View!CancelFilter,
         View!RemoveFilter, View!SetFilter, View!Messages, View!OnMsgSelect,
         View!EditColor, View!CancelColor
  <2>2. SameMessages(msgDb', msgDb) /\ Colourless(msgDb') = Colourless(msgDb)
    BY <2>1 DEF SameMessages
  <2>3. QED
    BY <2>1, <2>2
<1>3. QED
  BY <1>1, <1>2

(* A button resizes the charts, and they remain charts of the log.         *)
LEMMA ResizeKeepsCharts ==
  ASSUME ChartsAreOfLog, NEW size, NEW y, NEW width, NEW ticks,
         Plot!Resize(size, y, width, ticks)
  PROVE  ChartsAreOfLog'
<1>1. log' = log /\ graphlayout' = graphlayout
  BY DEF Plot!Resize, Plot!loaded
<1>2. DOMAIN chart' = Plot!ChartIds
  BY DEF Plot!Resize
<1>3. ASSUME NEW w \in Plot!ChartIds
      PROVE  DOMAIN chart'[w] = DOMAIN chart[w] /\ chart'[w].log = chart[w].log
  <2>1. \/ chart'[w] = chart[w]
        \/ chart'[w] = Plot!Resized(chart[w], size, width, ticks, y)
    BY <1>3 DEF Plot!Resize
  <2>2. "log" \in DOMAIN chart[w]
    BY <1>3 DEF ChartsAreOfLog, Plot!NoChart
  <2>3. QED
    BY <2>1, <2>2 DEF Plot!Resized
<1>4. QED
  BY <1>1, <1>2, <1>3 DEF ChartsAreOfLog

(* A chart taken off the screen, and one put on it.                        *)
LEMMA RemoveKeepsCharts ==
  ASSUME ChartsAreOfLog, log' = log, NEW row, Plot!RemoveItem(row)
  PROVE  ChartsAreOfLog'
BY DEF ChartsAreOfLog, Plot!RemoveItem

LEMMA AddKeepsCharts ==
  ASSUME ChartsAreOfLog, log' = log, NEW m, NEW s, Plot!AddChart(m, s)
  PROVE  ChartsAreOfLog'
<1>1. PICK w \in Plot!ChartIds \ graphlayout :
        /\ graphlayout' = graphlayout \cup {w}
        /\ chart' = [chart EXCEPT ![w] =
                       Plot!NewChart(Colourless(msgDb)[m].signals[s])]
  BY DEF Plot!AddChart
<1> DEFINE c == Plot!NewChart(Colourless(msgDb)[m].signals[s])
<1>2. DOMAIN c = DOMAIN Plot!NoChart /\ c.log = log
  BY DEF Plot!NewChart, Plot!Resized, Plot!NoChart
<1> HIDE DEF c
<1>3. QED
  BY <1>1, <1>2 DEF ChartsAreOfLog, c

LEMMA PlotsAreOfLog ==
  ASSUME ChartsAreOfLog, Plot!AxisButton \/ Plot!Menu \/ Plot!Dialog
  PROVE  ChartsAreOfLog'
<1>1. CASE Plot!AxisButton
  BY <1>1, ResizeKeepsCharts
     DEF Plot!AxisButton, Plot!OnAddXTick, Plot!OnRemXTick, Plot!OnAddYTick,
         Plot!OnRemYTick, Plot!OnZoomInX, Plot!OnZoomOutX, Plot!OnZoomInY,
         Plot!OnZoomOutY, Plot!OnResetAllAxis
<1>2. log' = log
  BY PlotsKeepLog
<1>3. CASE \E row : Plot!RemoveItem(row)
  BY <1>2, <1>3, RemoveKeepsCharts
<1>4. CASE \E m, s : Plot!AddChart(m, s)
  BY <1>2, <1>4, AddKeepsCharts
<1>5. CASE UNCHANGED Plot!plots
  BY <1>2, <1>5 DEF ChartsAreOfLog, Plot!plots
<1>6. CASE Plot!Menu
  BY <1>3, <1>5, <1>6 DEF Plot!Menu, Plot!OnSignalPlotMenu, Plot!DismissMenu,
     Plot!OnRemoveSignal, Plot!OnAddSignal, Plot!Undefined
<1>7. CASE Plot!Dialog
  BY <1>4, <1>5, <1>7 DEF Plot!Dialog, Plot!SelectMessage, Plot!SelectSignal,
     Plot!DialogDone, Plot!Undefined
<1>8. QED
  BY <1>1, <1>6, <1>7

-----------------------------------------------------------------------------
(* What is loaded is one of the logs and one of the databases of the files. *)
LEMMA LoadedExists ==
  ASSUME FilesExist
  PROVE  /\ LogRead(lineLogPath) \in Logs
         /\ DbOf[lineDbcPath] \in Dbs /\ DbOf[lineDbcPath] \in Seq(View!DbMessage)
<1>1. LogRead(lineLogPath) \in Logs
  BY DEF FilesExist, LogRead, Logs
<1>2. DbOf[lineDbcPath] \in Dbs
  BY DEF FilesExist, Dbs
<1>3. QED
  BY <1>1, <1>2 DEF View!ViewAssumption

-----------------------------------------------------------------------------
(* WindowInv is inductive.                                                 *)
LEMMA InitWindowInv == Init => WindowInv
<1> SUFFICES ASSUME Init PROVE WindowInv
  OBVIOUS
<1>1. FilesExist
  BY DEF Init, Log!Init, Dbc!Init, FilesExist
<1>2. msgDb = <<>> /\ log = <<>> /\ logFile = NoFile /\ graphlayout = {}
  BY DEF Init, View!Init, Log!Init, Plot!Init
<1>3. msgDb \in Seq(View!DbMessage)
  BY <1>2, EmptySeq
<1>4. ChartsAreOfLog
  BY <1>2 DEF Init, Plot!Init, ChartsAreOfLog
<1>5. LabelIsOfThisLog
  BY DEF Init, NoMessage, LabelIsOfThisLog
<1>6. QED
  BY <1>1, <1>2, <1>3, <1>4, <1>5 DEF WindowInv, LogRead

(* Every handler of the window keeps it.                                   *)
LEMMA StepWindowInv == WindowInv /\ [Next]_vars => WindowInv'
<1> SUFFICES ASSUME WindowInv, [Next]_vars PROVE WindowInv'
  OBVIOUS
<1>1. /\ FilesExist /\ msgDb \in Seq(View!DbMessage) /\ log = LogRead(logFile)
      /\ ChartsAreOfLog /\ LabelIsOfThisLog
  BY DEF WindowInv
<1>2. ASSUME UNCHANGED content, UNCHANGED statusbar, UNCHANGED logFile, FilesExist'
      PROVE  WindowInv'
  BY <1>1, <1>2 DEF WindowInv, ChartsAreOfLog, LabelIsOfThisLog, LogRead, content, plotVars
<1>3. CASE Open
  <2>1. FilesExist'
    BY <1>1, <1>3 DEF Open, OpenDialog, OpenFile, OpenDbcFile, CancelOpenFile,
       Log!Request, Dbc!Request, FilesExist, logLoader, dbcLoader
  <2>2. UNCHANGED content /\ UNCHANGED logFile
    BY <1>3 DEF Open, OpenDialog, OpenFile, OpenDbcFile, CancelOpenFile,
       Log!Request, Dbc!Request, logLoader, dbcLoader
  <2>3. UNCHANGED statusbar \/ statusbar'.text = "Loading..."
    BY <1>3 DEF Open, OpenDialog, OpenFile, OpenDbcFile, CancelOpenFile, NoMessage
  <2>4. LabelIsOfThisLog'
    BY <1>1, <2>2, <2>3 DEF LabelIsOfThisLog, LogRead
  <2>5. QED
    BY <1>1, <2>1, <2>2, <2>4
       DEF WindowInv, ChartsAreOfLog, LogRead, content, plotVars
<1>4. CASE OnLoadLogFile
  <2>1. FilesExist' /\ log' = LogRead(logFile') /\ msgDb' = msgDb
    BY <1>1, <1>4 DEF OnLoadLogFile, Log!Publish, View!OnLoadLogFile, FilesExist, dbcLoader
  <2>2. graphlayout' = {} /\ chart' = [w \in Plot!ChartIds |-> Plot!NoChart]
    BY <1>4 DEF OnLoadLogFile, Plot!OnLoadLogFile, Plot!Reset
  <2>3. ChartsAreOfLog'
    BY <2>2 DEF ChartsAreOfLog
  <2>4. LabelIsOfThisLog'
    BY <1>4 DEF OnLoadLogFile, NoMessage, LabelIsOfThisLog
  <2>5. QED
    BY <1>1, <2>1, <2>3, <2>4 DEF WindowInv, LogRead
<1>5. CASE OnLoadDbcFile
  <2>1. FilesExist' /\ msgDb' \in Seq(View!DbMessage)
    BY <1>1, <1>5, LoadedExists
       DEF OnLoadDbcFile, Dbc!Publish, View!OnLoadDbcFile, FilesExist, logLoader
  <2>2. UNCHANGED <<log, logFile, graphlayout, chart, statusbar>>
    BY <1>5 DEF OnLoadDbcFile, View!OnLoadDbcFile, Plot!OnLoadDbcFile, Plot!plots, logLoader
  <2>3. QED
    BY <1>1, <2>1, <2>2 DEF WindowInv, ChartsAreOfLog, LabelIsOfThisLog, LogRead
<1>6. CASE OnLoadLogFileThrows
  <2>1. UNCHANGED content /\ UNCHANGED logFile /\ FilesExist'
    BY <1>1, <1>6 DEF OnLoadLogFileThrows, Log!Stop, Dbc!Stop, FilesExist
  <2>2. LabelIsOfThisLog'
    BY <1>6 DEF OnLoadLogFileThrows, NoMessage, LabelIsOfThisLog
  <2>3. QED
    BY <1>1, <2>1, <2>2 DEF WindowInv, ChartsAreOfLog, LogRead, content, plotVars
<1>7. CASE InView
  <2>1. /\ log' = log /\ msgDb' \in Seq(View!DbMessage)
        /\ UNCHANGED <<logLoader, dbcLoader, plotVars, statusbar>>
    BY <1>1, <1>7, ViewsKeepLog DEF InView
  <2>2. QED
    BY <1>1, <2>1 DEF WindowInv, FilesExist, ChartsAreOfLog, LabelIsOfThisLog, LogRead,
       logLoader, dbcLoader, plotVars
<1>8. CASE InPlot
  <2>1. /\ log' = log /\ ChartsAreOfLog'
        /\ UNCHANGED <<logLoader, dbcLoader, msgDb, statusbar>>
    BY <1>1, <1>8, PlotsKeepLog, PlotsAreOfLog DEF InPlot
  <2>2. QED
    BY <1>1, <2>1 DEF WindowInv, FilesExist, LabelIsOfThisLog, LogRead, logLoader, dbcLoader
<1>9. CASE \E w \in graphlayout : OnPointNotify(w)
  <2>1. PICK w \in graphlayout : OnPointNotify(w)
    BY <1>9
  <2>2. statusbar'.log = log
    BY <1>1, <2>1 DEF OnPointNotify, ChartsAreOfLog
  <2>3. UNCHANGED content /\ UNCHANGED logLoader /\ UNCHANGED dbcLoader
    BY <2>1 DEF OnPointNotify
  <2>4. LabelIsOfThisLog'
    BY <1>1, <2>2, <2>3 DEF LabelIsOfThisLog, LogRead, logLoader
  <2>5. QED
    BY <1>1, <2>3, <2>4
       DEF WindowInv, FilesExist, ChartsAreOfLog, LogRead, content, plotVars,
           logLoader, dbcLoader
<1>10. CASE Close
  BY <1>1, <1>2, <1>10 DEF Close, Log!Stop, Dbc!Stop, FilesExist
<1>11. CASE UNCHANGED vars
  BY <1>1, <1>2, <1>11 DEF vars, logLoader, dbcLoader, FilesExist
<1>12. QED
  BY <1>3, <1>4, <1>5, <1>6, <1>7, <1>8, <1>9, <1>10, <1>11 DEF Next, Loaded

(* Hence it holds in every state.                                          *)
LEMMA WindowInvariant == Spec => []WindowInv
<1>1. QED
  BY InitWindowInv, StepWindowInv, PTL DEF Spec

-----------------------------------------------------------------------------
(***************************************************************************)
(* The label of a point in the status bar is never of a log that           *)
(* onLoadLogFile has replaced, whichever loads end while the mouse is over *)
(* a chart or a dialog is open.                                            *)
(***************************************************************************)
THEOREM WindowLabelIsOfThisLog == Spec => []LabelIsOfThisLog
<1>1. WindowInv => LabelIsOfThisLog
  BY DEF WindowInv
<1>2. QED
  BY <1>1, WindowInvariant, PTL

-----------------------------------------------------------------------------
(* The proxy's rows after a reset are those that the filters accept.       *)
LEMMA AcceptedRowsFacts ==
  ASSUME NEW l \in Logs, NEW d, NEW f
  PROVE  Range(View!AcceptedRows(l, d, f)) =
           {row \in DOMAIN l : View!FilterAcceptsRow(l, d, f, row)}
<1> DEFINE S == {row \in DOMAIN l : View!FilterAcceptsRow(l, d, f, row)}
<1>1. l \in Seq(View!Ids)
  BY DEF View!ViewAssumption
<1>2. Len(l) \in Nat /\ S \subseteq 1 .. Len(l)
  BY <1>1, LenProperties
<1>3. View!AcceptedRows(l, d, f) = View!Ascending(S)
  BY DEF View!AcceptedRows
<1> HIDE DEF S
<1>4. Range(View!Ascending(S)) = S
  BY <1>2, AscendingFacts
<1>5. QED
  BY <1>3, <1>4 DEF S

(* The filters look at the ids and the names of a database.                *)
LEMMA SameFilter ==
  ASSUME NEW d, NEW e, SameMessages(d, e), DOMAIN d \subseteq Nat,
         NEW l, NEW f, NEW row
  PROVE  View!FilterAcceptsRow(l, d, f, row) <=> View!FilterAcceptsRow(l, e, f, row)
<1> DEFINE found == {m \in DOMAIN d : d[m].id = l[row]}
<1>1. found = {m \in DOMAIN e : e[m].id = l[row]}
  BY DEF SameMessages
<1>2. View!FindMessage(e, l[row]) = View!FindMessage(d, l[row])
  BY <1>1 DEF View!FindMessage
<1>3. View!FindMessage(d, l[row]) = 0 \/ View!FindMessage(d, l[row]) \in DOMAIN d
  <2>1. CASE found = {}
    BY <2>1 DEF View!FindMessage, View!FirstOf
  <2>2. CASE found # {}
    <3>1. \E m \in found : \A n \in found : m <= n
      BY <2>2, LeastNumber
    <3>2. View!FindMessage(d, l[row]) = CHOOSE m \in found : \A n \in found : m <= n
      BY <2>2 DEF View!FindMessage, View!FirstOf
    <3>3. QED
      BY <3>1, <3>2
  <2>3. QED
    BY <2>1, <2>2
<1>4. \A column : View!Text(l, d, row, column) = View!Text(l, e, row, column)
  BY <1>2, <1>3 DEF View!Text, SameMessages
<1>5. QED
  BY <1>4 DEF View!FilterAcceptsRow

(* A table that is renewed shows what the files have.                      *)
LEMMA TableRenewed ==
  ASSUME log' \in Logs, msgDb' \in Seq(View!DbMessage), DbIsOfFile',
         visible' = View!AcceptedRows(log', msgDb', regex')
  PROVE  TableIsOfFiles'
<1>1. Range(visible') =
        {row \in DOMAIN log' : View!FilterAcceptsRow(log', msgDb', regex', row)}
  BY AcceptedRowsFacts
<1>2. DOMAIN msgDb' \subseteq Nat /\ SameMessages(msgDb', DbOf[dbcFile'])
  BY LenProperties DEF DbIsOfFile
<1>3. \A row : View!FilterAcceptsRow(log', msgDb', regex', row)
                 <=> View!FilterAcceptsRow(log', DbOf[dbcFile'], regex', row)
  BY <1>2, SameFilter
<1>4. {row \in DOMAIN log' : View!FilterAcceptsRow(log', msgDb', regex', row)}
        = {row \in DOMAIN log' : View!FilterAcceptsRow(log', DbOf[dbcFile'], regex', row)}
  BY <1>3
<1>5. QED
  BY <1>1, <1>4 DEF TableIsOfFiles

(* What is shown is the newest, in every step: a request that is under way *)
(* when the next one comes is forgotten, and none is when it is shown.     *)
LEMMA StepNewestIsShown == NewestIsShown /\ [Next]_vars => NewestIsShown'
<1> SUFFICES ASSUME NewestIsShown, [Next]_vars PROVE NewestIsShown'
  OBVIOUS
<1>1. ASSUME UNCHANGED <<logLoader, dbcLoader, up>> PROVE NewestIsShown'
  BY <1>1 DEF NewestIsShown, logLoader, dbcLoader
<1>2. CASE Open
  BY <1>1, <1>2 DEF Open, OpenDialog, OpenFile, OpenDbcFile, CancelOpenFile, Log!Request,
     Dbc!Request, NewestIsShown, logLoader, dbcLoader
<1>3. CASE Loaded
  BY <1>3 DEF Loaded, OnLoadLogFile, OnLoadDbcFile, OnLoadLogFileThrows, Log!Publish,
     Dbc!Publish, Log!Stop, Dbc!Stop, NewestIsShown, logLoader, dbcLoader
<1>4. CASE InView \/ InPlot
  BY <1>1, <1>4 DEF InView, InPlot
<1>5. CASE \E w \in graphlayout : OnPointNotify(w)
  BY <1>1, <1>5 DEF OnPointNotify
<1>6. CASE Close
  BY <1>6 DEF Close, Log!Stop, Dbc!Stop, NewestIsShown
<1>7. CASE UNCHANGED vars
  BY <1>1, <1>7 DEF vars
<1>8. QED
  BY <1>2, <1>3, <1>4, <1>5, <1>6, <1>7 DEF Next

(* A step in the table or the lists keeps the screen: only a filter renews *)
(* the rows, and a colour is none of what the screen is compared by.       *)
LEMMA ViewKeepsScreen ==
  ASSUME ScreenInv, msgDb \in Seq(View!DbMessage), UNCHANGED dbcFile,
         View!Highlight \/ View!Filter \/ View!Messages
  PROVE  DbIsOfFile' /\ TableIsOfFiles' /\ View!ListsAreCurrent'
<1>1. /\ log' = log /\ log \in Logs /\ msgDb' \in Seq(View!DbMessage)
      /\ SameMessages(msgDb', msgDb) /\ dbcFile' = dbcFile
  BY ViewsKeepLog DEF ScreenInv
<1>2. /\ DbIsOfFile /\ TableIsOfFiles /\ View!ListsAreCurrent
      /\ DOMAIN msgDb = 1 .. Len(msgDb) /\ Len(msgDb) \in Nat
  BY LenProperties DEF ScreenInv
<1>3. DbIsOfFile'
  BY <1>1, <1>2 DEF DbIsOfFile, SameMessages
<1>4. CASE \E column \in Columns : \/ View!RemoveFilter(column)
                                   \/ \E e \in Expressions : View!SetFilter(column, e)
  <2>1. /\ msgDb' = msgDb /\ visible' = View!AcceptedRows(log', msgDb', regex')
        /\ UNCHANGED <<msgIndex, msgRows, signalRows>>
    BY <1>4 DEF View!RemoveFilter, View!SetFilter, View!lists
  <2>2. TableIsOfFiles'
    BY <1>1, <1>3, <2>1, TableRenewed
  <2>3. QED
    BY <1>2, <1>3, <2>1, <2>2 DEF View!ListsAreCurrent
<1>5. ASSUME UNCHANGED <<visible, regex>> PROVE TableIsOfFiles'
  BY <1>1, <1>2, <1>5 DEF TableIsOfFiles
<1>6. CASE \E m \in 1 .. msgRows : View!OnMsgSelect(m)
  <2>1. PICK m \in 1 .. msgRows : View!OnMsgSelect(m)
    BY <1>6
  <2>2. UNCHANGED <<visible, regex, msgDb, msgRows>>
    BY <2>1 DEF View!OnMsgSelect
  <2>3. View!ListsAreCurrent'
    BY <1>2, <2>1, <2>2 DEF View!OnMsgSelect, View!ListsAreCurrent
  <2>4. QED
    BY <1>3, <1>5, <2>2, <2>3
<1>7. CASE \E c \in Colors : View!SetColor(c)
  <2>1. UNCHANGED <<visible, regex, msgIndex, msgRows, signalRows>> /\ Len(msgDb') = Len(msgDb)
    BY <1>7, SetColorFacts DEF View!SetColor, View!views, View!lists
  <2>2. \A m \in DOMAIN msgDb : msgDb'[m].signals = msgDb[m].signals
    BY <1>1 DEF SameMessages
  <2>3. View!ListsAreCurrent'
    BY <1>2, <2>1, <2>2 DEF View!ListsAreCurrent
  <2>4. QED
    BY <1>3, <1>5, <2>1, <2>3
<1>8. CASE /\ UNCHANGED <<visible, regex, msgIndex, msgRows, signalRows, msgDb>>
  BY <1>2, <1>3, <1>5, <1>8 DEF View!ListsAreCurrent
<1>9. QED
  BY <1>4, <1>6, <1>7, <1>8
     DEF View!Highlight, View!OnContextMenu, View!DismissMenu, View!MsgAction,
         View!IdAction, View!Filter, View!OnHeaderContextMenu, View!CancelFilter,
         View!Messages, View!EditColor, View!CancelColor, View!views, View!lists

(* ScreenInv is inductive, relative to WindowInv.                          *)
LEMMA InitScreenInv == Init => ScreenInv
<1> SUFFICES ASSUME Init PROVE ScreenInv
  OBVIOUS
<1>1. /\ NewestIsShown /\ log = <<>> /\ msgDb = <<>> /\ dbcFile = NoFiles /\ visible = <<>>
      /\ msgIndex = 0 /\ msgRows = 0 /\ signalRows = 0
  BY DEF Init, Log!Init, Dbc!Init, View!Init, NewestIsShown
<1>2. log \in Logs /\ DbIsOfFile
  BY <1>1 DEF Logs, DbIsOfFile, SameMessages
<1>3. TableIsOfFiles
  BY <1>1 DEF TableIsOfFiles, Range
<1>4. View!ListsAreCurrent
  BY <1>1, EmptySeq DEF View!ListsAreCurrent
<1>5. QED
  BY <1>1, <1>2, <1>3, <1>4 DEF ScreenInv

LEMMA StepScreenInv == WindowInv /\ ScreenInv /\ [Next]_vars => ScreenInv'
<1> SUFFICES ASSUME WindowInv, ScreenInv, [Next]_vars PROVE ScreenInv'
  OBVIOUS
<1>1. /\ FilesExist /\ msgDb \in Seq(View!DbMessage) /\ NewestIsShown' /\ log \in Logs
      /\ DbIsOfFile /\ TableIsOfFiles /\ View!ListsAreCurrent
  BY StepNewestIsShown DEF WindowInv, ScreenInv
<1>2. ASSUME UNCHANGED <<log, msgDb, viewVars>>, UNCHANGED dbcFile PROVE ScreenInv'
  BY <1>1, <1>2 DEF ScreenInv, DbIsOfFile, TableIsOfFiles, View!ListsAreCurrent, viewVars
<1>3. CASE Open \/ OnLoadLogFileThrows \/ InPlot \/ Close \/ UNCHANGED vars
           \/ \E w \in graphlayout : OnPointNotify(w)
  <2>1. UNCHANGED <<log, msgDb, viewVars>> /\ UNCHANGED dbcFile
    BY <1>3, PlotsKeepLog
       DEF Open, OpenDialog, OpenFile, OpenDbcFile, CancelOpenFile, OnLoadLogFileThrows,
           InPlot, Close, OnPointNotify, Dbc!Request, Dbc!Stop, dbcLoader, content, vars
  <2>2. QED
    BY <1>2, <2>1
<1>4. CASE OnLoadLogFile
  <2>1. /\ log' = LogRead(lineLogPath) /\ log' \in Logs /\ UNCHANGED <<msgDb, dbcFile, regex>>
        /\ visible' = View!AcceptedRows(log', msgDb', regex')
        /\ UNCHANGED <<msgIndex, msgRows, signalRows>>
    BY <1>1, <1>4, LoadedExists
       DEF OnLoadLogFile, Log!Publish, View!OnLoadLogFile, View!lists, dbcLoader
  <2>2. DbIsOfFile' /\ msgDb' \in Seq(View!DbMessage) /\ View!ListsAreCurrent'
    BY <1>1, <2>1 DEF DbIsOfFile, View!ListsAreCurrent
  <2>3. QED
    BY <1>1, <2>1, <2>2, TableRenewed DEF ScreenInv
<1>5. CASE OnLoadDbcFile
  <2>1. /\ msgDb' = DbOf[dbcFile'] /\ dbcFile' \in DOMAIN DbOf /\ UNCHANGED <<log, regex>>
        /\ msgDb' \in Seq(View!DbMessage)
        /\ visible' = View!AcceptedRows(log', msgDb', regex')
        /\ msgRows' = Len(msgDb') /\ msgIndex' = 0 /\ signalRows' = 0
    BY <1>1, <1>5, LoadedExists
       DEF OnLoadDbcFile, Dbc!Publish, View!OnLoadDbcFile, FilesExist, logLoader
  <2>2. DbIsOfFile' /\ View!ListsAreCurrent'
    BY <2>1, LenProperties DEF DbIsOfFile, SameMessages, View!ListsAreCurrent
  <2>3. QED
    BY <1>1, <2>1, <2>2, TableRenewed DEF ScreenInv
<1>6. CASE InView
  <2>1. UNCHANGED dbcFile /\ (View!Highlight \/ View!Filter \/ View!Messages)
    BY <1>6 DEF InView, dbcLoader
  <2>2. QED
    BY <1>1, <2>1, ViewKeepsScreen, ViewsKeepLog DEF ScreenInv
<1>7. QED
  BY <1>3, <1>4, <1>5, <1>6 DEF Next, Loaded

LEMMA ScreenInvariant == Spec => [](WindowInv /\ ScreenInv)
<1>1. QED
  BY InitWindowInv, StepWindowInv, InitScreenInv, StepScreenInv, PTL DEF Spec

(* The signals of a message are a list.                                    *)
LEMMA SignalsAreLists ==
  ASSUME NEW f \in DOMAIN DbOf, NEW m \in DOMAIN DbOf[f]
  PROVE  DbOf[f][m].signals \in Seq(Range(DbOf[f][m].signals))
<1>1. DbOf[f] \in Dbs
  BY DEF Dbs
<1>2. PICK d : d = Colourless(DbOf[f])
  OBVIOUS
<1>3. d \in {Colourless(e) : e \in Dbs} /\ m \in DOMAIN d /\ d[m].signals = DbOf[f][m].signals
  BY <1>1, <1>2 DEF Colourless
<1>4. d[m].signals \in Seq(Plot!Range(d[m].signals))
  BY <1>3 DEF Plot!DbsAssumption
<1>5. QED
  BY <1>3, <1>4 DEF Plot!Range, Range

(***************************************************************************)
(* The whole screen is of the files that were loaded, and of the ones      *)
(* whose names it shows once nothing is being read: for any files, any     *)
(* order of their results and anything done between them.                  *)
(***************************************************************************)
THEOREM WindowScreenIsOfTheFiles == Spec => []ScreenIsOfTheFiles
<1>1. WindowInv /\ ScreenInv => ScreenIsOfTheFiles
  <2> SUFFICES ASSUME WindowInv, ScreenInv PROVE ScreenIsOfTheFiles
    OBVIOUS
  <2>1. /\ log = LogRead(logFile) /\ NewestIsShown /\ TableIsOfFiles /\ View!ListsAreCurrent
        /\ SameMessages(msgDb, DbOf[dbcFile]) /\ \A w \in graphlayout : chart[w].log = log
        /\ DOMAIN msgDb = 1 .. Len(msgDb)
    BY LenProperties DEF WindowInv, ScreenInv, ChartsAreOfLog, DbIsOfFile
  <2>2. Colourless(View!MessageList) = Colourless(DbOf[dbcFile])
    <3>1. SameMessages(View!MessageList, DbOf[dbcFile])
      BY <2>1 DEF View!ListsAreCurrent, View!MessageList, SameMessages
    <3>2. QED
      BY <3>1, SameColourless
  <2>3. View!SignalList \in {<<>>} \cup {DbOf[dbcFile][m].signals : m \in DOMAIN DbOf[dbcFile]}
    <3>1. CASE msgIndex = 0
      BY <2>1, <3>1 DEF View!ListsAreCurrent, View!SignalList
    <3>2. CASE msgIndex # 0
      <4>1. /\ msgIndex \in DOMAIN msgDb /\ signalRows = Len(msgDb[msgIndex].signals)
            /\ msgDb[msgIndex].signals = DbOf[dbcFile][msgIndex].signals
        BY <2>1, <3>2 DEF View!ListsAreCurrent, SameMessages
      <4>2. /\ dbcFile \in DOMAIN DbOf /\ msgIndex \in DOMAIN DbOf[dbcFile]
        BY <2>1, <4>1 DEF ScreenInv, DbIsOfFile, SameMessages
      <4>3. PICK s : s = msgDb[msgIndex].signals
        OBVIOUS
      <4>4. s \in Seq(Range(s))
        BY <4>1, <4>2, <4>3, SignalsAreLists
      <4>5. View!SignalList = s
        <5>1. View!SignalList = [row \in 1 .. Len(s) |-> s[row]]
          BY <4>1, <4>3 DEF View!SignalList
        <5>2. s \in [1 .. Len(s) -> Range(s)]
          BY <4>4, LenProperties
        <5>3. QED
          BY <5>1, <5>2
      <4>6. QED
        BY <4>1, <4>2, <4>3, <4>5
    <3>3. QED
      BY <3>1, <3>2
  <2>4. QED
    BY <2>1, <2>2, <2>3 DEF ScreenIsOfTheFiles, NewestIsShown, TableIsOfFiles
<1>2. QED
  BY <1>1, ScreenInvariant, PTL

-----------------------------------------------------------------------------
(* With nothing open there is nothing to be stale.                         *)
LEMMA NothingOpen ==
  ASSUME viewUi' = "idle", plotUi' = "idle", DOMAIN dialog' = DOMAIN Plot!NoDialog
  PROVE  WaitInv'
BY DEF WaitInv, OneOpen, MenuIsOnLog, PlotMenuIsOnList, DialogIsOfDb

(* The loaded database, as the dialog sees it.                             *)
LEMMA DialogDb ==
  ASSUME ScreenInv, NEW d, d = Colourless(msgDb)
  PROVE  /\ DOMAIN d = DOMAIN msgDb /\ (d # <<>> <=> msgDb # <<>>)
         /\ DOMAIN msgDb \subseteq Nat \ {0}
         /\ msgDb # <<>> => 1 \in DOMAIN msgDb
         /\ \A m \in DOMAIN msgDb :
              /\ d[m].signals = msgDb[m].signals
              /\ msgDb[m].signals # <<>> => 1 \in DOMAIN msgDb[m].signals
<1>1. /\ dbcFile \in DOMAIN DbOf /\ SameMessages(msgDb, DbOf[dbcFile])
  BY DEF ScreenInv, DbIsOfFile
<1>2. /\ DOMAIN d = DOMAIN msgDb
      /\ \A m \in DOMAIN msgDb : d[m].signals = msgDb[m].signals
  BY DEF Colourless
<1>3. PICK e : e = DbOf[dbcFile]
  OBVIOUS
<1>4. e \in Dbs
  BY <1>1, <1>3 DEF Dbs
<1>5. PICK c : c = Colourless(e)
  OBVIOUS
<1>6. c \in Seq(Plot!Range(c)) /\ DOMAIN c = DOMAIN msgDb
  <2>1. c \in {Colourless(b) : b \in Dbs}
    BY <1>4, <1>5
  <2>2. DOMAIN c = DOMAIN msgDb
    BY <1>1, <1>3, <1>5 DEF Colourless, SameMessages
  <2>3. QED
    BY <2>1, <2>2 DEF Plot!DbsAssumption
<1>7. ASSUME NEW m \in DOMAIN msgDb, msgDb[m].signals # <<>>
      PROVE  1 \in DOMAIN msgDb[m].signals
  <2>1. PICK s : s = msgDb[m].signals
    OBVIOUS
  <2>2. s \in Seq(Range(s)) /\ s # <<>>
    BY <1>1, <1>7, <2>1, SignalsAreLists DEF SameMessages
  <2>3. QED
    BY <2>1, <2>2, EmptySeq, LenProperties
<1>8. DOMAIN msgDb = 1 .. Len(c) /\ Len(c) \in Nat
  BY <1>6, LenProperties
<1>9. msgDb # <<>> => 1 \in DOMAIN msgDb
  BY <1>8
<1>10. d # <<>> <=> msgDb # <<>>
  BY <1>2, <1>8
<1>11. QED
  BY <1>2, <1>7, <1>8, <1>9, <1>10

(* A message is selected in the dialog, and with it its first signal.      *)
LEMMA SelectedIsOfDb ==
  ASSUME ScreenInv, NEW d, DOMAIN d = DOMAIN Plot!NoDialog,
         d.messages = Plot!Names(Colourless(msgDb)),
         NEW m \in DOMAIN msgDb, NEW e, e = Plot!OnMsgIndexChanged(d, m)
  PROVE  /\ DOMAIN e = DOMAIN Plot!NoDialog
         /\ e.cmbMessage = m /\ e.messages = Plot!Names(Colourless(msgDb))
         /\ e.signals = msgDb[m].signals /\ e.cmbSignal \in {0} \cup DOMAIN e.signals
<1>1. PICK c : c = Colourless(msgDb)
  OBVIOUS
<1>2. /\ c[m].signals = msgDb[m].signals
      /\ msgDb[m].signals # <<>> => 1 \in DOMAIN msgDb[m].signals
  BY <1>1, DialogDb
<1>3. e = [d EXCEPT !.cmbMessage = m, !.signals = c[m].signals,
                    !.cmbSignal = IF c[m].signals = <<>> THEN 0 ELSE 1]
  BY <1>1 DEF Plot!OnMsgIndexChanged
<1>4. QED
  BY <1>2, <1>3 DEF Plot!NoDialog

(* A step in the table or the lists: a menu is opened on a row that the    *)
(* table shows, and leaves the log only if it is older.                    *)
LEMMA ViewKeepsWait ==
  ASSUME WindowInv, ScreenInv, WaitInv, InView
  PROVE  WaitInv'
<1>1. /\ UNCHANGED <<logPending, dbcPending, up, dialog, plotUi, fileDialog>>
      /\ up /\ fileDialog = "none" /\ plotUi = "idle"
      /\ View!Highlight \/ View!Filter \/ View!Messages
      /\ Wait
  BY DEF InView, logLoader, dbcLoader, plotVars
<1>2. DOMAIN dialog' = DOMAIN Plot!NoDialog
  BY <1>1 DEF WaitInv
<1>3. CASE viewUi' = "idle"
  BY <1>1, <1>2, <1>3, NothingOpen
<1>4. CASE viewUi' # "idle" /\ viewUi = "idle"
  <2>1. waited' = (~logPending /\ ~dbcPending)
    BY <1>1, <1>4 DEF Wait, Idle
  <2>2. log' = log /\ \A k \in DOMAIN visible : visible[k] \in DOMAIN log
    <3>1. log' = log
      BY <1>1, ViewsKeepLog DEF WindowInv
    <3>2. Range(visible) \subseteq DOMAIN log
      BY DEF ScreenInv, TableIsOfFiles
    <3>3. QED
      BY <3>1, <3>2 DEF Range
  <2>3. MenuIsOnLog'
    BY <1>1, <1>4, <2>2
       DEF MenuIsOnLog, View!Highlight, View!OnContextMenu, View!DismissMenu, View!MsgAction,
           View!IdAction, View!Filter, View!OnHeaderContextMenu, View!CancelFilter,
           View!RemoveFilter, View!SetFilter, View!Messages, View!OnMsgSelect,
           View!EditColor, View!CancelColor, View!SetColor, View!control
  <2>4. QED
    BY <1>1, <1>2, <2>1, <2>3 DEF WaitInv, OneOpen, PlotMenuIsOnList, DialogIsOfDb
<1>5. CASE viewUi' # "idle" /\ viewUi # "idle"
  <2>1. waited' = waited
    BY <1>1, <1>5 DEF Wait, Idle
  <2>2. viewUi = "menu" /\ viewMenu.row \notin DOMAIN log
    BY <1>1, <1>5
       DEF View!Highlight, View!OnContextMenu, View!DismissMenu, View!MsgAction,
           View!IdAction, View!Filter, View!OnHeaderContextMenu, View!CancelFilter,
           View!RemoveFilter, View!SetFilter, View!Messages, View!OnMsgSelect,
           View!EditColor, View!CancelColor, View!SetColor
  <2>3. ~waited'
    BY <2>1, <2>2 DEF WaitInv, MenuIsOnLog
  <2>4. QED
    BY <1>1, <1>2, <2>3 DEF WaitInv, OneOpen
<1>6. QED
  BY <1>3, <1>4, <1>5

(* A step in the plots: the menu is opened on a row of the list or on      *)
(* none, and the dialog on the messages of the database.                   *)
LEMMA PlotKeepsWait ==
  ASSUME ScreenInv, WaitInv, InPlot
  PROVE  WaitInv'
<1>1. /\ UNCHANGED <<logPending, dbcPending, up, msgDb, viewUi, fileDialog>>
      /\ up /\ fileDialog = "none" /\ viewUi = "idle"
      /\ Plot!AxisButton \/ Plot!Menu \/ Plot!Dialog
      /\ Wait
  BY DEF InPlot, logLoader, dbcLoader, viewVars
<1>2. DOMAIN dialog = DOMAIN Plot!NoDialog
  BY DEF WaitInv
<1>3. ASSUME DOMAIN dialog' = DOMAIN Plot!NoDialog,
             waited' => /\ plotUi' # "idle" => ~logPending /\ ~dbcPending
                        /\ PlotMenuIsOnList' /\ DialogIsOfDb'
      PROVE  WaitInv'
  BY <1>1, <1>3 DEF WaitInv, OneOpen, MenuIsOnLog
<1>4. waited' => (plotUi' # "idle" => ~logPending /\ ~dbcPending)
  BY <1>1 DEF Wait, Idle, WaitInv
<1>5. CASE \E row \in {0} \cup DOMAIN items : Plot!OnSignalPlotMenu(row)
  <2>1. /\ msgDb # <<>> /\ plotUi' = "menu" /\ menuRow' \in {0} \cup DOMAIN items
        /\ items' = items /\ dialog' = Plot!NoDialog
    BY <1>5, DialogDb DEF Plot!OnSignalPlotMenu, Plot!plots
  <2>2. QED
    BY <1>1, <1>3, <1>4, <2>1 DEF PlotMenuIsOnList, DialogIsOfDb
<1>6. CASE Plot!OnAddSignal
  <2>1. waited' = waited /\ plotUi = "menu" /\ plotUi' = "dialog"
    BY <1>1, <1>6 DEF Wait, Idle, Plot!OnAddSignal
  <2> DEFINE d == [Plot!NoDialog EXCEPT !.messages = Plot!Names(Colourless(msgDb))]
  <2>2. /\ DOMAIN d = DOMAIN Plot!NoDialog /\ d.messages = Plot!Names(Colourless(msgDb))
    BY DEF Plot!NoDialog
  <2>3. /\ msgDb = <<>> => dialog' = d
        /\ msgDb # <<>> => dialog' = Plot!OnMsgIndexChanged(d, 1) /\ 1 \in DOMAIN msgDb
    BY <1>6, DialogDb DEF Plot!OnAddSignal
  <2> HIDE DEF d
  <2>4. waited => msgDb # <<>>
    BY <2>1 DEF WaitInv, PlotMenuIsOnList
  <2>5. CASE msgDb = <<>>
    BY <1>3, <2>1, <2>2, <2>3, <2>4, <2>5
  <2>6. CASE msgDb # <<>>
    <3>1. /\ DOMAIN dialog' = DOMAIN Plot!NoDialog
          /\ dialog'.cmbMessage \in DOMAIN msgDb
          /\ dialog'.messages = Plot!Names(Colourless(msgDb))
          /\ dialog'.signals = msgDb[dialog'.cmbMessage].signals
          /\ dialog'.cmbSignal \in {0} \cup DOMAIN dialog'.signals
      BY <2>2, <2>3, <2>6, SelectedIsOfDb
    <3>2. QED
      BY <1>1, <1>3, <1>4, <2>1, <3>1 DEF PlotMenuIsOnList, DialogIsOfDb
  <2>7. QED
    BY <2>5, <2>6
<1>7. CASE \E m \in DOMAIN dialog.messages : /\ m \in DOMAIN msgDb
                                             /\ plotUi = "dialog" /\ plotUi' = plotUi
                                             /\ dialog' = Plot!OnMsgIndexChanged(dialog, m)
  <2>1. PICK m \in DOMAIN msgDb : dialog' = Plot!OnMsgIndexChanged(dialog, m)
    BY <1>7
  <2>2. waited' = waited
    BY <1>1, <1>7 DEF Wait, Idle
  <2>3. DOMAIN dialog' = DOMAIN Plot!NoDialog
    BY <1>2, <2>1 DEF Plot!OnMsgIndexChanged
  <2>4. ASSUME waited PROVE DialogIsOfDb'
    <3>1. dialog.messages = Plot!Names(Colourless(msgDb))
      BY <1>7, <2>4 DEF WaitInv, DialogIsOfDb
    <3>2. QED
      BY <1>1, <1>2, <2>1, <3>1, SelectedIsOfDb DEF DialogIsOfDb
  <2>5. QED
    BY <1>3, <1>4, <1>7, <2>2, <2>3, <2>4 DEF PlotMenuIsOnList
<1>8. CASE \E s \in DOMAIN dialog.signals : Plot!SelectSignal(s)
  <2>1. PICK s \in DOMAIN dialog.signals : Plot!SelectSignal(s)
    BY <1>8
  <2>2. /\ plotUi = "dialog" /\ plotUi' = "dialog" /\ dialog' = [dialog EXCEPT !.cmbSignal = s]
    BY <2>1 DEF Plot!SelectSignal
  <2>3. waited' = waited
    BY <1>1, <2>2 DEF Wait, Idle
  <2>4. /\ DOMAIN dialog' = DOMAIN Plot!NoDialog /\ dialog'.cmbSignal = s
        /\ dialog'.cmbMessage = dialog.cmbMessage /\ dialog'.messages = dialog.messages
        /\ dialog'.signals = dialog.signals
    BY <1>2, <2>2 DEF Plot!NoDialog
  <2>5. QED
    BY <1>1, <1>3, <1>4, <2>1, <2>2, <2>3, <2>4 DEF WaitInv, PlotMenuIsOnList, DialogIsOfDb
<1>9. CASE plotUi' \in {"idle", "undefined"} /\ DOMAIN dialog' = DOMAIN Plot!NoDialog
  BY <1>3, <1>4, <1>9 DEF PlotMenuIsOnList, DialogIsOfDb
<1>10. CASE Plot!AxisButton
  <2>1. plotUi' = "idle" /\ dialog' = dialog
    BY <1>10
       DEF Plot!AxisButton, Plot!OnAddXTick, Plot!OnRemXTick, Plot!OnAddYTick,
           Plot!OnRemYTick, Plot!OnZoomInX, Plot!OnZoomOutX, Plot!OnZoomInY,
           Plot!OnZoomOutY, Plot!OnResetAllAxis, Plot!Resize, Plot!control
  <2>2. QED
    BY <1>2, <1>9, <2>1
<1>11. CASE Plot!DismissMenu \/ Plot!OnRemoveSignal
  BY <1>2, <1>9, <1>11 DEF Plot!DismissMenu, Plot!OnRemoveSignal, Plot!Undefined
<1>12. CASE \E m \in DOMAIN dialog.messages : Plot!SelectMessage(m)
  BY <1>2, <1>7, <1>9, <1>12, DialogDb DEF Plot!SelectMessage, Plot!Undefined
<1>13. CASE \E result \in {"Accepted", "Rejected"} : Plot!DialogDone(result)
  <2>1. PICK result : Plot!DialogDone(result)
    BY <1>13
  <2>2. \/ plotUi' = "idle" /\ dialog' = [Plot!NoDialog EXCEPT !.result = result]
        \/ plotUi' = "undefined" /\ dialog' = dialog
    BY <2>1 DEF Plot!DialogDone, Plot!Undefined
  <2>3. QED
    BY <1>2, <1>9, <2>2 DEF Plot!NoDialog
<1>14. QED
  BY <1>1, <1>5, <1>6, <1>8, <1>10, <1>11, <1>12, <1>13 DEF Plot!Menu, Plot!Dialog

(* WaitInv is inductive, relative to ScreenInv.                            *)
LEMMA InitWaitInv == Init => WaitInv
BY DEF Init, View!Init, Plot!Init, WaitInv, OneOpen, MenuIsOnLog, PlotMenuIsOnList,
       DialogIsOfDb

LEMMA StepWaitInv == WindowInv /\ ScreenInv /\ WaitInv /\ [Next]_vars => WaitInv'
<1> SUFFICES ASSUME WindowInv, ScreenInv, WaitInv, [Next]_vars PROVE WaitInv'
  OBVIOUS
<1>1. ASSUME UNCHANGED content, UNCHANGED <<fileDialog, waited>>,
             ~logPending => ~logPending', ~dbcPending => ~dbcPending'
      PROVE  WaitInv'
  BY <1>1 DEF WaitInv, OneOpen, MenuIsOnLog, PlotMenuIsOnList, DialogIsOfDb, content,
     viewVars, plotVars
<1>2. CASE Open \/ Close
  <2>1. viewUi = "idle" /\ plotUi = "idle" /\ UNCHANGED content
    BY <1>2
       DEF Open, OpenDialog, OpenFile, OpenDbcFile, CancelOpenFile, Close, Idle, WaitInv, OneOpen
  <2>2. QED
    BY <2>1, NothingOpen DEF content, viewVars, plotVars, WaitInv
<1>3. CASE OnLoadLogFile \/ OnLoadDbcFile
  <2>1. /\ logPending \/ dbcPending
        /\ viewUi' = viewUi \/ viewUi' = "idle"
        /\ UNCHANGED <<plotUi, dialog, fileDialog, waited>>
    BY <1>3 DEF OnLoadLogFile, OnLoadDbcFile, Log!Publish, Dbc!Publish, View!OnLoadLogFile,
       View!OnLoadDbcFile, Plot!OnLoadLogFile, Plot!OnLoadDbcFile
  <2>2. waited => viewUi = "idle" /\ plotUi = "idle"
    BY <2>1 DEF WaitInv
  <2>3. QED
    BY <2>1, <2>2
       DEF WaitInv, OneOpen, MenuIsOnLog, PlotMenuIsOnList, DialogIsOfDb
<1>4. CASE OnLoadLogFileThrows
  BY <1>1, <1>4 DEF OnLoadLogFileThrows, Log!Stop, Dbc!Stop
<1>5. CASE InView \/ InPlot
  BY <1>5, ViewKeepsWait, PlotKeepsWait
<1>6. CASE \E w \in graphlayout : OnPointNotify(w)
  <2>1. UNCHANGED content /\ UNCHANGED <<fileDialog, waited, logPending, dbcPending>>
    BY <1>6 DEF OnPointNotify, logLoader, dbcLoader
  <2>2. QED
    BY <1>1, <2>1
<1>7. CASE UNCHANGED vars
  <2>1. UNCHANGED content /\ UNCHANGED <<fileDialog, waited, logPending, dbcPending>>
    BY <1>7 DEF vars, logLoader, dbcLoader
  <2>2. QED
    BY <1>1, <2>1
<1>8. QED
  BY <1>2, <1>3, <1>4, <1>5, <1>6, <1>7 DEF Next, Loaded

(***************************************************************************)
(* Who opens menus only when nothing is being read never has the program   *)
(* read out of range, but for an empty log and a message without signals.  *)
(***************************************************************************)
THEOREM WindowWaitingIsSafe == Spec => WaitingIsSafe
<1> DEFINE Safe == waited =>
             /\ viewUi' # "undefined"
             /\ plotUi' = "undefined" =>
                  \/ log = <<>>
                  \/ plotUi = "dialog" /\ dialog.cmbMessage # 0 /\ dialog.cmbSignal = 0
<1>1. ScreenInv /\ WaitInv /\ [Next]_vars => [Safe]_vars
  <2> SUFFICES ASSUME ScreenInv, WaitInv, Next, waited PROVE Safe
    OBVIOUS
  <2>1. /\ MenuIsOnLog /\ PlotMenuIsOnList /\ DialogIsOfDb /\ OneOpen
        /\ viewUi # "idle" \/ plotUi # "idle" => ~logPending /\ ~dbcPending
    BY DEF WaitInv
  <2>2. ASSUME viewUi = "idle", plotUi = "idle", UNCHANGED <<viewUi, plotUi>> PROVE Safe
    BY <2>2
  <2>3. CASE Open \/ Close \/ \E w \in graphlayout : OnPointNotify(w)
    BY <2>1, <2>2, <2>3
       DEF Open, OpenDialog, OpenFile, OpenDbcFile, CancelOpenFile, Close, OnPointNotify,
           Idle, OneOpen, content, viewVars, plotVars
  <2>4. CASE Loaded
    BY <2>1, <2>2, <2>4
       DEF Loaded, OnLoadLogFile, OnLoadDbcFile, OnLoadLogFileThrows, Log!Publish,
           Dbc!Publish, View!OnLoadLogFile, View!OnLoadDbcFile, Plot!OnLoadLogFile,
           Plot!OnLoadDbcFile, content, viewVars, plotVars
  <2>5. CASE InView
    <3>1. plotUi' = "idle" /\ (View!Highlight \/ View!Filter \/ View!Messages)
      BY <2>5 DEF InView, plotVars
    <3>2. viewUi' # "undefined"
      BY <2>1, <3>1
         DEF MenuIsOnLog, View!Highlight, View!OnContextMenu, View!DismissMenu, View!MsgAction,
             View!IdAction, View!Filter, View!OnHeaderContextMenu, View!CancelFilter,
             View!RemoveFilter, View!SetFilter, View!Messages, View!OnMsgSelect,
             View!EditColor, View!CancelColor, View!SetColor, View!control
    <3>3. QED
      BY <3>1, <3>2
  <2>6. CASE InPlot
    <3>1. /\ viewUi' = "idle"
          /\ Plot!AxisButton \/ Plot!Menu \/ Plot!Dialog
      BY <2>6 DEF InPlot, viewVars
    <3>2. CASE Plot!AxisButton
      BY <3>1, <3>2
         DEF Plot!AxisButton, Plot!OnAddXTick, Plot!OnRemXTick, Plot!OnAddYTick,
             Plot!OnRemYTick, Plot!OnZoomInX, Plot!OnZoomOutX, Plot!OnZoomInY,
             Plot!OnZoomOutY, Plot!OnResetAllAxis, Plot!Resize, Plot!control
    <3>3. CASE Plot!Menu
      BY <2>1, <3>1, <3>3
         DEF Plot!Menu, Plot!OnSignalPlotMenu, Plot!DismissMenu, Plot!OnRemoveSignal,
             Plot!OnAddSignal, Plot!Undefined, PlotMenuIsOnList
    <3>4. CASE \E m \in DOMAIN dialog.messages : Plot!SelectMessage(m)
      <4>1. PICK m \in DOMAIN dialog.messages : Plot!SelectMessage(m)
        BY <3>4
      <4>2. m \in DOMAIN Colourless(msgDb)
        BY <2>1, <4>1 DEF Plot!SelectMessage, DialogIsOfDb, Plot!Names
      <4>3. plotUi' = "dialog"
        BY <4>1, <4>2 DEF Plot!SelectMessage
      <4>4. QED
        BY <3>1, <4>3
    <3>5. CASE \E s \in DOMAIN dialog.signals : Plot!SelectSignal(s)
      BY <3>1, <3>5 DEF Plot!SelectSignal
    <3>6. CASE \E result \in {"Accepted", "Rejected"} : Plot!DialogDone(result)
      <4>1. PICK result : Plot!DialogDone(result)
        BY <3>6
      <4>2. PICK c, m, s : c = Colourless(msgDb) /\ m = dialog.cmbMessage /\ s = dialog.cmbSignal
        OBVIOUS
      <4>3. /\ plotUi = "dialog" /\ m \in DOMAIN msgDb /\ DOMAIN msgDb \subseteq Nat \ {0}
            /\ DOMAIN c = DOMAIN msgDb /\ c[m].signals = dialog.signals
            /\ s \in {0} \cup DOMAIN dialog.signals
        <5>1. /\ plotUi = "dialog" /\ m \in DOMAIN msgDb /\ s \in {0} \cup DOMAIN dialog.signals
              /\ dialog.signals = msgDb[m].signals
          BY <2>1, <4>1, <4>2 DEF Plot!DialogDone, DialogIsOfDb
        <5>2. DOMAIN c = DOMAIN msgDb /\ c[m].signals = msgDb[m].signals
          BY <4>2, <5>1, DialogDb
        <5>3. DOMAIN msgDb \subseteq Nat \ {0}
          BY <4>2, DialogDb
        <5>4. QED
          BY <5>1, <5>2, <5>3
      <4>4. CASE m \in DOMAIN c /\ s \in DOMAIN c[m].signals /\ log # <<>>
        BY <3>1, <4>1, <4>2, <4>4 DEF Plot!DialogDone, Plot!Undefined
      <4>5. CASE ~(m \in DOMAIN c /\ s \in DOMAIN c[m].signals /\ log # <<>>)
        BY <3>1, <4>2, <4>3, <4>5
      <4>6. QED
        BY <4>4, <4>5
    <3>7. QED
      BY <3>1, <3>2, <3>3, <3>4, <3>5, <3>6 DEF Plot!Dialog
  <2>7. QED
    BY <2>3, <2>4, <2>5, <2>6 DEF Next
<1>2. Spec => [](ScreenInv /\ WaitInv)
  BY InitWindowInv, StepWindowInv, InitScreenInv, StepScreenInv, InitWaitInv, StepWaitInv,
     PTL DEF Spec
<1>3. QED
  BY <1>1, <1>2, PTL DEF Spec, WaitingIsSafe
=============================================================================
