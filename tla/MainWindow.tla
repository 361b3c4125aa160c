----------------------------- MODULE MainWindow -----------------------------
(***************************************************************************)
(* The window as one system: the two loaders, each as LatestWins promises  *)
(* (LogLoader and DbcLoader implement it), the table and the lists of      *)
(* LogView and the plots of SignalPlot, which share the log and the        *)
(* database, the file dialogs and the status bar.  Menus and dialogs leave *)
(* one thing open at a time; results of loads arrive all the same.         *)
(***************************************************************************)
EXTENDS Integers, Sequences, SequencesExt

CONSTANTS
  NoFile, LogOf,     \* the logs in the files that may be opened; "" is none
  NoFiles, DbOf,     \* the databases in the lists of files that may be chosen
  Columns, Expressions, Colors,                         \* of LogView
  Span, MaxCharts, MaxZoom, defaultMinChartSize,        \* of SignalPlot
  defaultYTick, defaultTickPerSec, defaultWidthPerSec, minChartSizeStep

VARIABLES
  lineLogPath, logFile, logPending,  \* the name on display, the file whose log
  lineDbcPath, dbcFile, dbcPending,  \* is, and whether a load is under way
  up,
  log, msgDb,
  rowList, idList, regex, visible, msgIndex, msgRows, signalRows,   \* LogView's
  viewUi, viewMenu, editRow, viewFresh, stale,
  time, items, widgets, chart, graphlayout, minChartSize, yTick,    \* SignalPlot's
  widthPerSec, tickPerSec, plotUi, menuRow, dialog, plotFresh,
  fileDialog,  \* "none", "log" or "dbc"
  statusbar,   \* its text, and the log that a point's label was made from
  waited       \* history: nothing was being read when the menu that is open,
               \* or was before the dialog, was opened

logLoader == <<lineLogPath, logFile, logPending>>
dbcLoader == <<lineDbcPath, dbcFile, dbcPending>>
viewVars == <<rowList, idList, regex, visible, msgIndex, msgRows, signalRows, viewUi,
              viewMenu, editRow, viewFresh, stale>>
plotVars == <<time, items, widgets, chart, graphlayout, minChartSize, yTick, widthPerSec,
              tickPerSec, plotUi, menuRow, dialog, plotFresh>>
content == <<log, msgDb, viewVars, plotVars>>
vars == <<logLoader, dbcLoader, up, content, fileDialog, statusbar, waited>>

LogRead(f) == IF f = NoFile THEN <<>> ELSE LogOf[f]
Logs == {<<>>} \cup {LogOf[f] : f \in DOMAIN LogOf}
Dbs == {DbOf[f] : f \in DOMAIN DbOf}

(* The plots do not look at the colours of messages.                       *)
Colourless(d) == [m \in DOMAIN d |-> [id |-> d[m].id, signals |-> d[m].signals]]

Log == INSTANCE LatestWins
  WITH Requests <- DOMAIN LogOf, Nothing <- NoFile, requested <- lineLogPath,
       published <- logFile, pending <- logPending

Dbc == INSTANCE LatestWins
  WITH Requests <- DOMAIN DbOf, Nothing <- NoFiles, requested <- lineDbcPath,
       published <- dbcFile, pending <- dbcPending

View == INSTANCE LogView WITH ui <- viewUi, menu <- viewMenu, fresh <- viewFresh

Plot == INSTANCE SignalPlot
  WITH Dbs <- {Colourless(d) : d \in Dbs}, EmptyLog <- <<>>, msgDb <- Colourless(msgDb),
       ui <- plotUi, fresh <- plotFresh

ASSUME WindowAssumption ==
  /\ NoFile \notin DOMAIN LogOf
  /\ NoFiles \in DOMAIN DbOf /\ DbOf[NoFiles] = <<>>
  /\ View!ViewAssumption
  /\ Plot!DbsAssumption /\ Plot!LogsAssumption /\ Plot!SettingsAssumption

NoMessage == [text |-> "", log |-> <<>>]

TypeOK ==
  /\ Log!TypeOK /\ Dbc!TypeOK /\ View!TypeOK /\ Plot!TypeOK
  /\ fileDialog \in {"none", "log", "dbc"}
  /\ statusbar \in [text : {"", "Loading...", "point"}, log : Logs]
  /\ waited \in BOOLEAN

Init ==
  /\ Log!Init /\ Dbc!Init /\ View!Init /\ Plot!Init
  /\ fileDialog = "none"
  /\ statusbar = NoMessage
  /\ waited = TRUE

(* The window takes clicks: no popup, modal dialog or editor is open.      *)
Idle == up /\ fileDialog = "none" /\ viewUi = "idle" /\ plotUi = "idle"

-----------------------------------------------------------------------------
(* openFile and openDbcFile: a modal dialog, and the rest of the slot.     *)

(* Mutant: the dialog is not modal, and opens over a menu.                 *)
OpenDialogModeless(kind) ==
  /\ up /\ fileDialog = "none"
  /\ fileDialog' = kind
  /\ UNCHANGED <<logLoader, dbcLoader, up, content, statusbar, waited>>

OpenDialog(kind) ==
  /\ Idle
  /\ fileDialog' = kind
  /\ UNCHANGED <<logLoader, dbcLoader, up, content, statusbar, waited>>

OpenFile(f) ==
  /\ fileDialog = "log"
  /\ Log!Request(f)
  /\ fileDialog' = "none"
  /\ statusbar' = [NoMessage EXCEPT !.text = "Loading..."]
  /\ UNCHANGED <<dbcLoader, content, waited>>

(* The name "" of a cancelled dialog.                                      *)
CancelOpenFile ==
  /\ fileDialog = "log"
  /\ fileDialog' = "none"
  /\ UNCHANGED <<logLoader, dbcLoader, up, content, statusbar, waited>>

(* A cancelled dialog gives an empty list, which is loaded like any other. *)
OpenDbcFile(files) ==
  /\ fileDialog = "dbc"
  /\ Dbc!Request(files)
  /\ fileDialog' = "none"
  /\ UNCHANGED <<logLoader, content, statusbar, waited>>

-----------------------------------------------------------------------------
(* The slots of the two watchers.                                          *)

(* Mutant: the message in the status bar stays.                            *)
OnLoadLogFileKeepsMessage ==
  /\ Log!Publish
  /\ View!OnLoadLogFile(LogRead(logFile'))
  /\ Plot!OnLoadLogFile(LogRead(logFile'))
  /\ UNCHANGED <<dbcLoader, fileDialog, statusbar, waited>>

(* Mutant: the plots are reset only for a log that is not empty.           *)
OnLoadLogFileKeepsPlots ==
  /\ Log!Publish
  /\ View!OnLoadLogFile(LogRead(logFile'))
  /\ IF log' = <<>> THEN UNCHANGED plotVars ELSE Plot!OnLoadLogFile(log')
  /\ statusbar' = NoMessage
  /\ UNCHANGED <<dbcLoader, fileDialog, waited>>

OnLoadLogFile ==
  /\ Log!Publish
  /\ View!OnLoadLogFile(LogRead(logFile'))
  /\ Plot!OnLoadLogFile(LogRead(logFile'))
  /\ statusbar' = NoMessage
  /\ UNCHANGED <<dbcLoader, fileDialog, waited>>

OnLoadDbcFile ==
  /\ Dbc!Publish
  /\ View!OnLoadDbcFile(DbOf[dbcFile'])
  /\ Plot!OnLoadDbcFile(Colourless(msgDb'))
  /\ UNCHANGED <<logLoader, fileDialog, statusbar, waited>>

(* result() throws what the parser threw, and the program ends.            *)
OnLoadLogFileThrows ==
  /\ logPending
  /\ Log!Stop /\ Dbc!Stop
  /\ statusbar' = NoMessage
  /\ UNCHANGED <<content, fileDialog, waited>>

-----------------------------------------------------------------------------
(* Everything else the user does.                                          *)

Wait ==
  waited' = CASE Idle'          -> TRUE
              [] Idle /\ ~Idle' -> ~logPending /\ ~dbcPending
              [] OTHER          -> waited

InView ==
  /\ up /\ fileDialog = "none" /\ plotUi = "idle"
  /\ UNCHANGED <<logLoader, dbcLoader, up, plotVars, fileDialog, statusbar>>
  /\ View!Highlight \/ View!Filter \/ View!Messages
  /\ Wait

InPlot ==
  /\ up /\ fileDialog = "none" /\ viewUi = "idle"
  /\ UNCHANGED <<logLoader, dbcLoader, up, msgDb, viewVars, fileDialog, statusbar>>
  /\ Plot!AxisButton \/ Plot!Menu \/ Plot!Dialog
  /\ Wait

(* The mouse is over a chart.                                              *)
OnPointNotify(w) ==
  /\ Idle
  /\ statusbar' = [text |-> "point", log |-> chart[w].log]
  /\ UNCHANGED <<logLoader, dbcLoader, up, content, fileDialog, waited>>

Close ==
  /\ Idle
  /\ Log!Stop /\ Dbc!Stop
  /\ UNCHANGED <<content, fileDialog, statusbar, waited>>

Open ==
  \/ \E kind \in {"log", "dbc"} : OpenDialog(kind)
  \/ \E f \in DOMAIN LogOf : OpenFile(f)
  \/ \E files \in DOMAIN DbOf : OpenDbcFile(files)
  \/ CancelOpenFile

Loaded == OnLoadLogFile \/ OnLoadDbcFile \/ OnLoadLogFileThrows

Next == Open \/ Loaded \/ InView \/ InPlot \/ (\E w \in graphlayout : OnPointNotify(w)) \/ Close

Spec == Init /\ [][Next]_vars

-----------------------------------------------------------------------------
(* Everything on the screen is of the files that were loaded, in whichever *)
(* order their results came in and whatever was filtered, coloured and     *)
(* plotted between them: the rows of the table, both lists, every chart.   *)
(* Once nothing is being read these are the files named on the screen.     *)
ScreenIsOfTheFiles ==
  LET l == LogRead(logFile)
      d == DbOf[dbcFile]
  IN  /\ up /\ ~logPending => logFile = lineLogPath
      /\ up /\ ~dbcPending => dbcFile = lineDbcPath
      /\ Range(visible) = {row \in DOMAIN l : View!FilterAcceptsRow(l, d, regex, row)}
      /\ Colourless(View!MessageList) = Colourless(d)
      /\ View!SignalList \in {<<>>} \cup {d[m].signals : m \in DOMAIN d}
      /\ \A w \in graphlayout : chart[w].log = l

(* The label of a point in the status bar is of the log that was loaded.   *)
LabelIsOfThisLog == statusbar.text = "point" => statusbar.log = LogRead(logFile)

(* Who opens a menu when nothing is being read meets no stale index: the   *)
(* table reads nothing out of range then, and the plots only an empty log  *)
(* or a message without signals.                                           *)
WaitingIsSafe ==
  [][waited =>
       /\ viewUi' # "undefined"
       /\ plotUi' = "undefined" =>
            \/ log = <<>>
            \/ plotUi = "dialog" /\ dialog.cmbMessage # 0 /\ dialog.cmbSignal = 0]_vars
=============================================================================
