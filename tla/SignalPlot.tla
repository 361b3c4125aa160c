----------------------------- MODULE SignalPlot -----------------------------
(***************************************************************************)
(* The signal plots: the list of plotted signals (SignalPlotListModel) and *)
(* its charts, the context menu and the dialog that add and remove them    *)
(* (onSignalPlotMenu, SignalSelectDialog, onAddSignal, onRemoveSignal) and *)
(* the buttons that resize all charts (updateChartAxis and the slots that  *)
(* call it).  The menu is a popup and the dialog runs an event loop of its *)
(* own, so a log or a database may arrive while either is open; of         *)
(* onLoadLogFile and onLoadDbcFile this module has what concerns plots.    *)
(*                                                                         *)
(* A database is a sequence of messages, a message a record with the       *)
(* sequence of its signals.  Rows and indexes count from 1; 0 stands for   *)
(* the index -1 of an empty combo box and for an invalid QModelIndex.      *)
(***************************************************************************)
EXTENDS Integers, Sequences, SequencesExt

CONSTANTS
  Dbs,               \* the databases that may be loaded
  Logs,              \* the logs that may be loaded
  EmptyLog,          \* the one without messages
  Span,              \* the time from the first to the last message of a log
  MaxCharts,         \* bound: how many charts exist at once
  defaultMinChartSize, defaultYTick, defaultTickPerSec, defaultWidthPerSec,
  minChartSizeStep,
  MaxZoom            \* bound: how far a setting goes above its default

ASSUME DbsAssumption ==
  /\ <<>> \in Dbs
  /\ \A d \in Dbs : /\ d \in Seq(Range(d))
                    /\ \A m \in DOMAIN d : d[m].signals \in Seq(Range(d[m].signals))
ASSUME LogsAssumption == EmptyLog \in Logs /\ Span \in [Logs -> Nat]
ASSUME SettingsAssumption ==
  /\ {MaxCharts, defaultMinChartSize, defaultYTick, defaultTickPerSec,
      defaultWidthPerSec, minChartSizeStep} \subseteq Nat \ {0}
  /\ MaxZoom \in Nat

VARIABLES
  log, msgDb,       \* what the window has loaded
  time,             \* the span of the last log that was not empty
  items,            \* SignalPlotListModel::items: message and signal
  widgets,          \* SignalPlotListModel::widgets: a chart for each item
  chart,            \* the charts
  graphlayout,      \* the charts on the screen
  minChartSize, yTick, widthPerSec,
  tickPerSec,       \* in steps of tickPerSecStep
  ui,               \* "menu": the popup is open; "undefined": at() or remove()
                    \* was called out of range, and anything may follow
  menuRow,          \* the row the menu was opened on, 0: none
  dialog,           \* the SignalSelectDialog
  fresh             \* history: nothing was loaded since the menu was opened

loaded == <<log, msgDb, time>>
plots == <<items, widgets, chart, graphlayout>>
settings == <<minChartSize, yTick, widthPerSec, tickPerSec>>
control == <<ui, menuRow, dialog, fresh>>
vars == <<log, msgDb, time, items, widgets, chart, graphlayout, minChartSize,
          yTick, widthPerSec, tickPerSec, ui, menuRow, dialog, fresh>>

ChartIds == 1 .. MaxCharts
Signals == UNION {UNION {Range(d[m].signals) : m \in DOMAIN d} : d \in Dbs}
Ids == UNION {{d[m].id : m \in DOMAIN d} : d \in Dbs}

NoChart == [signal |-> "none", log |-> EmptyLog, width |-> 0, height |-> 0,
            xTick |-> 0, yTick |-> 0]
NoDialog == [messages |-> <<>>, signals |-> <<>>, cmbMessage |-> 0, cmbSignal |-> 0,
             result |-> "none"]

Item == [msgId : Ids, signal : Signals]
Chart == [signal : Signals \cup {"none"}, log : Logs, width : Nat, height : Nat,
          xTick : Nat, yTick : Nat]
DialogState == [messages : Seq(Ids), signals : Seq(Signals), cmbMessage : Nat,
                cmbSignal : Nat, result : {"none", "Accepted", "Rejected"}]

TypeOK ==
  /\ log \in Logs /\ msgDb \in Dbs /\ time \in Nat
  /\ items \in Seq(Item)
  /\ widgets \in Seq(ChartIds)
  /\ chart \in [ChartIds -> Chart]
  /\ graphlayout \subseteq ChartIds
  /\ {minChartSize, yTick, widthPerSec, tickPerSec} \subseteq Nat
  /\ ui \in {"idle", "menu", "dialog", "undefined"}
  /\ menuRow \in Nat
  /\ dialog \in DialogState
  /\ fresh \in BOOLEAN

Init ==
  /\ log = EmptyLog /\ msgDb = <<>> /\ time = 0
  /\ items = <<>> /\ widgets = <<>>
  /\ chart = [w \in ChartIds |-> NoChart] /\ graphlayout = {}
  /\ minChartSize = defaultMinChartSize /\ yTick = defaultYTick
  /\ widthPerSec = defaultWidthPerSec /\ tickPerSec = defaultTickPerSec
  /\ ui = "idle" /\ menuRow = 0 /\ dialog = NoDialog /\ fresh = TRUE

Undefined ==
  /\ ui' = "undefined"
  /\ UNCHANGED <<loaded, plots, settings, menuRow, dialog, fresh>>

-----------------------------------------------------------------------------
(* The axes of a chart.                                                    *)

(* QValueAxis::setTickCount ignores a count below two.                     *)
SetTickCount(old, n) == IF n >= 2 THEN n ELSE old

(* The tick count of a new axis.                                           *)
DefaultTickCount == 5

(* time * tickPerSec, cut to an integer; a step is 0.01.                   *)
XTickCount(ticks) == (time * ticks) \div 100

Resized(c, size, width, ticks, y) ==
  [c EXCEPT !.width = time * width, !.height = size,
            !.xTick = SetTickCount(@, XTickCount(ticks)), !.yTick = SetTickCount(@, y)]

(* A click on one of the buttons: the new settings, and updateChartAxis.   *)
Resize(size, y, width, ticks) ==
  /\ ui = "idle"
  /\ minChartSize' = size /\ yTick' = y /\ widthPerSec' = width /\ tickPerSec' = ticks
  /\ chart' = [w \in ChartIds |-> IF w \in Range(widgets)
                                  THEN Resized(chart[w], size, width, ticks, y)
                                  ELSE chart[w]]
  /\ UNCHANGED <<loaded, items, widgets, graphlayout, control>>

OnAddXTick ==
  /\ tickPerSec < defaultTickPerSec + MaxZoom
  /\ Resize(minChartSize, yTick, widthPerSec, tickPerSec + 1)

(* The sum of steps is rounded: at nominally one step, tickPerSec may or   *)
(* may not be above tickPerSecStep.                                        *)
OnRemXTick ==
  \/ tickPerSec > 0 /\ Resize(minChartSize, yTick, widthPerSec, tickPerSec - 1)
  \/ tickPerSec <= 1 /\ Resize(minChartSize, yTick, widthPerSec, tickPerSec)

OnAddYTick ==
  /\ yTick < defaultYTick + MaxZoom
  /\ Resize(minChartSize, yTick + 1, widthPerSec, tickPerSec)

OnRemYTick ==
  Resize(minChartSize, IF yTick > 1 THEN yTick - 1 ELSE yTick, widthPerSec, tickPerSec)

OnZoomInX ==
  /\ widthPerSec < defaultWidthPerSec + MaxZoom
  /\ Resize(minChartSize, yTick, widthPerSec + 1, tickPerSec)

OnZoomOutX ==
  Resize(minChartSize, yTick, IF widthPerSec > 1 THEN widthPerSec - 1 ELSE widthPerSec,
         tickPerSec)

OnZoomInY ==
  /\ minChartSize < defaultMinChartSize + MaxZoom * minChartSizeStep
  /\ Resize(minChartSize + minChartSizeStep, yTick, widthPerSec, tickPerSec)

OnZoomOutY ==
  Resize(IF minChartSize > minChartSizeStep THEN minChartSize - minChartSizeStep
                                            ELSE minChartSize,
         yTick, widthPerSec, tickPerSec)

(* Mutant: the charts keep the size they had.                              *)
OnResetAllAxisNoUpdate ==
  /\ ui = "idle"
  /\ minChartSize' = defaultMinChartSize /\ yTick' = defaultYTick
  /\ widthPerSec' = defaultWidthPerSec /\ tickPerSec' = defaultTickPerSec
  /\ UNCHANGED <<loaded, plots, control>>

OnResetAllAxis ==
  Resize(defaultMinChartSize, defaultYTick, defaultWidthPerSec, defaultTickPerSec)

AxisButton ==
  \/ OnAddXTick \/ OnRemXTick \/ OnAddYTick \/ OnRemYTick
  \/ OnZoomInX \/ OnZoomOutX \/ OnZoomInY \/ OnZoomOutY \/ OnResetAllAxis

-----------------------------------------------------------------------------
(* The context menu and the dialog.                                        *)

(* Mutant: the menu is offered without a database.                         *)
OnSignalPlotMenuAlways(row) ==
  /\ ui = "idle"
  /\ ui' = "menu"
  /\ menuRow' = row
  /\ fresh' = TRUE
  /\ dialog' = NoDialog
  /\ UNCHANGED <<loaded, plots, settings>>

(* onSignalPlotMenu on a row of the list, or below the last one: the       *)
(* actions of the popup keep the index.                                    *)
OnSignalPlotMenu(row) ==
  /\ ui = "idle"
  /\ msgDb # <<>>
  /\ ui' = "menu"
  /\ menuRow' = row
  /\ fresh' = TRUE
  /\ dialog' = NoDialog
  /\ UNCHANGED <<loaded, plots, settings>>

(* The popup is closed without a choice.                                   *)
DismissMenu ==
  /\ ui = "menu"
  /\ ui' = "idle"
  /\ UNCHANGED <<loaded, plots, settings, menuRow, dialog, fresh>>

(* Mutant: the chart stays in the list of widgets.                         *)
RemoveItemKeepsWidget(row) ==
  /\ items' = RemoveAt(items, row)
  /\ graphlayout' = graphlayout \ {widgets[row]}
  /\ chart' = [chart EXCEPT ![widgets[row]] = NoChart]
  /\ UNCHANGED widgets

(* removeItem takes the item and its chart off the two lists.              *)
RemoveItem(row) ==
  /\ items' = RemoveAt(items, row)
  /\ widgets' = RemoveAt(widgets, row)
  /\ graphlayout' = graphlayout \ {widgets[row]}
  /\ chart' = [chart EXCEPT ![widgets[row]] = NoChart]

(* The lambda of "Remove signal": its index is the one of the popup, valid *)
(* however many rows the list has by now.                                  *)
OnRemoveSignal ==
  /\ ui = "menu"
  /\ menuRow # 0
  /\ \/ /\ menuRow \in DOMAIN items
        /\ RemoveItem(menuRow)
        /\ ui' = "idle"
        /\ UNCHANGED <<loaded, settings, menuRow, dialog, fresh>>
     \/ /\ menuRow \notin DOMAIN items
        /\ Undefined

Names(messages) == [m \in DOMAIN messages |-> messages[m].id]

(* onMsgIndexChanged(m): the signals of the message now at index m.        *)
OnMsgIndexChanged(d, m) ==
  [d EXCEPT !.cmbMessage = m, !.signals = msgDb[m].signals,
            !.cmbSignal = IF msgDb[m].signals = <<>> THEN 0 ELSE 1]

(* onAddSignal up to dialog.exec().  Filling the combo box of an empty     *)
(* dialog selects the first message.                                       *)
OnAddSignal ==
  /\ ui = "menu"
  /\ graphlayout # ChartIds
  /\ ui' = "dialog"
  /\ LET d == [NoDialog EXCEPT !.messages = Names(msgDb)]
     IN  dialog' = IF msgDb = <<>> THEN d ELSE OnMsgIndexChanged(d, 1)
  /\ UNCHANGED <<loaded, plots, settings, menuRow, fresh>>

(* Mutant: the list of signals is not rebuilt for another message.         *)
SelectMessageKeepsSignals(m) ==
  /\ ui = "dialog"
  /\ m \in DOMAIN dialog.messages \ {dialog.cmbMessage}
  /\ dialog' = [dialog EXCEPT !.cmbMessage = m]
  /\ UNCHANGED <<loaded, plots, settings, ui, menuRow, fresh>>

(* Another message is selected in the dialog; db is a reference to msgDb.  *)
SelectMessage(m) ==
  /\ ui = "dialog"
  /\ m \in DOMAIN dialog.messages \ {dialog.cmbMessage}
  /\ \/ /\ m \in DOMAIN msgDb
        /\ dialog' = OnMsgIndexChanged(dialog, m)
        /\ UNCHANGED <<loaded, plots, settings, ui, menuRow, fresh>>
     \/ /\ m \notin DOMAIN msgDb
        /\ Undefined

SelectSignal(s) ==
  /\ ui = "dialog"
  /\ s \in DOMAIN dialog.signals
  /\ dialog' = [dialog EXCEPT !.cmbSignal = s]
  /\ UNCHANGED <<loaded, plots, settings, ui, menuRow, fresh>>

NewChart(signal) ==
  Resized([NoChart EXCEPT !.signal = signal, !.log = log, !.xTick = DefaultTickCount,
                          !.yTick = DefaultTickCount],
          minChartSize, widthPerSec, tickPerSec, yTick)

(* The end of onAddSignal: a chart of signal s of message m is added.      *)
AddChart(m, s) ==
  \E w \in ChartIds \ graphlayout :
    /\ items' = Append(items, [msgId |-> msgDb[m].id, signal |-> msgDb[m].signals[s]])
    /\ widgets' = Append(widgets, w)
    /\ graphlayout' = graphlayout \cup {w}
    /\ chart' = [chart EXCEPT ![w] = NewChart(msgDb[m].signals[s])]

(* dialog.exec() returns, and onAddSignal goes on whatever it returns.  A  *)
(* message or a signal that msgDb does not have, and the first message of  *)
(* an empty log, are read out of range.                                    *)
DialogDone(result) ==
  LET m == dialog.cmbMessage
      s == dialog.cmbSignal
      inRange == /\ m \in DOMAIN msgDb
                 /\ s \in DOMAIN msgDb[m].signals
                 /\ log # EmptyLog
  IN  /\ ui = "dialog"
      /\ \/ /\ inRange
            /\ AddChart(m, s)
            /\ ui' = "idle"
            /\ dialog' = [NoDialog EXCEPT !.result = result]
            /\ UNCHANGED <<loaded, settings, menuRow, fresh>>
         \/ /\ ~inRange
            /\ Undefined

-----------------------------------------------------------------------------
(* The part of onLoadLogFile and onLoadDbcFile that concerns plots, in     *)
(* whichever event loop runs.                                              *)

(* SignalPlotListModel::reset.                                             *)
Reset ==
  /\ items' = <<>> /\ widgets' = <<>>
  /\ graphlayout' = {}
  /\ chart' = [w \in ChartIds |-> NoChart]

(* Mutant: the charts of the old log stay.                                 *)
OnLoadLogFileNoReset(l) ==
  /\ ui # "undefined"
  /\ log' = l
  /\ time' = IF l = EmptyLog THEN time ELSE Span[l]
  /\ fresh' = (ui = "idle")
  /\ UNCHANGED <<plots, msgDb, settings, ui, menuRow, dialog>>

OnLoadLogFile(l) ==
  /\ ui # "undefined"
  /\ log' = l
  /\ Reset
  /\ time' = IF l = EmptyLog THEN time ELSE Span[l]
  /\ fresh' = (ui = "idle")
  /\ UNCHANGED <<msgDb, settings, ui, menuRow, dialog>>

OnLoadDbcFile(d) ==
  /\ ui # "undefined"
  /\ msgDb' = d
  /\ fresh' = (ui = "idle")
  /\ UNCHANGED <<log, time, plots, settings, ui, menuRow, dialog>>

-----------------------------------------------------------------------------
Menu ==
  \/ \E row \in {0} \cup DOMAIN items : OnSignalPlotMenu(row)
  \/ DismissMenu
  \/ OnRemoveSignal
  \/ OnAddSignal

Dialog ==
  \/ \E m \in DOMAIN dialog.messages : SelectMessage(m)
  \/ \E s \in DOMAIN dialog.signals : SelectSignal(s)
  \/ \E result \in {"Accepted", "Rejected"} : DialogDone(result)

Load ==
  \/ \E l \in Logs : OnLoadLogFile(l)
  \/ \E d \in Dbs : OnLoadDbcFile(d)

Next == AxisButton \/ Menu \/ Dialog \/ Load

Spec == Init /\ [][Next]_vars

-----------------------------------------------------------------------------
(* The program reads or removes out of range only if a log or a database   *)
(* arrived while the menu or the dialog was open, the log is empty, or the *)
(* message chosen has no signals: never by any other sequence of menus,    *)
(* selections and removals.                                                *)
UndefinedOnlyWhenStale ==
  [][ui' = "undefined" =>
       \/ ~fresh
       \/ log = EmptyLog
       \/ ui = "dialog" /\ dialog.cmbMessage # 0 /\ dialog.cmbSignal = 0]_vars

(* The row added is the message and the signal on display in the two combo *)
(* boxes, unless a load intervened; and if a database did, so that the     *)
(* boxes name messages of one database and signals of another, the row is  *)
(* a signal of the message whose id it has, in the database now loaded.    *)
AddsWhatIsShown ==
  [][Len(items') > Len(items) =>
       /\ fresh => Last(items') = [msgId  |-> dialog.messages[dialog.cmbMessage],
                                   signal |-> dialog.signals[dialog.cmbSignal]]
       /\ \E m \in DOMAIN msgDb :
            /\ Last(items').msgId = msgDb[m].id
            /\ Last(items').signal \in Range(msgDb[m].signals)]_vars

(* The two lists of the model and the charts on the screen stay in step:   *)
(* row i is the title of chart i, no chart is listed twice, deleted while  *)
(* it is listed, or left on the screen without a row.                      *)
RowsMatchCharts ==
  /\ Len(items) = Len(widgets)
  /\ IsInjective(widgets)
  /\ Range(widgets) = graphlayout
  /\ \A i \in DOMAIN items : chart[widgets[i]].signal = items[i].signal

(* Every chart on the screen was drawn from the log that is loaded, and    *)
(* its width is computed from the span of that log, although an empty log  *)
(* leaves time as it was.                                                  *)
ChartsShowCurrentLog ==
  \A w \in graphlayout : chart[w].log = log /\ time = Span[log]

(* However they were added and resized, all charts have the size that the  *)
(* settings give, and the ticks wherever Qt accepts their number.          *)
ChartsFollowSettings ==
  \A w \in graphlayout :
    /\ chart[w].width = time * widthPerSec
    /\ chart[w].height = minChartSize
    /\ XTickCount(tickPerSec) >= 2 => chart[w].xTick = XTickCount(tickPerSec)
    /\ yTick >= 2 => chart[w].yTick = yTick

(* The inductive strengthening of the properties above.  Every chart is of *)
(* the loaded log, whose span is in time; *)
TimeIsOfLog ==
  /\ graphlayout # {} => log # EmptyLog
  /\ log # EmptyLog => time = Span[log]

(* and until something is loaded, the menu's row is one of the list, and   *)
(* the dialog lists the messages of msgDb and the signals of the selected  *)
(* one, of which one is selected if there is any.                          *)
DialogShowsMsgDb ==
  fresh =>
    /\ ui = "menu" => msgDb # <<>> /\ menuRow \in {0} \cup DOMAIN items
    /\ ui = "dialog" =>
         /\ dialog.cmbMessage \in DOMAIN msgDb
         /\ dialog.messages = Names(msgDb)
         /\ dialog.signals = msgDb[dialog.cmbMessage].signals
         /\ dialog.cmbSignal \in {0} \cup DOMAIN dialog.signals

PlotInv ==
  /\ RowsMatchCharts /\ ChartsShowCurrentLog /\ ChartsFollowSettings
  /\ TimeIsOfLog /\ DialogShowsMsgDb

-----------------------------------------------------------------------------
(* What the code does not meet: TLC finds a counterexample (see README.md). *)

(* What a button labelled Cancel and connected to reject() promises:       *)
(* leaving the dialog with it adds no signal.                              *)
CancelAddsNothing ==
  [][ui = "dialog" /\ dialog'.result = "Rejected" => items' = items]_vars

(* What a dialog with two boxes promises: the signal added is the one it   *)
(* shows, also after a database was loaded while it was open.              *)
AddsWhatIsNamed ==
  [][Len(items') > Len(items) =>
       Last(items').signal = dialog.signals[dialog.cmbSignal]]_vars
=============================================================================
