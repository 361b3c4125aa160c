------------------------------ MODULE LogView ------------------------------
(***************************************************************************)
(* The views of a loaded log and database: the log table (CanLogModel)     *)
(* behind its regular-expression filter (CustomProxyModel), the context    *)
(* menu that highlights messages and ids, the filter dialog of the header, *)
(* the message list whose colours are edited (CanMsgModel, setColor) and   *)
(* the signals of the selected message (CanSignalModel).  Of onLoadLogFile *)
(* and onLoadDbcFile this module has what concerns these views; they may   *)
(* run while the menu or the dialog is open.                               *)
(*                                                                         *)
(* A log is the sequence of its messages' ids, a database a sequence of    *)
(* messages.  Rows count from 1; 0 stands for the index -1.  A regular     *)
(* expression is the set of the texts that contain it.                     *)
(***************************************************************************)
EXTENDS Integers, Sequences, SequencesExt, FiniteSets

CONSTANTS
  Logs,        \* the logs that may be loaded
  Dbs,         \* the databases that may be loaded, every colour "clear"
  Columns,     \* the columns that are filtered, of "id" and "name"
  Expressions, \* the regular expressions that may be typed
  Colors       \* the colours that may be picked

Ids == UNION {Range(l) : l \in Logs}
Loadable == UNION {Range(d) : d \in Dbs}
DbMessage == [id : {m.id : m \in Loadable}, name : {m.name : m \in Loadable},
              signals : {m.signals : m \in Loadable}, color : Colors \cup {"clear"}]

ASSUME ViewAssumption ==
  /\ <<>> \in Logs /\ <<>> \in Dbs
  /\ \A l \in Logs : l \in Seq(Ids)
  /\ Columns \subseteq {"id", "name"}
  /\ \A d \in Dbs : /\ d \in Seq(DbMessage)
                    /\ \A m \in DOMAIN d : d[m].color = "clear"

VARIABLES
  log, msgDb,       \* MainWindow's, to which the models hold references
  rowList, idList,  \* the rows and the ids highlighted: those that map to true
  regex,            \* CustomProxyModel::regex: column to expression
  visible,          \* the rows that the proxy maps, in order
  msgIndex,         \* the message whose signals are listed, 0: none
  msgRows,          \* how many rows the list of messages has on the screen
  signalRows,       \* and that of the signals
  ui,               \* what is open; "undefined": at() was called out of range
  menu,             \* the context menu: its row, what its actions set, and as
                    \* history the message clicked on
  editRow,          \* the message whose colour is edited
  fresh,            \* history: no log arrived since the menu was opened
  stale             \* history: this log was highlighted from an older menu

lists == <<msgIndex, msgRows, signalRows>>
views == <<rowList, idList, regex, visible, lists>>
control == <<ui, menu, editRow, fresh, stale>>
vars == <<log, msgDb, rowList, idList, regex, visible, msgIndex, msgRows, signalRows,
          ui, menu, editRow, fresh, stale>>

NoMenu == [row |-> 0, clicked |-> 0, highlightMsg |-> FALSE, highlightId |-> FALSE]
Longest(seqs) == CHOOSE n \in {Len(s) : s \in seqs} : \A s \in seqs : Len(s) <= n
Rows == 1 .. Longest(Logs)

TypeOK ==
  /\ log \in Logs
  /\ msgDb \in Seq(DbMessage)
  /\ rowList \subseteq Rows /\ idList \subseteq Ids
  /\ DOMAIN regex \subseteq Columns /\ Range(regex) \subseteq Expressions
  /\ visible \in Seq(DOMAIN log)
  /\ {msgIndex, msgRows, signalRows} \subseteq Nat
  /\ ui \in {"idle", "menu", "filter", "color", "undefined"}
  /\ menu \in [row : {0} \cup Rows, clicked : {0} \cup Rows,
               highlightMsg : BOOLEAN, highlightId : BOOLEAN]
  /\ editRow \in Nat
  /\ fresh \in BOOLEAN /\ stale \in BOOLEAN

Init ==
  /\ log = <<>> /\ msgDb = <<>>
  /\ rowList = {} /\ idList = {}
  /\ regex = <<>> /\ visible = <<>>
  /\ msgIndex = 0 /\ msgRows = 0 /\ signalRows = 0
  /\ ui = "idle" /\ menu = NoMenu /\ editRow = 0 /\ fresh = TRUE /\ stale = FALSE

-----------------------------------------------------------------------------
(* What the models show.                                                   *)

(* findMessage: the first message with the id, 0 for none.                 *)
FirstOf(found) == IF found = {} THEN 0 ELSE CHOOSE m \in found : \A n \in found : m <= n

FindMessage(d, id) == FirstOf({m \in DOMAIN d : d[m].id = id})

(* displayRowData of a message's row in a column.                          *)
Text(l, d, row, column) ==
  IF column = "id" THEN l[row]
  ELSE LET m == FindMessage(d, l[row]) IN IF m = 0 THEN "none" ELSE d[m].name

(* filterAcceptsRow; the proxy maps the rows that it accepts.              *)
FilterAcceptsRow(l, d, f, row) ==
  \A column \in DOMAIN f : Text(l, d, row, column) \in f[column]

(* The numbers of a set, in ascending order.                               *)
Ascending(S) ==
  CHOOSE f \in [1 .. Cardinality(S) -> S] :
    Range(f) = S /\ \A i, j \in DOMAIN f : i < j => f[i] < f[j]

AcceptedRows(l, d, f) == Ascending({row \in DOMAIN l : FilterAcceptsRow(l, d, f, row)})

(* rowCount of a message's row: the rows of its signals.                   *)
SignalRows(row) ==
  LET m == FindMessage(msgDb, log[row])
  IN  IF m = 0 THEN {} ELSE DOMAIN msgDb[m].signals

(* data() of signal row s in the column of its name: the row number is     *)
(* that of the signal, and it is compared with the length of the log.      *)
SignalText(row, s) ==
  IF s > Len(log) THEN "none"
  ELSE msgDb[FindMessage(msgDb, log[row])].signals[s]

(* data() in the background role, of any row with this number.             *)
Background(number) ==
  LET m == FindMessage(msgDb, log[number])
  IN  IF number > Len(log) THEN "clear"
      ELSE IF number \in rowList THEN "yellow"
      ELSE IF log[number] \in idList THEN "green"
      ELSE IF m = 0 THEN "clear" ELSE msgDb[m].color

(* data() of the two lists, row by row.                                    *)
MessageList == [row \in 1 .. msgRows |-> msgDb[row]]
SignalList == [row \in 1 .. signalRows |-> msgDb[msgIndex].signals[row]]

-----------------------------------------------------------------------------
(* The context menu of the table.                                          *)

IsMsgHighlight(row) == row \in rowList
IsIdHighlight(row) == log[row] \in idList

(* Mutant: the row of the view is taken for a row of the log.              *)
OnContextMenuUnmapped(k) ==
  /\ ui = "idle"
  /\ ui' = "menu"
  /\ menu' = [row |-> k, clicked |-> visible[k],
              highlightMsg |-> ~IsMsgHighlight(k), highlightId |-> ~IsIdHighlight(k)]
  /\ fresh' = TRUE
  /\ UNCHANGED <<log, msgDb, views, editRow, stale>>

(* onContextMenu on row k of the view: the actions keep the row of the log *)
(* that the proxy maps it to, and what they will set.                      *)
OnContextMenu(k) ==
  LET row == visible[k]
  IN  /\ ui = "idle"
      /\ ui' = "menu"
      /\ menu' = [row |-> row, clicked |-> visible[k],
                  highlightMsg |-> ~IsMsgHighlight(row),
                  highlightId |-> ~IsIdHighlight(row)]
      /\ fresh' = TRUE
      /\ UNCHANGED <<log, msgDb, views, editRow, stale>>

DismissMenu ==
  /\ ui = "menu"
  /\ ui' = "idle"
  /\ menu' = NoMenu
  /\ UNCHANGED <<log, msgDb, views, editRow, fresh, stale>>

(* setHighlightMsg of the menu's row, which is not compared with the log.  *)
MsgAction ==
  /\ ui = "menu"
  /\ rowList' = IF menu.highlightMsg THEN rowList \cup {menu.row} ELSE rowList \ {menu.row}
  /\ ui' = "idle" /\ menu' = NoMenu
  /\ stale' = (stale \/ ~fresh)
  /\ UNCHANGED <<log, msgDb, idList, regex, visible, lists, editRow, fresh>>

(* Mutant: the message below the menu's row is read.                       *)
IdActionRowBelow ==
  /\ ui = "menu"
  /\ IF menu.row + 1 \in DOMAIN log
     THEN /\ idList' = IF menu.highlightId THEN idList \cup {log[menu.row + 1]}
                                           ELSE idList \ {log[menu.row + 1]}
          /\ ui' = "idle"
     ELSE ui' = "undefined" /\ UNCHANGED idList
  /\ menu' = NoMenu
  /\ stale' = (stale \/ ~fresh)
  /\ UNCHANGED <<log, msgDb, rowList, regex, visible, lists, editRow, fresh>>

(* setHighlightId of the id at the menu's row.                             *)
IdAction ==
  /\ ui = "menu"
  /\ \/ /\ menu.row \in DOMAIN log
        /\ idList' = IF menu.highlightId THEN idList \cup {log[menu.row]}
                                         ELSE idList \ {log[menu.row]}
        /\ ui' = "idle" /\ menu' = NoMenu
        /\ stale' = (stale \/ ~fresh)
        /\ UNCHANGED <<log, msgDb, rowList, regex, visible, lists, editRow, fresh>>
     \/ /\ menu.row \notin DOMAIN log
        /\ ui' = "undefined"
        /\ UNCHANGED <<log, msgDb, views, menu, editRow, fresh, stale>>

-----------------------------------------------------------------------------
(* The filter, the selected message and the colours.                       *)

OnHeaderContextMenu ==
  /\ ui = "idle"
  /\ ui' = "filter"
  /\ UNCHANGED <<log, msgDb, views, menu, editRow, fresh, stale>>

(* An expression that is empty removes the filter of the column.           *)
SetFilter(column, expression) ==
  /\ ui = "filter"
  /\ ui' = "idle"
  /\ regex' = [c \in DOMAIN regex \cup {column} |->
                 IF c = column THEN expression ELSE regex[c]]
  /\ visible' = AcceptedRows(log, msgDb, regex')
  /\ UNCHANGED <<log, msgDb, rowList, idList, lists, menu, editRow, fresh, stale>>

RemoveFilter(column) ==
  /\ ui = "filter"
  /\ ui' = "idle"
  /\ regex' = [c \in DOMAIN regex \ {column} |-> regex[c]]
  /\ visible' = AcceptedRows(log, msgDb, regex')
  /\ UNCHANGED <<log, msgDb, rowList, idList, lists, menu, editRow, fresh, stale>>

CancelFilter ==
  /\ ui = "filter"
  /\ ui' = "idle"
  /\ UNCHANGED <<log, msgDb, views, menu, editRow, fresh, stale>>

(* onMsgSelect on row m of the message list: setMsgIndex, whose reset asks *)
(* for the count of the signals.                                           *)
OnMsgSelect(m) ==
  /\ ui = "idle"
  /\ msgIndex' = m
  /\ signalRows' = Len(msgDb[m].signals)
  /\ UNCHANGED <<log, msgDb, rowList, idList, regex, visible, msgRows, control>>

EditColor(m) ==
  /\ ui = "idle"
  /\ ui' = "color"
  /\ editRow' = m
  /\ UNCHANGED <<log, msgDb, views, menu, fresh, stale>>

(* Mutant: the edited row itself gets the colour.                          *)
SetColorOfRow(c) ==
  /\ ui = "color"
  /\ msgDb' = [msgDb EXCEPT ![editRow].color = c]
  /\ ui' = "idle" /\ editRow' = 0
  /\ UNCHANGED <<log, views, menu, fresh, stale>>

(* setModelData: setColor of the first message that has the row's id.      *)
SetColor(c) ==
  /\ ui = "color"
  /\ msgDb' = [msgDb EXCEPT ![FindMessage(msgDb, msgDb[editRow].id)].color = c]
  /\ ui' = "idle" /\ editRow' = 0
  /\ UNCHANGED <<log, views, menu, fresh, stale>>

CancelColor ==
  /\ ui = "color"
  /\ ui' = "idle" /\ editRow' = 0
  /\ UNCHANGED <<log, msgDb, views, menu, fresh, stale>>

-----------------------------------------------------------------------------
(* The part of onLoadLogFile and onLoadDbcFile that concerns the views.    *)

(* Mutant: logChanged resets the rows and not the ids.                     *)
OnLoadLogFileKeepsIds(l) ==
  /\ ui # "undefined"
  /\ log' = l
  /\ rowList' = {}
  /\ visible' = AcceptedRows(l, msgDb, regex)
  /\ fresh' = (ui # "menu") /\ stale' = FALSE
  /\ UNCHANGED <<msgDb, idList, regex, lists, ui, menu, editRow>>

(* The log and logChanged, whose reset the proxy follows.                  *)
OnLoadLogFile(l) ==
  /\ ui # "undefined"
  /\ log' = l
  /\ rowList' = {} /\ idList' = {}
  /\ visible' = AcceptedRows(l, msgDb, regex)
  /\ fresh' = (ui # "menu") /\ stale' = FALSE
  /\ UNCHANGED <<msgDb, regex, lists, ui, menu, editRow>>

(* Mutant: the table of the log is not reset.                              *)
OnLoadDbcFileKeepsRows(d) ==
  /\ ui # "undefined"
  /\ msgDb' = d
  /\ msgRows' = Len(d) /\ msgIndex' = 0 /\ signalRows' = 0
  /\ ui' = IF ui = "color" THEN "idle" ELSE ui
  /\ editRow' = 0
  /\ UNCHANGED <<log, rowList, idList, regex, visible, menu, fresh, stale>>

(* Mutant: the list of signals is not reset.                               *)
OnLoadDbcFileKeepsIndex(d) ==
  /\ ui # "undefined"
  /\ msgDb' = d
  /\ visible' = AcceptedRows(log, d, regex)
  /\ msgRows' = Len(d)
  /\ ui' = IF ui = "color" THEN "idle" ELSE ui
  /\ editRow' = 0
  /\ UNCHANGED <<log, rowList, idList, regex, msgIndex, signalRows, menu, fresh, stale>>

(* The database and dbChanged of the three models.  The reset of the       *)
(* message list closes the editor of a colour.                             *)
OnLoadDbcFile(d) ==
  /\ ui # "undefined"
  /\ msgDb' = d
  /\ visible' = AcceptedRows(log, d, regex)
  /\ msgRows' = Len(d) /\ msgIndex' = 0 /\ signalRows' = 0
  /\ ui' = IF ui = "color" THEN "idle" ELSE ui
  /\ editRow' = 0
  /\ UNCHANGED <<log, rowList, idList, regex, menu, fresh, stale>>

-----------------------------------------------------------------------------
Highlight ==
  \/ \E k \in DOMAIN visible : OnContextMenu(k)
  \/ DismissMenu \/ MsgAction \/ IdAction

Filter ==
  \/ OnHeaderContextMenu \/ CancelFilter
  \/ \E column \in Columns :
       \/ RemoveFilter(column)
       \/ \E expression \in Expressions : SetFilter(column, expression)

Messages ==
  \/ \E m \in 1 .. msgRows : OnMsgSelect(m) \/ EditColor(m)
  \/ CancelColor
  \/ \E c \in Colors : SetColor(c)

Load ==
  \/ \E l \in Logs : OnLoadLogFile(l)
  \/ \E d \in Dbs : OnLoadDbcFile(d)

Next == Highlight \/ Filter \/ Messages \/ Load

Spec == Init /\ [][Next]_vars

-----------------------------------------------------------------------------
(* The table lists exactly the messages that every filter accepts under    *)
(* the log and the database now loaded: the proxy caches its rows, and     *)
(* each load and each filter has to renew them.                            *)
FilterIsCurrent ==
  /\ \A i, j \in DOMAIN visible : i < j => visible[i] < visible[j]
  /\ Range(visible) = {row \in DOMAIN log : FilterAcceptsRow(log, msgDb, regex, row)}

(* Highlights do not outlive the log they were chosen in: a highlighted id *)
(* occurs in the log, and so does a highlighted row, unless it was chosen  *)
(* in a menu that was opened on an earlier log.                            *)
HighlightsAreOfThisLog ==
  /\ idList \subseteq Range(log)
  /\ ~stale => rowList \subseteq DOMAIN log

(* Whatever the filter hides above it and whatever database arrives while  *)
(* the menu is open, a choice highlights the very message that was under   *)
(* the mouse, or its id, if it was not, and clears it if it was, and no    *)
(* other message or id; unless a log arrived in between.                   *)
Toggled(S, e) == IF e \in S THEN S \ {e} ELSE S \cup {e}

HighlightsUnderMouse ==
  [][fresh =>
       /\ MsgAction => rowList' = Toggled(rowList, menu.clicked) /\ UNCHANGED idList
       /\ IdAction => /\ idList' = Toggled(idList, log[menu.clicked])
                      /\ UNCHANGED rowList]_vars

(* The log is read out of range only from a menu older than the log.       *)
UndefinedOnlyWhenStale == [][ui' = "undefined" => ~fresh]_vars

(* However the database is replaced after a message was selected, the list *)
(* of messages has a row for each of it, and the list of signals is empty  *)
(* or that of a message that it has: neither reads beyond it.              *)
ListsAreCurrent ==
  /\ msgRows = Len(msgDb)
  /\ msgIndex \in 0 .. msgRows
  /\ signalRows = IF msgIndex = 0 THEN 0 ELSE Len(msgDb[msgIndex].signals)

(* An edited colour is the one the log shows: the first message of an id   *)
(* is painted in the table, so that no later one may differ from "clear".  *)
ColorIsShown ==
  \A m \in DOMAIN msgDb : msgDb[m].color # "clear" => FindMessage(msgDb, msgDb[m].id) = m

(* The inductive strengthening of these: the editor is on a row of the     *)
(* list, the menu is on the row of the log that was under the mouse, and   *)
(* offers the opposite of what is highlighted, while no log arrives.       *)
ListsInv ==
  /\ msgDb \in Seq(DbMessage)
  /\ ListsAreCurrent /\ ColorIsShown
  /\ ui = "color" => editRow \in DOMAIN msgDb

HighlightInv ==
  /\ HighlightsAreOfThisLog
  /\ ui = "menu" /\ fresh =>
       /\ menu.row \in DOMAIN log /\ menu.row = menu.clicked
       /\ menu.highlightMsg = (menu.row \notin rowList)
       /\ menu.highlightId = (log[menu.row] \notin idList)

ViewInv == log \in Logs /\ ListsInv /\ FilterIsCurrent /\ HighlightInv

-----------------------------------------------------------------------------
(* What the code does not meet: TLC finds a counterexample (see README.md). *)

(* The readme: "Shows message name and signal decode".  Every row of a     *)
(* signal shows its name.                                                  *)
SignalsAreShown ==
  \A row \in DOMAIN log : \A s \in SignalRows(row) : SignalText(row, s) # "none"

(* The readme: "Highlight CAN IDs or messages".  The row of a signal is    *)
(* highlighted like the message it belongs to.                             *)
SignalRowsHighlightedWithMessage ==
  \A row \in DOMAIN log : \A s \in SignalRows(row) :
    Background(s) = "yellow" => Background(row) = "yellow"

(* "Highlight this message" highlights the message the menu was opened on, *)
(* which a log that arrives while it is open has removed.                  *)
HighlightsThisMessage ==
  [][ui = "menu" /\ ~fresh => rowList' \subseteq rowList]_vars
=============================================================================
