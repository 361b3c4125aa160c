--------------------------- MODULE LogViewProofs ---------------------------
(***************************************************************************)
(* Properties of LogView for all logs, databases, filters and colours: the *)
(* rows of the filtered table, the lists of messages and signals, the      *)
(* colours, and what the menu of the table highlights.  ViewInv is the     *)
(* inductive invariant; its three parts are proved one after the other.    *)
(***************************************************************************)
EXTENDS LogView, FiniteSetTheorems, SequenceTheorems, WellFoundedInduction, TLAPS

(* Numbers have a least one.                                               *)
LEMMA LeastNumber ==
  ASSUME NEW T, T \subseteq Nat, T # {}
  PROVE  \E m \in T : \A n \in T : m <= n
<1> DEFINE R == OpToRel(<, Nat)
<1>1. IsWellFoundedOn(R, Nat)
  BY NatLessThanWellFounded
<1>2. \A i, j \in Nat : i < j => <<i, j>> \in R
  BY DEF OpToRel
<1> HIDE DEF R
<1>3. PICK m \in T : \A n \in T : ~ (<<n, m>> \in R)
  BY <1>1, WFMin
<1>4. \A n \in T : m \in Nat /\ n \in Nat /\ ~(n < m)
  BY <1>2, <1>3
<1>5. QED
  BY <1>4

(***************************************************************************)
(* What Ascending chooses, and that it exists: the inverse of the rank of  *)
(* an element, the number of elements up to it.                            *)
(***************************************************************************)
LEMMA AscendingFacts ==
  ASSUME NEW n \in Nat, NEW S, S \subseteq 1 .. n
  PROVE  /\ Range(Ascending(S)) = S
         /\ \A i, j \in DOMAIN Ascending(S) : i < j => Ascending(S)[i] < Ascending(S)[j]
<1> DEFINE N == Cardinality(S)
           Below(r) == {q \in S : q <= r}
           rank == [r \in S |-> Cardinality(Below(r))]
           f == [i \in 1 .. N |-> CHOOSE r \in S : rank[r] = i]
<1>1. S \subseteq Int /\ IsFiniteSet(S) /\ N \in Nat
  <2>1. 1 \in Int /\ n \in Int
    OBVIOUS
  <2>2. IsFiniteSet(1 .. n)
    BY <2>1, FS_Interval
  <2>3. S \in SUBSET (1 .. n) /\ S \subseteq Int
    OBVIOUS
  <2>4. IsFiniteSet(S)
    BY <2>2, <2>3, FS_Subset
  <2>5. QED
    BY <2>3, <2>4, FS_CardinalityType
<1>2. ASSUME NEW r \in S
      PROVE  IsFiniteSet(Below(r)) /\ rank[r] \in 1 .. N
  <2>1. Below(r) \in SUBSET S /\ Below(r) # {}
    BY <1>1
  <2>2. IsFiniteSet(Below(r)) /\ Cardinality(Below(r)) <= N
    BY <1>1, <2>1, FS_Subset
  <2>3. Cardinality(Below(r)) \in Nat /\ Cardinality(Below(r)) # 0
    BY <2>1, <2>2, FS_CardinalityType, FS_EmptySet
  <2>4. rank[r] = Cardinality(Below(r))
    OBVIOUS
  <2> HIDE DEF Below, rank, N
  <2>5. QED
    BY <1>1, <2>2, <2>3, <2>4
<1>3. ASSUME NEW r \in S, NEW q \in S, r < q PROVE rank[r] < rank[q]
  <2>0. \A p \in S : p \in Int
    BY <1>1
  <2>1. Below(r) \in SUBSET Below(q) /\ Below(r) # Below(q)
    <3>1. \A p \in Below(r) : p \in Below(q)
      BY <1>3, <2>0
    <3>2. q \in Below(q) /\ q \notin Below(r)
      BY <1>3, <2>0
    <3>3. QED
      BY <3>1, <3>2
  <2>2. /\ Cardinality(Below(r)) <= Cardinality(Below(q))
        /\ Cardinality(Below(q)) # Cardinality(Below(r))
    BY <1>2, <2>1, FS_Subset
  <2>3. rank[r] \in Int /\ rank[q] \in Int
    BY <1>2
  <2>4. rank[r] = Cardinality(Below(r)) /\ rank[q] = Cardinality(Below(q))
    OBVIOUS
  <2> HIDE DEF Below, rank
  <2>5. QED
    BY <2>2, <2>3, <2>4
<1> HIDE DEF rank
<1>4. ASSUME NEW r \in S, NEW q \in S, rank[r] = rank[q] PROVE r = q
  <2> HIDE DEF f, N, Below
  <2>1. r \in Int /\ q \in Int /\ rank[r] \in Int
    BY <1>1, <1>2
  <2>2. ~(r < q) /\ ~(q < r)
    BY <1>3, <1>4, <2>1
  <2>3. QED
    BY <2>1, <2>2
<1>5. rank \in Surjection(S, 1 .. N)
  <2>1. rank \in [S -> 1 .. N]
    BY <1>2 DEF rank
  <2>2. rank \in Injection(S, 1 .. N)
    BY <1>4, <2>1 DEF Injection, IsInjective
  <2>3. IsFiniteSet(1 .. N) /\ Cardinality(1 .. N) = N
    <3>1. 1 \in Int /\ N \in Int
      BY <1>1
    <3>2. QED
      BY <1>1, <3>1, FS_Interval
  <2>4. QED
    BY <2>2, <2>3, FS_Injection
<1>6. \A i \in 1 .. N : f[i] \in S /\ rank[f[i]] = i
  BY <1>5 DEF Surjection
<1>7. f \in [1 .. N -> S]
  BY <1>6
<1>8. Range(f) = S
  <2>1. ASSUME NEW r \in S PROVE rank[r] \in 1 .. N /\ f[rank[r]] = r
    BY <1>2, <1>4, <1>6
  <2> HIDE DEF f, N
  <2>2. QED
    BY <1>7, <2>1 DEF Range
<1>9. ASSUME NEW i \in DOMAIN f, NEW j \in DOMAIN f, i < j PROVE f[i] < f[j]
  <2>1. i \in 1 .. N /\ j \in 1 .. N
    OBVIOUS
  <2> HIDE DEF f, N
  <2>2. PICK r \in S, q \in S : r = f[i] /\ q = f[j] /\ rank[r] = i /\ rank[q] = j
    BY <1>6, <2>1
  <2>3. r \in Int /\ q \in Int /\ i \in Int /\ j \in Int
    BY <1>1, <2>1
  <2>4. r # q /\ ~(q < r)
    BY <1>3, <1>9, <2>2, <2>3
  <2>5. QED
    BY <2>2, <2>3, <2>4
<1>10. \E g \in [1 .. Cardinality(S) -> S] :
         Range(g) = S /\ \A i, j \in DOMAIN g : i < j => g[i] < g[j]
  <2> HIDE DEF f
  <2>1. QED
    BY <1>7, <1>8, <1>9
<1>11. QED
  BY <1>10 DEF Ascending

-----------------------------------------------------------------------------
USE ViewAssumption

(* findMessage returns the first message that has the id.                  *)
LEMMA FindMessageFacts ==
  ASSUME NEW S, NEW d \in Seq(S), NEW k \in DOMAIN d
  PROVE  /\ FindMessage(d, d[k].id) \in DOMAIN d
         /\ d[FindMessage(d, d[k].id)].id = d[k].id
<1> DEFINE found == {m \in DOMAIN d : d[m].id = d[k].id}
<1>1. k \in found /\ found \subseteq Nat
  BY LenProperties
<1>2. \E m \in found : \A n \in found : m <= n
  BY <1>1, LeastNumber
<1>3. FindMessage(d, d[k].id) = CHOOSE m \in found : \A n \in found : m <= n
  BY <1>1 DEF FindMessage, FirstOf
<1>4. FindMessage(d, d[k].id) \in found
  BY <1>2, <1>3
<1>5. QED
  BY <1>4

(* It depends on the ids alone.                                            *)
LEMMA FindMessageById ==
  ASSUME NEW d, NEW e, DOMAIN d = DOMAIN e, \A m \in DOMAIN d : d[m].id = e[m].id,
         NEW id
  PROVE  FindMessage(d, id) = FindMessage(e, id)
<1>1. {m \in DOMAIN d : d[m].id = id} = {m \in DOMAIN e : e[m].id = id}
  OBVIOUS
<1>2. QED
  BY <1>1 DEF FindMessage

(* setColor changes the colour of one message and nothing else.            *)
LEMMA SetColorFacts ==
  ASSUME ListsInv, NEW c \in Colors, SetColor(c)
  PROVE  /\ msgDb' \in Seq(DbMessage)
         /\ Len(msgDb') = Len(msgDb) /\ DOMAIN msgDb' = DOMAIN msgDb
         /\ \A m \in DOMAIN msgDb : msgDb'[m].id = msgDb[m].id
         /\ \A m \in DOMAIN msgDb : msgDb'[m].name = msgDb[m].name
         /\ \A m \in DOMAIN msgDb : msgDb'[m].signals = msgDb[m].signals
         /\ \A m \in DOMAIN msgDb :
              m # FindMessage(msgDb, msgDb[editRow].id) => msgDb'[m].color = msgDb[m].color
<1> DEFINE k == FindMessage(msgDb, msgDb[editRow].id)
<1>1. /\ msgDb \in Seq(DbMessage) /\ k \in DOMAIN msgDb
      /\ DOMAIN msgDb = 1 .. Len(msgDb) /\ Len(msgDb) \in Nat
  BY FindMessageFacts, LenProperties DEF SetColor, ListsInv
<1>2. msgDb' = [msgDb EXCEPT ![k] = [msgDb[k] EXCEPT !.color = c]]
  BY DEF SetColor
<1> HIDE DEF k
<1>3. \A m \in DOMAIN msgDb : msgDb[m] \in DbMessage
  BY <1>1, ElementOfSeq
<1> DEFINE e == [msgDb[k] EXCEPT !.color = c]
<1>4. /\ e \in DbMessage
      /\ e.id = msgDb[k].id /\ e.name = msgDb[k].name /\ e.signals = msgDb[k].signals
  BY <1>1, <1>3 DEF DbMessage
<1>5. msgDb' = [msgDb EXCEPT ![k] = e]
  BY <1>2
<1> HIDE DEF e
<1>6. /\ msgDb' \in Seq(DbMessage) /\ Len(msgDb') = Len(msgDb)
      /\ \A m \in 1 .. Len(msgDb) : msgDb'[m] = IF m = k THEN e ELSE msgDb[m]
  BY <1>1, <1>4, <1>5, ExceptSeq
<1>7. DOMAIN msgDb' = DOMAIN msgDb
  BY <1>5
<1>8. QED
  BY <1>1, <1>4, <1>6, <1>7 DEF k

-----------------------------------------------------------------------------
(* The lists and the colours: a step that leaves them alone,               *)
LEMMA ListsUntouched ==
  ASSUME ListsInv, UNCHANGED <<msgDb, msgIndex, msgRows, signalRows>>
  PROVE  msgDb' \in Seq(DbMessage) /\ ListsAreCurrent' /\ ColorIsShown'
BY DEF ListsInv, ListsAreCurrent, ColorIsShown

(* and ListsInv at the start, and after any handler of the views.          *)
LEMMA InitListsInv == Init => ListsInv
BY EmptySeq DEF Init, ListsInv, ListsAreCurrent, ColorIsShown

(* Whatever is loaded, selected or coloured, the lists remain current.     *)
LEMMA StepListsInv == ListsInv /\ [Next]_vars => ListsInv'
<1> SUFFICES ASSUME ListsInv, [Next]_vars PROVE ListsInv'
  OBVIOUS
<1>0. msgDb \in Seq(DbMessage) /\ DOMAIN msgDb = 1 .. Len(msgDb) /\ Len(msgDb) \in Nat
  BY LenProperties DEF ListsInv
<1>1. ASSUME NEW k \in DOMAIN visible, OnContextMenu(k) PROVE ListsInv'
  BY <1>1, ListsUntouched DEF OnContextMenu, ListsInv, views, lists
<1>2. CASE DismissMenu
  BY <1>2, ListsUntouched DEF DismissMenu, ListsInv, views, lists
<1>3. CASE MsgAction
  BY <1>3, ListsUntouched DEF MsgAction, ListsInv, lists
<1>4. CASE IdAction
  BY <1>4, ListsUntouched DEF IdAction, ListsInv, views, lists
<1>5. CASE OnHeaderContextMenu \/ CancelFilter
  BY <1>5, ListsUntouched DEF OnHeaderContextMenu, CancelFilter, ListsInv, views, lists
<1>6. ASSUME NEW column, NEW expression, SetFilter(column, expression) PROVE ListsInv'
  BY <1>6, ListsUntouched DEF SetFilter, ListsInv, lists
<1>7. ASSUME NEW column, RemoveFilter(column) PROVE ListsInv'
  BY <1>7, ListsUntouched DEF RemoveFilter, ListsInv, lists
<1>8. ASSUME NEW m \in 1 .. msgRows, OnMsgSelect(m) PROVE ListsInv'
  <2>1. UNCHANGED <<msgDb, msgRows, ui, editRow, fresh, menu, log>>
    BY <1>8 DEF OnMsgSelect, control
  <2>2. ListsAreCurrent'
    BY <1>0, <1>8, <2>1 DEF OnMsgSelect, ListsInv, ListsAreCurrent
  <2>3. ColorIsShown'
    BY <2>1 DEF ListsInv, ColorIsShown
  <2>4. QED
    BY <2>1, <2>2, <2>3 DEF ListsInv
<1>9. ASSUME NEW m \in 1 .. msgRows, EditColor(m) PROVE ListsInv'
  BY <1>0, <1>9, ListsUntouched DEF EditColor, ListsInv, ListsAreCurrent, views, lists
<1>10. CASE CancelColor
  BY <1>10, ListsUntouched DEF CancelColor, ListsInv, views, lists
<1>11. ASSUME NEW c \in Colors, SetColor(c) PROVE ListsInv'
  <2> DEFINE k == FindMessage(msgDb, msgDb[editRow].id)
  <2>1. /\ msgDb' \in Seq(DbMessage)
        /\ Len(msgDb') = Len(msgDb) /\ DOMAIN msgDb' = DOMAIN msgDb
        /\ \A m \in DOMAIN msgDb : msgDb'[m].id = msgDb[m].id
        /\ \A m \in DOMAIN msgDb : msgDb'[m].signals = msgDb[m].signals
        /\ \A m \in DOMAIN msgDb : m # k => msgDb'[m].color = msgDb[m].color
    BY <1>11, SetColorFacts
  <2>2. ui' = "idle" /\ UNCHANGED <<msgIndex, msgRows, signalRows>>
    BY <1>11 DEF SetColor, views, lists
  <2>3. ListsAreCurrent'
    BY <1>0, <2>1, <2>2 DEF ListsInv, ListsAreCurrent
  <2>4. k \in DOMAIN msgDb /\ msgDb[k].id = msgDb[editRow].id
    BY <1>0, <1>11, FindMessageFacts DEF SetColor, ListsInv
  <2>5. \A id : FindMessage(msgDb', id) = FindMessage(msgDb, id)
    BY <2>1, FindMessageById
  <2>6. ColorIsShown'
    <3> SUFFICES ASSUME NEW m \in DOMAIN msgDb', msgDb'[m].color # "clear"
                 PROVE  FindMessage(msgDb', msgDb'[m].id) = m
      BY DEF ColorIsShown
    <3> HIDE DEF k
    <3>1. m \in DOMAIN msgDb /\ FindMessage(msgDb', msgDb'[m].id) = FindMessage(msgDb, msgDb[m].id)
      BY <2>1, <2>5
    <3>2. CASE m = k
      BY <2>4, <3>1, <3>2 DEF k
    <3>3. CASE m # k
      BY <2>1, <3>1, <3>3 DEF ListsInv, ColorIsShown
    <3>4. QED
      BY <3>2, <3>3
  <2>7. QED
    BY <2>1, <2>2, <2>3, <2>6 DEF ListsInv
<1>12. ASSUME NEW l \in Logs, OnLoadLogFile(l) PROVE ListsInv'
  BY <1>12, ListsUntouched DEF OnLoadLogFile, ListsInv, lists
<1>13. ASSUME NEW d \in Dbs, OnLoadDbcFile(d) PROVE ListsInv'
  <2>1. /\ msgDb' = d /\ d \in Seq(DbMessage) /\ Len(d) \in Nat
        /\ \A m \in DOMAIN d : d[m].color = "clear"
    BY <1>13, LenProperties DEF OnLoadDbcFile
  <2>2. ListsAreCurrent' /\ ColorIsShown'
    BY <1>13, <2>1 DEF OnLoadDbcFile, ListsAreCurrent, ColorIsShown
  <2>3. ui' # "color" /\ UNCHANGED <<log, menu, fresh>> /\ (ui' = "menu" => ui = "menu")
    BY <1>13 DEF OnLoadDbcFile
  <2>4. QED
    BY <2>1, <2>2, <2>3 DEF ListsInv
<1>14. CASE UNCHANGED vars
  BY <1>14, ListsUntouched DEF vars, ListsInv
<1>15. QED
  BY <1>1, <1>2, <1>3, <1>4, <1>5, <1>6, <1>7, <1>8, <1>9, <1>10, <1>11, <1>12, <1>13, <1>14
     DEF Next, Highlight, Filter, Messages, Load

(* Hence the lists are current in every state.                             *)
LEMMA ListsInvariant == Spec => []ListsInv
<1>1. QED
  BY InitListsInv, StepListsInv, PTL DEF Spec

(* dbChanged and setMsgIndex keep CanMsgModel and CanSignalModel within    *)
(* the database, however it is replaced.                                   *)
THEOREM ViewListsAreCurrent == Spec => []ListsAreCurrent
<1>1. ListsInv => ListsAreCurrent
  BY DEF ListsInv
<1>2. QED
  BY <1>1, ListsInvariant, PTL

(* setColor colours the message that the table looks up for its id, also   *)
(* where a database defines the id more than once.                         *)
THEOREM ViewColorIsShown == Spec => []ColorIsShown
<1>1. ListsInv => ColorIsShown
  BY DEF ListsInv
<1>2. QED
  BY <1>1, ListsInvariant, PTL

-----------------------------------------------------------------------------
(* The proxy's rows after a filter or a load.                              *)
LEMMA AcceptedRowsFacts ==
  ASSUME NEW l \in Logs, NEW d, NEW f, NEW rows, rows = AcceptedRows(l, d, f)
  PROVE  /\ \A i, j \in DOMAIN rows : i < j => rows[i] < rows[j]
         /\ Range(rows) = {row \in DOMAIN l : FilterAcceptsRow(l, d, f, row)}
<1> DEFINE S == {row \in DOMAIN l : FilterAcceptsRow(l, d, f, row)}
<1>1. Len(l) \in Nat /\ S \subseteq 1 .. Len(l)
  BY LenProperties
<1>2. rows = Ascending(S)
  BY DEF AcceptedRows
<1> HIDE DEF S
<1>3. Range(rows) = S /\ \A i, j \in DOMAIN rows : i < j => rows[i] < rows[j]
  BY <1>1, <1>2, AscendingFacts
<1>4. QED
  BY <1>3 DEF S

(* The filter looks at the ids and the names of a database.                *)
LEMMA FilterByIdsAndNames ==
  ASSUME NEW d, NEW e, DOMAIN d \subseteq Nat, DOMAIN e = DOMAIN d,
         \A m \in DOMAIN d : e[m].id = d[m].id /\ e[m].name = d[m].name,
         NEW l, NEW f, NEW row
  PROVE  FilterAcceptsRow(l, e, f, row) <=> FilterAcceptsRow(l, d, f, row)
<1>1. FindMessage(e, l[row]) = FindMessage(d, l[row])
  BY FindMessageById
<1> DEFINE found == {m \in DOMAIN d : d[m].id = l[row]}
<1>2. FindMessage(d, l[row]) = 0 \/ FindMessage(d, l[row]) \in DOMAIN d
  <2>1. CASE found = {}
    BY <2>1 DEF FindMessage, FirstOf
  <2>2. CASE found # {}
    <3>1. \E m \in found : \A n \in found : m <= n
      BY <2>2, LeastNumber
    <3>2. FindMessage(d, l[row]) = CHOOSE m \in found : \A n \in found : m <= n
      BY <2>2 DEF FindMessage, FirstOf
    <3>3. QED
      BY <3>1, <3>2
  <2>3. QED
    BY <2>1, <2>2
<1>3. \A column : Text(l, e, row, column) = Text(l, d, row, column)
  BY <1>1, <1>2 DEF Text
<1>4. QED
  BY <1>3 DEF FilterAcceptsRow

(* FilterIsCurrent after a step that leaves the table alone,               *)
LEMMA TableUntouched ==
  ASSUME FilterIsCurrent, UNCHANGED <<log, msgDb, regex, visible>>
  PROVE  FilterIsCurrent'
BY DEF FilterIsCurrent, FilterAcceptsRow, Text

(* and after one that maps the rows anew.                                  *)
LEMMA TableRenewed ==
  ASSUME log' \in Logs, visible' = AcceptedRows(log', msgDb', regex')
  PROVE  FilterIsCurrent'
BY AcceptedRowsFacts DEF FilterIsCurrent

(* The log is one of those that may be loaded.                             *)
LEMMA StepLog == log \in Logs /\ [Next]_vars => log' \in Logs
BY DEF Next, vars, Highlight, Filter, Messages, Load, OnContextMenu, DismissMenu, MsgAction,
       IdAction, OnHeaderContextMenu, CancelFilter, RemoveFilter, SetFilter, OnMsgSelect,
       EditColor, CancelColor, SetColor, OnLoadLogFile, OnLoadDbcFile

(* At the start the table is empty, like the log.                          *)
LEMMA InitFilterIsCurrent == Init => FilterIsCurrent
BY DEF Init, FilterIsCurrent, Range

(* Every handler that changes the log, the database or a filter renews the *)
(* rows, but for setColor, and a colour is not filtered.                   *)
LEMMA StepFilterIsCurrent ==
  log \in Logs /\ ListsInv /\ FilterIsCurrent /\ [Next]_vars => FilterIsCurrent'
<1> SUFFICES ASSUME log \in Logs, ListsInv, FilterIsCurrent, [Next]_vars
             PROVE  FilterIsCurrent'
  OBVIOUS
<1>1. log' \in Logs
  BY StepLog
<1>2. CASE Highlight
  BY <1>2, TableUntouched
     DEF Highlight, OnContextMenu, DismissMenu, MsgAction, IdAction, views
<1>3. CASE Filter
  <2>1. CASE OnHeaderContextMenu \/ CancelFilter
    BY <2>1, TableUntouched DEF OnHeaderContextMenu, CancelFilter, views
  <2>2. ASSUME NEW column, NEW expression, SetFilter(column, expression)
        PROVE  visible' = AcceptedRows(log', msgDb', regex')
    BY <2>2 DEF SetFilter
  <2>3. ASSUME NEW column, RemoveFilter(column)
        PROVE  visible' = AcceptedRows(log', msgDb', regex')
    BY <2>3 DEF RemoveFilter
  <2>4. QED
    BY <1>1, <1>3, <2>1, <2>2, <2>3, TableRenewed DEF Filter
<1>4. CASE Messages
  <2>1. CASE \E m \in 1 .. msgRows : OnMsgSelect(m) \/ EditColor(m)
    BY <2>1, TableUntouched DEF OnMsgSelect, EditColor, views, control
  <2>2. CASE CancelColor
    BY <2>2, TableUntouched DEF CancelColor, views
  <2>3. ASSUME NEW c \in Colors, SetColor(c) PROVE FilterIsCurrent'
    <3>1. /\ DOMAIN msgDb' = DOMAIN msgDb /\ DOMAIN msgDb \subseteq Nat
          /\ \A m \in DOMAIN msgDb : msgDb'[m].id = msgDb[m].id /\ msgDb'[m].name = msgDb[m].name
      BY <2>3, SetColorFacts, LenProperties DEF ListsInv
    <3>2. \A l, f, row :
            FilterAcceptsRow(l, msgDb', f, row) <=> FilterAcceptsRow(l, msgDb, f, row)
      BY <3>1, FilterByIdsAndNames
    <3>3. UNCHANGED <<log, regex, visible>>
      BY <2>3 DEF SetColor, views
    <3>4. QED
      BY <3>2, <3>3 DEF FilterIsCurrent
  <2>4. QED
    BY <1>4, <2>1, <2>2, <2>3 DEF Messages
<1>5. CASE Load
  <2>1. visible' = AcceptedRows(log', msgDb', regex')
    BY <1>5 DEF Load, OnLoadLogFile, OnLoadDbcFile
  <2>2. QED
    BY <1>1, <2>1, TableRenewed
<1>6. CASE UNCHANGED vars
  BY <1>6, TableUntouched DEF vars
<1>7. QED
  BY <1>2, <1>3, <1>4, <1>5, <1>6 DEF Next

-----------------------------------------------------------------------------
(* What is highlighted, from the menu that is opened on a row of the table *)
(* to the choice, and to the next log.                                     *)
LEMMA StepHighlightInv ==
  log \in Logs /\ FilterIsCurrent /\ HighlightInv /\ [Next]_vars => HighlightInv'
<1> SUFFICES ASSUME log \in Logs, FilterIsCurrent, HighlightInv, [Next]_vars
             PROVE  HighlightInv'
  OBVIOUS
<1>1. ASSUME UNCHANGED <<log, rowList, idList, menu, fresh, stale>>, ui' # "menu" \/ ui = "menu"
      PROVE  HighlightInv'
  BY <1>1 DEF HighlightInv, HighlightsAreOfThisLog
<1>2. ASSUME NEW k \in DOMAIN visible, OnContextMenu(k) PROVE HighlightInv'
  <2>1. visible[k] \in DOMAIN log
    BY <1>2 DEF FilterIsCurrent, Range
  <2>2. /\ UNCHANGED <<log, rowList, idList, stale>>
        /\ menu'.row = visible[k] /\ menu'.clicked = visible[k]
        /\ menu'.highlightMsg = (visible[k] \notin rowList)
        /\ menu'.highlightId = (log[visible[k]] \notin idList)
    BY <1>2 DEF OnContextMenu, views, IsMsgHighlight, IsIdHighlight
  <2>3. QED
    BY <2>1, <2>2 DEF HighlightInv, HighlightsAreOfThisLog
<1>3. CASE DismissMenu
  BY <1>3 DEF DismissMenu, HighlightInv, HighlightsAreOfThisLog, views
<1>4. CASE MsgAction
  BY <1>4 DEF MsgAction, HighlightInv, HighlightsAreOfThisLog
<1>5. CASE IdAction
  <2>1. menu.row \in DOMAIN log => log[menu.row] \in Range(log)
    BY DEF Range
  <2>2. CASE menu.row \in DOMAIN log
    BY <1>5, <2>1, <2>2 DEF IdAction, HighlightInv, HighlightsAreOfThisLog
  <2>3. CASE menu.row \notin DOMAIN log
    BY <1>1, <1>5, <2>3 DEF IdAction, views
  <2>4. QED
    BY <2>2, <2>3
<1>6. CASE Filter
  BY <1>1, <1>6 DEF Filter, OnHeaderContextMenu, CancelFilter, RemoveFilter, SetFilter, views
<1>7. CASE Messages
  BY <1>1, <1>7
     DEF Messages, OnMsgSelect, EditColor, CancelColor, SetColor, views, control
<1>8. ASSUME NEW l \in Logs, OnLoadLogFile(l) PROVE HighlightInv'
  BY <1>8 DEF OnLoadLogFile, HighlightInv, HighlightsAreOfThisLog
<1>9. ASSUME NEW d \in Dbs, OnLoadDbcFile(d) PROVE HighlightInv'
  BY <1>1, <1>9 DEF OnLoadDbcFile
<1>10. CASE UNCHANGED vars
  BY <1>1, <1>10 DEF vars
<1>11. QED
  BY <1>2, <1>3, <1>4, <1>5, <1>6, <1>7, <1>8, <1>9, <1>10 DEF Next, Highlight, Load

(* All of ViewInv holds in every state.                                    *)
LEMMA ViewInvariant == Spec => []ViewInv
<1>1. Init => ViewInv
  BY InitListsInv, InitFilterIsCurrent
     DEF Init, ViewInv, HighlightInv, HighlightsAreOfThisLog
<1>2. ViewInv /\ [Next]_vars => ViewInv'
  BY StepLog, StepListsInv, StepFilterIsCurrent, StepHighlightInv DEF ViewInv
<1>3. QED
  BY <1>1, <1>2, PTL DEF Spec

(* The table lists exactly the messages that its filters accept, in the    *)
(* order of the log, whichever of the log, the database and the filters    *)
(* was changed last.                                                       *)
THEOREM ViewFilterIsCurrent == Spec => []FilterIsCurrent
<1>1. ViewInv => FilterIsCurrent
  BY DEF ViewInv
<1>2. QED
  BY <1>1, ViewInvariant, PTL

(* logChanged leaves no highlight of an earlier log.                       *)
THEOREM ViewHighlightsAreOfThisLog == Spec => []HighlightsAreOfThisLog
<1>1. ViewInv => HighlightsAreOfThisLog
  BY DEF ViewInv, HighlightInv
<1>2. QED
  BY <1>1, ViewInvariant, PTL

(* Only the actions of a menu that a load has overtaken read the log out   *)
(* of range.                                                               *)
THEOREM ViewUndefinedOnlyWhenStale == Spec => UndefinedOnlyWhenStale
<1> DEFINE A == ui' = "undefined" => ~fresh
<1>1. ViewInv /\ [Next]_vars => [A]_vars
  <2> SUFFICES ASSUME ViewInv, Next, ui' = "undefined" PROVE ~fresh
    BY DEF A
  <2>1. CASE IdAction
    BY <2>1 DEF IdAction, ViewInv, HighlightInv
  <2>2. CASE ~IdAction
    BY <2>2 DEF Next, Highlight, Filter, Messages, Load, OnContextMenu, DismissMenu, MsgAction,
       OnHeaderContextMenu, CancelFilter, RemoveFilter, SetFilter, OnMsgSelect, EditColor,
       CancelColor, SetColor, OnLoadLogFile, OnLoadDbcFile, control
  <2>3. QED
    BY <2>1, <2>2
<1>2. QED
  BY <1>1, ViewInvariant, PTL DEF Spec, UndefinedOnlyWhenStale, A

(* The actions of onContextMenu highlight or clear the message the menu    *)
(* was opened on, or its id, and nothing else, whatever the filter hides.  *)
THEOREM ViewHighlightsUnderMouse == Spec => HighlightsUnderMouse
<1> DEFINE A == fresh =>
       /\ MsgAction => rowList' = Toggled(rowList, menu.clicked) /\ UNCHANGED idList
       /\ IdAction => /\ idList' = Toggled(idList, log[menu.clicked])
                      /\ UNCHANGED rowList
<1>1. ViewInv /\ [Next]_vars => [A]_vars
  <2> SUFFICES ASSUME ViewInv, fresh PROVE A
    OBVIOUS
  <2>1. ui = "menu" =>
          /\ menu.row \in DOMAIN log /\ menu.row = menu.clicked
          /\ menu.highlightMsg = (menu.row \notin rowList)
          /\ menu.highlightId = (log[menu.row] \notin idList)
    BY DEF ViewInv, HighlightInv
  <2>2. MsgAction => rowList' = Toggled(rowList, menu.clicked) /\ UNCHANGED idList
    BY <2>1 DEF MsgAction, Toggled
  <2>3. IdAction => idList' = Toggled(idList, log[menu.clicked]) /\ UNCHANGED rowList
    BY <2>1 DEF IdAction, Toggled
  <2>4. QED
    BY <2>2, <2>3 DEF A
<1>2. QED
  BY <1>1, ViewInvariant, PTL DEF Spec, HighlightsUnderMouse, A
=============================================================================
