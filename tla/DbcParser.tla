----------------------------- MODULE DbcParser -----------------------------
(***************************************************************************)
(* DbcParser::parse and parseStream: the state machine that reads DBC      *)
(* files line by line into one CanDb.  A line is what the three regular    *)
(* expressions and the number conversions make of it: its kind, the id and *)
(* the name it captures, and the first number that does not convert, if    *)
(* any.  Messages, signals and values are known by the number of the line  *)
(* they come from.  The names are those of a part: the proofs see this     *)
(* module beside DbcLoader, whose worker runs the parser.                  *)
(***************************************************************************)
EXTENDS Integers, Sequences, SequencesExt

CONSTANTS
  Ids, Names,
  MaxLines    \* bound: the lines of all files together

ASSUME MaxLinesAssumption == MaxLines \in Nat

VARIABLES
  lines,     \* history: the lines read, with a line "eof" after each file
  db,
  state,
  message    \* the message under construction

parserVars == <<lines, db, state, message>>

(* BO_ and SG_ lines that match their pattern, whether or not their        *)
(* numbers convert; VAL_ lines; any other line, a SG_ line that does not   *)
(* match among them; and the end of a file.                                *)
Line ==
       [kind : {"BO_"}, id : Ids, name : {"none"}, bad : {"no", "id", "dlc"}]
  \cup [kind : {"SG_"}, id : {0}, name : Names, bad : {"no", "number"}]
  \cup [kind : {"VAL_"}, id : Ids, name : Names, bad : {"no"}]
  \cup [kind : {"other", "eof"}, id : {0}, name : {"none"}, bad : {"no"}]

LineNo == 1 .. MaxLines
CanSignal == [name : Names, line : LineNo, values : Seq(LineNo)]
CanMessage == [id : Ids \cup {0}, line : LineNo \cup {0}, signals : Seq(CanSignal)]

NoMessage == [id |-> 0, line |-> 0, signals |-> <<>>]

ParserTypeOK ==
  /\ lines \in Seq(Line)
  /\ db \in Seq(CanMessage)
  /\ state \in {"IDLE", "MESSAGE"}
  /\ message \in CanMessage

ParserInit ==
  /\ lines = <<>>
  /\ db = <<>>
  /\ state = "IDLE"
  /\ message = NoMessage

Read(line) == lines' = Append(lines, line)
lineNo == Len(lines) + 1

-----------------------------------------------------------------------------
(* A BO_ line in the state IDLE.  The id is stored before the dlc is       *)
(* converted.                                                              *)
BeginMessage(line) ==
  /\ state = "IDLE" /\ line.kind = "BO_"
  /\ Read(line)
  /\ state' = IF line.bad = "no" THEN "MESSAGE" ELSE "IDLE"
  /\ message' = IF line.bad = "id" THEN message
                ELSE [message EXCEPT !.id = line.id, !.line = lineNo]
  /\ UNCHANGED db

(* What the loops over messages and signals find, 0 for none.              *)
FirstOf(found) == IF found = {} THEN 0 ELSE CHOOSE i \in found : \A j \in found : i <= j

FirstMessage(d, id) == FirstOf({m \in DOMAIN d : d[m].id = id})
FirstSignal(msg, name) == FirstOf({s \in DOMAIN msg.signals : msg.signals[s].name = name})

(* Mutant: the pairs go to the last message of the database.               *)
AddValuesToLast(line) ==
  LET m == Len(db)
      s == IF m = 0 THEN 0 ELSE FirstSignal(db[m], line.name)
  IN  /\ state = "IDLE" /\ line.kind = "VAL_"
      /\ Read(line)
      /\ db' = IF s = 0 THEN db
               ELSE [db EXCEPT ![m].signals[s].values = Append(@, lineNo)]
      /\ UNCHANGED <<state, message>>

(* A VAL_ line in the state IDLE: its pairs go to the first signal of the  *)
(* name in the first message of the id, if there is one.                   *)
AddValues(line) ==
  LET m == FirstMessage(db, line.id)
      s == IF m = 0 THEN 0 ELSE FirstSignal(db[m], line.name)
  IN  /\ state = "IDLE" /\ line.kind = "VAL_"
      /\ Read(line)
      /\ db' = IF s = 0 THEN db
               ELSE [db EXCEPT ![m].signals[s].values = Append(@, lineNo)]
      /\ UNCHANGED <<state, message>>

(* Any other line is skipped in the state IDLE, SG_ lines included.        *)
SkipLine(line) ==
  /\ state = "IDLE" /\ line.kind \in {"SG_", "other"}
  /\ Read(line)
  /\ UNCHANGED <<db, state, message>>

(* A SG_ line in the state MESSAGE.  When a number does not convert, the   *)
(* message is neither added nor emptied.                                   *)
AddCanSignal(line) ==
  /\ state = "MESSAGE" /\ line.kind = "SG_"
  /\ Read(line)
  /\ IF line.bad = "no"
       THEN /\ message' = [message EXCEPT !.signals =
                  Append(@, [name |-> line.name, line |-> lineNo, values |-> <<>>])]
            /\ UNCHANGED state
       ELSE /\ state' = "IDLE"
            /\ UNCHANGED message
  /\ UNCHANGED db

(* Mutant: the message is not emptied after it was added.                  *)
EndMessageKeepsSignals(line) ==
  /\ state = "MESSAGE" /\ line.kind \in {"BO_", "VAL_", "other"}
  /\ Read(line)
  /\ db' = Append(db, message)
  /\ state' = "IDLE"
  /\ UNCHANGED message

(* The first line that is not a signal ends the message; whatever it is,   *)
(* it is not looked at again.                                              *)
EndMessage(line) ==
  /\ state = "MESSAGE" /\ line.kind \in {"BO_", "VAL_", "other"}
  /\ Read(line)
  /\ db' = Append(db, message)
  /\ message' = NoMessage
  /\ state' = "IDLE"

(* The end of a file; the next call of parseStream starts afresh, but goes *)
(* on with the same database.                                              *)
EndFile(line) ==
  /\ line.kind = "eof"
  /\ Read(line)
  /\ db' = IF state = "MESSAGE" THEN Append(db, message) ELSE db
  /\ message' = NoMessage
  /\ state' = "IDLE"

ParserNext ==
  /\ Len(lines) < MaxLines
  /\ \E line \in Line :
       \/ BeginMessage(line) \/ AddValues(line) \/ SkipLine(line)
       \/ AddCanSignal(line) \/ EndMessage(line) \/ EndFile(line)

ParserSpec == ParserInit /\ [][ParserNext]_parserVars

-----------------------------------------------------------------------------
(* What the files say, by the position of their lines alone.               *)

(* The block of a BO_ line j: the SG_ lines that follow it directly.       *)
InBlock(ls, j, k) ==
  /\ j < k
  /\ ls[j].kind = "BO_"
  /\ \A i \in j + 1 .. k : ls[i].kind = "SG_"

InSomeBlock(ls, k) == ls[k].kind = "BO_" \/ \E j \in 1 .. k : InBlock(ls, j, k)

(* Every number converts, and an empty or other line, or the end of the    *)
(* file, separates each block from the next BO_ or VAL_ line.              *)
WellFormed(ls) ==
  /\ \A k \in DOMAIN ls : ls[k].bad = "no"
  /\ \A k \in 2 .. Len(ls) : ls[k].kind \in {"BO_", "VAL_"} => ~InSomeBlock(ls, k - 1)

(* A VAL_ line v names the signal of line k of message j: first of its     *)
(* name in the first message of the id.                                    *)
Describes(ls, v, j, k) ==
  /\ k < v /\ ls[v].kind = "VAL_"
  /\ ls[v].id = ls[j].id /\ ls[v].name = ls[k].name
  /\ \A i \in 1 .. j - 1 : ls[i].kind = "BO_" => ls[i].id # ls[j].id
  /\ \A i \in j + 1 .. k - 1 : ls[i].name # ls[k].name

(* The numbers of a set, each once and in ascending order.                 *)
Lists(f, S) ==
  /\ Range(f) = S
  /\ \A i, j \in DOMAIN f : i < j => f[i] < f[j]

(* The lines of messages, or of signals.                                   *)
LinesOf(s) == [i \in DOMAIN s |-> s[i].line]

IsMeantSignal(ls, j, signal) ==
  /\ signal.name = ls[signal.line].name
  /\ Lists(signal.values, {v \in DOMAIN ls : Describes(ls, v, j, signal.line)})

IsMeantMessage(ls, msg) ==
  /\ msg.id = ls[msg.line].id
  /\ Lists(LinesOf(msg.signals), {k \in DOMAIN ls : InBlock(ls, msg.line, k)})
  /\ \A s \in DOMAIN msg.signals : IsMeantSignal(ls, msg.line, msg.signals[s])

(* Database d is what the lines say: it has every message, in order, with  *)
(* exactly its signals, and every VAL_ line at its signal.                 *)
IsMeantDb(ls, d) ==
  /\ Lists(LinesOf(d), {j \in DOMAIN ls : ls[j].kind = "BO_"})
  /\ \A m \in DOMAIN d : IsMeantMessage(ls, d[m])

(* Well-formed files are read as they are meant.                           *)
WellFormedFilesAreRead ==
  lines # <<>> /\ Last(lines).kind = "eof" /\ WellFormed(lines) => IsMeantDb(lines, db)

(* Whatever the files hold, no line is used twice, also when an abandoned  *)
(* message leaves its signals to the next one: the messages are in the     *)
(* order of their lines, and so are all signals from the first to the last *)
(* message, each before the line of the next message.                      *)
DbInLineOrder ==
  LET lineOf(m, s) == db[m].signals[s].line
  IN  /\ \A m, n \in DOMAIN db : m < n => db[m].line < db[n].line
      /\ \A m \in DOMAIN db : \A s, t \in DOMAIN db[m].signals :
           s < t => lineOf(m, s) < lineOf(m, t)
      /\ \A m \in 2 .. Len(db) :
           /\ \A s \in DOMAIN db[m].signals : db[m - 1].line < lineOf(m, s)
           /\ \A s \in DOMAIN db[m - 1].signals :
                /\ lineOf(m - 1, s) < db[m].line
                /\ \A t \in DOMAIN db[m].signals : lineOf(m - 1, s) < lineOf(m, t)

-----------------------------------------------------------------------------
(* What the code does not meet: TLC finds a counterexample (see README.md). *)

(* What the comment on the format says: a SG_ line defines a signal of the *)
(* message whose BO_ line it follows.                                      *)
SignalsOfTheirMessage ==
  \A m \in DOMAIN db : \A s \in DOMAIN db[m].signals :
    InBlock(lines, db[m].line, db[m].signals[s].line)

(* What the comment on the format says: a BO_ line defines a message.      *)
EveryMessageIsRead ==
  lines # <<>> /\ Last(lines).kind = "eof" =>
    \A k \in DOMAIN lines : lines[k].kind = "BO_" /\ lines[k].bad = "no" =>
      \E m \in DOMAIN db : db[m].line = k
=============================================================================
