----------------------------- MODULE LogReader -----------------------------
(***************************************************************************)
(* What the reader of a log promises whatever the format: the messages it  *)
(* returns are messages of the file, in their order and each once, and it  *)
(* leaves out only messages that the file has spoiled.  The messages of a  *)
(* file are numbered from 1.  LogParser implements this specification.     *)
(***************************************************************************)
EXTENDS Integers, Sequences

VARIABLES
  met,      \* how many messages the part of the file read so far has
  spoiled,  \* those of them that may be missing from the result
  read,     \* the result: the messages returned, by their numbers
  ended     \* the reader has returned

vars == <<met, spoiled, read, ended>>

TypeOK ==
  /\ met \in Nat
  /\ spoiled \subseteq 1 .. met
  /\ read \in Seq(1 .. met)
  /\ ended \in BOOLEAN

Init ==
  /\ met = 0 /\ spoiled = {} /\ read = <<>> /\ ended = FALSE

(* The last message in the result, 0 for none.                             *)
LastRead(messages) == IF messages = <<>> THEN 0 ELSE messages[Len(messages)]

(* More of the file is read, which may hold more messages and may spoil    *)
(* some, and a message that was met may be taken.                          *)
ReadOn ==
  /\ ~ended
  /\ met' \in Nat /\ met' >= met
  /\ spoiled \subseteq spoiled' /\ spoiled' \subseteq 1 .. met'
  /\ \/ read' = read
     \/ \E k \in LastRead(read) + 1 .. met' :
          /\ LastRead(read) + 1 .. k - 1 \subseteq spoiled'
          /\ read' = Append(read, k)
  /\ UNCHANGED ended

(* The end of the file; what was met and not taken is spoiled.             *)
Finish ==
  /\ ~ended
  /\ LastRead(read) + 1 .. met \subseteq spoiled
  /\ ended' = TRUE
  /\ UNCHANGED <<met, spoiled, read>>

Next == ReadOn \/ Finish

Spec == Init /\ [][Next]_vars
=============================================================================
