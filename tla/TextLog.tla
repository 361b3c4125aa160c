------------------------------ MODULE TextLog ------------------------------
(***************************************************************************)
(* The reader of the text formats, .asc and .trc: TextDriver::parse and    *)
(* parseLine of its two drivers.  A line is a comment, empty, something    *)
(* else, or a message with its direction, its length as a number and the   *)
(* count of its data bytes.                                                *)
(***************************************************************************)
EXTENDS Integers, Sequences, SequencesExt

CONSTANTS
  Lines,       \* the lines of files
  MaxLines     \* bound: how many lines a file has

CAN_MAX_DLC == 8

(* What LogParser assumes of the constants.                                *)
LinesAssumption ==
  /\ Lines \subseteq [kind : {"message", "comment", "empty", "other"},
                      dir : {"Rx", "Tx"}, dlc : Nat, bytes : Nat]
  /\ MaxLines \in Nat

VARIABLES
  extension,  \* of the file's name: which driver reads it
  lines,      \* the lines read so far
  messages,   \* what parse returns
  number,     \* AscDriver::number
  pc          \* "open", "reading", "done", "thrown"; "undefined" after an index
              \* beyond a line or a copy beyond CanLogMsg::data

vars == <<extension, lines, messages, number, pc>>

TypeOK ==
  /\ lines \in Seq(Lines) /\ Len(lines) <= MaxLines
  /\ messages \in Seq([number : Nat, dir : {"RX", "TX"}, dlc : 0 .. CAN_MAX_DLC,
                       line : 1 .. Len(lines)])
  /\ number \in 0 .. Len(lines)
  /\ pc \in {"open", "reading", "done", "thrown", "undefined"}

Init ==
  /\ lines = <<>> /\ messages = <<>> /\ number = 0
  /\ pc = "open"

(* The file may not be there.                                              *)
Open ==
  /\ pc = "open"
  /\ pc' \in {"reading", "thrown"}
  /\ UNCHANGED <<extension, lines, messages, number>>

-----------------------------------------------------------------------------
(* setDir.  compare() gives 0, which is false, for equal strings.          *)
Dir(str) == IF str # "Rx" THEN "RX" ELSE "TX"

(* The length as msg.dlc holds it, a uint8_t.                              *)
Dlc(line) == line.dlc % 256

(* Mutant: a message has to have fewer bytes than a frame can hold.        *)
AcceptedStrictly(line) == line.kind = "message" /\ Dlc(line) < CAN_MAX_DLC

(* The lines for which parseLine returns true.                             *)
Accepted(line) == line.kind = "message" /\ Dlc(line) <= CAN_MAX_DLC

(* Mutant: lines that are rejected are counted too.                        *)
RejectCounts == number' = number + 1 /\ UNCHANGED <<messages, pc>>

Reject == UNCHANGED <<messages, number, pc>>

(* The number a .trc file gives its message is left out.                   *)
Accept(line) ==
  /\ messages' = Append(messages,
       [number |-> IF extension = "asc" THEN number ELSE 0,
        dir |-> Dir(line.dir), dlc |-> Dlc(line), line |-> Len(lines) + 1])
  /\ number' = IF extension = "asc" THEN number + 1 ELSE number
  /\ UNCHANGED pc

Crash == pc' = "undefined" /\ UNCHANGED <<messages, number>>

(* One iteration of TextDriver::parse.  The data are copied whatever their *)
(* count; TrcDriver looks at the first character of an empty line, which   *)
(* an assertion of a debug build refuses.                                  *)
ParseLine(line) ==
  /\ pc = "reading"
  /\ Len(lines) < MaxLines
  /\ lines' = Append(lines, line)
  /\ \/ Accepted(line) /\ line.bytes <= CAN_MAX_DLC /\ Accept(line)
     \/ Accepted(line) /\ line.bytes > CAN_MAX_DLC /\ Crash
     \/ ~Accepted(line) /\ Reject
     \/ line.kind = "empty" /\ extension = "trc" /\ Crash
  /\ UNCHANGED extension

AtEnd ==
  /\ pc = "reading"
  /\ pc' = "done"
  /\ UNCHANGED <<extension, lines, messages, number>>

Next == Open \/ (\E line \in Lines : ParseLine(line)) \/ AtEnd

-----------------------------------------------------------------------------
(* The lines read so far that are a message, be it one of too many bytes.  *)
MessageLines == {k \in DOMAIN lines : lines[k].kind = "message"}

(* The messages of an .asc file are numbered without gaps, although the    *)
(* counter lives on from line to line and rejected lines lie between.      *)
NumbersHaveNoGaps ==
  extension = "asc" => \A i \in DOMAIN messages : messages[i].number = i - 1

-----------------------------------------------------------------------------
(* What the code does not meet: TLC finds a counterexample (see README.md). *)

(* The sample in the source's comment has the direction "Rx" of a message; *)
(* setDir is to store CAN_DIR_RX for it and CAN_DIR_TX for "Tx".           *)
DirectionIsKept ==
  \A i \in DOMAIN messages :
    messages[i].dir = IF lines[messages[i].line].dir = "Rx" THEN "RX" ELSE "TX"

(* "Invalid dlc": a message whose length is above eight is refused.        *)
LongMessagesAreRefused ==
  \A i \in DOMAIN messages : lines[messages[i].line].dlc <= CAN_MAX_DLC
=============================================================================
