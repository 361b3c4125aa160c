----------------------------- MODULE LogParser -----------------------------
(***************************************************************************)
(* Parser::parse, which the pool runs for a file that was opened: by its   *)
(* extension the file is given to one of the text drivers (TextLog) or to  *)
(* the .blf reader (BlfStream).  Whichever reads it implements LogReader.  *)
(***************************************************************************)
EXTENDS Integers, Sequences, SequencesExt, FiniteSets

CONSTANTS
  Extensions,            \* of the files that may be opened
  Lines, MaxLines,       \* of TextLog
  Streams, Cuts, MaxContainers  \* of BlfStream

VARIABLES
  extension,
  lines, textMessages, number, textPc,                   \* TextLog's
  stream, filePos, containers, real, containerData,      \* BlfStream's
  remain, blfMessages, blfPc, skipped, paddingCut

textVars == <<lines, textMessages, number, textPc>>
blfVars == <<stream, filePos, containers, real, containerData, remain, blfMessages,
             blfPc, skipped, paddingCut>>
vars == <<extension, textVars, blfVars>>

Text == INSTANCE TextLog WITH messages <- textMessages, pc <- textPc
Blf == INSTANCE BlfStream WITH messages <- blfMessages, pc <- blfPc

ASSUME ParserAssumption ==
  /\ Extensions \subseteq {"asc", "trc", "blf", "other"}
  /\ Text!LinesAssumption
  /\ Blf!StreamsAssumption
  /\ <<>> \in Streams

IsText == extension \in {"asc", "trc"}
IsBlf == extension = "blf"

TypeOK ==
  /\ extension \in Extensions
  /\ Text!TypeOK
  /\ Blf!TypeOK

Init ==
  /\ extension \in Extensions
  /\ Text!Init
  /\ Blf!Init
  /\ ~IsBlf => stream = <<>>

(* TextDriver::parse of the driver made for the extension.                 *)
TextDriver(step) ==
  /\ IsText
  /\ step
  /\ UNCHANGED <<extension, blfVars>>

BlfParser(step) ==
  /\ IsBlf
  /\ step
  /\ UNCHANGED <<extension, textVars>>

(* No driver is made for another extension, and its parse is called.       *)
NullDriver ==
  /\ ~IsText /\ ~IsBlf
  /\ textPc = "open"
  /\ textPc' = "undefined"
  /\ UNCHANGED <<extension, lines, textMessages, number, blfVars>>

Next == TextDriver(Text!Next) \/ BlfParser(Blf!Next) \/ NullDriver

Spec == Init /\ [][Next]_vars

(* The parser runs on a thread of the pool and waits for nothing, and the  *)
(* end of a file is reached.                                               *)
Fairness ==
  /\ WF_vars(TextDriver(Text!Open)) /\ WF_vars(TextDriver(Text!AtEnd))
  /\ WF_vars(BlfParser(Blf!Open)) /\ WF_vars(BlfParser(Blf!Done))
  /\ WF_vars(BlfParser(Blf!ParseObject))
  /\ WF_vars(NullDriver)

FairSpec == Spec /\ Fairness

-----------------------------------------------------------------------------
(* parse ends for every file, by its result, an exception or undefined     *)
(* behaviour: in particular, each turn of the loop over a container        *)
(* removes something or is the last, whatever sizes it reads.  A run also  *)
(* ends in "mixed", where bytes of different places were put together and  *)
(* the model does not follow the code; MixedOnlyAfterLoss says when.       *)
ReadingEnds ==
  <>(\/ textPc \in {"done", "thrown", "undefined"}
     \/ blfPc \in {"done", "thrown", "mixed"})

(* Bytes from different places of a .blf file are parsed as one object     *)
(* only if a container was skipped, or one ended before or in a padding.   *)
MixedOnlyAfterLoss == Blf!MixedOnlyAfterLoss

(* The messages of an .asc file are numbered without gaps, although the    *)
(* counter lives on from line to line and rejected lines lie between.      *)
NumbersHaveNoGaps == Text!NumbersHaveNoGaps

-----------------------------------------------------------------------------
(* The result in the terms of LogReader: a message of a text file is a     *)
(* line of that kind, spoiled if its length is not one of a frame; one of  *)
(* a .blf file is an object, any of which may be missing once the file is  *)
(* lossy.  They are numbered by their rank among the messages met.         *)
MessagesMet == IF IsBlf THEN Blf!Met ELSE Text!MessageLines

SpoiledMessages ==
  IF IsBlf THEN IF Blf!Lossy THEN Blf!Met ELSE {}
  ELSE {k \in Text!MessageLines : lines[k].dlc > Text!CAN_MAX_DLC}

Taken ==
  IF IsBlf THEN blfMessages ELSE [i \in DOMAIN textMessages |-> textMessages[i].line]

Rank(messages, k) == Cardinality({j \in messages : j <= k})
Ranks(messages, some) == {Rank(messages, k) : k \in some}
RanksOf(messages, seq) == [i \in DOMAIN seq |-> Rank(messages, seq[i])]

Reader == INSTANCE LogReader
  WITH met <- Cardinality(MessagesMet),
       spoiled <- Ranks(MessagesMet, SpoiledMessages),
       read <- RanksOf(MessagesMet, Taken),
       ended <- textPc = "done" \/ blfPc = "done"

(* Whatever the extension, the lines rejected, the cuts of the containers  *)
(* and the objects skipped, the messages returned are those of the file in *)
(* their order, without repetition, and complete where it is not spoiled.  *)
ImplementsLogReader == Reader!Spec

-----------------------------------------------------------------------------
(* What the code does not meet: TLC finds a counterexample (see README.md). *)

(* "Not enough data to parse, continue at the next object": which messages *)
(* of a .blf file are returned does not depend on where its containers are *)
(* cut.                                                                    *)
NoCutMatters == Blf!NoCutMatters
=============================================================================
