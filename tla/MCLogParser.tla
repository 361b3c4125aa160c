---------------------------- MODULE MCLogParser ----------------------------
(* Text files of one line of each kind, with messages on both sides of     *)
(* every limit; .blf files of up to three objects, which are CAN messages  *)
(* of 48 bytes and texts of sizes with every remainder modulo 4.           *)
EXTENDS LogParser

Line(kind, dir, dlc, bytes) == [kind |-> kind, dir |-> dir, dlc |-> dlc, bytes |-> bytes]

MCLines ==
  {Line(kind, "Rx", 0, 0) : kind \in {"comment", "empty", "other"}} \cup
  {Line("message", "Rx", 8, 8), Line("message", "Tx", 1, 1), Line("message", "Rx", 9, 9),
   Line("message", "Tx", 264, 8), Line("message", "Rx", 8, 9)}

CanMessage == [size |-> 48, can |-> TRUE]
AppText(size) == [size |-> size, can |-> FALSE]

(* The objects a, b and c, each behind the padding of the one before it.   *)
Follows(object, at) == at + object.size + (object.size % 4)

InARow(a, b, c) ==
  LET place(object, at) == [at |-> at, size |-> object.size, can |-> object.can]
      second == Follows(a, 0)
  IN  <<place(a, 0), place(b, second), place(c, Follows(b, second))>>

MCStreams == {<<>>} \cup
  {InARow(CanMessage, CanMessage, CanMessage)} \cup
  {InARow(AppText(33), CanMessage, CanMessage)} \cup
  {InARow(CanMessage, AppText(size), CanMessage) : size \in {34, 35}}

(* Around and in the fields of a header, in the middle of an object, and   *)
(* around its end and the padding.                                         *)
MCCuts == [s \in MCStreams |->
  UNION {{s[k].at + d : d \in {0, 2, 9, 12, 13, 24}} \cup
         {s[k].at + s[k].size + d : d \in {0, 1, 3}} : k \in DOMAIN s}]
=============================================================================
