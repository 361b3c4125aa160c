---------------------------- MODULE MCMainWindow ----------------------------
(* Two log files, one of them empty, and a database of two messages, one   *)
(* of them without signals, which no file at all replaces by an empty one. *)
EXTENDS MainWindow

CONSTANTS empty, full, none, some

Message(id, name, signals) ==
  [id |-> id, name |-> name, signals |-> signals, color |-> "clear"]

MCLogOf == [f \in {empty, full} |-> IF f = empty THEN <<>> ELSE <<"i1">>]

MCDbOf == [files \in {none, some} |->
  IF files = none THEN <<>>
  ELSE <<Message("i2", "brake", <<>>), Message("i1", "engine", <<"rpm">>)>>]

MCSpan == [l \in Logs |-> 100 * Len(l)]

MCExpressions == {{"engine", "brake"}}
=============================================================================
