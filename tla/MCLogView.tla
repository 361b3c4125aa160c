----------------------------- MODULE MCLogView -----------------------------
(* Logs of up to three messages, two databases of which one defines an id  *)
(* twice, and filters that accept one text or the text of a missing name.  *)
EXTENDS LogView

Message(id, name, signals) ==
  [id |-> id, name |-> name, signals |-> signals, color |-> "clear"]

MCLogs == {<<>>, <<"i1">>, <<"i2", "i1", "i1">>}

MCDbs == {
  <<>>,
  <<Message("i1", "engine", <<"rpm", "temp">>)>>,
  <<Message("i2", "brake", <<"on">>), Message("i1", "motor", <<>>), Message("i2", "abs", <<>>)>>}

MCExpressions == {{"i1", "engine", "motor"}, {"none", "i2"}}
=============================================================================
