---------------------------- MODULE MCSignalPlot ----------------------------
(* Two databases that differ in length and in the signals of a message;    *)
(* one has a message without signals.                                      *)
EXTENDS SignalPlot

CONSTANTS short, long

Message(id, signals) == [id |-> id, signals |-> signals]

MCDbs == {
  <<>>,
  <<Message("m1", <<"speed">>)>>,
  <<Message("m1", <<"rpm", "temp">>), Message("m2", <<>>), Message("m3", <<"speed">>)>>}

MCLogs == {EmptyLog, short, long}

MCSpan == [l \in MCLogs |-> CASE l = short -> 100 [] l = long -> 200 [] OTHER -> 0]
=============================================================================
