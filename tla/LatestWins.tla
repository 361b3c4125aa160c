----------------------------- MODULE LatestWins -----------------------------
(***************************************************************************)
(* What the user of can-tracer may rely on when a file is opened, whatever *)
(* the threads do: the window shows the name of the file asked for last    *)
(* (requested) and the content of some file (published).  Content only     *)
(* ever changes to that of the file whose name is displayed at that        *)
(* moment, once for each time a name was chosen (pending): a load that was *)
(* overtaken by a newer request is never shown, and no other is shown      *)
(* twice.  LogLoader and DbcLoader implement this specification, and       *)
(* MainWindow is composed of two instances of it.                          *)
(***************************************************************************)
CONSTANTS
  Requests,   \* what can be asked for: a log file, or a list of DBC files
  Nothing     \* what is shown before the first request; it may be asked for

VARIABLES
  requested,  \* the name on display
  published,  \* the request whose content is on display
  pending,    \* the content of the request on display is still to be shown
  up          \* FALSE once the window is closed or the program has ended

vars == <<requested, published, pending, up>>

TypeOK ==
  /\ requested \in Requests \cup {Nothing}
  /\ published \in Requests \cup {Nothing}
  /\ pending \in BOOLEAN /\ up \in BOOLEAN
  /\ pending => up

Init ==
  /\ requested = Nothing
  /\ published = Nothing
  /\ pending = FALSE /\ up = TRUE

Request(r) ==
  /\ up
  /\ requested' = r
  /\ pending' = TRUE
  /\ UNCHANGED <<published, up>>

Publish ==
  /\ pending
  /\ published' = requested
  /\ pending' = FALSE
  /\ UNCHANGED <<requested, up>>

Stop ==
  /\ up
  /\ up' = FALSE
  /\ pending' = FALSE
  /\ UNCHANGED <<requested, published>>

Next == (\E r \in Requests : Request(r)) \/ Publish \/ Stop

Spec == Init /\ [][Next]_vars
=============================================================================
