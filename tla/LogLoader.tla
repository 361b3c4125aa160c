----------------------------- MODULE LogLoader -----------------------------
(***************************************************************************)
(* Opening a log file: MainWindow::openFile, the worker that parses it,    *)
(* MainWindow::onLoadLogFile and the destructor.  The file dialog runs an  *)
(* event loop of its own, so the result of an earlier load can arrive      *)
(* while it is open.                                                       *)
(***************************************************************************)
EXTENDS FutureWatcher

CONSTANT Unreadable   \* the files Parser::parse throws on: they cannot be
                      \* opened, or lack the BLF signature

ASSUME UnreadableAssumption == Unreadable \subseteq Inputs

VARIABLES
  ui,            \* what the GUI thread is doing
  lineLogPath,   \* the path box of the window
  statusbar,
  log            \* the job whose result is in MainWindow::log, 0: none yet

guiVars == <<ui, lineLogPath, statusbar, log>>
vars == <<job, future, watched, posted, ui, lineLogPath, statusbar, log>>

TypeOK ==
  /\ FutureTypeOK
  /\ ui \in {"idle", "fileDialog", "closed", "terminated"}
  /\ lineLogPath \in Inputs \cup {NoInput}
  /\ statusbar \in {"empty", "Loading...", "point"}
  /\ log \in 0 .. MaxJobs

Init ==
  /\ FutureInit
  /\ ui = "idle"
  /\ lineLogPath = NoInput
  /\ statusbar = "empty"
  /\ log = 0

-----------------------------------------------------------------------------
(* Mutant: the message is shown before the dialog has returned a name.     *)
OpenFileShowsLoading ==
  /\ ui = "idle"
  /\ ui' = "fileDialog"
  /\ statusbar' = "Loading..."
  /\ UNCHANGED <<futureVars, lineLogPath, log>>

(* openFile up to getOpenFileName, which blocks in a nested event loop.    *)
OpenFile ==
  /\ ui = "idle"
  /\ ui' = "fileDialog"
  /\ UNCHANGED <<futureVars, lineLogPath, statusbar, log>>

(* Mutant: the path box is cleared before the early return, which is what  *)
(* openDbcFile does.                                                       *)
FileRejectedClearsPath ==
  /\ ui = "fileDialog"
  /\ ui' = "idle"
  /\ lineLogPath' = NoInput
  /\ UNCHANGED <<futureVars, statusbar, log>>

(* The dialog was cancelled: fileName is empty, openFile returns.          *)
FileRejected ==
  /\ ui = "fileDialog"
  /\ ui' = "idle"
  /\ UNCHANGED <<futureVars, lineLogPath, statusbar, log>>

(* if (logFuture.isRunning()) logFuture.cancel();                          *)
CancelIfRunning == IF IsRunning(future) THEN Cancel(future) ELSE job

(* The end of openFile: the window names the file that is being loaded.    *)
ShowLoading(f) ==
  /\ lineLogPath' = f
  /\ statusbar' = "Loading..."
  /\ ui' = "idle"
  /\ UNCHANGED log

(* Mutant: the new load is started before the old one is cancelled, so     *)
(* that cancel() hits the new one.                                         *)
FileAcceptedCancelsNew(f) ==
  /\ ui = "fileDialog"
  /\ future < MaxJobs
  /\ future' = future + 1 /\ watched' = future + 1 /\ posted' = {}
  /\ job' = [job EXCEPT ![future + 1] = [QueuedJob(f) EXCEPT !.canceled = TRUE]]
  /\ ShowLoading(f)

(* Mutant: logWatcher is not set to the new future.                        *)
FileAcceptedUnwatched(f) ==
  /\ ui = "fileDialog"
  /\ future < MaxJobs
  /\ future' = future + 1
  /\ job' = [CancelIfRunning EXCEPT ![future + 1] = QueuedJob(f)]
  /\ ShowLoading(f)
  /\ UNCHANGED <<watched, posted>>

(* Mutant: a load that is still running is kept, only the path changes.    *)
FileAcceptedKeepsRunning(f) ==
  /\ ui = "fileDialog"
  /\ IF IsRunning(future) THEN UNCHANGED futureVars ELSE RunAndWatch(job, f)
  /\ ShowLoading(f)

(* The rest of openFile, once a file name was chosen.                      *)
FileAccepted(f) ==
  /\ ui = "fileDialog"
  /\ RunAndWatch(CancelIfRunning, f)
  /\ ShowLoading(f)

(* onLoadLogFile, run by the finished signal in either event loop.         *)
(* logFuture.result() waits for the end of the job and rethrows the        *)
(* exception of the worker; nothing catches it and the program ends.       *)
OnLoadLogFile ==
  /\ ui \in {"idle", "fileDialog"}
  /\ TakeFinishedEvent
  /\ job[future].phase = "finished"
  /\ statusbar' = "empty"
  /\ IF job[future].input \in Unreadable
       THEN ui' = "terminated" /\ UNCHANGED log
       ELSE log' = future /\ UNCHANGED ui
  /\ UNCHANGED <<job, lineLogPath>>

(* onPointNotify: the mouse is over a chart.  Charts exist only over a     *)
(* loaded log, and a modal dialog keeps the mouse away from them.          *)
OnPointNotify ==
  /\ ui = "idle"
  /\ log # 0
  /\ statusbar' = "point"
  /\ UNCHANGED <<futureVars, ui, lineLogPath, log>>

(* The window is closed: ~MainWindow cancels a running load, and the       *)
(* watcher is destroyed with its queued events.  The worker goes on.       *)
Close ==
  /\ ui = "idle"
  /\ ui' = "closed"
  /\ job' = CancelIfRunning
  /\ watched' = 0
  /\ posted' = {}
  /\ UNCHANGED <<future, lineLogPath, statusbar, log>>

Pool == PoolStep /\ UNCHANGED guiVars

Next ==
  \/ OpenFile
  \/ FileRejected
  \/ \E f \in Inputs : FileAccepted(f)
  \/ OnLoadLogFile
  \/ OnPointNotify
  \/ Close
  \/ Pool

Spec == Init /\ [][Next]_vars

(* A pool thread eventually takes a queued job, parsing a finite file ends, *)
(* and the event loop, nested or not, eventually delivers a queued event.   *)
(* Nothing is assumed of the user.                                          *)
Fairness ==
  /\ \A j \in JobIds : WF_vars(StartJob(j) /\ UNCHANGED guiVars)
  /\ \A j \in JobIds : WF_vars(FinishJob(j) /\ UNCHANGED guiVars)
  /\ WF_vars(OnLoadLogFile)

FairSpec == Spec /\ Fairness

-----------------------------------------------------------------------------
Up == ui \in {"idle", "fileDialog"}

(* The newest load has not been shown yet.                                 *)
Outstanding == IsRunning(future) \/ future \in posted

ShownFile == IF log = 0 THEN NoInput ELSE job[log].input

(* When onLoadLogFile runs, the future it reads has finished and holds a   *)
(* result: the GUI thread neither blocks in result() nor reads the empty   *)
(* store of a load that openFile cancelled.                                *)
ResultAvailable ==
  watched \in posted => job[future].phase = "finished" /\ job[future].stored

(* Once no load is outstanding, the table shows the file named in the path *)
(* box, however many loads were overtaken, cancelled or finished late.     *)
SettledShowsPath == Up /\ ~Outstanding => ShownFile = lineLogPath

(* The status bar says "Loading..." only while the newest load has not     *)
(* been shown: openFile sets the message, onLoadLogFile clears it.         *)
LoadingIsHonest == Up /\ statusbar = "Loading..." => Outstanding

(* The exception of a load that was overtaken never ends the program: it   *)
(* ends only on the file named in the path box.                            *)
EndsOnlyOnNamedFile == ui = "terminated" => lineLogPath \in Unreadable

(* The inductive strengthening of the invariants above: the watcher        *)
(* is set to the newest job, *)
NewestWatched ==
  /\ watched = IF ui = "closed" THEN 0 ELSE future
  /\ ui = "closed" => posted = {}
  /\ posted \subseteq {future}

(* jobs are started in the order of their numbers, *)
JobsInOrder == \A j \in JobIds : (job[j].phase = "none") <=> (j > future)

(* the path box names the file of the newest job, *)
NewestNamed ==
  /\ future = 0 => lineLogPath = NoInput
  /\ future # 0 => lineLogPath \in Inputs /\ lineLogPath = job[future].input
  /\ log <= future

(* which is not cancelled while the window exists, *)
NewestKept ==
  future # 0 /\ ui # "closed" =>
    /\ ~job[future].canceled
    /\ job[future].phase = "finished" => job[future].stored

(* and is on display once it has finished and its event has been handled.  *)
FinishedIsShown ==
  /\ future \in posted => job[future].phase = "finished"
  /\ future # 0 /\ Up /\ job[future].phase = "finished" /\ future \notin posted
       => log = future

LoadInv ==
  /\ NewestWatched
  /\ JobsInOrder
  /\ NewestNamed
  /\ NewestKept
  /\ FinishedIsShown
  /\ LoadingIsHonest

(* A load ends: its result is shown, or a newer file was opened, or the    *)
(* window is gone.                                                         *)
LoadCompletes ==
  \A j \in JobIds : future = j ~> (log = j \/ future > j \/ ~Up)

(* The table only ever changes to the file named in the path box, and once *)
(* for each time a file was chosen.                                        *)
LatestLog == INSTANCE LatestWins
  WITH Requests <- Inputs, Nothing <- NoInput,
       requested <- lineLogPath, published <- ShownFile,
       pending <- Up /\ Outstanding, up <- Up

ImplementsLatestWins == LatestLog!Spec
=============================================================================
