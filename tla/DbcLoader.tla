----------------------------- MODULE DbcLoader -----------------------------
(***************************************************************************)
(* Opening DBC files: MainWindow::openDbcFile, the worker that runs        *)
(* DbcParser::parse, MainWindow::onLoadDbcFile and the destructor.  It     *)
(* differs from LogLoader in three ways: an overtaken load is not          *)
(* cancelled, the empty list of a cancelled dialog is loaded like any      *)
(* other, and the parser never throws.                                     *)
(***************************************************************************)
EXTENDS FutureWatcher

CONSTANT NoFiles   \* the empty list, which the cancelled dialog returns

ASSUME NoFilesAssumption == NoFiles \in Inputs

VARIABLES
  ui,
  lineDbcPath,   \* the list named in the path box, NoInput: the box is empty
  msgDb          \* the job whose result is in MainWindow::msgDb, 0: none yet

guiVars == <<ui, lineDbcPath, msgDb>>
vars == <<job, future, watched, posted, ui, lineDbcPath, msgDb>>

TypeOK ==
  /\ FutureTypeOK
  /\ ui \in {"idle", "fileDialog", "closed"}
  /\ lineDbcPath \in Inputs \cup {NoInput}
  /\ msgDb \in 0 .. MaxJobs

Init ==
  /\ FutureInit
  /\ ui = "idle"
  /\ lineDbcPath = NoInput
  /\ msgDb = 0

(* The text of the path box: the names joined, so nothing for no names.    *)
Display(files) == IF files = NoFiles THEN NoInput ELSE files

(* getOpenFileNames blocks in a nested event loop.                         *)
OpenDbcFile ==
  /\ ui = "idle"
  /\ ui' = "fileDialog"
  /\ UNCHANGED <<futureVars, lineDbcPath, msgDb>>

-----------------------------------------------------------------------------
(* The path box names the files, and the dialog is gone.                   *)
ShowFiles(files) ==
  /\ lineDbcPath' = Display(files)
  /\ ui' = "idle"
  /\ UNCHANGED msgDb

(* Mutant: dbcWatcher is not set to the new future.                        *)
FilesChosenUnwatched(files) ==
  /\ ui = "fileDialog"
  /\ future < MaxJobs
  /\ future' = future + 1
  /\ job' = [job EXCEPT ![future + 1] = QueuedJob(files)]
  /\ ShowFiles(files)
  /\ UNCHANGED <<watched, posted>>

(* Mutant: the watcher keeps a finished event of the former future.        *)
FilesChosenKeepsEvent(files) ==
  /\ ui = "fileDialog"
  /\ future < MaxJobs
  /\ future' = future + 1 /\ watched' = future + 1
  /\ job' = [job EXCEPT ![future + 1] = QueuedJob(files)]
  /\ posted' = IF watched \in posted THEN {future + 1} ELSE {}
  /\ ShowFiles(files)

(* Mutant: the empty list is not loaded, only displayed.                   *)
FilesChosenReturnsEarly(files) ==
  /\ ui = "fileDialog"
  /\ IF files = NoFiles THEN UNCHANGED futureVars ELSE RunAndWatch(job, files)
  /\ ShowFiles(files)

(* The rest of openDbcFile; a job that is still running is left alone.     *)
FilesChosen(files) ==
  /\ ui = "fileDialog"
  /\ RunAndWatch(job, files)
  /\ ShowFiles(files)

(* onLoadDbcFile, in either event loop.  dbcFuture.result() waits for the  *)
(* end of the job.                                                         *)
OnLoadDbcFile ==
  /\ ui \in {"idle", "fileDialog"}
  /\ TakeFinishedEvent
  /\ job[future].phase = "finished"
  /\ msgDb' = future
  /\ UNCHANGED <<job, ui, lineDbcPath>>

(* The window is closed: ~MainWindow cancels the newest load if it is      *)
(* running.  Loads it overtook were never cancelled and go on.             *)
Close ==
  /\ ui = "idle"
  /\ ui' = "closed"
  /\ job' = IF IsRunning(future) THEN Cancel(future) ELSE job
  /\ watched' = 0
  /\ posted' = {}
  /\ UNCHANGED <<future, lineDbcPath, msgDb>>

Pool == PoolStep /\ UNCHANGED guiVars

Next ==
  \/ OpenDbcFile
  \/ \E files \in Inputs : FilesChosen(files)
  \/ OnLoadDbcFile
  \/ Close
  \/ Pool

Spec == Init /\ [][Next]_vars

(* As for LogLoader: the pool and the event loop go on, the user need not. *)
Fairness ==
  /\ \A j \in JobIds : WF_vars(StartJob(j) /\ UNCHANGED guiVars)
  /\ \A j \in JobIds : WF_vars(FinishJob(j) /\ UNCHANGED guiVars)
  /\ WF_vars(OnLoadDbcFile)

FairSpec == Spec /\ Fairness

-----------------------------------------------------------------------------
Up == ui \in {"idle", "fileDialog"}
Outstanding == IsRunning(future) \/ future \in posted
ShownFiles == IF msgDb = 0 THEN NoInput ELSE Display(job[msgDb].input)

(* onLoadDbcFile reads a finished future that holds a result.              *)
ResultAvailable ==
  watched \in posted => job[future].phase = "finished" /\ job[future].stored

(* The newest database comes into use unless a newer one is asked for or   *)
(* the window goes away.                                                   *)
LoadCompletes ==
  \A j \in JobIds : future = j ~> (msgDb = j \/ future > j \/ ~Up)

(* Overtaken loads run to their end beside the newest one, in any order,   *)
(* and still the database only ever changes to that of the files named in  *)
(* the box, once for each time the dialog was answered, be it by Cancel.   *)
LatestDb == INSTANCE LatestWins
  WITH Requests <- Inputs \cup {NoInput}, Nothing <- NoInput,
       requested <- lineDbcPath, published <- ShownFiles,
       pending <- Up /\ Outstanding, up <- Up

ImplementsLatestWins == LatestDb!Spec

(* The inductive strengthening of ResultAvailable, which the refinement    *)
(* rests on as well: the watcher is set to the newest job,                 *)
NewestWatched ==
  /\ watched = IF ui = "closed" THEN 0 ELSE future
  /\ ui = "closed" => posted = {}
  /\ posted \subseteq {future}

(* jobs are started in the order of their numbers,                         *)
JobsInOrder == \A j \in JobIds : (job[j].phase = "none") <=> (j > future)

(* the path box names the files of the newest job,                         *)
NewestNamed ==
  /\ future = 0 => lineDbcPath = NoInput
  /\ future # 0 => job[future].input \in Inputs /\ lineDbcPath = Display(job[future].input)
  /\ msgDb <= future

(* which is not cancelled while the window exists,                         *)
NewestKept ==
  future # 0 /\ ui # "closed" =>
    /\ ~job[future].canceled
    /\ job[future].phase = "finished" => job[future].stored

(* and is in use once it has finished and its event has been handled.      *)
FinishedIsShown ==
  /\ future \in posted => job[future].phase = "finished"
  /\ future # 0 /\ Up /\ job[future].phase = "finished" /\ future \notin posted
       => msgDb = future

LoadInv == NewestWatched /\ JobsInOrder /\ NewestNamed /\ NewestKept /\ FinishedIsShown
=============================================================================
