-------------------------- MODULE LogLoaderProofs --------------------------
(***************************************************************************)
(* The safety properties of LogLoader for every number of loads and every  *)
(* set of files.  LoadInv is the inductive invariant: the watcher is set   *)
(* to the newest job, which is never cancelled while the window is open,   *)
(* and once that job has finished and its event is gone, it is on display. *)
(* The lemmas up to the first rule are about the pool and the watcher and  *)
(* hold of any loader.                                                     *)
(***************************************************************************)
EXTENDS LogLoader, TLAPS

USE MaxJobsAssumption

(* What QtConcurrent::run starts with.                                     *)
LEMMA QueuedJobType ==
  ASSUME NEW in \in Inputs
  PROVE  /\ QueuedJob(in) \in Job
         /\ QueuedJob(in).input = in
         /\ QueuedJob(in).phase = "queued"
         /\ QueuedJob(in).canceled = FALSE
         /\ QueuedJob(in).stored = FALSE
BY DEF QueuedJob, NoJob, Job

(* The changes of a job keep its type.                                     *)
LEMMA JobUpdates ==
  ASSUME NEW r \in Job, NEW b \in BOOLEAN
  PROVE  /\ [r EXCEPT !.canceled = b] \in Job
         /\ [r EXCEPT !.phase = "running"] \in Job
         /\ [r EXCEPT !.phase = "finished", !.stored = b] \in Job
BY DEF Job

(* cancel() of a future that is running, as openFile and the destructor    *)
(* call it, changes no more than the flag of that job.                     *)
LEMMA CancelRunningFacts ==
  ASSUME FutureTypeOK, NEW jobs,
         jobs = IF IsRunning(future) THEN Cancel(future) ELSE job
  PROVE  /\ jobs \in [JobIds -> Job]
         /\ \A j \in JobIds : /\ jobs[j].input = job[j].input
                              /\ jobs[j].phase = job[j].phase
                              /\ jobs[j].stored = job[j].stored
<1>1. CASE IsRunning(future)
  <2>1. future \in JobIds
    BY <1>1 DEF IsRunning, FutureTypeOK, JobIds
  <2>2. [job[future] EXCEPT !.canceled = TRUE] \in Job
    BY <2>1, JobUpdates DEF FutureTypeOK
  <2>3. jobs \in [JobIds -> Job]
    BY <1>1, <2>1, <2>2 DEF Cancel, FutureTypeOK
  <2>4. \A j \in JobIds : job[j] \in Job
    BY DEF FutureTypeOK
  <2>5. QED
    BY <1>1, <2>3, <2>4 DEF Cancel, FutureTypeOK, Job
<1>2. CASE ~IsRunning(future)
  BY <1>2 DEF FutureTypeOK
<1>3. QED
  BY <1>1, <1>2

(* A step of the pool keeps the types.                                     *)
LEMMA PoolStepType ==
  ASSUME FutureTypeOK, PoolStep
  PROVE  FutureTypeOK'
<1>1. PICK i \in JobIds : StartJob(i) \/ FinishJob(i)
  BY DEF PoolStep
<1>2. job[i] \in Job /\ job[i].canceled \in BOOLEAN
  BY DEF FutureTypeOK, Job
<1>3. CASE Finish(i)
  <2>1. [job[i] EXCEPT !.phase = "finished", !.stored = ~job[i].canceled] \in Job
    BY <1>2, JobUpdates
  <2>2. job' \in [JobIds -> Job]
    BY <1>3, <2>1 DEF Finish, FutureTypeOK
  <2>3. QED
    BY <1>3, <2>2 DEF Finish, FutureTypeOK
<1>4. CASE /\ job' = [job EXCEPT ![i].phase = "running"]
           /\ UNCHANGED <<future, watched, posted>>
  <2>1. [job[i] EXCEPT !.phase = "running"] \in Job
    BY <1>2, JobUpdates
  <2>2. job' \in [JobIds -> Job]
    BY <1>4, <2>1 DEF FutureTypeOK
  <2>3. QED
    BY <1>4, <2>2 DEF FutureTypeOK
<1>5. QED
  BY <1>1, <1>3, <1>4 DEF StartJob, FinishJob

(***************************************************************************)
(* Job j after Finish, StartJob or FinishJob: its input and its cancelled  *)
(* flag stay, it is never unstarted, and a job that ends without having    *)
(* been cancelled has a result.                                            *)
(***************************************************************************)
LEMMA PoolStepFacts ==
  ASSUME FutureTypeOK, PoolStep
  PROVE  /\ future' = future /\ watched' = watched
         /\ \A j \in JobIds :
              /\ job'[j].input = job[j].input
              /\ job'[j].canceled = job[j].canceled
              /\ job'[j].phase = "none" <=> job[j].phase = "none"
              /\ job[j].phase = "finished" => job'[j] = job[j]
              /\ job'[j].phase = "finished" /\ job[j].phase # "finished"
                   => job'[j].stored = ~job[j].canceled
         /\ posted \subseteq posted'
         /\ \A j \in posted' \ posted : j = watched /\ job'[j].phase = "finished"
         /\ \A j \in JobIds : /\ job'[j].phase = "finished"
                              /\ job[j].phase # "finished"
                              /\ watched = j
                              => j \in posted'
<1>1. PICK i \in JobIds : StartJob(i) \/ FinishJob(i)
  BY DEF PoolStep
<1>2. \A j \in JobIds : job[j] \in Job
  BY DEF FutureTypeOK
<1>3. CASE Finish(i) /\ job[i].phase \in {"queued", "running"}
  BY <1>2, <1>3 DEF Finish, Job, FutureTypeOK
<1>4. CASE /\ job[i].phase = "queued"
           /\ job' = [job EXCEPT ![i].phase = "running"]
           /\ UNCHANGED <<future, watched, posted>>
  BY <1>2, <1>4 DEF Job, FutureTypeOK
<1>5. QED
  BY <1>1, <1>3, <1>4 DEF StartJob, FinishJob

(* An event is posted only by the step that ends its job.                  *)
LEMMA PostedWhenFinishing ==
  ASSUME FutureTypeOK, PoolStep, NEW j \in JobIds, j \in posted', j \notin posted
  PROVE  job[j].phase # "finished"
<1>1. PICK i \in JobIds : StartJob(i) \/ FinishJob(i)
  BY DEF PoolStep
<1>2. i = j /\ job[i].phase \in {"queued", "running"}
  BY <1>1 DEF StartJob, FinishJob, Finish
<1>3. QED
  BY <1>2

(* The pool neither starts nor ends the wait for the newest load: it turns *)
(* a running job into a finished event, and only the slot takes that.      *)
LEMMA PoolKeepsOutstanding ==
  ASSUME FutureTypeOK, PoolStep, watched = future,
         future # 0 => job[future].phase # "none"
  PROVE  (IsRunning(future) \/ future \in posted)' <=> (IsRunning(future) \/ future \in posted)
<1>1. /\ future' = future
      /\ posted \subseteq posted'
      /\ \A j \in posted' \ posted : j = watched /\ job'[j].phase = "finished"
  BY PoolStepFacts
<1>2. CASE future = 0
  <2>1. 0 \notin posted /\ 0 \notin posted'
    BY PoolStepType DEF FutureTypeOK, JobIds
  <2>2. QED
    BY <1>1, <1>2, <2>1 DEF IsRunning
<1>3. CASE future # 0
  <2>0. future \in JobIds
    BY <1>3 DEF FutureTypeOK, JobIds
  <2>1. /\ job'[future].phase = "none" <=> job[future].phase = "none"
        /\ job[future].phase = "finished" => job'[future].phase = "finished"
        /\ job'[future].phase = "finished" /\ job[future].phase # "finished"
             => future \in posted'
    BY <2>0, PoolStepFacts
  <2>2. /\ job[future].phase \in {"none", "queued", "running", "finished"}
        /\ job'[future].phase \in {"none", "queued", "running", "finished"}
    BY <1>1, <2>0, PoolStepType DEF FutureTypeOK, Job
  <2>3. future \in posted' /\ future \notin posted => job[future].phase # "finished"
    BY <2>0, PostedWhenFinishing
  <2>4. QED
    BY <1>1, <1>3, <2>1, <2>2, <2>3 DEF IsRunning
<1>4. QED
  BY <1>2, <1>3

-----------------------------------------------------------------------------
(* The jobs as openFile and the destructor leave them.                     *)
LEMMA CancelIfRunningType ==
  ASSUME FutureTypeOK
  PROVE  CancelIfRunning \in [JobIds -> Job]
BY CancelRunningFacts DEF CancelIfRunning

(* The types are kept by every step.                                       *)
LEMMA TypeStep == TypeOK /\ [Next]_vars => TypeOK'
<1> SUFFICES ASSUME TypeOK, [Next]_vars PROVE TypeOK'
  OBVIOUS
<1> USE DEF TypeOK
<1>0. CancelIfRunning \in [JobIds -> Job]
  BY CancelIfRunningType
<1>1. CASE OpenFile
  BY <1>1 DEF OpenFile, futureVars, FutureTypeOK
<1>2. CASE FileRejected
  BY <1>2 DEF FileRejected, futureVars, FutureTypeOK
<1>3. ASSUME NEW f \in Inputs, FileAccepted(f) PROVE TypeOK'
  <2>1. future + 1 \in JobIds
    BY <1>3 DEF FileAccepted, RunAndWatch, FutureTypeOK, JobIds
  <2>2. job' \in [JobIds -> Job]
    BY <1>3, <1>0, <2>1, QueuedJobType DEF FileAccepted, RunAndWatch
  <2>3. QED
    BY <1>3, <2>1, <2>2 DEF FileAccepted, ShowLoading, RunAndWatch, FutureTypeOK, JobIds
<1>4. CASE OnLoadLogFile
  BY <1>4 DEF OnLoadLogFile, TakeFinishedEvent, FutureTypeOK
<1>5. CASE OnPointNotify
  BY <1>5 DEF OnPointNotify, futureVars, FutureTypeOK
<1>6. CASE Close
  BY <1>6, <1>0 DEF Close, FutureTypeOK
<1>7. CASE Pool
  BY <1>7, PoolStepType DEF Pool, guiVars
<1>8. CASE UNCHANGED vars
  BY <1>8 DEF vars, FutureTypeOK
<1>9. QED
  BY <1>1, <1>2, <1>3, <1>4, <1>5, <1>6, <1>7, <1>8 DEF Next

(***************************************************************************)
(* Type correctness: every variable keeps its type, whatever the user, the *)
(* pool and the event loop do.                                             *)
(***************************************************************************)
THEOREM TypeCorrect == Spec => []TypeOK
<1>1. Init => TypeOK
  <2>1. NoJob \in Job
    BY DEF NoJob, Job
  <2>2. Init => FutureTypeOK
    BY <2>1 DEF Init, FutureInit, FutureTypeOK
  <2>3. QED
    BY <2>2 DEF Init, TypeOK
<1>2. TypeOK /\ [Next]_vars => TypeOK'
  BY TypeStep
<1>3. QED
  BY <1>1, <1>2, PTL DEF Spec

(* The cancel() in openFile changes neither the input, the phase nor the   *)
(* result of a job.                                                        *)
LEMMA CancelFacts ==
  ASSUME FutureTypeOK
  PROVE  \A j \in JobIds : /\ CancelIfRunning[j].input = job[j].input
                          /\ CancelIfRunning[j].phase = job[j].phase
                          /\ CancelIfRunning[j].stored = job[j].stored
BY CancelRunningFacts DEF CancelIfRunning

(* The inductive invariant holds when the window has been built.           *)
LEMMA InitLoadInv == Init => LoadInv
BY DEF Init, FutureInit, LoadInv, NewestWatched, JobsInOrder, NewestNamed,
       NewestKept, FinishedIsShown, NoJob, JobIds, LoadingIsHonest, Up, Outstanding

(* Every handler and every step of the pool keeps it.                      *)
LEMMA StepLoadInv == TypeOK /\ LoadInv /\ [Next]_vars => LoadInv'
<1> SUFFICES ASSUME TypeOK, LoadInv, [Next]_vars PROVE LoadInv'
  OBVIOUS
<1> USE DEF LoadInv
<1>0. /\ future = 0 \/ future \in JobIds
      /\ FutureTypeOK /\ future \in Nat /\ JobIds \subseteq Nat
  BY DEF TypeOK, FutureTypeOK, JobIds
<1>1. CASE OpenFile
  BY <1>1 DEF OpenFile, futureVars, NewestWatched, JobsInOrder, NewestNamed,
              NewestKept, FinishedIsShown, LoadingIsHonest, Up, Outstanding, IsRunning
<1>2. CASE FileRejected
  BY <1>2 DEF FileRejected, futureVars, NewestWatched, JobsInOrder, NewestNamed,
              NewestKept, FinishedIsShown, LoadingIsHonest, Up, Outstanding, IsRunning
<1>3. ASSUME NEW f \in Inputs, FileAccepted(f) PROVE LoadInv'
  <2>1. future + 1 \in JobIds /\ future' = future + 1 /\ future' # 0
    BY <1>3 DEF FileAccepted, RunAndWatch, TypeOK, FutureTypeOK, JobIds
  <2>2. job'[future'] = QueuedJob(f)
    BY <1>0, <1>3, <2>1, CancelIfRunningType DEF FileAccepted, RunAndWatch
  <2>3. /\ job'[future'].input = f
        /\ job'[future'].phase = "queued"
        /\ job'[future'].canceled = FALSE
    BY <2>2, QueuedJobType
  <2>4. NewestWatched' /\ posted' = {}
    BY <1>3 DEF FileAccepted, ShowLoading, RunAndWatch, NewestWatched
  <2>5. JobsInOrder'
    <3>1. \A j \in JobIds : j # future' => job'[j] = CancelIfRunning[j]
      BY <1>0, <1>3, <2>1, CancelIfRunningType DEF FileAccepted, RunAndWatch
    <3>2. \A j \in JobIds : j # future' => job'[j].phase = job[j].phase
      BY <1>0, <3>1, CancelFacts
    <3>3. QED
      BY <1>0, <2>1, <2>3, <3>2 DEF JobsInOrder
  <2>6. NewestNamed'
    BY <1>0, <1>3, <2>1, <2>3 DEF FileAccepted, ShowLoading, NewestNamed, TypeOK
  <2>7. NewestKept' /\ FinishedIsShown' /\ LoadingIsHonest'
    BY <2>1, <2>3, <2>4
       DEF NewestKept, FinishedIsShown, LoadingIsHonest, Outstanding, IsRunning
  <2>8. QED
    BY <2>4, <2>5, <2>6, <2>7
<1>4. CASE OnLoadLogFile
  BY <1>0, <1>4
     DEF OnLoadLogFile, TakeFinishedEvent, NewestWatched, JobsInOrder, NewestNamed,
         NewestKept, FinishedIsShown, LoadingIsHonest, Up
<1>5. CASE OnPointNotify
  BY <1>5 DEF OnPointNotify, futureVars, NewestWatched, JobsInOrder, NewestNamed,
              NewestKept, FinishedIsShown, LoadingIsHonest, Up
<1>6. CASE Close
  <2>1. \A j \in JobIds : /\ job'[j].phase = job[j].phase
                         /\ job'[j].input = job[j].input
    BY <1>0, <1>6, CancelFacts DEF Close
  <2>2. QED
    BY <1>0, <1>6, <2>1
       DEF Close, NewestWatched, JobsInOrder, NewestNamed, NewestKept,
           FinishedIsShown, LoadingIsHonest, Up
<1>7. CASE Pool
  <2>1. PoolStep /\ UNCHANGED <<ui, lineLogPath, statusbar, log>>
    BY <1>7 DEF Pool, guiVars
  <2>2. future' = future /\ watched' = watched
    BY <1>0, <2>1, PoolStepFacts
  <2>3. \A j \in JobIds :
          /\ job'[j].input = job[j].input
          /\ job'[j].canceled = job[j].canceled
          /\ (job'[j].phase = "none") <=> (job[j].phase = "none")
    BY <1>0, <2>1, PoolStepFacts
  <2>4. /\ posted \subseteq posted'
        /\ \A j \in posted' \ posted : j = watched /\ job'[j].phase = "finished"
    BY <1>0, <2>1, PoolStepFacts
  <2>5. NewestWatched' /\ JobsInOrder' /\ NewestNamed'
    <3>1. NewestWatched'
      <4>1. CASE ui = "closed"
        BY <1>0, <2>1, <2>2, <2>4, <4>1, PoolStepType
           DEF NewestWatched, FutureTypeOK, JobIds
      <4>2. CASE ui # "closed"
        BY <2>1, <2>2, <2>4, <4>2 DEF NewestWatched
      <4>3. QED
        BY <4>1, <4>2
    <3>2. QED
      BY <1>0, <2>1, <2>2, <2>3, <3>1 DEF JobsInOrder, NewestNamed
  <2>6. NewestKept'
    BY <1>0, <2>1, <2>2, <2>3, PoolStepFacts DEF NewestKept
  <2>7. CASE future = 0
    <3>1. 0 \notin posted'
      BY <1>0, <2>1, PoolStepType DEF FutureTypeOK, JobIds
    <3>2. statusbar # "Loading..." \/ ~Up
      BY <1>0, <2>4, <2>7, <3>1 DEF LoadingIsHonest, Outstanding, IsRunning
    <3>3. QED
      BY <2>1, <2>2, <2>5, <2>6, <2>7, <3>1, <3>2 DEF FinishedIsShown, LoadingIsHonest, Up
  <2>8. CASE future # 0
    <3>1. /\ job[future].phase = "finished" => job'[future].phase = "finished"
          /\ job'[future].phase = "finished" /\ job[future].phase # "finished"
                /\ watched = future => future \in posted'
          /\ job'[future].phase \in {"none", "queued", "running", "finished"}
      BY <1>0, <2>1, <2>8, PoolStepFacts, PoolStepType DEF FutureTypeOK, Job
    <3>2. job'[future].phase # "none" /\ job[future].phase # "none"
      BY <1>0, <2>2, <2>5, <2>8 DEF JobsInOrder
    <3>3. FinishedIsShown'
      BY <2>1, <2>2, <2>4, <3>1 DEF FinishedIsShown, NewestWatched, Up
    <3>4. LoadingIsHonest'
      BY <2>1, <2>2, <2>4, <2>8, <3>1, <3>2
         DEF LoadingIsHonest, Outstanding, IsRunning, NewestWatched, FinishedIsShown, Up
    <3>5. QED
      BY <2>5, <2>6, <3>3, <3>4
  <2>9. QED
    BY <2>7, <2>8
<1>8. CASE UNCHANGED vars
  BY <1>8 DEF vars, NewestWatched, JobsInOrder, NewestNamed, NewestKept,
              FinishedIsShown, LoadingIsHonest, Up, Outstanding, IsRunning
<1>9. QED
  BY <1>1, <1>2, <1>3, <1>4, <1>5, <1>6, <1>7, <1>8 DEF Next

(* The pool neither starts nor ends the wait for the newest load.          *)
LEMMA OutstandingLasts ==
  ASSUME TypeOK, LoadInv, Pool, Up
  PROVE  Outstanding' <=> Outstanding
<1>1. FutureTypeOK /\ PoolStep /\ watched = future
  BY DEF TypeOK, Pool, LoadInv, NewestWatched, Up
<1>2. future # 0 => job[future].phase # "none"
  BY <1>1 DEF LoadInv, JobsInOrder, FutureTypeOK, JobIds
<1>3. QED
  BY <1>1, <1>2, PoolKeepsOutstanding DEF Outstanding

(* Hence it holds in every state.                                          *)
LEMMA LoadInvariant == Spec => [](TypeOK /\ LoadInv)
<1>1. Init => LoadInv
  BY InitLoadInv
<1>2. TypeOK /\ LoadInv /\ [Next]_vars => LoadInv'
  BY StepLoadInv
<1>3. Spec => []TypeOK
  BY TypeCorrect
<1>4. QED
  BY <1>1, <1>2, <1>3, PTL DEF Spec

(***************************************************************************)
(* The GUI thread never blocks in logFuture.result() and never reads the   *)
(* empty result of a load that openFile cancelled.                         *)
(***************************************************************************)
THEOREM ResultIsAvailable == Spec => []ResultAvailable
<1>1. TypeOK /\ LoadInv => ResultAvailable
  BY DEF TypeOK, FutureTypeOK, JobIds, LoadInv, NewestWatched, NewestKept,
         FinishedIsShown, ResultAvailable
<1>2. QED
  BY <1>1, LoadInvariant, PTL

(***************************************************************************)
(* Once the newest load has been handled, the table shows the file named   *)
(* in the path box.                                                        *)
(***************************************************************************)
THEOREM SettledIsCurrent == Spec => []SettledShowsPath
<1>1. TypeOK /\ LoadInv => SettledShowsPath
  <2> SUFFICES ASSUME TypeOK, LoadInv, Up, ~Outstanding
               PROVE  ShownFile = lineLogPath
    BY DEF SettledShowsPath
  <2>1. CASE future = 0
    BY <2>1 DEF LoadInv, NewestNamed, ShownFile, TypeOK
  <2>2. CASE future # 0
    <3>1. future \in JobIds /\ job[future] \in Job /\ ~(future > future)
      BY <2>2 DEF TypeOK, FutureTypeOK, JobIds
    <3>2. job[future].phase = "finished"
      BY <2>2, <3>1 DEF Outstanding, IsRunning, Job, LoadInv, JobsInOrder
    <3>3. log = future
      BY <2>2, <3>2 DEF Outstanding, LoadInv, FinishedIsShown
    <3>4. QED
      BY <2>2, <3>3 DEF LoadInv, NewestNamed, ShownFile
  <2>3. QED
    BY <2>1, <2>2
<1>2. QED
  BY <1>1, LoadInvariant, PTL

(***************************************************************************)
(* "Loading..." is on display only while the newest load is outstanding.   *)
(***************************************************************************)
THEOREM LoadingMessageIsHonest == Spec => []LoadingIsHonest
<1>1. LoadInv => LoadingIsHonest
  BY DEF LoadInv
<1>2. QED
  BY <1>1, LoadInvariant, PTL

(***************************************************************************)
(* Only the file named in the path box can end the program, however many   *)
(* files on which the parser throws were opened and overtaken before.      *)
(***************************************************************************)
THEOREM ExceptionIsOfNamedFile == Spec => []EndsOnlyOnNamedFile
<1>1. Init => EndsOnlyOnNamedFile
  BY DEF Init, EndsOnlyOnNamedFile
<1>2. TypeOK /\ LoadInv /\ EndsOnlyOnNamedFile /\ [Next]_vars => EndsOnlyOnNamedFile'
  <2> SUFFICES ASSUME TypeOK, LoadInv, EndsOnlyOnNamedFile, [Next]_vars
               PROVE  EndsOnlyOnNamedFile'
    OBVIOUS
  <2> USE DEF EndsOnlyOnNamedFile
  <2>1. CASE OnLoadLogFile
    <3>1. future \in JobIds
      BY <2>1 DEF OnLoadLogFile, TakeFinishedEvent, LoadInv, NewestWatched, TypeOK,
                  FutureTypeOK
    <3>2. lineLogPath = job[future].input
      BY <3>1 DEF JobIds, LoadInv, NewestNamed
    <3>3. QED
      BY <2>1, <3>2 DEF OnLoadLogFile
  <2>2. CASE OpenFile \/ FileRejected \/ OnPointNotify \/ Close
    BY <2>2 DEF OpenFile, FileRejected, OnPointNotify, Close
  <2>3. ASSUME NEW f \in Inputs, FileAccepted(f) PROVE EndsOnlyOnNamedFile'
    BY <2>3 DEF FileAccepted, ShowLoading
  <2>4. CASE Pool \/ UNCHANGED vars
    BY <2>4 DEF Pool, guiVars, vars
  <2>5. QED
    BY <2>1, <2>2, <2>3, <2>4 DEF Next
<1>3. QED
  BY <1>1, <1>2, LoadInvariant, PTL DEF Spec

(***************************************************************************)
(* openFile, the worker and onLoadLogFile implement LatestWins: choosing a *)
(* file is a Request, showing a result is a Publish of the file named in   *)
(* the path box, closing and the uncaught exception are a Stop, and every  *)
(* other step is invisible.                                                *)
(***************************************************************************)
THEOREM LogLoaderImplementsLatestWins == Spec => ImplementsLatestWins
<1> USE DEF LatestLog!vars, LatestLog!Next
<1>1. Init => LatestLog!Init
  BY DEF Init, FutureInit, LatestLog!Init, ShownFile, Up, Outstanding, IsRunning
<1>2. TypeOK /\ LoadInv /\ [Next]_vars => [LatestLog!Next]_(LatestLog!vars)
  <2> SUFFICES ASSUME TypeOK, LoadInv, [Next]_vars
               PROVE  \/ LatestLog!Next
                      \/ UNCHANGED <<lineLogPath, ShownFile, Up /\ Outstanding, Up>>
    OBVIOUS
  <2>0. /\ FutureTypeOK /\ future \in Nat /\ log \in Nat /\ log <= future
        /\ log # 0 => log \in JobIds
        /\ future # 0 => future \in JobIds
    BY DEF TypeOK, FutureTypeOK, JobIds, LoadInv, NewestNamed
  <2>1. ASSUME NEW f \in Inputs, FileAccepted(f) PROVE LatestLog!Request(f)
    <3>1. log # 0 => job'[log].input = job[log].input
      <4>1. log # future + 1
        BY <2>0
      <4>2. log # 0 => job'[log] = CancelIfRunning[log]
        BY <2>0, <2>1, <4>1, CancelIfRunningType DEF FileAccepted, RunAndWatch
      <4>3. QED
        BY <2>0, <4>2, CancelFacts
    <3>2. ShownFile' = ShownFile
      BY <2>1, <3>1 DEF FileAccepted, ShowLoading, ShownFile
    <3>3. (Up /\ Outstanding)' = TRUE
      <4>1. future + 1 \in JobIds /\ future' = future + 1 /\ future' # 0
        BY <2>0, <2>1 DEF FileAccepted, RunAndWatch, JobIds
      <4>2. job'[future'] = QueuedJob(f)
        BY <2>0, <2>1, <4>1, CancelIfRunningType DEF FileAccepted, RunAndWatch
      <4>3. QED
        BY <2>1, <4>1, <4>2, QueuedJobType
           DEF FileAccepted, ShowLoading, Up, Outstanding, IsRunning
    <3>4. QED
      BY <2>1, <3>2, <3>3 DEF FileAccepted, ShowLoading, LatestLog!Request, Up
  <2>2. CASE OnLoadLogFile
    <3>0. /\ job' = job /\ lineLogPath' = lineLogPath /\ Up
          /\ watched \in posted /\ posted' = posted \ {watched}
          /\ future' = future /\ job[future].phase = "finished"
      BY <2>2 DEF OnLoadLogFile, TakeFinishedEvent, Up
    <3>1. future # 0 /\ watched = future
      BY <3>0 DEF LoadInv, NewestWatched, Up, TypeOK, FutureTypeOK, JobIds
    <3>2. lineLogPath = job[future].input /\ lineLogPath # NoInput
      BY <3>1, NoInputAssumption DEF LoadInv, NewestNamed
    <3>3. (Up /\ Outstanding) = TRUE /\ (Up /\ Outstanding)' = FALSE
      BY <3>0, <3>1 DEF Outstanding, IsRunning
    <3>4. CASE job[future].input \in Unreadable
      BY <2>2, <3>0, <3>3, <3>4 DEF OnLoadLogFile, LatestLog!Stop, Up, ShownFile
    <3>5. CASE job[future].input \notin Unreadable
      BY <2>2, <3>0, <3>1, <3>2, <3>3, <3>5
         DEF OnLoadLogFile, LatestLog!Publish, Up, ShownFile
    <3>6. QED
      BY <3>4, <3>5
  <2>3. CASE Close
    <3>1. ShownFile' = ShownFile
      BY <2>0, <2>3, CancelFacts DEF Close, ShownFile
    <3>2. Up /\ Up' = FALSE
      BY <2>3 DEF Close, Up
    <3>3. (Up /\ Outstanding)' = FALSE
      BY <3>2
    <3>4. QED
      BY <2>3, <3>1, <3>2, <3>3 DEF Close, LatestLog!Stop
  <2>4. CASE Pool
    <3>1. log # 0 => job'[log].input = job[log].input
      BY <2>0, <2>4, PoolStepFacts DEF Pool
    <3>2. Up' = Up /\ lineLogPath' = lineLogPath /\ ShownFile' = ShownFile
      BY <2>4, <3>1 DEF Pool, guiVars, ShownFile, Up
    <3>3. (Up /\ Outstanding)' = (Up /\ Outstanding)
      <4>1. CASE ~Up
        BY <3>2, <4>1
      <4>2. CASE Up
        <5>1. Outstanding' <=> Outstanding
          BY <2>0, <2>4, <4>2, OutstandingLasts
        <5>2. QED
          BY <3>2, <4>2, <5>1
      <4>3. QED
        BY <4>1, <4>2
    <3>4. QED
      BY <3>2, <3>3
  <2>5. CASE OpenFile \/ FileRejected \/ OnPointNotify \/ UNCHANGED vars
    BY <2>5 DEF OpenFile, FileRejected, OnPointNotify, futureVars, vars, ShownFile, Up,
                Outstanding, IsRunning
  <2>6. QED
    BY <2>1, <2>2, <2>3, <2>4, <2>5 DEF Next
<1>3. QED
  BY <1>1, <1>2, LoadInvariant, TypeCorrect, PTL
     DEF Spec, ImplementsLatestWins, LatestLog!Spec
=============================================================================
