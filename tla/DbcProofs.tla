----------------------------- MODULE DbcProofs -----------------------------
(***************************************************************************)
(* DBC files: how they are loaded (DbcLoader) and what the worker of a     *)
(* load reads (DbcParser), for every number of loads and lines.            *)
(* LoadInv is the inductive invariant of the loads.  Unlike the log's they *)
(* are not cancelled when overtaken; that this does no harm is what        *)
(* NewestWatched says: no other job's event is in the queue.  The lemmas   *)
(* up to the first rule are about the pool and the watcher and hold of any *)
(* loader.  ParserInv and MeaningInv are those of the parser.              *)
(***************************************************************************)
EXTENDS DbcLoader, DbcParser, SequenceTheorems, WellFoundedInduction, TLAPS

USE MaxJobsAssumption, MaxLinesAssumption

(* What QtConcurrent::run starts with.                                     *)
LEMMA QueuedJobType ==
  ASSUME NEW in \in Inputs
  PROVE  /\ QueuedJob(in) \in Job
         /\ QueuedJob(in).input = in
         /\ QueuedJob(in).phase = "queued"
         /\ QueuedJob(in).canceled = FALSE
         /\ QueuedJob(in).stored = FALSE
BY DEF QueuedJob, NoJob, Job

(* The changes of a job keep its type.                                     *)
LEMMA JobUpdates ==
  ASSUME NEW r \in Job, NEW b \in BOOLEAN
  PROVE  /\ [r EXCEPT !.canceled = b] \in Job
         /\ [r EXCEPT !.phase = "running"] \in Job
         /\ [r EXCEPT !.phase = "finished", !.stored = b] \in Job
BY DEF Job

(* cancel() of a future that is running, as openFile and the destructor    *)
(* call it, changes no more than the flag of that job.                     *)
LEMMA CancelRunningFacts ==
  ASSUME FutureTypeOK, NEW jobs,
         jobs = IF IsRunning(future) THEN Cancel(future) ELSE job
  PROVE  /\ jobs \in [JobIds -> Job]
         /\ \A j \in JobIds : /\ jobs[j].input = job[j].input
                              /\ jobs[j].phase = job[j].phase
                              /\ jobs[j].stored = job[j].stored
<1>1. CASE IsRunning(future)
  <2>1. future \in JobIds
    BY <1>1 DEF IsRunning, FutureTypeOK, JobIds
  <2>2. [job[future] EXCEPT !.canceled = TRUE] \in Job
    BY <2>1, JobUpdates DEF FutureTypeOK
  <2>3. jobs \in [JobIds -> Job]
    BY <1>1, <2>1, <2>2 DEF Cancel, FutureTypeOK
  <2>4. \A j \in JobIds : job[j] \in Job
    BY DEF FutureTypeOK
  <2>5. QED
    BY <1>1, <2>3, <2>4 DEF Cancel, FutureTypeOK, Job
<1>2. CASE ~IsRunning(future)
  BY <1>2 DEF FutureTypeOK
<1>3. QED
  BY <1>1, <1>2

(* A step of the pool keeps the types.                                     *)
LEMMA PoolStepType ==
  ASSUME FutureTypeOK, PoolStep
  PROVE  FutureTypeOK'
<1>1. PICK i \in JobIds : StartJob(i) \/ FinishJob(i)
  BY DEF PoolStep
<1>2. job[i] \in Job /\ job[i].canceled \in BOOLEAN
  BY DEF FutureTypeOK, Job
<1>3. CASE Finish(i)
  <2>1. [job[i] EXCEPT !.phase = "finished", !.stored = ~job[i].canceled] \in Job
    BY <1>2, JobUpdates
  <2>2. job' \in [JobIds -> Job]
    BY <1>3, <2>1 DEF Finish, FutureTypeOK
  <2>3. QED
    BY <1>3, <2>2 DEF Finish, FutureTypeOK
<1>4. CASE /\ job' = [job EXCEPT ![i].phase = "running"]
           /\ UNCHANGED <<future, watched, posted>>
  <2>1. [job[i] EXCEPT !.phase = "running"] \in Job
    BY <1>2, JobUpdates
  <2>2. job' \in [JobIds -> Job]
    BY <1>4, <2>1 DEF FutureTypeOK
  <2>3. QED
    BY <1>4, <2>2 DEF FutureTypeOK
<1>5. QED
  BY <1>1, <1>3, <1>4 DEF StartJob, FinishJob

(***************************************************************************)
(* Job j after Finish, StartJob or FinishJob: its input and its cancelled  *)
(* flag stay, it is never unstarted, and a job that ends without having    *)
(* been cancelled has a result.                                            *)
(***************************************************************************)
LEMMA PoolStepFacts ==
  ASSUME FutureTypeOK, PoolStep
  PROVE  /\ future' = future /\ watched' = watched
         /\ \A j \in JobIds :
              /\ job'[j].input = job[j].input
              /\ job'[j].canceled = job[j].canceled
              /\ job'[j].phase = "none" <=> job[j].phase = "none"
              /\ job[j].phase = "finished" => job'[j] = job[j]
              /\ job'[j].phase = "finished" /\ job[j].phase # "finished"
                   => job'[j].stored = ~job[j].canceled
         /\ posted \subseteq posted'
         /\ \A j \in posted' \ posted : j = watched /\ job'[j].phase = "finished"
         /\ \A j \in JobIds : /\ job'[j].phase = "finished"
                              /\ job[j].phase # "finished"
                              /\ watched = j
                              => j \in posted'
<1>1. PICK i \in JobIds : StartJob(i) \/ FinishJob(i)
  BY DEF PoolStep
<1>2. \A j \in JobIds : job[j] \in Job
  BY DEF FutureTypeOK
<1>3. CASE Finish(i) /\ job[i].phase \in {"queued", "running"}
  BY <1>2, <1>3 DEF Finish, Job, FutureTypeOK
<1>4. CASE /\ job[i].phase = "queued"
           /\ job' = [job EXCEPT ![i].phase = "running"]
           /\ UNCHANGED <<future, watched, posted>>
  BY <1>2, <1>4 DEF Job, FutureTypeOK
<1>5. QED
  BY <1>1, <1>3, <1>4 DEF StartJob, FinishJob

(* An event is posted only by the step that ends its job.                  *)
LEMMA PostedWhenFinishing ==
  ASSUME FutureTypeOK, PoolStep, NEW j \in JobIds, j \in posted', j \notin posted
  PROVE  job[j].phase # "finished"
<1>1. PICK i \in JobIds : StartJob(i) \/ FinishJob(i)
  BY DEF PoolStep
<1>2. i = j /\ job[i].phase \in {"queued", "running"}
  BY <1>1 DEF StartJob, FinishJob, Finish
<1>3. QED
  BY <1>2

(* The pool neither starts nor ends the wait for the newest load: it turns *)
(* a running job into a finished event, and only the slot takes that.      *)
LEMMA PoolKeepsOutstanding ==
  ASSUME FutureTypeOK, PoolStep, watched = future,
         future # 0 => job[future].phase # "none"
  PROVE  (IsRunning(future) \/ future \in posted)' <=> (IsRunning(future) \/ future \in posted)
<1>1. /\ future' = future
      /\ posted \subseteq posted'
      /\ \A j \in posted' \ posted : j = watched /\ job'[j].phase = "finished"
  BY PoolStepFacts
<1>2. CASE future = 0
  <2>1. 0 \notin posted /\ 0 \notin posted'
    BY PoolStepType DEF FutureTypeOK, JobIds
  <2>2. QED
    BY <1>1, <1>2, <2>1 DEF IsRunning
<1>3. CASE future # 0
  <2>0. future \in JobIds
    BY <1>3 DEF FutureTypeOK, JobIds
  <2>1. /\ job'[future].phase = "none" <=> job[future].phase = "none"
        /\ job[future].phase = "finished" => job'[future].phase = "finished"
        /\ job'[future].phase = "finished" /\ job[future].phase # "finished"
             => future \in posted'
    BY <2>0, PoolStepFacts
  <2>2. /\ job[future].phase \in {"none", "queued", "running", "finished"}
        /\ job'[future].phase \in {"none", "queued", "running", "finished"}
    BY <1>1, <2>0, PoolStepType DEF FutureTypeOK, Job
  <2>3. future \in posted' /\ future \notin posted => job[future].phase # "finished"
    BY <2>0, PostedWhenFinishing
  <2>4. QED
    BY <1>1, <1>3, <2>1, <2>2, <2>3 DEF IsRunning
<1>4. QED
  BY <1>2, <1>3

-----------------------------------------------------------------------------
(* The types are kept by every step.                                       *)
LEMMA TypeStep == TypeOK /\ [Next]_vars => TypeOK'
<1> SUFFICES ASSUME TypeOK, [Next]_vars PROVE TypeOK'
  OBVIOUS
<1> USE DEF TypeOK
<1>1. CASE OpenDbcFile
  BY <1>1 DEF OpenDbcFile, futureVars, FutureTypeOK
<1>2. ASSUME NEW files \in Inputs, FilesChosen(files) PROVE TypeOK'
  <2>1. future + 1 \in JobIds
    BY <1>2 DEF FilesChosen, RunAndWatch, FutureTypeOK, JobIds
  <2>2. job' \in [JobIds -> Job]
    BY <1>2, <2>1, QueuedJobType DEF FilesChosen, RunAndWatch, FutureTypeOK
  <2>3. QED
    BY <1>2, <2>1, <2>2
       DEF FilesChosen, ShowFiles, Display, RunAndWatch, FutureTypeOK, JobIds
<1>3. CASE OnLoadDbcFile
  BY <1>3 DEF OnLoadDbcFile, TakeFinishedEvent, FutureTypeOK
<1>4. CASE Close
  <2>1. job' \in [JobIds -> Job]
    BY <1>4, CancelRunningFacts DEF Close
  <2>2. QED
    BY <1>4, <2>1 DEF Close, FutureTypeOK
<1>5. CASE Pool
  BY <1>5, PoolStepType DEF Pool, guiVars
<1>6. CASE UNCHANGED vars
  BY <1>6 DEF vars, FutureTypeOK
<1>7. QED
  BY <1>1, <1>2, <1>3, <1>4, <1>5, <1>6 DEF Next

(* Type correctness of the loader.                                         *)
LEMMA TypeCorrect == Spec => []TypeOK
<1>1. Init => TypeOK
  <2>1. NoJob \in Job
    BY DEF NoJob, Job
  <2>2. Init => FutureTypeOK
    BY <2>1 DEF Init, FutureInit, FutureTypeOK
  <2>3. QED
    BY <2>2 DEF Init, TypeOK
<1>2. QED
  BY <1>1, TypeStep, PTL DEF Spec

-----------------------------------------------------------------------------
(* LoadInv is inductive.                                                   *)
LEMMA InitLoadInv == Init => LoadInv
BY DEF Init, FutureInit, LoadInv, NewestWatched, JobsInOrder, NewestNamed, NewestKept,
       FinishedIsShown, NoJob, JobIds, Up

(* Every handler and every step of the pool keeps the inductive invariant. *)
LEMMA StepLoadInv == TypeOK /\ LoadInv /\ [Next]_vars => LoadInv'
<1> SUFFICES ASSUME TypeOK, LoadInv, [Next]_vars PROVE LoadInv'
  OBVIOUS
<1> USE DEF LoadInv
<1>0. /\ future = 0 \/ future \in JobIds
      /\ FutureTypeOK /\ future \in Nat /\ JobIds \subseteq Nat /\ msgDb \in Nat
  BY DEF TypeOK, FutureTypeOK, JobIds
<1>1. CASE OpenDbcFile
  BY <1>1 DEF OpenDbcFile, futureVars, NewestWatched, JobsInOrder, NewestNamed,
              NewestKept, FinishedIsShown, Up
<1>2. ASSUME NEW files \in Inputs, FilesChosen(files) PROVE LoadInv'
  <2>1. future + 1 \in JobIds /\ future' = future + 1 /\ future' # 0
    BY <1>2 DEF FilesChosen, RunAndWatch, TypeOK, FutureTypeOK, JobIds
  <2>2. job'[future'] = QueuedJob(files)
    BY <1>0, <1>2, <2>1 DEF FilesChosen, RunAndWatch, FutureTypeOK
  <2>3. /\ job'[future'].input = files
        /\ job'[future'].phase = "queued"
        /\ job'[future'].canceled = FALSE
    BY <2>2, QueuedJobType
  <2>4. NewestWatched' /\ posted' = {}
    BY <1>2 DEF FilesChosen, ShowFiles, RunAndWatch, NewestWatched
  <2>5. JobsInOrder'
    <3>1. \A j \in JobIds : j # future' => job'[j] = job[j]
      BY <1>0, <1>2, <2>1 DEF FilesChosen, RunAndWatch, FutureTypeOK
    <3>2. QED
      BY <1>0, <2>1, <2>3, <3>1 DEF JobsInOrder
  <2>6. NewestNamed'
    BY <1>0, <1>2, <2>1, <2>3 DEF FilesChosen, ShowFiles, NewestNamed, TypeOK
  <2>7. NewestKept' /\ FinishedIsShown'
    BY <2>1, <2>3, <2>4 DEF NewestKept, FinishedIsShown
  <2>8. QED
    BY <2>4, <2>5, <2>6, <2>7
<1>3. CASE OnLoadDbcFile
  BY <1>0, <1>3
     DEF OnLoadDbcFile, TakeFinishedEvent, NewestWatched, JobsInOrder, NewestNamed,
         NewestKept, FinishedIsShown, Up
<1>4. CASE Close
  <2>1. \A j \in JobIds : /\ job'[j].phase = job[j].phase
                         /\ job'[j].input = job[j].input
    BY <1>0, <1>4, CancelRunningFacts DEF Close
  <2>2. QED
    BY <1>0, <1>4, <2>1
       DEF Close, NewestWatched, JobsInOrder, NewestNamed, NewestKept, FinishedIsShown, Up
<1>5. CASE Pool
  <2>1. PoolStep /\ UNCHANGED <<ui, lineDbcPath, msgDb>>
    BY <1>5 DEF Pool, guiVars
  <2>2. /\ future' = future /\ watched' = watched
        /\ \A j \in JobIds :
             /\ job'[j].input = job[j].input
             /\ job'[j].canceled = job[j].canceled
             /\ (job'[j].phase = "none") <=> (job[j].phase = "none")
        /\ posted \subseteq posted'
        /\ \A j \in posted' \ posted : j = watched /\ job'[j].phase = "finished"
    BY <1>0, <2>1, PoolStepFacts
  <2>3. 0 \notin posted'
    BY <1>0, <2>1, PoolStepType DEF FutureTypeOK, JobIds
  <2>4. NewestWatched'
    <3>1. CASE ui = "closed"
      BY <2>1, <2>2, <2>3, <3>1 DEF NewestWatched
    <3>2. CASE ui # "closed"
      BY <2>1, <2>2, <3>2 DEF NewestWatched
    <3>3. QED
      BY <3>1, <3>2
  <2>5. JobsInOrder' /\ NewestNamed'
    BY <1>0, <2>1, <2>2 DEF JobsInOrder, NewestNamed
  <2>6. NewestKept'
    BY <1>0, <2>1, <2>2, PoolStepFacts DEF NewestKept
  <2>7. FinishedIsShown'
    <3>1. CASE future = 0
      BY <2>1, <2>2, <2>3, <3>1 DEF FinishedIsShown
    <3>2. CASE future # 0
      <4>1. /\ job[future].phase = "finished" => job'[future].phase = "finished"
            /\ job'[future].phase = "finished" /\ job[future].phase # "finished"
                  /\ watched = future => future \in posted'
        BY <1>0, <2>1, <3>2, PoolStepFacts
      <4>2. QED
        BY <2>1, <2>2, <4>1 DEF FinishedIsShown, NewestWatched, Up
    <3>3. QED
      BY <3>1, <3>2
  <2>8. QED
    BY <2>4, <2>5, <2>6, <2>7
<1>6. CASE UNCHANGED vars
  BY <1>6 DEF vars, NewestWatched, JobsInOrder, NewestNamed, NewestKept,
              FinishedIsShown, Up
<1>7. QED
  BY <1>1, <1>2, <1>3, <1>4, <1>5, <1>6 DEF Next

(* Hence it holds in every state.                                          *)
LEMMA LoadInvariant == Spec => [](TypeOK /\ LoadInv)
<1>1. Init => LoadInv
  BY InitLoadInv
<1>2. TypeOK /\ LoadInv /\ [Next]_vars => LoadInv'
  BY StepLoadInv
<1>3. QED
  BY <1>1, <1>2, TypeCorrect, PTL DEF Spec

(***************************************************************************)
(* The GUI thread never blocks in dbcFuture.result() and never reads the   *)
(* empty result of a cancelled load, although overtaken loads run on.      *)
(***************************************************************************)
THEOREM DbcResultIsAvailable == Spec => []ResultAvailable
<1>1. TypeOK /\ LoadInv => ResultAvailable
  BY DEF TypeOK, FutureTypeOK, JobIds, LoadInv, NewestWatched, NewestKept,
         FinishedIsShown, ResultAvailable
<1>2. QED
  BY <1>1, LoadInvariant, PTL

-----------------------------------------------------------------------------
(* The pool neither starts nor ends the wait for the newest load.          *)
LEMMA OutstandingLasts ==
  ASSUME TypeOK, LoadInv, Pool, Up
  PROVE  Outstanding' <=> Outstanding
<1>1. FutureTypeOK /\ PoolStep /\ watched = future
  BY DEF TypeOK, Pool, LoadInv, NewestWatched, Up
<1>2. future # 0 => job[future].phase # "none"
  BY <1>1 DEF LoadInv, JobsInOrder, FutureTypeOK, JobIds
<1>3. QED
  BY <1>1, <1>2, PoolKeepsOutstanding DEF Outstanding

(***************************************************************************)
(* openDbcFile, the workers and onLoadDbcFile implement LatestWins: the    *)
(* answer to the dialog, Cancel included, is a Request of the list that is *)
(* displayed, onLoadDbcFile is a Publish, closing the window a Stop.       *)
(***************************************************************************)
THEOREM DbcLoaderImplementsLatestWins == Spec => ImplementsLatestWins
<1> USE DEF LatestDb!vars, LatestDb!Next
<1>1. Init => LatestDb!Init
  BY DEF Init, FutureInit, LatestDb!Init, ShownFiles, Up, Outstanding, IsRunning
<1>2. TypeOK /\ LoadInv /\ [Next]_vars => [LatestDb!Next]_(LatestDb!vars)
  <2> SUFFICES ASSUME TypeOK, LoadInv, [Next]_vars
               PROVE  \/ LatestDb!Next
                      \/ UNCHANGED <<lineDbcPath, ShownFiles, Up /\ Outstanding, Up>>
    OBVIOUS
  <2>0. /\ FutureTypeOK /\ future \in Nat /\ msgDb \in Nat /\ msgDb <= future
        /\ msgDb # 0 => msgDb \in JobIds
        /\ future # 0 => future \in JobIds
    BY DEF TypeOK, FutureTypeOK, JobIds, LoadInv, NewestNamed
  <2>1. ASSUME NEW files \in Inputs, FilesChosen(files)
        PROVE  LatestDb!Request(Display(files))
    <3>1. msgDb # 0 => job'[msgDb] = job[msgDb]
      BY <2>0, <2>1 DEF FilesChosen, RunAndWatch, FutureTypeOK
    <3>2. ShownFiles' = ShownFiles
      BY <2>1, <3>1 DEF FilesChosen, ShowFiles, ShownFiles
    <3>3. (Up /\ Outstanding)' = TRUE
      <4>1. future + 1 \in JobIds /\ future' = future + 1 /\ future' # 0
        BY <2>0, <2>1 DEF FilesChosen, RunAndWatch, JobIds
      <4>2. job'[future'] = QueuedJob(files)
        BY <2>0, <2>1, <4>1 DEF FilesChosen, RunAndWatch, FutureTypeOK
      <4>3. QED
        BY <2>1, <4>1, <4>2, QueuedJobType
           DEF FilesChosen, ShowFiles, Up, Outstanding, IsRunning
    <3>4. QED
      BY <2>1, <3>2, <3>3 DEF FilesChosen, ShowFiles, LatestDb!Request, Up
  <2>2. ASSUME NEW files \in Inputs PROVE Display(files) \in Inputs \cup {NoInput}
    BY DEF Display
  <2>3. CASE OnLoadDbcFile
    <3>1. /\ job' = job /\ lineDbcPath' = lineDbcPath /\ Up /\ Up'
          /\ watched \in posted /\ posted' = posted \ {watched}
          /\ future' = future /\ job[future].phase = "finished"
          /\ msgDb' = future
      BY <2>3 DEF OnLoadDbcFile, TakeFinishedEvent, Up
    <3>2. future # 0 /\ watched = future
      BY <3>1 DEF LoadInv, NewestWatched, Up, TypeOK, FutureTypeOK, JobIds
    <3>3. ShownFiles' = lineDbcPath
      BY <3>1, <3>2 DEF LoadInv, NewestNamed, ShownFiles
    <3>4. (Up /\ Outstanding) = TRUE /\ (Up /\ Outstanding)' = FALSE
      BY <3>1, <3>2 DEF Outstanding, IsRunning
    <3>5. QED
      BY <3>1, <3>3, <3>4 DEF LatestDb!Publish
  <2>4. CASE Close
    <3>1. ShownFiles' = ShownFiles
      <4>1. msgDb # 0 => job'[msgDb].input = job[msgDb].input
        BY <2>0, <2>4, CancelRunningFacts DEF Close
      <4>2. QED
        BY <2>4, <4>1 DEF Close, ShownFiles
    <3>2. Up /\ Up' = FALSE
      BY <2>4 DEF Close, Up
    <3>3. (Up /\ Outstanding)' = FALSE
      BY <3>2
    <3>4. QED
      BY <2>4, <3>1, <3>2, <3>3 DEF Close, LatestDb!Stop
  <2>5. CASE Pool
    <3>1. msgDb # 0 => job'[msgDb].input = job[msgDb].input
      BY <2>0, <2>5, PoolStepFacts DEF Pool
    <3>2. Up' = Up /\ lineDbcPath' = lineDbcPath /\ ShownFiles' = ShownFiles
      BY <2>5, <3>1 DEF Pool, guiVars, ShownFiles, Up
    <3>3. (Up /\ Outstanding)' = (Up /\ Outstanding)
      <4>1. CASE ~Up
        BY <3>2, <4>1
      <4>2. CASE Up
        <5>1. Outstanding' <=> Outstanding
          BY <2>5, <4>2, OutstandingLasts
        <5>2. QED
          BY <3>2, <4>2, <5>1
      <4>3. QED
        BY <4>1, <4>2
    <3>4. QED
      BY <3>2, <3>3
  <2>6. CASE OpenDbcFile \/ UNCHANGED vars
    BY <2>6 DEF OpenDbcFile, futureVars, vars, ShownFiles, Up, Outstanding, IsRunning
  <2>7. QED
    BY <2>1, <2>2, <2>3, <2>4, <2>5, <2>6 DEF Next
<1>3. QED
  BY <1>1, <1>2, LoadInvariant, PTL DEF Spec, ImplementsLatestWins, LatestDb!Spec

-----------------------------------------------------------------------------
(* What a load does: the parser, whose lines and database are the worker's *)
(* own.  ParserInv is its inductive invariant.  It says where the message  *)
(* under construction stands, whose signals an abandoned message may have  *)
(* left: their place after the messages of the database does not depend on *)
(* its BO_ line, which is behind them only once it is read.                *)

(* Every line of message a comes before every line of message b.  Within a *)
(* message, signals may come before the BO_ line: an abandoned message     *)
(* left them.                                                              *)
Precedes(a, b) ==
  /\ a.line < b.line
  /\ \A t \in DOMAIN b.signals : a.line < b.signals[t].line
  /\ \A s \in DOMAIN a.signals :
       /\ a.signals[s].line < b.line
       /\ \A t \in DOMAIN b.signals : a.signals[s].line < b.signals[t].line

SignalsInOrder(a) ==
  \A s, t \in DOMAIN a.signals : s < t => a.signals[s].line < a.signals[t].line

(* No line of the message is after line n.                                 *)
ReadBy(a, n) == a.line <= n /\ \A s \in DOMAIN a.signals : a.signals[s].line <= n

(* The signals of message b, its BO_ line left aside, are behind a.        *)
SignalsBehind(a, b) ==
  \A t \in DOMAIN b.signals :
    /\ a.line < b.signals[t].line
    /\ \A s \in DOMAIN a.signals : a.signals[s].line < b.signals[t].line

(* Messages d, in order, and a message c under construction, n lines read. *)
InOrder(d, c, n) ==
  /\ \A k \in DOMAIN d : ReadBy(d[k], n) /\ SignalsInOrder(d[k])
  /\ \A j, k \in DOMAIN d : j < k => Precedes(d[j], d[k])
  /\ ReadBy(c, n) /\ SignalsInOrder(c)
  /\ \A k \in DOMAIN d : SignalsBehind(d[k], c)

(* The BO_ line of message c is behind all messages of d.                  *)
LinesBefore(d, c) ==
  \A k \in DOMAIN d :
    /\ d[k].line < c.line
    /\ \A s \in DOMAIN d[k].signals : d[k].signals[s].line < c.line

ParserInv ==
  /\ ParserTypeOK
  /\ InOrder(db, message, Len(lines))
  /\ state = "MESSAGE" => LinesBefore(db, message)

(* Two messages with the same lines.                                       *)
SameLines(a, b) ==
  /\ b.line = a.line
  /\ DOMAIN b.signals = DOMAIN a.signals
  /\ \A s \in DOMAIN a.signals : b.signals[s].line = a.signals[s].line

(* Database e is d with the line v among the values of some signal.        *)
ValuesPut(d, e, v) ==
  \E m, s : e = [d EXCEPT ![m].signals[s].values = Append(@, v)]

(* A line of values.                                                       *)
LEMMA ValuesAt ==
  ASSUME NEW line \in Line, AddValues(line)
  PROVE  db' = db \/ ValuesPut(db, db', lineNo)
BY DEF AddValues, ValuesPut

(* A message, a signal of it and a sequence of either.                     *)
LEMMA MessageParts ==
  ASSUME NEW a \in CanMessage
  PROVE  /\ a.signals \in Seq(CanSignal)
         /\ a.line \in LineNo \cup {0}
         /\ \A s \in DOMAIN a.signals : a.signals[s] \in CanSignal
         /\ \A sigs \in Seq(CanSignal) :
              /\ [a EXCEPT !.signals = sigs] \in CanMessage
              /\ [a EXCEPT !.signals = sigs].signals = sigs
              /\ [a EXCEPT !.signals = sigs].line = a.line
<1>1. a.signals \in Seq(CanSignal)
  BY DEF CanMessage
<1>2. \A s \in DOMAIN a.signals : a.signals[s] \in CanSignal
  BY <1>1, LenProperties, ElementOfSeq
<1>3. QED
  BY <1>1, <1>2 DEF CanMessage

(* Values added to a signal of a message, if it is one, leave the lines.   *)
LEMMA SignalValues ==
  ASSUME NEW a \in CanMessage, NEW s, NEW v \in LineNo, NEW b,
         b = [a EXCEPT !.signals[s].values = Append(@, v)]
  PROVE  b \in CanMessage /\ SameLines(a, b)
<1> DEFINE sig == [a.signals[s] EXCEPT !.values = Append(@, v)]
           sigs == [a.signals EXCEPT ![s] = sig]
<1>1. b = [a EXCEPT !.signals = sigs]
  OBVIOUS
<1>2. sigs \in Seq(CanSignal) /\ DOMAIN sigs = DOMAIN a.signals
      /\ \A i \in DOMAIN a.signals : sigs[i].line = a.signals[i].line
  <2>1. CASE s \in DOMAIN a.signals
    <3>1. a.signals[s] \in CanSignal
      BY <2>1, MessageParts
    <3>2. a.signals[s].values \in Seq(LineNo)
      BY <3>1 DEF CanSignal
    <3>3. Append(a.signals[s].values, v) \in Seq(LineNo)
      BY <3>2
    <3>4. sig \in CanSignal /\ sig.line = a.signals[s].line
      BY <3>1, <3>3 DEF CanSignal
    <3>5. a.signals \in Seq(CanSignal) /\ DOMAIN a.signals = 1 .. Len(a.signals)
      BY MessageParts, LenProperties
    <3> HIDE DEF sig
    <3>6. QED
      BY <2>1, <3>4, <3>5, ExceptSeq
  <2>2. CASE s \notin DOMAIN a.signals
    <3>1. a.signals \in Seq(CanSignal)
      BY MessageParts
    <3>2. a.signals \in [1 .. Len(a.signals) -> CanSignal]
      BY <3>1, LenProperties
    <3> HIDE DEF sig
    <3>3. sigs = a.signals
      BY <2>2, <3>2
    <3>4. QED
      BY <3>1, <3>3
  <2>3. QED
    BY <2>1, <2>2
<1> HIDE DEF sigs, sig
<1>3. b \in CanMessage /\ b.signals = sigs /\ b.line = a.line
  BY <1>1, <1>2 DEF CanMessage
<1>4. QED
  BY <1>2, <1>3 DEF SameLines

(* The same for a list of messages.                                        *)
LEMMA ValuesKeepLines ==
  ASSUME NEW d \in Seq(CanMessage), NEW v \in LineNo, NEW e,
         ValuesPut(d, e, v)
  PROVE  /\ e \in Seq(CanMessage)
         /\ DOMAIN e = DOMAIN d
         /\ \A k \in DOMAIN d : SameLines(d[k], e[k])
<1>0. PICK m, s : e = [d EXCEPT ![m].signals[s].values = Append(@, v)]
  BY DEF ValuesPut
<1> DEFINE new == [d[m] EXCEPT !.signals[s].values = Append(@, v)]
<1>1. e = [d EXCEPT ![m] = new]
  BY <1>0
<1>2. /\ d \in [1 .. Len(d) -> CanMessage]
      /\ DOMAIN d = 1 .. Len(d)
  BY LenProperties
<1>3. \A k \in DOMAIN d : SameLines(d[k], d[k])
  BY DEF SameLines
<1>4. CASE m \in DOMAIN d
  <2>1. d[m] \in CanMessage
    BY <1>2, <1>4
  <2>2. new \in CanMessage /\ SameLines(d[m], new)
    BY <2>1, SignalValues
  <2> HIDE DEF new
  <2>3. e \in Seq(CanMessage) /\ DOMAIN e = DOMAIN d
    BY <1>1, <1>2, <1>4, <2>2, ExceptSeq
  <2>4. \A k \in DOMAIN d : e[k] = IF k = m THEN new ELSE d[k]
    BY <1>1
  <2>5. QED
    BY <1>3, <2>2, <2>3, <2>4
<1>5. CASE m \notin DOMAIN d
  <2> HIDE DEF new
  <2>1. e = d
    BY <1>1, <1>2, <1>5
  <2>2. QED
    BY <1>3, <2>1
<1>6. QED
  BY <1>4, <1>5

(* What is in order stays in order when only values change.                *)
LEMMA SameLinesInOrder ==
  ASSUME NEW d, NEW e, NEW c, NEW n \in Nat, InOrder(d, c, n),
         DOMAIN e = DOMAIN d, \A k \in DOMAIN d : SameLines(d[k], e[k])
  PROVE  InOrder(e, c, n)
<1>1. \A k \in DOMAIN e : ReadBy(e[k], n) /\ SignalsInOrder(e[k]) /\ SignalsBehind(e[k], c)
  BY DEF InOrder, SameLines, ReadBy, SignalsInOrder, SignalsBehind
<1>2. \A j, k \in DOMAIN e : j < k => Precedes(e[j], e[k])
  BY DEF InOrder, SameLines, Precedes
<1>3. QED
  BY <1>1, <1>2 DEF InOrder

(* Values change no line, so they keep the order.                          *)
LEMMA ValuesKeepOrder ==
  ASSUME NEW d \in Seq(CanMessage), NEW v \in LineNo, NEW e,
         ValuesPut(d, e, v), NEW c, NEW n \in Nat, InOrder(d, c, n)
  PROVE  InOrder(e, c, n)
<1>1. DOMAIN e = DOMAIN d /\ \A k \in DOMAIN d : SameLines(d[k], e[k])
  BY ValuesKeepLines
<1>2. QED
  BY <1>1, SameLinesInOrder

(* The type invariant of the parser.                                       *)
LEMMA ParserTypeStep ==
  ASSUME ParserTypeOK, [ParserNext]_parserVars
  PROVE  ParserTypeOK'
<1>1. CASE UNCHANGED parserVars
  BY <1>1 DEF parserVars, ParserTypeOK
<1>2. CASE ParserNext
  <2>1. PICK line \in Line :
          \/ BeginMessage(line) \/ AddValues(line) \/ SkipLine(line)
          \/ AddCanSignal(line) \/ EndMessage(line) \/ EndFile(line)
    BY <1>2 DEF ParserNext
  <2>2. Len(lines) \in Nat /\ lineNo \in LineNo
    BY <1>2 DEF ParserNext, ParserTypeOK, lineNo, LineNo
  <2>3. lines' \in Seq(Line)
    <3>1. lines' = Append(lines, line)
      BY <2>1 DEF BeginMessage, AddValues, SkipLine,
                  AddCanSignal, EndMessage, EndFile, Read
    <3>2. QED
      BY <3>1 DEF ParserTypeOK
  <2>4. NoMessage \in CanMessage
    BY EmptySeq DEF NoMessage, CanMessage
  <2>5. CASE BeginMessage(line)
    <3>1. line.id \in Ids
      BY <2>5 DEF BeginMessage, Line
    <3>2. [message EXCEPT !.id = line.id, !.line = lineNo] \in CanMessage
      BY <2>2, <3>1 DEF ParserTypeOK, CanMessage
    <3>3. QED
      BY <2>3, <2>5, <3>2 DEF BeginMessage, ParserTypeOK
  <2>6. CASE AddValues(line)
    <3>1. db' \in Seq(CanMessage)
      BY <2>2, <2>6, ValuesAt, ValuesKeepLines DEF ParserTypeOK
    <3>2. state' = state /\ message' = message
      BY <2>6 DEF AddValues
    <3>3. QED
      BY <2>3, <3>1, <3>2 DEF ParserTypeOK
  <2>7. CASE SkipLine(line)
    BY <2>3, <2>7 DEF SkipLine, ParserTypeOK
  <2>8. CASE AddCanSignal(line)
    <3> DEFINE sig == [name |-> line.name, line |-> lineNo, values |-> <<>>]
               sigs == Append(message.signals, sig)
    <3>1. line.name \in Names
      BY <2>8 DEF AddCanSignal, Line
    <3>2. sig \in CanSignal
      BY <2>2, <3>1, EmptySeq DEF CanSignal
    <3> HIDE DEF sig
    <3>3. sigs \in Seq(CanSignal)
      BY <3>2, MessageParts DEF ParserTypeOK
    <3>4. [message EXCEPT !.signals = sigs] \in CanMessage
      BY <3>3, MessageParts DEF ParserTypeOK
    <3>5. /\ db' = db /\ state' \in {"IDLE", "MESSAGE"}
          /\ message' \in {message, [message EXCEPT !.signals = sigs]}
      BY <2>8 DEF AddCanSignal, ParserTypeOK, sig
    <3> HIDE DEF sigs
    <3>6. QED
      BY <2>3, <3>4, <3>5 DEF ParserTypeOK
  <2>9. CASE EndMessage(line)
    BY <2>3, <2>4, <2>9 DEF EndMessage, ParserTypeOK
  <2>10. CASE EndFile(line)
    BY <2>3, <2>4, <2>10 DEF EndFile, ParserTypeOK
  <2>11. QED
    BY <2>1, <2>5, <2>6, <2>7, <2>8, <2>9, <2>10
<1>3. QED
  BY <1>1, <1>2

(* More lines read: what is in order remains so.                           *)
LEMMA InOrderLater ==
  ASSUME NEW d \in Seq(CanMessage), NEW c \in CanMessage, NEW n \in Nat,
         InOrder(d, c, n)
  PROVE  InOrder(d, c, n + 1)
<1>1. ASSUME NEW a \in CanMessage, ReadBy(a, n) PROVE ReadBy(a, n + 1)
  <2>1. a.line \in Int /\ \A s \in DOMAIN a.signals : a.signals[s].line \in Int
    BY MessageParts DEF CanSignal, LineNo
  <2>2. QED
    BY <1>1, <2>1 DEF ReadBy
<1>2. \A k \in DOMAIN d : d[k] \in CanMessage
  BY LenProperties
<1>3. QED
  BY <1>1, <1>2 DEF InOrder

(* The message under construction is added behind the others, and the next *)
(* one starts empty.                                                       *)
LEMMA MessageAdded ==
  ASSUME NEW d \in Seq(CanMessage), NEW c \in CanMessage, NEW n \in Nat,
         InOrder(d, c, n), LinesBefore(d, c)
  PROVE  InOrder(Append(d, c), NoMessage, n + 1)
<1> DEFINE e == Append(d, c)
<1>1. /\ Len(d) \in Nat /\ DOMAIN d = 1 .. Len(d) /\ DOMAIN e = 1 .. Len(d) + 1
      /\ \A k \in DOMAIN d : e[k] = d[k]
      /\ e[Len(d) + 1] = c
  BY LenProperties, AppendProperties
<1> HIDE DEF e
<1>2. InOrder(d, c, n + 1)
  BY InOrderLater
<1>3. \A k \in DOMAIN e : e[k] = c \/ (k \in DOMAIN d /\ e[k] = d[k])
  BY <1>1
<1>4. \A k \in DOMAIN e : ReadBy(e[k], n + 1) /\ SignalsInOrder(e[k])
  BY <1>2, <1>3 DEF InOrder
<1>5. \A j \in DOMAIN d : Precedes(d[j], c)
  BY DEF InOrder, LinesBefore, SignalsBehind, Precedes
<1>6. \A j, k \in DOMAIN e : j < k => Precedes(e[j], e[k])
  <2>1. SUFFICES ASSUME NEW j \in DOMAIN e, NEW k \in DOMAIN e, j < k
                 PROVE  Precedes(e[j], e[k])
    OBVIOUS
  <2>2. j \in DOMAIN d /\ e[j] = d[j]
    BY <1>1, <2>1
  <2>3. CASE k \in DOMAIN d
    BY <1>1, <2>1, <2>2, <2>3 DEF InOrder
  <2>4. CASE k = Len(d) + 1
    BY <1>1, <1>5, <2>2, <2>4
  <2>5. QED
    BY <1>1, <2>3, <2>4
<1>7. /\ ReadBy(NoMessage, n + 1) /\ SignalsInOrder(NoMessage)
      /\ \A a : SignalsBehind(a, NoMessage)
  BY DEF NoMessage, ReadBy, SignalsInOrder, SignalsBehind
<1>8. InOrder(e, NoMessage, n + 1)
  BY <1>4, <1>6, <1>7 DEF InOrder
<1>9. QED
  BY <1>8 DEF e

(* The BO_ line of a message is the line being read.                       *)
LEMMA MessageBegun ==
  ASSUME NEW d \in Seq(CanMessage), NEW c \in CanMessage, NEW n \in Nat,
         InOrder(d, c, n), NEW b, b.line = n + 1, b.signals = c.signals
  PROVE  InOrder(d, b, n + 1) /\ LinesBefore(d, b)
<1>1. InOrder(d, c, n + 1)
  BY InOrderLater
<1>2. \A k \in DOMAIN d : d[k] \in CanMessage
  BY LenProperties
<1>3. ReadBy(b, n + 1) /\ SignalsInOrder(b) /\ \A k \in DOMAIN d : SignalsBehind(d[k], b)
  BY <1>1 DEF InOrder, ReadBy, SignalsInOrder, SignalsBehind
<1>4. ASSUME NEW a \in CanMessage, ReadBy(a, n)
      PROVE  a.line < n + 1 /\ \A s \in DOMAIN a.signals : a.signals[s].line < n + 1
  <2>1. a.line \in Int /\ \A s \in DOMAIN a.signals : a.signals[s].line \in Int
    BY MessageParts DEF CanSignal, LineNo
  <2>2. QED
    BY <1>4, <2>1 DEF ReadBy
<1>5. LinesBefore(d, b)
  BY <1>2, <1>4 DEF InOrder, LinesBefore
<1>6. QED
  BY <1>1, <1>3, <1>5 DEF InOrder

(* The line being read becomes the last signal of the message.             *)
LEMMA SignalAdded ==
  ASSUME NEW d \in Seq(CanMessage), NEW c \in CanMessage, NEW n \in Nat,
         InOrder(d, c, n), LinesBefore(d, c),
         NEW sig \in CanSignal, sig.line = n + 1,
         NEW b, b.line = c.line, b.signals = Append(c.signals, sig)
  PROVE  InOrder(d, b, n + 1) /\ LinesBefore(d, b)
<1>1. InOrder(d, c, n + 1)
  BY InOrderLater
<1>2. \A k \in DOMAIN d : d[k] \in CanMessage
  BY LenProperties
<1> DEFINE l == Len(c.signals)
<1>3. /\ l \in Nat /\ DOMAIN c.signals = 1 .. l /\ DOMAIN b.signals = 1 .. l + 1
      /\ \A s \in DOMAIN c.signals : b.signals[s] = c.signals[s]
      /\ b.signals[l + 1] = sig
  BY MessageParts, LenProperties, AppendProperties
<1> HIDE DEF l
<1>4. ASSUME NEW a \in CanMessage, ReadBy(a, n)
      PROVE  /\ a.line \in Int /\ a.line < n + 1
             /\ \A s \in DOMAIN a.signals : a.signals[s].line < n + 1
  <2>1. a.line \in Int /\ \A s \in DOMAIN a.signals : a.signals[s].line \in Int
    BY MessageParts DEF CanSignal, LineNo
  <2>2. QED
    BY <1>4, <2>1 DEF ReadBy
<1>5. \A s \in DOMAIN b.signals :
        b.signals[s].line = n + 1 \/ (s \in DOMAIN c.signals /\ b.signals[s] = c.signals[s])
  BY <1>3
<1>6. ReadBy(b, n + 1)
  BY <1>1, <1>5 DEF InOrder, ReadBy
<1>7. SignalsInOrder(b)
  <2>1. SUFFICES ASSUME NEW s \in DOMAIN b.signals, NEW t \in DOMAIN b.signals, s < t
                 PROVE  b.signals[s].line < b.signals[t].line
    BY DEF SignalsInOrder
  <2>2. s \in DOMAIN c.signals /\ b.signals[s] = c.signals[s]
    BY <1>3, <2>1
  <2>3. CASE t \in DOMAIN c.signals
    BY <1>3, <2>1, <2>2, <2>3 DEF InOrder, SignalsInOrder
  <2>4. CASE t = l + 1
    BY <1>3, <1>4, <2>2, <2>4 DEF InOrder
  <2>5. QED
    BY <1>3, <2>3, <2>4
<1>8. \A k \in DOMAIN d : SignalsBehind(d[k], b)
  BY <1>2, <1>4, <1>5 DEF InOrder, SignalsBehind
<1>9. LinesBefore(d, b)
  BY DEF LinesBefore
<1>10. QED
  BY <1>1, <1>6, <1>7, <1>8, <1>9 DEF InOrder

(* Every step of the parser keeps the lines in order.                      *)
LEMMA ParserInvStep ==
  ASSUME ParserInv, [ParserNext]_parserVars
  PROVE  ParserInv'
<1>1. ParserTypeOK'
  BY ParserTypeStep DEF ParserInv
<1>2. CASE UNCHANGED parserVars
  BY <1>1, <1>2 DEF parserVars, ParserInv
<1>3. CASE ParserNext
  <2> DEFINE n == Len(lines)
  <2>1. PICK line \in Line :
          \/ BeginMessage(line) \/ AddValues(line) \/ SkipLine(line)
          \/ AddCanSignal(line) \/ EndMessage(line) \/ EndFile(line)
    BY <1>3 DEF ParserNext
  <2>2. n \in Nat /\ lineNo = n + 1 /\ n + 1 \in LineNo
    BY <1>3 DEF ParserNext, ParserInv, ParserTypeOK, lineNo, LineNo
  <2>3. Len(lines') = n + 1
    <3>1. lines' = Append(lines, line)
      BY <2>1 DEF BeginMessage, AddValues, SkipLine,
                  AddCanSignal, EndMessage, EndFile, Read
    <3>2. QED
      BY <3>1, AppendProperties DEF ParserInv, ParserTypeOK
  <2>4. /\ db \in Seq(CanMessage) /\ message \in CanMessage
        /\ db' \in Seq(CanMessage) /\ message' \in CanMessage
        /\ InOrder(db, message, n) /\ (state = "MESSAGE" => LinesBefore(db, message))
    BY <1>1 DEF ParserInv, ParserTypeOK
  <2> HIDE DEF n
  <2>5. InOrder(db, message, n + 1)
    BY <2>2, <2>4, InOrderLater
  <2>6. SUFFICES /\ InOrder(db', message', n + 1)
                 /\ state' = "MESSAGE" => LinesBefore(db', message')
    BY <1>1, <2>3 DEF ParserInv
  <2>7. CASE BeginMessage(line)
    <3>1. /\ db' = db
          /\ \/ message' = message /\ state' = "IDLE"
             \/ message' = [message EXCEPT !.id = line.id, !.line = n + 1]
      BY <2>2, <2>7 DEF BeginMessage, Line
    <3>2. CASE message' = [message EXCEPT !.id = line.id, !.line = n + 1]
      <4>1. message'.line = n + 1 /\ message'.signals = message.signals
        BY <2>4, <3>2 DEF CanMessage
      <4>2. QED
        BY <2>2, <2>4, <3>1, <4>1, MessageBegun
    <3>3. QED
      BY <2>5, <3>1, <3>2
  <2>8. CASE AddValues(line)
    <3>1. message' = message /\ state' = "IDLE"
      BY <2>8 DEF AddValues
    <3>2. InOrder(db', message, n + 1)
      <4>1. CASE db' = db
        BY <2>5, <4>1
      <4>2. CASE ValuesPut(db, db', lineNo)
        <5>1. n + 1 \in Nat /\ lineNo \in LineNo
          BY <2>2
        <5>2. QED
          BY <2>4, <2>5, <4>2, <5>1, ValuesKeepOrder
      <4>3. QED
        BY <2>8, <4>1, <4>2, ValuesAt
    <3>3. QED
      BY <3>1, <3>2
  <2>9. CASE SkipLine(line)
    BY <2>5, <2>9 DEF SkipLine
  <2>10. CASE AddCanSignal(line)
    <3> DEFINE sig == [name |-> line.name, line |-> n + 1, values |-> <<>>]
    <3>1. /\ state = "MESSAGE" /\ db' = db
          /\ \/ message' = message /\ state' = "IDLE"
             \/ message' = [message EXCEPT !.signals = Append(@, sig)]
      BY <2>2, <2>10 DEF AddCanSignal
    <3>2. sig \in CanSignal /\ sig.line = n + 1
      <4>1. line.name \in Names
        BY <2>10 DEF AddCanSignal, Line
      <4>2. QED
        BY <2>2, <4>1, EmptySeq DEF CanSignal
    <3> HIDE DEF sig
    <3>3. CASE message' = [message EXCEPT !.signals = Append(@, sig)]
      <4>1. message'.line = message.line /\ message'.signals = Append(message.signals, sig)
        BY <2>4, <3>3 DEF CanMessage
      <4>2. QED
        BY <2>2, <2>4, <3>1, <3>2, <4>1, SignalAdded
    <3>4. QED
      BY <2>5, <3>1, <3>3
  <2>11. CASE EndMessage(line)
    BY <2>2, <2>4, <2>11, MessageAdded DEF EndMessage
  <2>12. CASE EndFile(line)
    <3>1. CASE state = "MESSAGE"
      BY <2>2, <2>4, <2>12, <3>1, MessageAdded DEF EndFile
    <3>2. CASE state # "MESSAGE"
      <4>1. db' = db /\ message' = NoMessage /\ state' = "IDLE"
        BY <2>12, <3>2 DEF EndFile
      <4>2. InOrder(db, NoMessage, n + 1)
        BY <2>2, <2>5 DEF InOrder, NoMessage, ReadBy, SignalsInOrder, SignalsBehind
      <4>3. QED
        BY <4>1, <4>2
    <3>3. QED
      BY <3>1, <3>2
  <2>13. QED
    BY <2>1, <2>7, <2>8, <2>9, <2>10, <2>11, <2>12
<1>4. QED
  BY <1>2, <1>3

(* Whatever the files hold, no line is used twice, and the messages and    *)
(* their signals are in the order of their lines.                          *)
THEOREM ParserKeepsLineOrder ==
  ParserSpec => []DbInLineOrder
<1>1. ParserInit => ParserInv
  <2>1. SUFFICES ASSUME ParserInit PROVE ParserInv
    OBVIOUS
  <2>2. NoMessage \in CanMessage
    BY EmptySeq DEF NoMessage, CanMessage
  <2>3. ParserTypeOK
    BY <2>1, <2>2, EmptySeq DEF ParserInit, ParserTypeOK
  <2>4. InOrder(db, message, Len(lines))
    BY <2>1 DEF ParserInit, InOrder, NoMessage, ReadBy, SignalsInOrder, SignalsBehind
  <2>5. QED
    BY <2>1, <2>3, <2>4 DEF ParserInit, ParserInv
<1>2. ParserInv /\ [ParserNext]_parserVars => ParserInv'
  BY ParserInvStep
<1>3. ParserInv => DbInLineOrder
  <2>1. SUFFICES ASSUME ParserInv PROVE DbInLineOrder
    OBVIOUS
  <2>2. /\ \A k \in DOMAIN db : SignalsInOrder(db[k])
        /\ \A j, k \in DOMAIN db : j < k => Precedes(db[j], db[k])
    BY <2>1 DEF ParserInv, InOrder
  <2>3. DOMAIN db = 1 .. Len(db) /\ Len(db) \in Nat
    BY <2>1, LenProperties DEF ParserInv, ParserTypeOK
  <2>4. \A m \in 2 .. Len(db) : Precedes(db[m - 1], db[m])
    BY <2>2, <2>3
  <2>5. QED
    BY <2>2, <2>4 DEF DbInLineOrder, Precedes, SignalsInOrder
<1>4. QED
  BY <1>1, <1>2, <1>3, PTL DEF ParserSpec

-----------------------------------------------------------------------------
(* Well-formed files are read as they are meant.  MeaningInv says it of    *)
(* every prefix of the lines: the database, with the message under         *)
(* construction behind it, is what the lines read so far say.  The lemmas  *)
(* follow one more line through what the lines mean.                       *)

(* The line n belongs to message j.                                        *)
IsLineOf(ls, j, n) == (j = n /\ ls[j].kind = "BO_") \/ InBlock(ls, j, n)

(* Lines ms are the lines ls and one more.                                 *)
OneMore(ls, line, ms) == ls \in Seq(Line) /\ line \in Line /\ ms = Append(ls, line)

(* The line read is the last one.                                          *)
LEMMA OneMoreFacts ==
  ASSUME NEW ls, NEW line, NEW ms, OneMore(ls, line, ms)
  PROVE  /\ Len(ls) \in Nat /\ Len(ms) = Len(ls) + 1
         /\ DOMAIN ls = 1 .. Len(ls) /\ DOMAIN ms = 1 .. Len(ls) + 1
         /\ \A k \in 1 .. Len(ls) : ms[k] = ls[k]
         /\ ms[Len(ls) + 1] = line
BY LenProperties, AppendProperties DEF OneMore

(* The blocks of lines read before are what they were.                     *)
LEMMA InBlockBefore ==
  ASSUME NEW ls, NEW line, NEW ms, OneMore(ls, line, ms),
         NEW j \in 1 .. Len(ls), NEW k \in 1 .. Len(ls)
  PROVE  InBlock(ms, j, k) <=> InBlock(ls, j, k)
<1>1. \A i \in 1 .. Len(ls) : ms[i] = ls[i]
  BY OneMoreFacts
<1>2. \A i \in j + 1 .. k : i \in 1 .. Len(ls)
  BY OneMoreFacts
<1>3. QED
  BY <1>1, <1>2 DEF InBlock

(* A line is in a block if it is a signal and the line before it is in the *)
(* block, or begins it.                                                    *)
LEMMA InBlockNext ==
  ASSUME NEW ls, NEW line, NEW ms, OneMore(ls, line, ms), NEW j \in 1 .. Len(ls)
  PROVE  InBlock(ms, j, Len(ls) + 1) <=> line.kind = "SG_" /\ IsLineOf(ls, j, Len(ls))
<1> DEFINE n == Len(ls)
<1>1. /\ n \in Nat /\ ms[n + 1] = line
      /\ \A i \in 1 .. n : ms[i] = ls[i]
  BY OneMoreFacts
<1> HIDE DEF n
<1>2. j \in 1 .. n
  BY DEF n
<1>3. ASSUME InBlock(ms, j, n + 1)
      PROVE  line.kind = "SG_" /\ IsLineOf(ls, j, n)
  <2>1. line.kind = "SG_" /\ ls[j].kind = "BO_"
    BY <1>1, <1>2, <1>3 DEF InBlock
  <2>2. \A i \in j + 1 .. n : ls[i].kind = "SG_"
    BY <1>1, <1>2, <1>3 DEF InBlock
  <2>3. QED
    BY <1>1, <1>2, <2>1, <2>2 DEF InBlock, IsLineOf
<1>4. ASSUME line.kind = "SG_", IsLineOf(ls, j, n)
      PROVE  InBlock(ms, j, n + 1)
  <2>1. ls[j].kind = "BO_" /\ \A i \in j + 1 .. n : ls[i].kind = "SG_"
    BY <1>1, <1>2, <1>4 DEF InBlock, IsLineOf
  <2>2. \A i \in j + 1 .. n + 1 : ms[i].kind = "SG_"
    BY <1>1, <1>2, <1>4, <2>1
  <2>3. QED
    BY <1>1, <1>2, <2>1, <2>2 DEF InBlock
<1>5. QED
  BY <1>3, <1>4 DEF n

(* A line belongs to no more than one message.                             *)
LEMMA OneMessage ==
  ASSUME NEW ls, NEW n \in Nat, NEW i \in 1 .. n, NEW j \in 1 .. n,
         IsLineOf(ls, i, n), IsLineOf(ls, j, n)
  PROVE  i = j
BY DEF IsLineOf, InBlock

(* The same in other words.                                                *)
LEMMA SomeBlock ==
  ASSUME NEW ls, NEW n \in Nat \ {0}
  PROVE  InSomeBlock(ls, n) <=> \E j \in 1 .. n : IsLineOf(ls, j, n)
BY DEF InSomeBlock, IsLineOf, InBlock

(* What comes before a line that is well-formed is well-formed too.        *)
LEMMA WellFormedBefore ==
  ASSUME NEW ls, NEW line, NEW ms, OneMore(ls, line, ms), WellFormed(ms)
  PROVE  /\ WellFormed(ls)
         /\ line.bad = "no"
         /\ line.kind \in {"BO_", "VAL_"} /\ ls # <<>> => ~InSomeBlock(ls, Len(ls))
<1>1. /\ Len(ls) \in Nat /\ Len(ms) = Len(ls) + 1
      /\ DOMAIN ls = 1 .. Len(ls) /\ DOMAIN ms = 1 .. Len(ls) + 1
      /\ \A k \in 1 .. Len(ls) : ms[k] = ls[k]
      /\ ms[Len(ls) + 1] = line
  BY OneMoreFacts
<1>2. ASSUME NEW k \in 1 .. Len(ls) PROVE InSomeBlock(ms, k) <=> InSomeBlock(ls, k)
  <2>1. \A j \in 1 .. k : InBlock(ms, j, k) <=> InBlock(ls, j, k)
    BY <1>1, InBlockBefore
  <2>2. QED
    BY <1>1, <2>1 DEF InSomeBlock
<1>3. line.bad = "no" /\ \A k \in DOMAIN ls : ls[k].bad = "no"
  BY <1>1 DEF WellFormed
<1>4. ASSUME NEW k \in 2 .. Len(ls), ls[k].kind \in {"BO_", "VAL_"}
      PROVE  ~InSomeBlock(ls, k - 1)
  <2>1. k \in 2 .. Len(ms) /\ ms[k] = ls[k] /\ k - 1 \in 1 .. Len(ls)
    BY <1>1
  <2>2. ~InSomeBlock(ms, k - 1)
    BY <1>4, <2>1 DEF WellFormed
  <2>3. QED
    BY <1>2, <2>1, <2>2
<1>5. ASSUME line.kind \in {"BO_", "VAL_"}, ls # <<>>
      PROVE  ~InSomeBlock(ls, Len(ls))
  <2>1. Len(ls) # 0
    BY <1>5, EmptySeq DEF OneMore
  <2>2. /\ Len(ls) \in 1 .. Len(ls)
        /\ Len(ls) + 1 \in 2 .. Len(ms) /\ (Len(ls) + 1) - 1 = Len(ls)
    BY <1>1, <2>1
  <2>3. ~InSomeBlock(ms, Len(ls))
    BY <1>1, <1>5, <2>2 DEF WellFormed
  <2>4. QED
    BY <1>2, <2>2, <2>3
<1>6. QED
  BY <1>3, <1>4, <1>5 DEF WellFormed

(* What a VAL_ line read before describes does not change.                 *)
LEMMA DescribesBefore ==
  ASSUME NEW ls, NEW line, NEW ms, OneMore(ls, line, ms),
         NEW v \in 1 .. Len(ls), NEW j \in 1 .. Len(ls), NEW k \in 1 .. Len(ls)
  PROVE  Describes(ms, v, j, k) <=> Describes(ls, v, j, k)
<1>1. Len(ls) \in Nat /\ \A i \in 1 .. Len(ls) : ms[i] = ls[i]
  BY OneMoreFacts
<1>2. /\ \A i \in 1 .. j - 1 : i \in 1 .. Len(ls)
      /\ \A i \in j + 1 .. k - 1 : i \in 1 .. Len(ls)
  BY <1>1
<1>3. QED
  BY <1>1, <1>2 DEF Describes

(* A list, by its elements.                                                *)
LEMMA ListsElements ==
  ASSUME NEW f, NEW S
  PROVE  Lists(f, S) <=>
           /\ \A i \in DOMAIN f : f[i] \in S
           /\ \A x \in S : \E i \in DOMAIN f : f[i] = x
           /\ \A i, j \in DOMAIN f : i < j => f[i] < f[j]
BY DEF Lists, Range

(* A list with a larger number at its end.                                 *)
LEMMA ListsAppended ==
  ASSUME NEW X, NEW f \in Seq(X), NEW S, Lists(f, S), NEW n \in Nat, \A x \in S : x \in 1 .. n,
         NEW g, g = Append(f, n + 1),
         NEW T, \A x : x \in T <=> x \in S \/ x = n + 1
  PROVE  Lists(g, T)
<1> DEFINE l == Len(f)
<1>1. /\ l \in Nat /\ DOMAIN f = 1 .. l /\ DOMAIN g = 1 .. l + 1
      /\ \A i \in 1 .. l : g[i] = f[i]
      /\ g[l + 1] = n + 1
  <2>1. f \in Seq(X \cup {n + 1}) /\ n + 1 \in X \cup {n + 1}
    BY SeqMonotonic
  <2>2. QED
    BY <2>1, LenProperties, AppendProperties
<1>2. /\ \A i \in DOMAIN f : f[i] \in S
      /\ \A x \in S : \E i \in DOMAIN f : f[i] = x
      /\ \A i, j \in DOMAIN f : i < j => f[i] < f[j]
  BY ListsElements
<1> HIDE DEF l
<1>3. \A i \in DOMAIN g : g[i] \in T
  BY <1>1, <1>2
<1>4. \A x \in T : \E i \in DOMAIN g : g[i] = x
  <2>1. l + 1 \in DOMAIN g /\ \A i \in DOMAIN f : i \in DOMAIN g
    BY <1>1
  <2>2. QED
    BY <1>1, <1>2, <2>1
<1>5. \A i, j \in DOMAIN g : i < j => g[i] < g[j]
  <2>1. SUFFICES ASSUME NEW i \in DOMAIN g, NEW j \in DOMAIN g, i < j
                 PROVE  g[i] < g[j]
    OBVIOUS
  <2>2. i \in DOMAIN f
    BY <1>1, <2>1
  <2>3. CASE j \in DOMAIN f
    BY <1>1, <1>2, <2>1, <2>2, <2>3
  <2>4. CASE j = l + 1
    BY <1>1, <1>2, <2>2, <2>4
  <2>5. QED
    BY <1>1, <2>3, <2>4
<1>6. QED
  BY <1>3, <1>4, <1>5, ListsElements

(* The elements of the lines of messages or signals.                       *)
LEMMA ListsLines ==
  ASSUME NEW s, NEW S
  PROVE  Lists(LinesOf(s), S) <=>
           /\ \A i \in DOMAIN s : s[i].line \in S
           /\ \A x \in S : \E i \in DOMAIN s : s[i].line = x
           /\ \A i, j \in DOMAIN s : i < j => s[i].line < s[j].line
<1>1. DOMAIN LinesOf(s) = DOMAIN s /\ \A i \in DOMAIN s : LinesOf(s)[i] = s[i].line
  BY DEF LinesOf
<1>2. QED
  BY <1>1, ListsElements

(* What a message that is meant holds: the lines of its block.             *)
LEMMA MeantMessage ==
  ASSUME NEW ls \in Seq(Line), NEW msg, IsMeantMessage(ls, msg)
  PROVE  /\ msg.id = ls[msg.line].id
         /\ \A s \in DOMAIN msg.signals :
              /\ msg.signals[s].line \in 1 .. Len(ls)
              /\ InBlock(ls, msg.line, msg.signals[s].line)
              /\ IsMeantSignal(ls, msg.line, msg.signals[s])
         /\ \A k \in 1 .. Len(ls) : InBlock(ls, msg.line, k) =>
              \E s \in DOMAIN msg.signals : msg.signals[s].line = k
         /\ \A s, t \in DOMAIN msg.signals : s < t => msg.signals[s].line < msg.signals[t].line
<1> DEFINE S == {k \in DOMAIN ls : InBlock(ls, msg.line, k)}
<1>1. DOMAIN ls = 1 .. Len(ls)
  BY LenProperties
<1>2. Lists(LinesOf(msg.signals), S)
  BY DEF IsMeantMessage
<1> HIDE DEF S
<1>3. /\ \A i \in DOMAIN msg.signals : msg.signals[i].line \in S
      /\ \A x \in S : \E i \in DOMAIN msg.signals : msg.signals[i].line = x
      /\ \A i, j \in DOMAIN msg.signals : i < j => msg.signals[i].line < msg.signals[j].line
  BY <1>2, ListsLines
<1>4. \A k : k \in S <=> k \in 1 .. Len(ls) /\ InBlock(ls, msg.line, k)
  BY <1>1 DEF S
<1>5. QED
  BY <1>3, <1>4 DEF IsMeantMessage

(* And the other way round.                                                *)
LEMMA MessageIsMeant ==
  ASSUME NEW ls \in Seq(Line), NEW msg,
         msg.id = ls[msg.line].id,
         \A s \in DOMAIN msg.signals :
              /\ msg.signals[s].line \in 1 .. Len(ls)
              /\ InBlock(ls, msg.line, msg.signals[s].line)
              /\ IsMeantSignal(ls, msg.line, msg.signals[s]),
         \A k \in 1 .. Len(ls) : InBlock(ls, msg.line, k) =>
              \E s \in DOMAIN msg.signals : msg.signals[s].line = k,
         \A s, t \in DOMAIN msg.signals : s < t => msg.signals[s].line < msg.signals[t].line
  PROVE  IsMeantMessage(ls, msg)
<1> DEFINE S == {k \in DOMAIN ls : InBlock(ls, msg.line, k)}
<1>1. DOMAIN ls = 1 .. Len(ls)
  BY LenProperties
<1>2. \A k : k \in S <=> k \in 1 .. Len(ls) /\ InBlock(ls, msg.line, k)
  BY <1>1 DEF S
<1> HIDE DEF S
<1>3. Lists(LinesOf(msg.signals), S)
  BY <1>2, ListsLines
<1>4. QED
  BY <1>3 DEF IsMeantMessage, S

(* What a database that is meant holds: the BO_ lines.                     *)
LEMMA MeantDb ==
  ASSUME NEW ls \in Seq(Line), NEW d, IsMeantDb(ls, d)
  PROVE  /\ \A m \in DOMAIN d : /\ d[m].line \in 1 .. Len(ls)
                                /\ ls[d[m].line].kind = "BO_"
                                /\ IsMeantMessage(ls, d[m])
         /\ \A j \in 1 .. Len(ls) : ls[j].kind = "BO_" => \E m \in DOMAIN d : d[m].line = j
         /\ \A m, k \in DOMAIN d : m < k => d[m].line < d[k].line
<1> DEFINE S == {j \in DOMAIN ls : ls[j].kind = "BO_"}
<1>1. DOMAIN ls = 1 .. Len(ls)
  BY LenProperties
<1>2. \A j : j \in S <=> j \in 1 .. Len(ls) /\ ls[j].kind = "BO_"
  BY <1>1 DEF S
<1>3. Lists(LinesOf(d), S) /\ \A m \in DOMAIN d : IsMeantMessage(ls, d[m])
  BY DEF IsMeantDb
<1> HIDE DEF S
<1>4. QED
  BY <1>2, <1>3, ListsLines

(* And the other way round.                                                *)
LEMMA DbIsMeant ==
  ASSUME NEW ls \in Seq(Line), NEW d,
         \A m \in DOMAIN d : /\ d[m].line \in 1 .. Len(ls)
                             /\ ls[d[m].line].kind = "BO_"
                             /\ IsMeantMessage(ls, d[m]),
         \A j \in 1 .. Len(ls) : ls[j].kind = "BO_" => \E m \in DOMAIN d : d[m].line = j,
         \A m, k \in DOMAIN d : m < k => d[m].line < d[k].line
  PROVE  IsMeantDb(ls, d)
<1> DEFINE S == {j \in DOMAIN ls : ls[j].kind = "BO_"}
<1>1. DOMAIN ls = 1 .. Len(ls)
  BY LenProperties
<1>2. \A j : j \in S <=> j \in 1 .. Len(ls) /\ ls[j].kind = "BO_"
  BY <1>1 DEF S
<1> HIDE DEF S
<1>3. Lists(LinesOf(d), S)
  BY <1>2, ListsLines
<1>4. QED
  BY <1>3 DEF IsMeantDb, S

(* A signal keeps its meaning when a line is read that is no VAL_ line.    *)
LEMMA SignalStaysMeant ==
  ASSUME NEW ls, NEW line, NEW ms, OneMore(ls, line, ms), line.kind # "VAL_",
         NEW j \in 1 .. Len(ls), NEW signal, signal.line \in 1 .. Len(ls),
         IsMeantSignal(ls, j, signal)
  PROVE  IsMeantSignal(ms, j, signal)
<1>1. /\ Len(ls) \in Nat /\ DOMAIN ls = 1 .. Len(ls) /\ DOMAIN ms = 1 .. Len(ls) + 1
      /\ ms[signal.line] = ls[signal.line] /\ ms[Len(ls) + 1] = line
  BY OneMoreFacts
<1>2. {v \in DOMAIN ms : Describes(ms, v, j, signal.line)}
        = {v \in DOMAIN ls : Describes(ls, v, j, signal.line)}
  <2>1. ~Describes(ms, Len(ls) + 1, j, signal.line)
    BY <1>1 DEF Describes
  <2>2. \A v \in 1 .. Len(ls) : Describes(ms, v, j, signal.line) <=> Describes(ls, v, j, signal.line)
    BY DescribesBefore
  <2>3. \A v : v \in DOMAIN ms <=> v \in DOMAIN ls \/ v = Len(ls) + 1
    BY <1>1
  <2>4. QED
    BY <1>1, <2>1, <2>2, <2>3
<1>3. QED
  BY <1>1, <1>2 DEF IsMeantSignal

(* So does a message, unless the line is a signal of it.                   *)
LEMMA MessageStaysMeant ==
  ASSUME NEW ls, NEW line, NEW ms, OneMore(ls, line, ms), line.kind # "VAL_",
         NEW msg, msg.line \in 1 .. Len(ls), IsMeantMessage(ls, msg),
         ~(line.kind = "SG_" /\ IsLineOf(ls, msg.line, Len(ls)))
  PROVE  IsMeantMessage(ms, msg)
<1>1. /\ Len(ls) \in Nat /\ Len(ms) = Len(ls) + 1 /\ ls \in Seq(Line) /\ ms \in Seq(Line)
      /\ ms[msg.line] = ls[msg.line]
  BY OneMoreFacts, AppendProperties DEF OneMore
<1>2. /\ msg.id = ls[msg.line].id
      /\ \A s \in DOMAIN msg.signals :
           /\ msg.signals[s].line \in 1 .. Len(ls)
           /\ InBlock(ls, msg.line, msg.signals[s].line)
           /\ IsMeantSignal(ls, msg.line, msg.signals[s])
      /\ \A k \in 1 .. Len(ls) : InBlock(ls, msg.line, k) =>
           \E s \in DOMAIN msg.signals : msg.signals[s].line = k
      /\ \A s, t \in DOMAIN msg.signals : s < t => msg.signals[s].line < msg.signals[t].line
  BY <1>1, MeantMessage
<1>3. ASSUME NEW s \in DOMAIN msg.signals
      PROVE  /\ msg.signals[s].line \in 1 .. Len(ms)
             /\ InBlock(ms, msg.line, msg.signals[s].line)
             /\ IsMeantSignal(ms, msg.line, msg.signals[s])
  BY <1>1, <1>2, InBlockBefore, SignalStaysMeant
<1>4. ASSUME NEW k \in 1 .. Len(ms), InBlock(ms, msg.line, k)
      PROVE  \E s \in DOMAIN msg.signals : msg.signals[s].line = k
  <2>1. k # Len(ls) + 1
    BY <1>4, InBlockNext
  <2>2. k \in 1 .. Len(ls)
    BY <1>1, <2>1
  <2>3. QED
    BY <1>2, <1>4, <2>2, InBlockBefore
<1>5. QED
  BY <1>1, <1>2, <1>3, <1>4, MessageIsMeant

(* A line that belongs to no message, nor describes one, changes nothing.  *)
LEMMA DbStaysMeant ==
  ASSUME NEW ls, NEW line, NEW ms, OneMore(ls, line, ms),
         line.kind \notin {"VAL_", "BO_"},
         line.kind = "SG_" => \A j \in 1 .. Len(ls) : ~IsLineOf(ls, j, Len(ls)),
         NEW d, IsMeantDb(ls, d)
  PROVE  IsMeantDb(ms, d)
<1>1. /\ Len(ls) \in Nat /\ Len(ms) = Len(ls) + 1 /\ ls \in Seq(Line) /\ ms \in Seq(Line)
      /\ \A j \in 1 .. Len(ls) : ms[j] = ls[j]
      /\ ms[Len(ls) + 1] = line
  BY OneMoreFacts, AppendProperties DEF OneMore
<1>2. /\ \A m \in DOMAIN d : /\ d[m].line \in 1 .. Len(ls)
                             /\ ls[d[m].line].kind = "BO_"
                             /\ IsMeantMessage(ls, d[m])
      /\ \A j \in 1 .. Len(ls) : ls[j].kind = "BO_" => \E m \in DOMAIN d : d[m].line = j
      /\ \A m, k \in DOMAIN d : m < k => d[m].line < d[k].line
  BY <1>1, MeantDb
<1>3. ASSUME NEW m \in DOMAIN d
      PROVE  /\ d[m].line \in 1 .. Len(ms)
             /\ ms[d[m].line].kind = "BO_"
             /\ IsMeantMessage(ms, d[m])
  <2>1. IsMeantMessage(ms, d[m])
    BY <1>2, MessageStaysMeant
  <2>2. QED
    BY <1>1, <1>2, <2>1
<1>4. \A j \in 1 .. Len(ms) : ms[j].kind = "BO_" => \E m \in DOMAIN d : d[m].line = j
  BY <1>1, <1>2
<1>5. QED
  BY <1>1, <1>2, <1>3, <1>4, DbIsMeant

(* A BO_ line begins a message, which has no signals yet.                  *)
LEMMA MessageBeginsMeant ==
  ASSUME NEW ls, NEW line, NEW ms, OneMore(ls, line, ms), line.kind = "BO_",
         NEW d \in Seq(CanMessage), IsMeantDb(ls, d),
         NEW msg \in CanMessage, msg.id = line.id, msg.line = Len(ls) + 1, msg.signals = <<>>
  PROVE  IsMeantDb(ms, Append(d, msg))
<1> DEFINE e == Append(d, msg)
<1>1. /\ Len(ls) \in Nat /\ Len(ms) = Len(ls) + 1 /\ ls \in Seq(Line) /\ ms \in Seq(Line)
      /\ \A j \in 1 .. Len(ls) : ms[j] = ls[j]
      /\ ms[Len(ls) + 1] = line
  BY OneMoreFacts, AppendProperties DEF OneMore
<1>2. /\ \A m \in DOMAIN d : /\ d[m].line \in 1 .. Len(ls)
                             /\ ls[d[m].line].kind = "BO_"
                             /\ IsMeantMessage(ls, d[m])
      /\ \A j \in 1 .. Len(ls) : ls[j].kind = "BO_" => \E m \in DOMAIN d : d[m].line = j
      /\ \A m, k \in DOMAIN d : m < k => d[m].line < d[k].line
  BY <1>1, MeantDb
<1>3. /\ Len(d) \in Nat /\ DOMAIN d = 1 .. Len(d) /\ DOMAIN e = 1 .. Len(d) + 1
      /\ \A m \in DOMAIN d : e[m] = d[m]
      /\ e[Len(d) + 1] = msg
  BY LenProperties, AppendProperties
<1> HIDE DEF e
<1>4. IsMeantMessage(ms, msg)
  <2>1. DOMAIN msg.signals = {}
    BY EmptySeq
  <2>2. \A k \in 1 .. Len(ms) : ~InBlock(ms, msg.line, k)
    BY <1>1 DEF InBlock
  <2>3. msg.id = ms[msg.line].id
    BY <1>1
  <2>4. QED
    BY <1>1, <2>1, <2>2, <2>3, MessageIsMeant
<1>5. ASSUME NEW m \in DOMAIN e
      PROVE  /\ e[m].line \in 1 .. Len(ms)
             /\ ms[e[m].line].kind = "BO_"
             /\ IsMeantMessage(ms, e[m])
  <2>1. CASE m \in DOMAIN d
    <3>1. IsMeantMessage(ms, d[m])
      BY <1>2, <2>1, MessageStaysMeant
    <3>2. QED
      BY <1>1, <1>2, <1>3, <2>1, <3>1
  <2>2. CASE m = Len(d) + 1
    BY <1>1, <1>3, <1>4, <2>2
  <2>3. QED
    BY <1>3, <2>1, <2>2
<1>6. ASSUME NEW j \in 1 .. Len(ms), ms[j].kind = "BO_"
      PROVE  \E m \in DOMAIN e : e[m].line = j
  <2>1. CASE j \in 1 .. Len(ls)
    <3>1. PICK m \in DOMAIN d : d[m].line = j
      BY <1>1, <1>2, <1>6, <2>1
    <3>2. m \in DOMAIN e /\ e[m].line = j
      BY <1>3, <3>1
    <3>3. QED
      BY <3>2
  <2>2. CASE j = Len(ls) + 1
    <3>1. Len(d) + 1 \in DOMAIN e /\ e[Len(d) + 1].line = j
      BY <1>3, <2>2
    <3>2. QED
      BY <3>1
  <2>3. QED
    BY <1>1, <2>1, <2>2
<1>7. ASSUME NEW m \in DOMAIN e, NEW k \in DOMAIN e, m < k
      PROVE  e[m].line < e[k].line
  <2>1. m \in DOMAIN d
    BY <1>3, <1>7
  <2>2. CASE k \in DOMAIN d
    BY <1>2, <1>3, <1>7, <2>1, <2>2
  <2>3. CASE k = Len(d) + 1
    BY <1>1, <1>2, <1>3, <2>1, <2>3
  <2>4. QED
    BY <1>3, <2>2, <2>3
<1>8. IsMeantDb(ms, e)
  BY <1>1, <1>5, <1>6, <1>7, DbIsMeant
<1>9. QED
  BY <1>8 DEF e

(* A signal of the last message joins it.                                  *)
LEMMA SignalJoinsMessage ==
  ASSUME NEW ls, NEW line, NEW ms, OneMore(ls, line, ms), line.kind = "SG_",
         NEW c \in CanMessage, c.line \in 1 .. Len(ls), IsMeantMessage(ls, c),
         IsLineOf(ls, c.line, Len(ls)),
         NEW sig \in CanSignal, sig.name = line.name, sig.line = Len(ls) + 1, sig.values = <<>>,
         NEW b, b.id = c.id, b.line = c.line, b.signals = Append(c.signals, sig)
  PROVE  IsMeantMessage(ms, b)
<1> DEFINE n == Len(ls)
           l == Len(c.signals)
<1>1. /\ n \in Nat /\ Len(ms) = n + 1 /\ ls \in Seq(Line) /\ ms \in Seq(Line)
      /\ \A j \in 1 .. n : ms[j] = ls[j]
      /\ ms[n + 1] = line /\ DOMAIN ms = 1 .. n + 1
  BY OneMoreFacts, AppendProperties DEF OneMore
<1>2. /\ c.id = ls[c.line].id
      /\ \A s \in DOMAIN c.signals :
           /\ c.signals[s].line \in 1 .. n
           /\ InBlock(ls, c.line, c.signals[s].line)
           /\ IsMeantSignal(ls, c.line, c.signals[s])
      /\ \A k \in 1 .. n : InBlock(ls, c.line, k) =>
           \E s \in DOMAIN c.signals : c.signals[s].line = k
      /\ \A s, t \in DOMAIN c.signals : s < t => c.signals[s].line < c.signals[t].line
  BY <1>1, MeantMessage
<1>3. /\ l \in Nat /\ DOMAIN c.signals = 1 .. l /\ DOMAIN b.signals = 1 .. l + 1
      /\ \A s \in DOMAIN c.signals : b.signals[s] = c.signals[s]
      /\ b.signals[l + 1] = sig
  BY LenProperties, AppendProperties DEF CanMessage
<1>4. InBlock(ms, c.line, n + 1)
  BY InBlockNext
<1> HIDE DEF n, l
<1>5. c.line \in 1 .. n /\ sig.line = n + 1
  BY DEF n
<1>6. IsMeantSignal(ms, c.line, sig)
  <2>1. \A v \in DOMAIN ms : ~Describes(ms, v, c.line, n + 1)
    BY <1>1 DEF Describes
  <2>2. {v \in DOMAIN ms : Describes(ms, v, c.line, n + 1)} = {}
    BY <2>1
  <2>3. DOMAIN sig.values = {}
    BY EmptySeq
  <2>4. Lists(sig.values, {})
    BY <2>3, ListsElements
  <2>5. QED
    BY <1>1, <1>5, <2>2, <2>4 DEF IsMeantSignal
<1>7. ASSUME NEW s \in DOMAIN b.signals
      PROVE  /\ b.signals[s].line \in 1 .. n + 1
             /\ InBlock(ms, c.line, b.signals[s].line)
             /\ IsMeantSignal(ms, c.line, b.signals[s])
  <2>1. CASE s \in DOMAIN c.signals
    <3>1. /\ c.signals[s].line \in 1 .. n
          /\ InBlock(ls, c.line, c.signals[s].line)
          /\ IsMeantSignal(ls, c.line, c.signals[s])
      BY <1>2, <2>1
    <3>2. InBlock(ms, c.line, c.signals[s].line)
      BY <1>5, <3>1, InBlockBefore DEF n
    <3>3. IsMeantSignal(ms, c.line, c.signals[s])
      BY <1>5, <3>1, SignalStaysMeant DEF n
    <3>4. QED
      BY <1>1, <1>3, <2>1, <3>1, <3>2, <3>3
  <2>2. CASE s = l + 1
    BY <1>1, <1>3, <1>4, <1>5, <1>6, <2>2
  <2>3. QED
    BY <1>3, <2>1, <2>2
<1>8. ASSUME NEW k \in 1 .. n + 1, InBlock(ms, c.line, k)
      PROVE  \E s \in DOMAIN b.signals : b.signals[s].line = k
  <2>1. CASE k \in 1 .. n
    <3>1. InBlock(ls, c.line, k)
      BY <1>5, <1>8, <2>1, InBlockBefore DEF n
    <3>2. PICK s \in DOMAIN c.signals : c.signals[s].line = k
      BY <1>2, <2>1, <3>1
    <3>3. s \in DOMAIN b.signals /\ b.signals[s].line = k
      BY <1>3, <3>2
    <3>4. QED
      BY <3>3
  <2>2. CASE k = n + 1
    <3>1. l + 1 \in DOMAIN b.signals /\ b.signals[l + 1].line = k
      BY <1>3, <1>5, <2>2
    <3>2. QED
      BY <3>1
  <2>3. QED
    BY <1>1, <2>1, <2>2
<1>9. ASSUME NEW s \in DOMAIN b.signals, NEW t \in DOMAIN b.signals, s < t
      PROVE  b.signals[s].line < b.signals[t].line
  <2>1. s \in DOMAIN c.signals
    BY <1>3, <1>9
  <2>2. CASE t \in DOMAIN c.signals
    BY <1>2, <1>3, <1>9, <2>1, <2>2
  <2>3. CASE t = l + 1
    BY <1>1, <1>2, <1>3, <1>5, <2>1, <2>3
  <2>4. QED
    BY <1>3, <2>2, <2>3
<1>10. b.id = ms[b.line].id
  BY <1>1, <1>2, <1>5
<1>11. QED
  BY <1>1, <1>7, <1>8, <1>9, <1>10, MessageIsMeant

(* The database with that message at its end stays meant.                  *)
LEMMA SignalJoinsMeant ==
  ASSUME NEW ls, NEW line, NEW ms, OneMore(ls, line, ms), line.kind = "SG_",
         NEW d \in Seq(CanMessage), NEW c \in CanMessage, IsMeantDb(ls, Append(d, c)),
         IsLineOf(ls, c.line, Len(ls)),
         NEW sig \in CanSignal, sig.name = line.name, sig.line = Len(ls) + 1, sig.values = <<>>,
         NEW b \in CanMessage, b.id = c.id, b.line = c.line, b.signals = Append(c.signals, sig)
  PROVE  IsMeantDb(ms, Append(d, b))
<1> DEFINE e == Append(d, c)
           g == Append(d, b)
           n == Len(ls)
           l == Len(d)
<1>1. /\ n \in Nat /\ Len(ms) = n + 1 /\ ls \in Seq(Line) /\ ms \in Seq(Line)
      /\ \A j \in 1 .. n : ms[j] = ls[j]
      /\ ms[n + 1] = line
  BY OneMoreFacts, AppendProperties DEF OneMore
<1>2. /\ l \in Nat /\ DOMAIN d = 1 .. l
      /\ DOMAIN e = 1 .. l + 1 /\ \A m \in 1 .. l : e[m] = d[m]
      /\ DOMAIN g = 1 .. l + 1 /\ \A m \in 1 .. l : g[m] = d[m]
      /\ e[l + 1] = c /\ g[l + 1] = b
  BY LenProperties, AppendProperties
<1>3. IsMeantDb(ls, e) /\ IsLineOf(ls, c.line, n)
  OBVIOUS
<1> HIDE DEF e, g, l
<1>4. /\ \A m \in DOMAIN e : /\ e[m].line \in 1 .. n
                             /\ ls[e[m].line].kind = "BO_"
                             /\ IsMeantMessage(ls, e[m])
      /\ \A j \in 1 .. n : ls[j].kind = "BO_" => \E m \in DOMAIN e : e[m].line = j
      /\ \A m, k \in DOMAIN e : m < k => e[m].line < e[k].line
  BY <1>1, <1>3, MeantDb
<1>5. c.line \in 1 .. n /\ IsMeantMessage(ls, c)
  BY <1>2, <1>4
<1>6. IsMeantMessage(ms, b)
  BY <1>5, SignalJoinsMessage
<1> HIDE DEF n
<1>7. \A m \in DOMAIN e : m \in DOMAIN g /\ g[m].line = e[m].line
  BY <1>2
<1>8. \A m \in DOMAIN g : m \in DOMAIN e
  BY <1>2
<1>9. ASSUME NEW m \in DOMAIN g
      PROVE  /\ g[m].line \in 1 .. n + 1
             /\ ms[g[m].line].kind = "BO_"
             /\ IsMeantMessage(ms, g[m])
  <2>1. e[m].line \in 1 .. n /\ ls[e[m].line].kind = "BO_" /\ IsMeantMessage(ls, e[m])
    BY <1>4, <1>8
  <2>2. CASE m \in 1 .. l
    <3>1. e[m].line < c.line
      BY <1>2, <1>4, <2>2
    <3>2. ~IsLineOf(ls, e[m].line, n)
      BY <1>1, <1>3, <1>5, <2>1, <3>1, OneMessage
    <3>3. IsMeantMessage(ms, e[m])
      BY <2>1, <3>2, MessageStaysMeant DEF n
    <3>4. QED
      BY <1>1, <1>2, <2>1, <2>2, <3>3
  <2>3. CASE m = l + 1
    BY <1>1, <1>2, <1>6, <2>1, <2>3
  <2>4. QED
    BY <1>2, <2>2, <2>3
<1>10. ASSUME NEW j \in 1 .. n + 1, ms[j].kind = "BO_"
       PROVE  \E m \in DOMAIN g : g[m].line = j
  <2>1. j \in 1 .. n /\ ls[j].kind = "BO_"
    BY <1>1, <1>10
  <2>2. QED
    BY <1>4, <1>7, <2>1
<1>11. \A m, k \in DOMAIN g : m < k => g[m].line < g[k].line
  BY <1>4, <1>7, <1>8
<1>12. IsMeantDb(ms, g)
  BY <1>1, <1>9, <1>10, <1>11, DbIsMeant
<1>13. QED
  BY <1>12 DEF g

(* A non-empty set of numbers has a least one.                             *)
LEMMA LeastNumber ==
  ASSUME NEW T, T \subseteq Nat, T # {}
  PROVE  \E m \in T : \A n \in T : m <= n
<1> DEFINE R == OpToRel(<, Nat)
<1>1. IsWellFoundedOn(R, Nat)
  BY NatLessThanWellFounded
<1>2. \A i, j \in Nat : i < j => <<i, j>> \in R
  BY DEF OpToRel
<1> HIDE DEF R
<1>3. PICK m \in T : \A n \in T : ~ (<<n, m>> \in R)
  BY <1>1, WFMin
<1>4. \A n \in T : m \in Nat /\ n \in Nat /\ ~(n < m)
  BY <1>2, <1>3
<1>5. QED
  BY <1>4

(* What a loop finds that stops at the first match.                        *)
LEMMA FirstOfFacts ==
  ASSUME NEW found, found \subseteq Nat \ {0}
  PROVE  /\ found = {} <=> FirstOf(found) = 0
         /\ \A i \in found : i = FirstOf(found) <=> \A j \in found : i <= j
         /\ FirstOf(found) # 0 => FirstOf(found) \in found
<1>1. CASE found = {}
  BY <1>1 DEF FirstOf
<1>2. CASE found # {}
  <2>1. \E i \in found : \A j \in found : i <= j
    BY <1>2, LeastNumber
  <2>2. FirstOf(found) \in found /\ \A j \in found : FirstOf(found) <= j
    BY <1>2, <2>1 DEF FirstOf
  <2>3. PICK f : f = FirstOf(found)
    OBVIOUS
  <2>4. f \in found /\ f \in Nat /\ f # 0 /\ \A j \in found : j \in Nat /\ f <= j
    BY <2>2, <2>3
  <2>5. ASSUME NEW i \in found, \A j \in found : i <= j
        PROVE  i = f
    BY <2>4, <2>5
  <2>6. QED
    BY <1>2, <2>3, <2>4, <2>5
<1>3. QED
  BY <1>1, <1>2

(* A VAL_ line describes the signal that AddValues finds, and no other.    *)
LEMMA DescribesFound ==
  ASSUME NEW ls, NEW line, NEW ms, OneMore(ls, line, ms), line.kind = "VAL_",
         NEW d \in Seq(CanMessage), IsMeantDb(ls, d),
         NEW m \in DOMAIN d, NEW s \in DOMAIN d[m].signals
  PROVE  Describes(ms, Len(ls) + 1, d[m].line, d[m].signals[s].line)
           <=> m = FirstMessage(d, line.id) /\ s = FirstSignal(d[m], line.name)
<1> DEFINE n == Len(ls)
           j == d[m].line
           k == d[m].signals[s].line
           sigs == d[m].signals
           ids == {i \in DOMAIN d : d[i].id = line.id}
           names == {i \in DOMAIN sigs : sigs[i].name = line.name}
<1>1. /\ n \in Nat /\ ls \in Seq(Line)
      /\ \A i \in 1 .. n : ms[i] = ls[i]
      /\ ms[n + 1] = line
  BY OneMoreFacts DEF OneMore
<1>2. /\ \A i \in DOMAIN d : /\ d[i].line \in 1 .. n
                             /\ ls[d[i].line].kind = "BO_"
                             /\ IsMeantMessage(ls, d[i])
      /\ \A i \in 1 .. n : ls[i].kind = "BO_" => \E p \in DOMAIN d : d[p].line = i
      /\ \A i, p \in DOMAIN d : i < p => d[i].line < d[p].line
  BY <1>1, MeantDb
<1>3. \A i \in DOMAIN d : d[i].id = ls[d[i].line].id
  BY <1>1, <1>2, MeantMessage
<1>4. /\ \A i \in DOMAIN sigs :
           /\ sigs[i].line \in 1 .. n
           /\ InBlock(ls, j, sigs[i].line)
           /\ IsMeantSignal(ls, j, sigs[i])
      /\ \A i \in 1 .. n : InBlock(ls, j, i) => \E p \in DOMAIN sigs : sigs[p].line = i
      /\ \A i, p \in DOMAIN sigs : i < p => sigs[i].line < sigs[p].line
  <2>1. IsMeantMessage(ls, d[m]) /\ ls \in Seq(Line)
    BY <1>1, <1>2
  <2>2. QED
    BY <2>1, MeantMessage
<1>5. \A i \in DOMAIN sigs : sigs[i].name = ls[sigs[i].line].name
  BY <1>4 DEF IsMeantSignal
<1>6. DOMAIN d \subseteq Nat \ {0} /\ DOMAIN sigs \subseteq Nat \ {0}
  <2>1. d[m] \in CanMessage
    BY LenProperties
  <2>2. sigs \in Seq(CanSignal)
    BY <2>1 DEF CanMessage
  <2>3. DOMAIN d = 1 .. Len(d) /\ Len(d) \in Nat /\ DOMAIN sigs = 1 .. Len(sigs) /\ Len(sigs) \in Nat
    BY <2>2, LenProperties
  <2>4. QED
    BY <2>3
<1>7. m = FirstMessage(d, line.id) <=> d[m].id = line.id /\ \A i \in DOMAIN d : d[i].id = line.id => m <= i
  <2>1. ids \subseteq Nat \ {0} /\ 0 \notin ids
    BY <1>6
  <2>2. m = FirstOf(ids) <=> m \in ids /\ \A i \in ids : m <= i
    <3>1. m # 0
      BY <1>6
    <3>2. QED
      BY <2>1, <3>1, FirstOfFacts
  <2>3. QED
    BY <2>2 DEF FirstMessage
<1>8. s = FirstSignal(d[m], line.name) <=>
        sigs[s].name = line.name /\ \A i \in DOMAIN sigs : sigs[i].name = line.name => s <= i
  <2>1. names \subseteq Nat \ {0} /\ 0 \notin names
    BY <1>6
  <2>2. s = FirstOf(names) <=> s \in names /\ \A i \in names : s <= i
    <3>1. s # 0
      BY <1>6
    <3>2. QED
      BY <2>1, <3>1, FirstOfFacts
  <2>3. QED
    BY <2>2 DEF FirstSignal
<1>9. /\ j \in 1 .. n /\ k \in 1 .. n /\ j < k /\ ms[j] = ls[j] /\ ms[k] = ls[k]
      /\ d[m].id = ls[j].id /\ sigs[s].name = ls[k].name
  BY <1>1, <1>2, <1>3, <1>4, <1>5 DEF InBlock
<1>10. InBlock(ls, j, k)
  BY <1>4
<1>11. (\A i \in DOMAIN d : d[i].id = line.id => m <= i)
         <=> \A i \in 1 .. j - 1 : ms[i].kind = "BO_" => ms[i].id # line.id
  <2>1. ASSUME \A i \in DOMAIN d : d[i].id = line.id => m <= i,
               NEW i \in 1 .. j - 1, ms[i].kind = "BO_", ms[i].id = line.id
        PROVE  FALSE
    <3>1. i \in 1 .. n /\ i < j /\ ms[i] = ls[i]
      BY <1>1, <1>9
    <3>2. PICK p \in DOMAIN d : d[p].line = i
      BY <1>2, <2>1, <3>1
    <3>3. m <= p
      BY <1>3, <2>1, <3>1, <3>2
    <3>4. d[m].line <= d[p].line
      <4>1. CASE m = p
        BY <1>2, <1>9, <3>2, <3>1, <4>1
      <4>2. CASE m < p
        BY <1>1, <1>2, <3>2, <4>2
      <4>3. QED
        BY <1>6, <3>3, <4>1, <4>2
    <3>5. QED
      BY <1>1, <1>9, <3>1, <3>2, <3>4
  <2>2. ASSUME \A i \in 1 .. j - 1 : ms[i].kind = "BO_" => ms[i].id # line.id,
               NEW i \in DOMAIN d, d[i].id = line.id
        PROVE  m <= i
    <3>1. SUFFICES ASSUME i < m PROVE FALSE
      BY <1>6
    <3>2. d[i].line \in 1 .. n /\ d[i].line < j /\ ls[d[i].line].kind = "BO_"
      BY <1>2, <3>1
    <3>3. d[i].line \in 1 .. j - 1 /\ ms[d[i].line] = ls[d[i].line]
      BY <1>1, <1>9, <3>2
    <3>4. QED
      BY <1>3, <2>2, <3>2, <3>3
  <2>3. QED
    BY <2>1, <2>2
<1>12. (\A i \in DOMAIN sigs : sigs[i].name = line.name => s <= i)
         <=> \A i \in j + 1 .. k - 1 : ms[i].name # line.name
  <2>1. ASSUME \A i \in DOMAIN sigs : sigs[i].name = line.name => s <= i,
               NEW i \in j + 1 .. k - 1, ms[i].name = line.name
        PROVE  FALSE
    <3>1. i \in 1 .. n /\ i < k /\ ms[i] = ls[i]
      BY <1>1, <1>9
    <3>2. InBlock(ls, j, i)
      BY <1>9, <1>10 DEF InBlock
    <3>3. PICK p \in DOMAIN sigs : sigs[p].line = i
      BY <1>4, <3>1, <3>2
    <3>4. s <= p
      BY <1>5, <2>1, <3>1, <3>3
    <3>5. k <= sigs[p].line
      BY <1>4, <1>6, <3>4
    <3>6. QED
      BY <1>1, <1>9, <3>1, <3>3, <3>5
  <2>2. ASSUME \A i \in j + 1 .. k - 1 : ms[i].name # line.name,
               NEW i \in DOMAIN sigs, sigs[i].name = line.name
        PROVE  s <= i
    <3>1. SUFFICES ASSUME i < s PROVE FALSE
      BY <1>6
    <3>2. sigs[i].line \in 1 .. n /\ sigs[i].line < k /\ j < sigs[i].line
      BY <1>4, <3>1 DEF InBlock
    <3>3. sigs[i].line \in j + 1 .. k - 1 /\ ms[sigs[i].line] = ls[sigs[i].line]
      BY <1>1, <1>9, <3>2
    <3>4. QED
      BY <1>5, <2>2, <3>3
  <2>3. QED
    BY <2>1, <2>2
<1> HIDE DEF ids, names
<1>13. Describes(ms, n + 1, j, k) <=>
        /\ line.id = d[m].id /\ line.name = sigs[s].name
        /\ \A i \in 1 .. j - 1 : ms[i].kind = "BO_" => ms[i].id # line.id
        /\ \A i \in j + 1 .. k - 1 : ms[i].name # line.name
  <2>1. k < n + 1
    BY <1>1, <1>9
  <2> HIDE DEF n, j, k, sigs
  <2>2. QED
    BY <1>1, <1>9, <2>1 DEF Describes
<1>14. QED
  BY <1>7, <1>8, <1>11, <1>12, <1>13

(* The database e is d with the VAL_ line v at the signal that is found.   *)
ValuesFound(d, line, v, e) ==
  LET m == FirstMessage(d, line.id)
      s == IF m = 0 THEN 0 ELSE FirstSignal(d[m], line.name)
  IN  e = IF s = 0 THEN d ELSE [d EXCEPT ![m].signals[s].values = Append(@, v)]

(* Two messages that differ in the values of signal s at most.             *)
DiffersAt(a, b, s, v) ==
  /\ b.id = a.id /\ b.line = a.line /\ DOMAIN b.signals = DOMAIN a.signals
  /\ \A t \in DOMAIN a.signals :
       /\ b.signals[t].name = a.signals[t].name
       /\ b.signals[t].line = a.signals[t].line
       /\ b.signals[t].values = IF t = s THEN Append(a.signals[t].values, v)
                                ELSE a.signals[t].values

(* The values of one signal change, and nothing else.                      *)
LEMMA SignalDiffers ==
  ASSUME NEW a \in CanMessage, NEW s \in DOMAIN a.signals, NEW v, NEW b,
         b = [a EXCEPT !.signals[s].values = Append(@, v)]
  PROVE  DiffersAt(a, b, s, v)
<1> DEFINE sig == [a.signals[s] EXCEPT !.values = Append(@, v)]
           sigs == [a.signals EXCEPT ![s] = sig]
<1>1. b = [a EXCEPT !.signals = sigs]
  OBVIOUS
<1>2. a.signals \in Seq(CanSignal)
  BY DEF CanMessage
<1>3. a.signals[s] \in CanSignal
  BY <1>2, LenProperties
<1>4. /\ sig.name = a.signals[s].name /\ sig.line = a.signals[s].line
      /\ sig.values = Append(a.signals[s].values, v)
  BY <1>3 DEF CanSignal
<1> HIDE DEF sig
<1>5. /\ DOMAIN sigs = DOMAIN a.signals
      /\ \A t \in DOMAIN a.signals : sigs[t] = IF t = s THEN sig ELSE a.signals[t]
  OBVIOUS
<1> HIDE DEF sigs
<1>6. b.id = a.id /\ b.line = a.line /\ b.signals = sigs
  BY <1>1 DEF CanMessage
<1>7. QED
  BY <1>4, <1>5, <1>6 DEF DiffersAt

(* The same of the database: the signal found is the only one that changes.*)
LEMMA FoundDiffers ==
  ASSUME NEW d \in Seq(CanMessage), NEW line, NEW v, NEW e, ValuesFound(d, line, v, e)
  PROVE  /\ DOMAIN e = DOMAIN d
         /\ \A m \in DOMAIN d :
              /\ e[m].id = d[m].id /\ e[m].line = d[m].line
              /\ DOMAIN e[m].signals = DOMAIN d[m].signals
              /\ \A s \in DOMAIN d[m].signals :
                   /\ e[m].signals[s].name = d[m].signals[s].name
                   /\ e[m].signals[s].line = d[m].signals[s].line
                   /\ e[m].signals[s].values =
                        IF m = FirstMessage(d, line.id) /\ s = FirstSignal(d[m], line.name)
                        THEN Append(d[m].signals[s].values, v) ELSE d[m].signals[s].values
<1>1. PICK i, k : /\ i = FirstMessage(d, line.id)
                  /\ k = IF i = 0 THEN 0 ELSE FirstSignal(d[i], line.name)
                  /\ e = IF k = 0 THEN d ELSE [d EXCEPT ![i].signals[k].values = Append(@, v)]
  BY DEF ValuesFound
<1>2. /\ DOMAIN d \subseteq Nat \ {0}
      /\ \A m \in DOMAIN d : d[m] \in CanMessage /\ DOMAIN d[m].signals \subseteq Nat \ {0}
  <2>1. DOMAIN d = 1 .. Len(d) /\ Len(d) \in Nat /\ \A m \in DOMAIN d : d[m] \in CanMessage
    BY LenProperties
  <2>2. ASSUME NEW m \in DOMAIN d PROVE DOMAIN d[m].signals \subseteq Nat \ {0}
    <3>1. d[m].signals \in Seq(CanSignal)
      BY <2>1 DEF CanMessage
    <3>2. DOMAIN d[m].signals = 1 .. Len(d[m].signals) /\ Len(d[m].signals) \in Nat
      BY <3>1, LenProperties
    <3>3. QED
      BY <3>2
  <2>3. QED
    BY <2>1, <2>2
<1>3. CASE k = 0
  <2>1. e = d
    BY <1>1, <1>3
  <2>2. ASSUME NEW m \in DOMAIN d, NEW s \in DOMAIN d[m].signals
        PROVE  ~(m = FirstMessage(d, line.id) /\ s = FirstSignal(d[m], line.name))
    BY <1>1, <1>2, <1>3
  <2>3. QED
    BY <2>1, <2>2
<1>4. CASE k # 0
  <2>1. i # 0 /\ k = FirstSignal(d[i], line.name)
    BY <1>1, <1>4
  <2>2. i \in DOMAIN d /\ k \in DOMAIN d[i].signals
    <3> DEFINE ids == {m \in DOMAIN d : d[m].id = line.id}
    <3>1. ids \subseteq Nat \ {0} /\ i = FirstOf(ids)
      BY <1>1, <1>2 DEF FirstMessage
    <3>2. i \in ids
      BY <2>1, <3>1, FirstOfFacts
    <3> DEFINE names == {s \in DOMAIN d[i].signals : d[i].signals[s].name = line.name}
    <3>3. names \subseteq Nat \ {0} /\ k = FirstOf(names)
      BY <1>2, <2>1, <3>2 DEF FirstSignal
    <3>4. k \in names
      BY <1>4, <3>3, FirstOfFacts
    <3>5. QED
      BY <3>2, <3>4
  <2> DEFINE new == [d[i] EXCEPT !.signals[k].values = Append(@, v)]
  <2>3. e = [d EXCEPT ![i] = new]
    BY <1>1, <1>4
  <2>4. DiffersAt(d[i], new, k, v)
    BY <1>2, <2>2, SignalDiffers
  <2> HIDE DEF new
  <2>5. DOMAIN e = DOMAIN d /\ \A m \in DOMAIN d : e[m] = IF m = i THEN new ELSE d[m]
    BY <2>3
  <2>6. ASSUME NEW m \in DOMAIN d
        PROVE  /\ e[m].id = d[m].id /\ e[m].line = d[m].line
               /\ DOMAIN e[m].signals = DOMAIN d[m].signals
               /\ \A s \in DOMAIN d[m].signals :
                    /\ e[m].signals[s].name = d[m].signals[s].name
                    /\ e[m].signals[s].line = d[m].signals[s].line
                    /\ e[m].signals[s].values =
                         IF m = i /\ s = k
                         THEN Append(d[m].signals[s].values, v) ELSE d[m].signals[s].values
    <3>1. CASE m = i
      <4>1. DiffersAt(d[m], e[m], k, v)
        BY <2>4, <2>5, <3>1
      <4>2. QED
        BY <3>1, <4>1 DEF DiffersAt
    <3>2. CASE m # i
      <4>1. e[m] = d[m]
        BY <2>5, <3>2
      <4>2. QED
        BY <3>2, <4>1
    <3>3. QED
      BY <3>1, <3>2
  <2>7. \A m \in DOMAIN d : \A s \in DOMAIN d[m].signals :
          (m = i /\ s = k) <=> (m = FirstMessage(d, line.id) /\ s = FirstSignal(d[m], line.name))
    BY <1>1, <2>1
  <2>8. QED
    BY <2>5, <2>6, <2>7
<1>5. QED
  BY <1>3, <1>4

(* With the values added, the database is what the lines say.              *)
LEMMA ValuesAddedMeant ==
  ASSUME NEW ls, NEW line, NEW ms, OneMore(ls, line, ms), line.kind = "VAL_",
         NEW d \in Seq(CanMessage), IsMeantDb(ls, d),
         NEW e, ValuesFound(d, line, Len(ls) + 1, e)
  PROVE  IsMeantDb(ms, e)
<1> DEFINE n == Len(ls)
<1>1. /\ n \in Nat /\ Len(ms) = n + 1 /\ ls \in Seq(Line) /\ ms \in Seq(Line)
      /\ \A j \in 1 .. n : ms[j] = ls[j]
      /\ ms[n + 1] = line /\ DOMAIN ls = 1 .. n /\ DOMAIN ms = 1 .. n + 1
  BY OneMoreFacts, AppendProperties DEF OneMore
<1>2. /\ \A m \in DOMAIN d : /\ d[m].line \in 1 .. n
                             /\ ls[d[m].line].kind = "BO_"
                             /\ IsMeantMessage(ls, d[m])
      /\ \A j \in 1 .. n : ls[j].kind = "BO_" => \E m \in DOMAIN d : d[m].line = j
      /\ \A m, k \in DOMAIN d : m < k => d[m].line < d[k].line
  BY <1>1, MeantDb
<1>3. /\ DOMAIN e = DOMAIN d
      /\ \A m \in DOMAIN d :
           /\ e[m].id = d[m].id /\ e[m].line = d[m].line
           /\ DOMAIN e[m].signals = DOMAIN d[m].signals
           /\ \A s \in DOMAIN d[m].signals :
                /\ e[m].signals[s].name = d[m].signals[s].name
                /\ e[m].signals[s].line = d[m].signals[s].line
                /\ e[m].signals[s].values =
                     IF m = FirstMessage(d, line.id) /\ s = FirstSignal(d[m], line.name)
                     THEN Append(d[m].signals[s].values, n + 1) ELSE d[m].signals[s].values
  BY FoundDiffers
<1>4. ASSUME NEW m \in DOMAIN d PROVE IsMeantMessage(ms, e[m])
  <2>1. /\ d[m].id = ls[d[m].line].id
        /\ \A s \in DOMAIN d[m].signals :
             /\ d[m].signals[s].line \in 1 .. n
             /\ InBlock(ls, d[m].line, d[m].signals[s].line)
             /\ IsMeantSignal(ls, d[m].line, d[m].signals[s])
        /\ \A k \in 1 .. n : InBlock(ls, d[m].line, k) =>
             \E s \in DOMAIN d[m].signals : d[m].signals[s].line = k
        /\ \A s, t \in DOMAIN d[m].signals : s < t => d[m].signals[s].line < d[m].signals[t].line
    BY <1>1, <1>2, MeantMessage
  <2>2. d[m].line \in 1 .. n /\ e[m].line = d[m].line /\ e[m].id = d[m].id
        /\ DOMAIN e[m].signals = DOMAIN d[m].signals
    BY <1>2, <1>3
  <2>3. ASSUME NEW s \in DOMAIN d[m].signals
        PROVE  /\ e[m].signals[s].line \in 1 .. n
               /\ InBlock(ms, d[m].line, e[m].signals[s].line)
               /\ IsMeantSignal(ms, d[m].line, e[m].signals[s])
    <3> DEFINE k == d[m].signals[s].line
               j == d[m].line
               old == d[m].signals[s].values
               new == e[m].signals[s].values
               S == {v \in DOMAIN ls : Describes(ls, v, j, k)}
               T == {v \in DOMAIN ms : Describes(ms, v, j, k)}
    <3>1. /\ k \in 1 .. n /\ j \in 1 .. n /\ InBlock(ls, j, k) /\ e[m].signals[s].line = k
          /\ e[m].signals[s].name = ls[k].name /\ Lists(old, S)
      BY <1>3, <2>1, <2>2 DEF IsMeantSignal
    <3>2. InBlock(ms, j, k)
      BY <3>1, InBlockBefore
    <3>3. \A v \in 1 .. n : Describes(ms, v, j, k) <=> Describes(ls, v, j, k)
      BY <3>1, DescribesBefore
    <3>4. Describes(ms, n + 1, j, k) <=> m = FirstMessage(d, line.id) /\ s = FirstSignal(d[m], line.name)
      BY DescribesFound
    <3>5. \A v : v \in T <=> v \in S \/ (v = n + 1 /\ Describes(ms, n + 1, j, k))
      BY <1>1, <3>3
    <3>6. \A v \in S : v \in 1 .. n
      BY <1>1
    <3>7. old \in Seq(LineNo)
      <4>1. d[m] \in CanMessage
        BY LenProperties
      <4>2. d[m].signals \in Seq(CanSignal)
        BY <4>1 DEF CanMessage
      <4>3. d[m].signals[s] \in CanSignal
        BY <4>2, LenProperties
      <4>4. QED
        BY <4>3 DEF CanSignal
    <3>8. new = IF Describes(ms, n + 1, j, k) THEN Append(old, n + 1) ELSE old
      BY <1>3, <3>4
    <3> HIDE DEF k, j, S, T, old, new, n
    <3>9. Lists(new, T)
      <4>1. CASE ~Describes(ms, n + 1, j, k)
        BY <3>1, <3>5, <3>8, <4>1, ListsElements
      <4>2. CASE Describes(ms, n + 1, j, k)
        <5>1. \A x : x \in T <=> x \in S \/ x = n + 1
          BY <3>5, <4>2
        <5>2. new = Append(old, n + 1) /\ Lists(old, S)
          BY <3>1, <3>8, <4>2
        <5>3. QED
          BY <1>1, <3>6, <3>7, <5>1, <5>2, ListsAppended
      <4>3. QED
        BY <4>1, <4>2
    <3>10. IsMeantSignal(ms, j, e[m].signals[s])
      BY <1>1, <3>1, <3>9 DEF IsMeantSignal, T, new
    <3>11. QED
      BY <3>1, <3>2, <3>10 DEF j
  <2>4. \A k \in 1 .. Len(ms) : InBlock(ms, e[m].line, k) =>
          \E s \in DOMAIN e[m].signals : e[m].signals[s].line = k
    <3>1. ~InBlock(ms, d[m].line, n + 1)
      BY <2>2, InBlockNext
    <3>2. \A k \in 1 .. n : InBlock(ms, d[m].line, k) <=> InBlock(ls, d[m].line, k)
      BY <2>2, InBlockBefore
    <3> HIDE DEF n
    <3>3. SUFFICES ASSUME NEW k \in 1 .. n + 1, InBlock(ms, d[m].line, k)
                   PROVE  \E s \in DOMAIN e[m].signals : e[m].signals[s].line = k
      BY <1>1, <2>2
    <3>4. k \in 1 .. n
      BY <1>1, <3>1, <3>3
    <3>5. PICK s \in DOMAIN d[m].signals : d[m].signals[s].line = k
      BY <2>1, <3>2, <3>3, <3>4
    <3>6. QED
      BY <1>3, <2>2, <3>5
  <2>5. \A s, t \in DOMAIN e[m].signals : s < t => e[m].signals[s].line < e[m].signals[t].line
    BY <1>3, <2>1, <2>2
  <2>6. e[m].id = ms[e[m].line].id
    BY <1>1, <2>1, <2>2
  <2> HIDE DEF n
  <2>7. \A s \in DOMAIN e[m].signals :
          /\ e[m].signals[s].line \in 1 .. Len(ms)
          /\ InBlock(ms, e[m].line, e[m].signals[s].line)
          /\ IsMeantSignal(ms, e[m].line, e[m].signals[s])
    BY <1>1, <2>2, <2>3
  <2>8. QED
    BY <1>1, <2>4, <2>5, <2>6, <2>7, MessageIsMeant
<1> HIDE DEF n
<1>5. \A m \in DOMAIN e : /\ e[m].line \in 1 .. Len(ms)
                          /\ ms[e[m].line].kind = "BO_"
                          /\ IsMeantMessage(ms, e[m])
  BY <1>1, <1>2, <1>3, <1>4
<1>6. ASSUME NEW j \in 1 .. Len(ms), ms[j].kind = "BO_"
      PROVE  \E m \in DOMAIN e : e[m].line = j
  <2>1. j \in 1 .. n /\ ls[j].kind = "BO_"
    BY <1>1, <1>6
  <2>2. PICK m \in DOMAIN d : d[m].line = j
    BY <1>2, <2>1
  <2>3. QED
    BY <1>3, <2>2
<1>7. \A m, k \in DOMAIN e : m < k => e[m].line < e[k].line
  BY <1>2, <1>3
<1>8. QED
  BY <1>1, <1>5, <1>6, <1>7, DbIsMeant

-----------------------------------------------------------------------------
(* The database d, and the message c behind it that is under construction. *)
DbSoFar(d, c, st) == IF st = "MESSAGE" THEN Append(d, c) ELSE d

(* What the parser has after the lines ls.  Between messages the last line *)
(* read is in no block; within one, it is the last of that message's.      *)
MeansLines(ls, d, c, st) ==
  /\ IsMeantDb(ls, DbSoFar(d, c, st))
  /\ st = "MESSAGE" => IsLineOf(ls, c.line, Len(ls))
  /\ st = "IDLE" => c = NoMessage /\ (ls # <<>> => ~InSomeBlock(ls, Len(ls)))

MeaningInv == WellFormed(lines) => MeansLines(lines, db, message, state)

(* Every step of the parser keeps what it has read in line with the files. *)
LEMMA MeaningStep ==
  ASSUME ParserTypeOK, MeaningInv, [ParserNext]_parserVars
  PROVE  MeaningInv'
<1>1. CASE UNCHANGED parserVars
  BY <1>1 DEF parserVars, MeaningInv
<1>2. CASE ParserNext
  <2>1. PICK line \in Line :
          \/ BeginMessage(line) \/ AddValues(line) \/ SkipLine(line)
          \/ AddCanSignal(line) \/ EndMessage(line) \/ EndFile(line)
    BY <1>2 DEF ParserNext
  <2>2. PICK ls, ms, d, e, c, b, st, ts :
          /\ ls = lines /\ ms = lines' /\ d = db /\ e = db'
          /\ c = message /\ b = message' /\ st = state /\ ts = state'
    OBVIOUS
  <2>3. ParserTypeOK'
    BY ParserTypeStep
  <2>4. /\ ls \in Seq(Line) /\ d \in Seq(CanMessage) /\ c \in CanMessage
        /\ st \in {"IDLE", "MESSAGE"}
        /\ e \in Seq(CanMessage) /\ b \in CanMessage
    BY <2>2, <2>3 DEF ParserTypeOK
  <2>5. OneMore(ls, line, ms)
    BY <2>1, <2>2, <2>4 DEF BeginMessage, AddValues, SkipLine, AddCanSignal, EndMessage,
                            EndFile, Read, OneMore
  <2>6. SUFFICES ASSUME WellFormed(ms) PROVE MeansLines(ms, e, b, ts)
    BY <2>2 DEF MeaningInv
  <2>7. /\ WellFormed(ls) /\ line.bad = "no"
        /\ line.kind \in {"BO_", "VAL_"} /\ ls # <<>> => ~InSomeBlock(ls, Len(ls))
    BY <2>5, <2>6, WellFormedBefore
  <2>8. MeansLines(ls, d, c, st)
    BY <2>2, <2>7 DEF MeaningInv
  <2> DEFINE n == Len(ls)
  <2>9. /\ n \in Nat /\ Len(ms) = n + 1 /\ (n = 0 <=> ls = <<>>)
        /\ lineNo = n + 1 /\ ms[n + 1] = line
    BY <2>2, <2>4, <2>5, OneMoreFacts, EmptySeq DEF lineNo
  <2>10. ms # <<>>
    BY <2>9, EmptySeq
  <2> HIDE DEF n
  <2>11. ASSUME st = "MESSAGE"
         PROVE  /\ IsMeantDb(ls, Append(d, c)) /\ IsLineOf(ls, c.line, n)
                /\ c.line \in 1 .. n /\ line.kind \notin {"BO_", "VAL_"}
    <3>1. IsMeantDb(ls, Append(d, c)) /\ IsLineOf(ls, c.line, n)
      BY <2>8, <2>11 DEF MeansLines, DbSoFar, n
    <3>2. Len(d) + 1 \in DOMAIN Append(d, c) /\ Append(d, c)[Len(d) + 1] = c
      <4>1. Len(d) \in Nat /\ Append(d, c) \in Seq(CanMessage) /\ Len(Append(d, c)) = Len(d) + 1
            /\ Append(d, c)[Len(d) + 1] = c
        BY <2>4, LenProperties, AppendProperties
      <4>2. DOMAIN Append(d, c) = 1 .. Len(d) + 1
        BY <4>1, LenProperties
      <4>3. QED
        BY <4>1, <4>2
    <3>3. c.line \in 1 .. n
      BY <2>4, <3>1, <3>2, MeantDb DEF n
    <3>4. InSomeBlock(ls, n) /\ n # 0
      BY <2>9, <3>1, <3>3, SomeBlock
    <3>5. QED
      BY <2>7, <2>9, <3>1, <3>3, <3>4 DEF n
  <2>12. ASSUME st = "IDLE"
         PROVE  /\ IsMeantDb(ls, d) /\ c = NoMessage
                /\ \A j \in 1 .. n : ~IsLineOf(ls, j, n)
    <3>1. IsMeantDb(ls, d) /\ c = NoMessage /\ (ls # <<>> => ~InSomeBlock(ls, n))
      BY <2>8, <2>12 DEF MeansLines, DbSoFar, n
    <3>2. QED
      BY <2>9, <3>1, SomeBlock
  <2>13. ASSUME line.kind \notin {"BO_", "SG_"} \/
                (line.kind = "SG_" /\ \A j \in 1 .. n : ~IsLineOf(ls, j, n))
         PROVE  ~InSomeBlock(ms, n + 1)
    <3>1. \A j \in 1 .. n : ~InBlock(ms, j, n + 1)
      BY <2>5, <2>13, InBlockNext DEF n
    <3>2. ~InBlock(ms, n + 1, n + 1)
      BY <2>9 DEF InBlock
    <3>3. ms[n + 1].kind # "BO_"
      BY <2>9, <2>13
    <3>4. QED
      BY <2>9, <3>1, <3>2, <3>3 DEF InSomeBlock
  <2>14. CASE BeginMessage(line)
    <3>1. /\ st = "IDLE" /\ line.kind = "BO_" /\ e = d /\ ts = "MESSAGE"
          /\ b = [c EXCEPT !.id = line.id, !.line = n + 1]
      BY <2>2, <2>7, <2>9, <2>14 DEF BeginMessage
    <3>2. b.id = line.id /\ b.line = n + 1 /\ b.signals = <<>>
      BY <2>12, <3>1 DEF NoMessage
    <3>3. IsMeantDb(ms, Append(d, b))
      BY <2>4, <2>5, <2>12, <3>1, <3>2, MessageBeginsMeant DEF n
    <3>4. IsLineOf(ms, b.line, Len(ms))
      BY <2>9, <3>1, <3>2 DEF IsLineOf
    <3>5. QED
      BY <3>1, <3>3, <3>4 DEF MeansLines, DbSoFar
  <2>15. CASE AddValues(line)
    <3>1. st = "IDLE" /\ line.kind = "VAL_" /\ ts = "IDLE" /\ b = c
      BY <2>2, <2>15 DEF AddValues
    <3>2. ValuesFound(d, line, n + 1, e)
      BY <2>2, <2>9, <2>15 DEF AddValues, ValuesFound
    <3>3. IsMeantDb(ms, e)
      BY <2>4, <2>5, <2>12, <3>1, <3>2, ValuesAddedMeant DEF n
    <3>4. QED
      BY <2>9, <2>12, <2>13, <3>1, <3>3 DEF MeansLines, DbSoFar
  <2>16. CASE SkipLine(line)
    <3>1. st = "IDLE" /\ line.kind \in {"SG_", "other"} /\ ts = "IDLE" /\ b = c /\ e = d
      BY <2>2, <2>16 DEF SkipLine
    <3>2. IsMeantDb(ms, d)
      BY <2>5, <2>12, <3>1, DbStaysMeant DEF n
    <3>3. QED
      BY <2>9, <2>12, <2>13, <3>1, <3>2 DEF MeansLines, DbSoFar
  <2>17. CASE AddCanSignal(line)
    <3> DEFINE sig == [name |-> line.name, line |-> n + 1, values |-> <<>>]
    <3>1. /\ st = "MESSAGE" /\ line.kind = "SG_" /\ e = d /\ ts = "MESSAGE"
          /\ b = [c EXCEPT !.signals = Append(@, sig)]
      BY <2>2, <2>7, <2>9, <2>17 DEF AddCanSignal
    <3>2. b.id = c.id /\ b.line = c.line /\ b.signals = Append(c.signals, sig)
      BY <2>4, <3>1 DEF CanMessage
    <3>3. sig \in CanSignal
      <4>1. line.name \in Names
        BY <3>1 DEF Line
      <4>2. n + 1 \in LineNo
        BY <1>2, <2>2, <2>9 DEF ParserNext, LineNo, n
      <4>3. QED
        BY <4>1, <4>2, EmptySeq DEF CanSignal
    <3>4. sig.name = line.name /\ sig.line = n + 1 /\ sig.values = <<>>
      OBVIOUS
    <3> HIDE DEF sig
    <3>5. IsMeantDb(ms, Append(d, b))
      <4>1. IsMeantDb(ls, Append(d, c)) /\ IsLineOf(ls, c.line, Len(ls)) /\ line.kind = "SG_"
        BY <2>11, <3>1 DEF n
      <4>2. sig.line = Len(ls) + 1
        BY <3>4 DEF n
      <4>3. QED
        BY <2>4, <2>5, <3>2, <3>3, <3>4, <4>1, <4>2, SignalJoinsMeant
    <3>6. IsLineOf(ms, b.line, Len(ms))
      BY <2>5, <2>9, <2>11, <3>1, <3>2, InBlockNext DEF n, IsLineOf
    <3>7. QED
      BY <3>1, <3>5, <3>6 DEF MeansLines, DbSoFar
  <2>18. CASE EndMessage(line)
    <3>1. st = "MESSAGE" /\ e = Append(d, c) /\ ts = "IDLE" /\ b = NoMessage
      BY <2>2, <2>18 DEF EndMessage
    <3>2. line.kind = "other"
      BY <2>11, <2>18, <3>1 DEF EndMessage
    <3>3. IsMeantDb(ms, e)
      BY <2>5, <2>11, <3>1, <3>2, DbStaysMeant
    <3>4. QED
      BY <2>9, <2>13, <3>1, <3>2, <3>3 DEF MeansLines, DbSoFar
  <2>19. CASE EndFile(line)
    <3>1. /\ line.kind = "eof" /\ ts = "IDLE" /\ b = NoMessage
          /\ e = IF st = "MESSAGE" THEN Append(d, c) ELSE d
      BY <2>2, <2>19 DEF EndFile
    <3>2. IsMeantDb(ls, e)
      BY <2>4, <2>11, <2>12, <3>1
    <3>3. IsMeantDb(ms, e)
      BY <2>5, <3>1, <3>2, DbStaysMeant
    <3>4. QED
      BY <2>9, <2>13, <3>1, <3>3 DEF MeansLines, DbSoFar
  <2>20. QED
    BY <2>1, <2>14, <2>15, <2>16, <2>17, <2>18, <2>19
<1>3. QED
  BY <1>1, <1>2

(* Well-formed files are read as they are meant, whatever they hold: every *)
(* message, in order, with exactly its signals, and every VAL_ line at its *)
(* signal.                                                                 *)
THEOREM ParserReadsWellFormedFiles == ParserSpec => []WellFormedFilesAreRead
<1>1. ParserInit => ParserTypeOK /\ MeaningInv
  <2>1. SUFFICES ASSUME ParserInit PROVE ParserTypeOK /\ MeaningInv
    OBVIOUS
  <2>2. ParserTypeOK
    <3>1. NoMessage \in CanMessage
      BY EmptySeq DEF NoMessage, CanMessage
    <3>2. QED
      BY <2>1, <3>1, EmptySeq DEF ParserInit, ParserTypeOK
  <2>3. IsMeantDb(<<>>, <<>>)
    <3>1. <<>> \in Seq(Line) /\ Len(<<>>) = 0 /\ DOMAIN <<>> = {}
      BY EmptySeq
    <3>2. PICK none : none = <<>>
      OBVIOUS
    <3>3. none \in Seq(Line) /\ Len(none) = 0 /\ DOMAIN none = {}
      BY <3>1, <3>2
    <3>4. IsMeantDb(none, none)
      <4>1. {j \in DOMAIN none : none[j].kind = "BO_"} = {}
        BY <3>3
      <4>2. Lists(LinesOf(none), {})
        BY <3>3, ListsLines
      <4>3. QED
        BY <3>3, <4>1, <4>2 DEF IsMeantDb
    <3>5. QED
      BY <3>2, <3>4
  <2>4. QED
    BY <2>1, <2>2, <2>3 DEF ParserInit, MeaningInv, MeansLines, DbSoFar
<1>2. ParserTypeOK /\ MeaningInv /\ [ParserNext]_parserVars => (ParserTypeOK /\ MeaningInv)'
  BY ParserTypeStep, MeaningStep
<1>3. ParserTypeOK /\ MeaningInv => WellFormedFilesAreRead
  <2>1. SUFFICES ASSUME ParserTypeOK, MeaningInv, lines # <<>>, Last(lines).kind = "eof",
                        WellFormed(lines)
                 PROVE  IsMeantDb(lines, db)
    BY DEF WellFormedFilesAreRead
  <2>2. MeansLines(lines, db, message, state)
    BY <2>1 DEF MeaningInv
  <2>3. state = "IDLE"
    <3>1. SUFFICES ASSUME state = "MESSAGE" PROVE FALSE
      BY <2>1 DEF ParserTypeOK
    <3>2. IsLineOf(lines, message.line, Len(lines))
      BY <2>2, <3>1 DEF MeansLines
    <3>3. Len(lines) \in Nat /\ message.line \in Nat /\ lines[Len(lines)].kind = "eof"
      BY <2>1, LenProperties DEF ParserTypeOK, CanMessage, LineNo, Last
    <3>4. QED
      BY <3>2, <3>3 DEF IsLineOf, InBlock
  <2>4. QED
    BY <2>2, <2>3 DEF MeansLines, DbSoFar
<1>4. QED
  BY <1>1, <1>2, <1>3, PTL DEF ParserSpec
=============================================================================
