--------------------------- MODULE FutureWatcher ---------------------------
(***************************************************************************)
(* QtConcurrent::run, QFuture and QFutureWatcher, as mainwindow.cpp uses   *)
(* them.  The code is Qt's, so every definition here is external.          *)
(*                                                                         *)
(* A job is one call of QtConcurrent::run; jobs are numbered in the order  *)
(* of the calls.  The global thread pool decides when a queued job starts  *)
(* and how long it runs; nothing here bounds the number of threads, so     *)
(* every pool size and every order of completion is covered.               *)
(* A function started by run() cannot be stopped: cancel() only sets a     *)
(* flag, which skips a job that has not started and discards the result of *)
(* one that has.  The watcher learns of the end of a job by an event       *)
(* posted to the GUI thread; setFuture removes the events still queued     *)
(* for the future watched before.                                          *)
(***************************************************************************)
EXTENDS Naturals

CONSTANTS
  MaxJobs,   \* bound: how many times run() is called
  Inputs,    \* what a job is asked to parse
  NoInput

ASSUME MaxJobsAssumption == MaxJobs \in Nat \ {0}
ASSUME NoInputAssumption == NoInput \notin Inputs

VARIABLES
  job,       \* the state behind each QFuture
  future,    \* the number of the job the QFuture member refers to, 0: none
  watched,   \* the number of the job the QFutureWatcher is set to, 0: none
  posted     \* jobs with a finished event of the watcher in the event queue

futureVars == <<job, future, watched, posted>>

JobIds == 1 .. MaxJobs

Job == [input    : Inputs \cup {NoInput},
        phase    : {"none", "queued", "running", "finished"},
        canceled : BOOLEAN,
        stored   : BOOLEAN]     \* a result or an exception is available

NoJob == [input |-> NoInput, phase |-> "none", canceled |-> FALSE, stored |-> FALSE]

QueuedJob(in) == [NoJob EXCEPT !.input = in, !.phase = "queued"]

FutureTypeOK ==
  /\ job \in [JobIds -> Job]
  /\ future \in 0 .. MaxJobs
  /\ watched \in 0 .. MaxJobs
  /\ posted \subseteq JobIds

FutureInit ==
  /\ job = [j \in JobIds |-> NoJob]
  /\ future = 0
  /\ watched = 0
  /\ posted = {}

(* QFuture::isRunning: from run() until the function has returned, also    *)
(* while the job waits for a thread and also after cancel().               *)
IsRunning(j) == j # 0 /\ job[j].phase \in {"queued", "running"}

(* The jobs after QFuture::cancel on the future of job j.                  *)
Cancel(j) == [job EXCEPT ![j].canceled = TRUE]

(* member = QtConcurrent::run(...) and watcher.setFuture(member), from the *)
(* job states jobs.  The two calls are one step: if the job ends between   *)
(* them, setFuture posts the event itself.                                 *)
RunAndWatch(jobs, in) ==
  /\ future < MaxJobs
  /\ future' = future + 1
  /\ job' = [jobs EXCEPT ![future + 1] = QueuedJob(in)]
  /\ watched' = future + 1
  /\ posted' = {}

(* The end of job j: its result is stored unless it was cancelled, and the *)
(* watcher is told if it is set to this job.                               *)
Finish(j) ==
  /\ job' = [job EXCEPT ![j].phase = "finished", ![j].stored = ~job[j].canceled]
  /\ posted' = IF watched = j THEN posted \cup {j} ELSE posted
  /\ UNCHANGED <<future, watched>>

(* A pool thread takes job j; a cancelled job is finished without running. *)
StartJob(j) ==
  /\ job[j].phase = "queued"
  /\ \/ /\ job[j].canceled
        /\ Finish(j)
     \/ /\ ~job[j].canceled
        /\ job' = [job EXCEPT ![j].phase = "running"]
        /\ UNCHANGED <<future, watched, posted>>

FinishJob(j) ==
  /\ job[j].phase = "running"
  /\ Finish(j)

PoolStep == \E j \in JobIds : StartJob(j) \/ FinishJob(j)

(* The event loop takes the finished event of the watcher off its queue.   *)
TakeFinishedEvent ==
  /\ watched \in posted
  /\ posted' = posted \ {watched}
  /\ UNCHANGED <<future, watched>>
=============================================================================
