----------------------------- MODULE JobQueue -----------------------------
(***************************************************************************)
(* The job queue of queue/job_queue.cpp: one std::queue, mutex and         *)
(* condition variable per job type, a pool of worker threads per type, one *)
(* shared running_ flag, and the generation_jobs rows that the callers     *)
(* and the workers update.                                                 *)
(*                                                                         *)
(* Every place where another thread can run is a step of its own: between  *)
(* push, notify_one and the "queued" update of enqueue_*_job; between the  *)
(* evaluation of cv.wait's predicate and the moment the thread blocks;     *)
(* between pop, the "processing" update, the handler and the final update. *)
(***************************************************************************)
EXTENDS Integers, Sequences, FiniteSets

CONSTANTS
  Jobs,        \* the jobs the callers may submit, each one once
  Workers,     \* the worker threads of both pools
  JobType,     \* JobType[j]: the queue of job j
  WorkerType,  \* WorkerType[w]: the queue worker w serves
  NoJob,       \* "no job", for a worker that holds none
  MaxBoots,    \* bound: how many times initialize() is called
  MaxFaults    \* bound: how many SQLite updates fail

Types == {"image", "video"}

ASSUME TypesAssumption  == /\ JobType \in [Jobs -> Types]
                           /\ WorkerType \in [Workers -> Types]
ASSUME NoJobAssumption  == NoJob \notin Jobs
ASSUME BoundsAssumption == MaxBoots \in Nat /\ MaxFaults \in Nat

VARIABLES
  queue,    \* queue[t]: image_queue_ / video_queue_
  running,  \* running_
  phase,    \* how far initialize() / shutdown() got
  pc,       \* pc[w]: where worker w is in worker_loop
  held,     \* held[w]: the QueuedJob worker w has popped
  caller,   \* caller[j]: how far the thread that enqueues j got
  row,      \* row[j]: the generation_jobs row of j
  outcome,  \* history: how the handler of j ended
  runs,     \* history: how often the handler of j was started
  boots,    \* history: calls of initialize()
  faults    \* history: SQLite updates that failed

vars == <<queue, running, phase, pc, held, caller, row, outcome, runs, boots, faults>>

Phases  == {"down", "up", "flagged", "imageNotified", "joining"}
WorkerPCs == {"loop", "acquire", "parking", "waiting", "popped", "handling",
              "complete", "fail", "exited"}
CallerPCs == {"idle", "created", "pushed", "notified", "returned", "gone"}
Statuses  == {"none", "queued", "processing", "completed", "failed"}
Outcomes  == {"none", "ok", "error"}

\* A row of generation_jobs: its status and its progress in percent.
Rows == [status : Statuses, progress : {0, 100}]
NoRow == [status |-> "none", progress |-> 0]

Terminal == {"completed", "failed"}

Init ==
  /\ queue = [t \in Types |-> <<>>]
  /\ running = FALSE
  /\ phase = "down"
  /\ pc = [w \in Workers |-> "exited"]
  /\ held = [w \in Workers |-> NoJob]
  /\ caller = [j \in Jobs |-> "idle"]
  /\ row = [j \in Jobs |-> NoRow]
  /\ outcome = [j \in Jobs |-> "none"]
  /\ runs = [j \in Jobs |-> 0]
  /\ boots = 0
  /\ faults = 0

---------------------------------------------------------------------------
(* The mutex and the condition variable of a type.                         *)

Pool(t) == {w \in Workers : WorkerType[w] = t}

WaitSet(t) == {w \in Pool(t) : pc[w] = "waiting"}

\* The only time a worker holds the mutex across a step of ours is between
\* finding the predicate of cv.wait false and blocking.
MutexFree(t) == \A w \in Pool(t) : pc[w] # "parking"

Wake(W) == pc' = [w \in Workers |-> IF w \in W THEN "acquire" ELSE pc[w]]

Goto(w, label) == pc' = [pc EXCEPT ![w] = label]

---------------------------------------------------------------------------
(* The registry: exec_prepared returns false when SQLite refuses the       *)
(* statement, and no caller of the queue looks at the result.              *)

UpdateRow(j, r) ==
  \/ row' = [row EXCEPT ![j] = r] /\ faults' = faults
  \/ faults < MaxFaults /\ faults' = faults + 1 /\ row' = row

\* Slip: the progress of the image callback is written in place of 0.
update_job_status_half(j, status) ==
  UpdateRow(j, [status |-> status, progress |-> 50])

update_job_status(j, status) == UpdateRow(j, [status |-> status, progress |-> 0])

complete_job(j) == UpdateRow(j, [status |-> "completed", progress |-> 100])

fail_job(j) == UpdateRow(j, [status |-> "failed", progress |-> row[j].progress])

---------------------------------------------------------------------------
(* initialize() and shutdown().                                            *)

Initialize ==
  /\ phase = "down" /\ boots < MaxBoots
  /\ phase' = "up" /\ running' = TRUE /\ boots' = boots + 1
  /\ pc' = [w \in Workers |-> "loop"]
  /\ UNCHANGED <<queue, held, caller, row, outcome, runs, faults>>

\* running_ = false: stored without the mutex of either queue.
ShutdownFlag ==
  /\ phase = "up" /\ phase' = "flagged" /\ running' = FALSE
  /\ UNCHANGED <<queue, pc, held, caller, row, outcome, runs, boots, faults>>

NotifyAllImage ==
  /\ phase = "flagged" /\ phase' = "imageNotified"
  /\ Wake(WaitSet("image"))
  /\ UNCHANGED <<queue, running, held, caller, row, outcome, runs, boots, faults>>

NotifyAllVideo ==
  /\ phase = "imageNotified" /\ phase' = "joining"
  /\ Wake(WaitSet("video"))
  /\ UNCHANGED <<queue, running, held, caller, row, outcome, runs, boots, faults>>

\* Every worker thread is joined, the vectors are cleared, shutdown returns.
Join ==
  /\ phase = "joining" /\ \A w \in Workers : pc[w] = "exited"
  /\ phase' = "down"
  /\ UNCHANGED <<queue, running, pc, held, caller, row, outcome, runs, boots, faults>>

\* The process dies, or exits after shutdown(): the queues and the threads are
\* gone, the rows stay.
Crash ==
  /\ boots > 0
  /\ phase' = "down" /\ running' = FALSE
  /\ queue' = [t \in Types |-> <<>>]
  /\ pc' = [w \in Workers |-> "exited"]
  /\ held' = [w \in Workers |-> NoJob]
  /\ caller' = [j \in Jobs |-> IF caller[j] = "idle" THEN "idle" ELSE "gone"]
  /\ UNCHANGED <<row, outcome, runs, boots, faults>>

---------------------------------------------------------------------------
(* A caller: it creates the row, then calls enqueue_image_job or           *)
(* enqueue_video_job.                                                      *)

\* create_job, as the request handlers do it before they hand a job over.
CreateJob(j) ==
  /\ caller[j] = "idle" /\ phase = "up"
  /\ caller' = [caller EXCEPT ![j] = "created"]
  /\ row' = [row EXCEPT ![j] = [status |-> "queued", progress |-> 0]]
  /\ UNCHANGED <<queue, running, phase, pc, held, outcome, runs, boots, faults>>

Push(j) ==
  /\ caller[j] = "created" /\ MutexFree(JobType[j])
  /\ queue' = [queue EXCEPT ![JobType[j]] = Append(@, j)]
  /\ caller' = [caller EXCEPT ![j] = "pushed"]
  /\ UNCHANGED <<running, phase, pc, held, row, outcome, runs, boots, faults>>

\* Slip: notify_one is forgotten.
NotifyNone(j) ==
  /\ caller[j] = "pushed"
  /\ caller' = [caller EXCEPT ![j] = "notified"]
  /\ UNCHANGED <<queue, running, phase, pc, held, row, outcome, runs, boots, faults>>

NotifyOne(j) ==
  /\ caller[j] = "pushed"
  /\ caller' = [caller EXCEPT ![j] = "notified"]
  /\ IF WaitSet(JobType[j]) = {} THEN pc' = pc
     ELSE \E w \in WaitSet(JobType[j]) : Wake({w})
  /\ UNCHANGED <<queue, running, phase, held, row, outcome, runs, boots, faults>>

\* update_job_status(job.id, "queued", 0), after the mutex was released.
WriteQueued(j) ==
  /\ caller[j] = "notified"
  /\ caller' = [caller EXCEPT ![j] = "returned"]
  /\ update_job_status(j, "queued")
  /\ UNCHANGED <<queue, running, phase, pc, held, outcome, runs, boots>>

---------------------------------------------------------------------------
(* A worker: worker_loop.                                                  *)

LoopTest(w) ==
  /\ pc[w] = "loop"
  /\ Goto(w, IF running THEN "acquire" ELSE "exited")
  /\ UNCHANGED <<queue, running, phase, held, caller, row, outcome, runs, boots, faults>>

\* The mutex is taken and the predicate of cv.wait is false.
FindNothing(w) ==
  /\ pc[w] = "acquire" /\ MutexFree(WorkerType[w])
  /\ queue[WorkerType[w]] = <<>> /\ running
  /\ Goto(w, "parking")
  /\ UNCHANGED <<queue, running, phase, held, caller, row, outcome, runs, boots, faults>>

\* !running && queue.empty(): break.
Leave(w) ==
  /\ pc[w] = "acquire" /\ MutexFree(WorkerType[w])
  /\ queue[WorkerType[w]] = <<>> /\ ~running
  /\ Goto(w, "exited")
  /\ UNCHANGED <<queue, running, phase, held, caller, row, outcome, runs, boots, faults>>

\* Slip: front() without pop().
PopKeepsFront(w) ==
  LET t == WorkerType[w] IN
  /\ pc[w] = "acquire" /\ MutexFree(t)
  /\ queue[t] # <<>>
  /\ held' = [held EXCEPT ![w] = Head(queue[t])]
  /\ Goto(w, "popped")
  /\ UNCHANGED <<queue, running, phase, caller, row, outcome, runs, boots, faults>>

Pop(w) ==
  LET t == WorkerType[w] IN
  /\ pc[w] = "acquire" /\ MutexFree(t)
  /\ queue[t] # <<>>
  /\ held' = [held EXCEPT ![w] = Head(queue[t])]
  /\ queue' = [queue EXCEPT ![t] = Tail(@)]
  /\ Goto(w, "popped")
  /\ UNCHANGED <<running, phase, caller, row, outcome, runs, boots, faults>>

\* cv.wait enters the wait set and releases the mutex.
Block(w) ==
  /\ pc[w] = "parking" /\ Goto(w, "waiting")
  /\ UNCHANGED <<queue, running, phase, held, caller, row, outcome, runs, boots, faults>>

SpuriousWake(w) ==
  /\ pc[w] = "waiting" /\ Goto(w, "acquire")
  /\ UNCHANGED <<queue, running, phase, held, caller, row, outcome, runs, boots, faults>>

MarkProcessing(w) ==
  /\ pc[w] = "popped" /\ Goto(w, "handling")
  /\ update_job_status(held[w], "processing")
  /\ runs' = [runs EXCEPT ![held[w]] = @ + 1]
  /\ UNCHANGED <<queue, running, phase, held, caller, outcome, boots>>

\* The handler returns, or throws a std::exception.
HandlerEnds(w) ==
  /\ pc[w] = "handling"
  /\ \E o \in {"ok", "error"} :
       /\ outcome' = [outcome EXCEPT ![held[w]] = o]
       /\ Goto(w, IF o = "ok" THEN "complete" ELSE "fail")
  /\ UNCHANGED <<queue, running, phase, held, caller, row, runs, boots, faults>>

\* Slip: complete_job is called whatever the handler did.
RecordSuccess(w) ==
  /\ pc[w] \in {"complete", "fail"} /\ complete_job(held[w])
  /\ Goto(w, "loop")
  /\ held' = [held EXCEPT ![w] = NoJob]
  /\ UNCHANGED <<queue, running, phase, caller, outcome, runs, boots>>

\* Slip: the catch block logs the error and does not record it.
RecordLogsError(w) ==
  /\ \/ pc[w] = "complete" /\ complete_job(held[w])
     \/ pc[w] = "fail" /\ UNCHANGED <<row, faults>>
  /\ Goto(w, "loop")
  /\ held' = [held EXCEPT ![w] = NoJob]
  /\ UNCHANGED <<queue, running, phase, caller, outcome, runs, boots>>

Record(w) ==
  /\ \/ pc[w] = "complete" /\ complete_job(held[w])
     \/ pc[w] = "fail" /\ fail_job(held[w])
  /\ Goto(w, "loop")
  /\ held' = [held EXCEPT ![w] = NoJob]
  /\ UNCHANGED <<queue, running, phase, caller, outcome, runs, boots>>

---------------------------------------------------------------------------
Lifecycle == Initialize \/ ShutdownFlag \/ NotifyAllImage \/ NotifyAllVideo \/ Join \/ Crash

Caller(j) == CreateJob(j) \/ Push(j) \/ NotifyOne(j) \/ WriteQueued(j)

Worker(w) == \/ LoopTest(w) \/ FindNothing(w) \/ Leave(w) \/ Pop(w) \/ Block(w)
             \/ MarkProcessing(w) \/ HandlerEnds(w) \/ Record(w)

Next == \/ Lifecycle
        \/ \E j \in Jobs : Caller(j)
        \/ \E w \in Workers : Worker(w) \/ SpuriousWake(w)

Spec == Init /\ [][Next]_vars

\* A thread that can run does run: the worker threads, the thread inside
\* enqueue_*_job and the one inside shutdown(); handlers return.  A thread that
\* wants a mutex which is free again and again gets it (strong fairness), even
\* while another one wakes spuriously, looks and goes back to sleep.  Nobody is
\* bound to call create_job, initialize or shutdown, and no spurious wake-up,
\* crash or failing update is ever owed.
Fairness ==
  /\ \A w \in Workers : /\ WF_vars(Worker(w))
                        /\ SF_vars(FindNothing(w) \/ Leave(w) \/ Pop(w))
  /\ \A j \in Jobs : SF_vars(Push(j)) /\ WF_vars(NotifyOne(j) \/ WriteQueued(j))
  /\ WF_vars(NotifyAllImage \/ NotifyAllVideo \/ Join)

FairSpec == Spec /\ Fairness

---------------------------------------------------------------------------
(* Properties.                                                             *)

\* Every variable has its type (the members of job_queue.hpp:47-58).
TypeOK ==
  /\ queue \in [Types -> Seq(Jobs)]
  /\ running \in BOOLEAN
  /\ phase \in Phases
  /\ pc \in [Workers -> WorkerPCs]
  /\ held \in [Workers -> Jobs \cup {NoJob}]
  /\ caller \in [Jobs -> CallerPCs]
  /\ row \in [Jobs -> Rows]
  /\ outcome \in [Jobs -> Outcomes]
  /\ runs \in [Jobs -> Nat]
  /\ boots \in Nat
  /\ faults \in Nat

\* No job is ever given to a handler twice: not by two workers of the pool, not
\* after shutdown() and initialize() again, not after a crash (worker_loop).
HandledAtMostOnce == \A j \in Jobs : runs[j] <= 1

\* A terminal row tells how the handler really ended, and progress is 100 in the
\* completed rows only (complete_job, fail_job and the late "queued" update all
\* write the same row).
TruthfulRow ==
  \A j \in Jobs :
    /\ row[j].status = "completed" => outcome[j] = "ok"
    /\ row[j].status = "failed" => outcome[j] = "error"
    /\ row[j].progress = 100 <=> row[j].status = "completed"

\* A row says "processing" only while a worker has that job between its pop and
\* its final update, unless the process died meanwhile or an update was refused.
ProcessingRowIsHeld ==
  \A j \in Jobs :
    row[j].status = "processing" =>
      \/ \E w \in Workers : held[w] = j /\ pc[w] \in {"handling", "complete", "fail"}
      \/ caller[j] = "gone"
      \/ faults > 0

\* Every job is worked on once at most, and its row tells the truth: how it ended if
\* it did, and that it is worked on only while it is, through shutdowns, crashes and
\* refused updates.
JobsAccounted == TypeOK /\ HandledAtMostOnce /\ TruthfulRow /\ ProcessingRowIsHeld

\* No lost wake-up on the enqueue side: when a type's whole pool sleeps on the
\* condition variable while a job is in its queue, the notify_one of some
\* enqueue call is still to come (enqueue_*_job notifies after unlocking).
NoSleepThroughWork ==
  \A t \in Types :
    /\ queue[t] # <<>>
    /\ Pool(t) # {} /\ WaitSet(t) = Pool(t)
    => \E j \in Jobs : JobType[j] = t /\ caller[j] = "pushed"

\* The only write that can take a row out of a terminal status is the "queued"
\* update that enqueue_*_job makes after it released the mutex.
OnlyLateQueuedReopens ==
  [][\A j \in Jobs :
       row[j].status \in Terminal /\ row'[j].status # row[j].status =>
         caller[j] = "notified" /\ row'[j].status = "queued"]_vars

InQueue(j) == \E i \in DOMAIN queue[JobType[j]] : queue[JobType[j]][i] = j

\* The pool never forgets a queued job: it is handled, unless the queue is shut
\* down or the process dies first.
QueuedJobIsHandled ==
  \A j \in Jobs : (InQueue(j) /\ running) ~> (outcome[j] # "none" \/ ~running)

\* The true stage of a job, and the promise of JobLifecycle about it.
Stage(j) ==
  CASE outcome[j] = "ok"    -> "completed"
    [] outcome[j] = "error" -> "failed"
    [] outcome[j] = "none" /\ caller[j] = "idle" -> "absent"
    [] outcome[j] = "none" /\ caller[j] = "gone" -> "lost"
    [] OTHER -> IF \E w \in Workers : held[w] = j THEN "processing" ELSE "queued"

Abstract == INSTANCE JobLifecycle WITH stage <- [j \in Jobs |-> Stage(j)]

\* The queue implements the lifecycle: one start, one end, no way back.
ImplementsLifecycle == Abstract!Spec

---------------------------------------------------------------------------
(* What the documents and the tests say, and the code does not do.         *)

\* desain.md:269 gives every job the state machine queued -> processing ->
\* completed/failed: a terminal status is never left.
TerminalIsFinal ==
  [][\A j \in Jobs : row[j].status \in Terminal => row'[j].status = row[j].status]_vars

\* tests/test_core.cpp:136 calls initialize() and then shutdown(), and goes on:
\* shutdown() returns.
ShutdownReturns == phase = "flagged" ~> phase = "down"
===========================================================================
