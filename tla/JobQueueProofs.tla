-------------------------- MODULE JobQueueProofs --------------------------
(***************************************************************************)
(* Proofs about JobQueue, for any set of jobs and any two worker pools.    *)
(*                                                                         *)
(* The inductive invariant says where a job can be.  PlaceInv: a job that  *)
(* its caller has pushed is in its own queue once, or held by one worker,  *)
(* or neither any more; a job that was not pushed, or whose caller died    *)
(* with the process, is nowhere.  FreshInv: a job still on its way to a    *)
(* handler has not been handled.  RowInv and SleepInv are on top of it.    *)
(***************************************************************************)
EXTENDS JobQueue, TLAPS

Busy   == {"popped", "handling", "complete", "fail"}
Pushed == {"pushed", "notified", "returned"}

QueueOwned == \A t \in Types : \A i \in 1..Len(queue[t]) :
  JobType[queue[t][i]] = t /\ caller[queue[t][i]] \in Pushed
QueueOnce == \A t \in Types : \A i, k \in 1..Len(queue[t]) :
  queue[t][i] = queue[t][k] => i = k
HeldOwned == \A w \in Workers : held[w] # NoJob =>
  /\ caller[held[w]] \in Pushed
  /\ \A t \in Types : \A i \in 1..Len(queue[t]) : queue[t][i] # held[w]
HeldOnce == \A w1, w2 \in Workers : held[w1] # NoJob /\ held[w1] = held[w2] => w1 = w2
BusyHolds == \A w \in Workers : held[w] # NoJob <=> pc[w] \in Busy

PlaceInv == QueueOwned /\ QueueOnce /\ HeldOwned /\ HeldOnce /\ BusyHolds

UnpushedFresh == \A j \in Jobs :
  caller[j] \in {"idle", "created"} => runs[j] = 0 /\ outcome[j] = "none"
QueuedFresh == \A t \in Types : \A i \in 1..Len(queue[t]) :
  runs[queue[t][i]] = 0 /\ outcome[queue[t][i]] = "none"
HeldFresh == \A w \in Workers :
  /\ pc[w] = "popped" => runs[held[w]] = 0
  /\ pc[w] \in {"popped", "handling"} => outcome[held[w]] = "none"

FreshInv == UnpushedFresh /\ QueuedFresh /\ HeldFresh /\ HandledAtMostOnce

OutcomeKnown == \A w \in Workers :
  /\ pc[w] = "complete" => outcome[held[w]] = "ok"
  /\ pc[w] = "fail" => outcome[held[w]] = "error"

RowInv == TruthfulRow /\ OutcomeKnown /\ ProcessingRowIsHeld

ParkingEmpty == \A w \in Workers : pc[w] = "parking" => queue[WorkerType[w]] = <<>>

SleepInv == ParkingEmpty /\ NoSleepThroughWork

\* Between shutdown() and initialize() there is no worker.
DownIdle == phase = "down" => \A w \in Workers : pc[w] = "exited"

IInv == TypeOK /\ PlaceInv /\ FreshInv /\ RowInv /\ SleepInv /\ DownIdle

---------------------------------------------------------------------------
(* Sequences.                                                              *)

\* What Append does to a queue, element by element (std::queue::push).
LEMMA AppendElements ==
  ASSUME NEW S, NEW s \in Seq(S), NEW x \in S
  PROVE  /\ Append(s, x) \in Seq(S)
         /\ Len(Append(s, x)) = Len(s) + 1
         /\ Append(s, x)[Len(s) + 1] = x
         /\ \A i \in 1..Len(s) : Append(s, x)[i] = s[i]
         /\ Append(s, x) # <<>>
  OBVIOUS

\* What Head and Tail do to a queue (std::queue::front and pop).
LEMMA PopElements ==
  ASSUME NEW S, NEW s \in Seq(S), s # <<>>
  PROVE  /\ Len(s) \in Nat /\ Len(s) > 0
         /\ Head(s) \in S /\ Head(s) = s[1]
         /\ Tail(s) \in Seq(S)
         /\ Len(Tail(s)) = Len(s) - 1
         /\ \A i \in 1..Len(Tail(s)) : Tail(s)[i] = s[i + 1]
  OBVIOUS

---------------------------------------------------------------------------
(* Type correctness.                                                       *)

LEMMA InitTypeOK == Init => TypeOK
<1> SUFFICES ASSUME Init PROVE TypeOK
  OBVIOUS
<1>1. queue \in [Types -> Seq(Jobs)] /\ runs \in [Jobs -> Nat]
  BY DEF Init
<1>2. row \in [Jobs -> Rows]
  BY DEF Init, Rows, NoRow, Statuses
<1>3. QED
  BY <1>1, <1>2 DEF Init, TypeOK, Phases, WorkerPCs, CallerPCs, Outcomes

\* Whatever the registry is told about a job leaves a well-formed table.
LEMMA UpdateRowType ==
  ASSUME TypeOK, NEW j \in Jobs \cup {NoJob}, NEW r, j \in Jobs => r \in Rows, UpdateRow(j, r)
  PROVE  row' \in [Jobs -> Rows] /\ faults' \in Nat
<1>1. [row EXCEPT ![j] = r] \in [Jobs -> Rows]
  BY DEF TypeOK
<1>2. row' = [row EXCEPT ![j] = r] \/ row' = row
  BY DEF UpdateRow
<1>3. faults' = faults \/ faults' = faults + 1
  BY DEF UpdateRow
<1>4. row' \in [Jobs -> Rows]
  BY <1>1, <1>2 DEF TypeOK
<1>5. faults' \in Nat
  BY <1>3 DEF TypeOK
<1>6. QED BY <1>4, <1>5

LEMMA NextTypeOK == TypeOK /\ [Next]_vars => TypeOK'
<1> SUFFICES ASSUME TypeOK, [Next]_vars PROVE TypeOK'
  OBVIOUS
<1> USE TypesAssumption, NoJobAssumption DEF TypeOK
<1>1. CASE Lifecycle
  <2>1. CASE Initialize
    BY <2>1 DEF Initialize, Phases, WorkerPCs
  <2>2. CASE ShutdownFlag \/ Join
    BY <2>2 DEF ShutdownFlag, Join, Phases
  <2>3. CASE NotifyAllImage
    BY <2>3 DEF NotifyAllImage, Wake, Phases, WorkerPCs
  <2>4. CASE NotifyAllVideo
    BY <2>4 DEF NotifyAllVideo, Wake, Phases, WorkerPCs
  <2>5. CASE Crash
    <3>1. queue' \in [Types -> Seq(Jobs)]
      BY <2>5 DEF Crash
    <3>2. QED BY <2>5, <3>1 DEF Crash, Phases, WorkerPCs, CallerPCs
  <2>6. QED BY <1>1, <2>1, <2>2, <2>3, <2>4, <2>5 DEF Lifecycle
<1>2. ASSUME NEW j \in Jobs, Caller(j) PROVE TypeOK'
  <2>1. CASE CreateJob(j)
    BY <2>1 DEF CreateJob, CallerPCs, Rows, NoRow, Statuses
  <2>2. CASE Push(j)
    <3>1. JobType[j] \in Types /\ Append(queue[JobType[j]], j) \in Seq(Jobs)
      BY AppendElements
    <3>2. QED BY <2>2, <3>1 DEF Push, CallerPCs
  <2>3. CASE NotifyOne(j)
    BY <2>3 DEF NotifyOne, Wake, WaitSet, Pool, CallerPCs, WorkerPCs
  <2>4. CASE WriteQueued(j)
    <3>1. [status |-> "queued", progress |-> 0] \in Rows
      BY DEF Rows, Statuses
    <3>2. row' \in [Jobs -> Rows] /\ faults' \in Nat
      BY <2>4, <3>1, UpdateRowType DEF WriteQueued, update_job_status
    <3>3. QED BY <2>4, <3>2 DEF WriteQueued, CallerPCs
  <2>5. QED BY <1>2, <2>1, <2>2, <2>3, <2>4 DEF Caller
<1>3. ASSUME NEW w \in Workers, Worker(w) \/ SpuriousWake(w) PROVE TypeOK'
  <2>1. CASE LoopTest(w) \/ FindNothing(w) \/ Leave(w) \/ Block(w) \/ SpuriousWake(w)
    BY <2>1 DEF LoopTest, FindNothing, Leave, Block, SpuriousWake, Goto, WorkerPCs
  <2>2. CASE Pop(w)
    <3>1. /\ WorkerType[w] \in Types
          /\ Head(queue[WorkerType[w]]) \in Jobs
          /\ Tail(queue[WorkerType[w]]) \in Seq(Jobs)
      BY <2>2, PopElements DEF Pop
    <3>2. QED BY <2>2, <3>1 DEF Pop, Goto, WorkerPCs
  <2>3. CASE MarkProcessing(w)
    <3>1. [status |-> "processing", progress |-> 0] \in Rows
      BY DEF Rows, Statuses
    <3>2. row' \in [Jobs -> Rows] /\ faults' \in Nat
      BY <2>3, <3>1, UpdateRowType DEF MarkProcessing, update_job_status
    <3>3. pc' \in [Workers -> WorkerPCs]
      BY <2>3 DEF MarkProcessing, Goto, WorkerPCs
    <3>4. runs' \in [Jobs -> Nat]
      <4>1. runs' = [runs EXCEPT ![held[w]] = @ + 1]
        BY <2>3 DEF MarkProcessing
      <4>2. \A j \in Jobs : runs[j] + 1 \in Nat
        OBVIOUS
      <4>3. QED BY <4>1, <4>2
    <3>5. QED BY <2>3, <3>2, <3>3, <3>4 DEF MarkProcessing
  <2>4. CASE HandlerEnds(w)
    BY <2>4 DEF HandlerEnds, Goto, WorkerPCs, Outcomes
  <2>5. CASE Record(w)
    <3>1. /\ [status |-> "completed", progress |-> 100] \in Rows
          /\ held[w] \in Jobs =>
               [status |-> "failed", progress |-> row[held[w]].progress] \in Rows
      BY DEF Rows, Statuses
    <3>2. row' \in [Jobs -> Rows] /\ faults' \in Nat
      BY <2>5, <3>1, UpdateRowType DEF Record, complete_job, fail_job
    <3>3. QED BY <2>5, <3>2 DEF Record, Goto, WorkerPCs
  <2>6. QED BY <1>3, <2>1, <2>2, <2>3, <2>4, <2>5 DEF Worker
<1>4. CASE UNCHANGED vars
  BY <1>4 DEF vars
<1>5. QED BY <1>1, <1>2, <1>3, <1>4 DEF Next

\* Every reachable state of the queue is well typed (job_queue.hpp:47-58).
THEOREM TypeCorrect == Spec => []TypeOK
  BY InitTypeOK, NextTypeOK, PTL DEF Spec

---------------------------------------------------------------------------
(* The inductive invariant, action by action.                              *)

LEMMA InitIInv == Init => IInv
<1> SUFFICES ASSUME Init PROVE IInv
  OBVIOUS
<1>1. TypeOK
  BY InitTypeOK
<1>2. PlaceInv
  BY DEF Init, PlaceInv, QueueOwned, QueueOnce, HeldOwned, HeldOnce, BusyHolds, Busy, Types
<1>3. FreshInv
  BY DEF Init, FreshInv, UnpushedFresh, QueuedFresh, HeldFresh, HandledAtMostOnce, Types
<1>4. RowInv
  BY DEF Init, RowInv, TruthfulRow, OutcomeKnown, ProcessingRowIsHeld, NoRow
<1>5. SleepInv
  BY DEF Init, SleepInv, ParkingEmpty, NoSleepThroughWork, Types
<1>6. DownIdle
  BY DEF Init, DownIdle
<1>7. QED BY <1>1, <1>2, <1>3, <1>4, <1>5, <1>6 DEF IInv

\* A step that leaves the queues, the jobs in hand and the callers alone keeps
\* every job where it is.
LEMMA PlaceKept ==
  ASSUME PlaceInv, queue' = queue, held' = held, caller' = caller,
         \A w \in Workers : pc[w] \in Busy <=> pc'[w] \in Busy
  PROVE  PlaceInv'
  BY DEF PlaceInv, QueueOwned, QueueOnce, HeldOwned, HeldOnce, BusyHolds

\* A worker that moves on without a job: LoopTest, FindNothing, Leave, Block and a
\* spurious wake-up.
LEMMA IdleStep ==
  ASSUME IInv, NEW w \in Workers, TypeOK',
         LoopTest(w) \/ FindNothing(w) \/ Leave(w) \/ Block(w) \/ SpuriousWake(w)
  PROVE  IInv'
<1> USE DEF IInv
<1>1. PICK from \in {"loop", "acquire", "parking", "waiting"},
           to \in {"acquire", "exited", "parking", "waiting"} :
        /\ pc[w] = from /\ pc' = [pc EXCEPT ![w] = to]
        /\ to = "waiting" => from = "parking"
        /\ to = "parking" => queue[WorkerType[w]] = <<>>
  BY DEF LoopTest, FindNothing, Leave, Block, SpuriousWake, Goto
<1>2. UNCHANGED <<queue, held, caller, row, outcome, runs, faults>>
  BY DEF LoopTest, FindNothing, Leave, Block, SpuriousWake
<1>3. /\ pc'[w] = to
      /\ \A v \in Workers : v # w => pc'[v] = pc[v]
  BY <1>1 DEF TypeOK
<1>4. PlaceInv'
  <2>1. \A v \in Workers : pc[v] \in Busy <=> pc'[v] \in Busy
    BY <1>1, <1>3 DEF Busy
  <2>2. QED BY <1>2, <2>1, PlaceKept
<1>5. FreshInv'
  BY <1>1, <1>2, <1>3 DEF FreshInv, UnpushedFresh, QueuedFresh, HeldFresh, HandledAtMostOnce
<1>6. RowInv'
  <2>1. TruthfulRow' /\ OutcomeKnown'
    BY <1>1, <1>2, <1>3 DEF RowInv, TruthfulRow, OutcomeKnown
  <2>2. ProcessingRowIsHeld'
    BY <1>1, <1>2, <1>3 DEF RowInv, ProcessingRowIsHeld
  <2>3. QED BY <2>1, <2>2 DEF RowInv
<1>7. SleepInv'
  <2>1. ParkingEmpty'
    BY <1>1, <1>2, <1>3 DEF SleepInv, ParkingEmpty
  <2>2. NoSleepThroughWork'
    <3> SUFFICES ASSUME NEW t \in Types, queue[t] # <<>>, Pool(t) # {}, WaitSet(t)' = Pool(t)
                 PROVE  \E j \in Jobs : JobType[j] = t /\ caller[j] = "pushed"
      BY <1>2 DEF NoSleepThroughWork, Pool
    <3>1. to = "waiting" => WorkerType[w] # t
      BY <1>1 DEF SleepInv, ParkingEmpty
    <3>2. WaitSet(t) = Pool(t)
      BY <1>1, <1>3, <3>1 DEF WaitSet, Pool
    <3>3. QED BY <3>2 DEF SleepInv, NoSleepThroughWork
  <2>3. QED BY <2>1, <2>2 DEF SleepInv
<1>8. DownIdle'
  <2>1. phase' = phase
    BY DEF LoopTest, FindNothing, Leave, Block, SpuriousWake
  <2>2. QED BY <1>1, <2>1 DEF DownIdle
<1>9. QED BY <1>4, <1>5, <1>6, <1>7, <1>8

\* The pool of a type still sleeps, or not, as it did: the wait sets are unchanged,
\* nothing was pushed, and no caller got past its notify_one.
LEMMA SleepKept ==
  ASSUME SleepInv,
         \A t \in Types : queue'[t] # <<>> => queue[t] # <<>>,
         \A v \in Workers : pc'[v] = "waiting" => pc[v] = "waiting",
         \A v \in Workers : pc'[v] = "parking" => queue'[WorkerType[v]] = <<>>,
         \A j \in Jobs : caller[j] = "pushed" => caller'[j] = "pushed"
  PROVE  SleepInv'
<1>1. ParkingEmpty'
  BY DEF ParkingEmpty
<1>2. NoSleepThroughWork'
  <2> SUFFICES ASSUME NEW t \in Types, queue'[t] # <<>>, Pool(t) # {}, WaitSet(t)' = Pool(t)
               PROVE  \E j \in Jobs : JobType[j] = t /\ caller'[j] = "pushed"
    BY DEF NoSleepThroughWork, Pool
  <2>1. WaitSet(t) = Pool(t)
    <3>1. \A v \in Pool(t) : v \in Workers /\ pc'[v] = "waiting"
      BY DEF WaitSet, Pool
    <3>2. \A v \in Pool(t) : pc[v] = "waiting"
      BY <3>1
    <3>3. QED BY <3>2 DEF WaitSet
  <2>2. PICK j \in Jobs : JobType[j] = t /\ caller[j] = "pushed"
    BY <2>1 DEF SleepInv, NoSleepThroughWork
  <2>3. QED BY <2>2
<1>3. QED BY <1>1, <1>2 DEF SleepInv

\* update_job_status(id, "processing", 0) and the start of the handler.
LEMMA MarkProcessingStep ==
  ASSUME IInv, NEW w \in Workers, TypeOK', MarkProcessing(w)
  PROVE  IInv'
<1> USE DEF IInv
<1> DEFINE j == held[w]
<1>1. /\ pc[w] = "popped" /\ pc' = [pc EXCEPT ![w] = "handling"]
      /\ runs' = [runs EXCEPT ![j] = @ + 1]
      /\ UNCHANGED <<queue, running, phase, held, caller, outcome>>
  BY DEF MarkProcessing, Goto
<1>2. pc'[w] = "handling" /\ \A v \in Workers : v # w => pc'[v] = pc[v]
  BY <1>1 DEF TypeOK
<1>3. j \in Jobs /\ j # NoJob /\ caller[j] \in Pushed /\ runs[j] = 0 /\ outcome[j] = "none"
  BY <1>1 DEF PlaceInv, HeldOwned, BusyHolds, Busy, FreshInv, HeldFresh, TypeOK
<1>4. runs'[j] = 1 /\ \A k \in Jobs : k # j => runs'[k] = runs[k]
  <2>1. DOMAIN runs = Jobs
    BY DEF TypeOK
  <2>2. QED BY <1>1, <1>3, <2>1
<1>5. \/ row' = [row EXCEPT ![j] = [status |-> "processing", progress |-> 0]] /\ faults' = faults
      \/ row' = row /\ faults' = faults + 1
  BY DEF MarkProcessing, update_job_status, UpdateRow
<1>6. /\ (row'[j].status = "processing" /\ row'[j].progress = 0) \/ row'[j] = row[j]
      /\ \A k \in Jobs : k # j => row'[k] = row[k]
  BY <1>3, <1>5 DEF TypeOK
<1>7. PlaceInv'
  <2>1. \A v \in Workers : pc[v] \in Busy <=> pc'[v] \in Busy
    BY <1>1, <1>2 DEF Busy
  <2>2. QED BY <1>1, <2>1, PlaceKept
<1>8. FreshInv'
  <2>1. UnpushedFresh'
    BY <1>1, <1>3, <1>4 DEF FreshInv, UnpushedFresh, Pushed
  <2>2. QueuedFresh'
    <3> SUFFICES ASSUME NEW t \in Types, NEW i \in 1..Len(queue[t])
                 PROVE  runs'[queue[t][i]] = 0 /\ outcome[queue[t][i]] = "none"
      BY <1>1 DEF QueuedFresh
    <3>1. queue[t][i] \in Jobs /\ queue[t][i] # j
      BY <1>3 DEF PlaceInv, HeldOwned, TypeOK
    <3>2. QED BY <1>4, <3>1 DEF FreshInv, QueuedFresh
  <2>3. HeldFresh'
    <3> SUFFICES ASSUME NEW v \in Workers
                 PROVE  /\ pc'[v] = "popped" => runs'[held[v]] = 0
                        /\ pc'[v] \in {"popped", "handling"} => outcome[held[v]] = "none"
      BY <1>1 DEF HeldFresh
    <3>1. CASE v = w
      BY <1>2, <1>3, <3>1
    <3>2. CASE v # w
      <4>1. pc[v] = "popped" => held[v] \in Jobs /\ held[v] # j
        BY <1>3, <3>2 DEF PlaceInv, HeldOnce, BusyHolds, Busy, TypeOK
      <4>2. QED BY <1>2, <1>4, <3>2, <4>1 DEF FreshInv, HeldFresh
    <3>3. QED BY <3>1, <3>2
  <2>4. HandledAtMostOnce'
    BY <1>4 DEF FreshInv, HandledAtMostOnce
  <2>5. QED BY <2>1, <2>2, <2>3, <2>4 DEF FreshInv
<1>9. RowInv'
  <2>1. TruthfulRow'
    BY <1>1, <1>6 DEF RowInv, TruthfulRow
  <2>2. OutcomeKnown'
    BY <1>1, <1>2 DEF RowInv, OutcomeKnown
  <2>3. ProcessingRowIsHeld'
    <3> SUFFICES ASSUME NEW k \in Jobs, row'[k].status = "processing"
                 PROVE  \/ \E v \in Workers :
                             held[v] = k /\ pc'[v] \in {"handling", "complete", "fail"}
                        \/ caller[k] = "gone"
                        \/ faults' > 0
      BY <1>1 DEF ProcessingRowIsHeld
    <3>1. CASE k = j
      BY <1>2, <3>1
    <3>2. CASE k # j
      <4>1. row[k].status = "processing" /\ (faults > 0 => faults' > 0)
        BY <1>5, <1>6, <3>2 DEF TypeOK
      <4>2. QED BY <1>1, <1>2, <4>1 DEF RowInv, ProcessingRowIsHeld
    <3>3. QED BY <3>1, <3>2
  <2>4. QED BY <2>1, <2>2, <2>3 DEF RowInv
<1>10. SleepInv'
  <2>1. \A v \in Workers : pc'[v] \in {"waiting", "parking"} => pc'[v] = pc[v]
    BY <1>2
  <2>2. \A v \in Workers : pc'[v] = "parking" => queue'[WorkerType[v]] = <<>>
    BY <1>1, <2>1 DEF SleepInv, ParkingEmpty
  <2>3. QED BY <1>1, <2>1, <2>2, SleepKept
<1>11. DownIdle'
  BY <1>1 DEF DownIdle
<1>12. QED BY <1>7, <1>8, <1>9, <1>10, <1>11

\* The handler returns or throws.
LEMMA HandlerEndsStep ==
  ASSUME IInv, NEW w \in Workers, TypeOK', HandlerEnds(w)
  PROVE  IInv'
<1> USE DEF IInv
<1> DEFINE j == held[w]
<1>1. PICK o \in {"ok", "error"} :
        /\ pc[w] = "handling" /\ outcome' = [outcome EXCEPT ![j] = o]
        /\ pc' = [pc EXCEPT ![w] = IF o = "ok" THEN "complete" ELSE "fail"]
  BY DEF HandlerEnds, Goto
<1>2. UNCHANGED <<queue, running, phase, held, caller, row, runs, boots, faults>>
  BY DEF HandlerEnds
<1>3. /\ pc'[w] = IF o = "ok" THEN "complete" ELSE "fail"
      /\ \A v \in Workers : v # w => pc'[v] = pc[v]
  BY <1>1 DEF TypeOK
<1>4. j \in Jobs /\ j # NoJob /\ caller[j] \in Pushed /\ outcome[j] = "none"
  BY <1>1 DEF PlaceInv, HeldOwned, BusyHolds, Busy, FreshInv, HeldFresh, TypeOK
<1>5. outcome'[j] = o /\ \A k \in Jobs : k # j => outcome'[k] = outcome[k]
  BY <1>1, <1>4 DEF TypeOK
<1>6. \A v \in Workers : v # w /\ pc[v] \in Busy => held[v] \in Jobs /\ held[v] # j
  BY <1>4 DEF PlaceInv, HeldOnce, BusyHolds, TypeOK
<1>7. PlaceInv'
  <2>1. \A v \in Workers : pc[v] \in Busy <=> pc'[v] \in Busy
    BY <1>1, <1>3 DEF Busy
  <2>2. QED BY <1>2, <2>1, PlaceKept
<1>8. FreshInv'
  <2>1. UnpushedFresh'
    BY <1>2, <1>4, <1>5 DEF FreshInv, UnpushedFresh, Pushed
  <2>2. QueuedFresh'
    <3> SUFFICES ASSUME NEW t \in Types, NEW i \in 1..Len(queue[t])
                 PROVE  runs[queue[t][i]] = 0 /\ outcome'[queue[t][i]] = "none"
      BY <1>2 DEF QueuedFresh
    <3>1. queue[t][i] \in Jobs /\ queue[t][i] # j
      BY <1>4 DEF PlaceInv, HeldOwned, TypeOK
    <3>2. QED BY <1>5, <3>1 DEF FreshInv, QueuedFresh
  <2>3. HeldFresh'
    BY <1>2, <1>3, <1>5, <1>6 DEF FreshInv, HeldFresh, Busy
  <2>4. HandledAtMostOnce'
    BY <1>2 DEF FreshInv, HandledAtMostOnce
  <2>5. QED BY <2>1, <2>2, <2>3, <2>4 DEF FreshInv
<1>9. RowInv'
  <2>1. row[j].status \notin Terminal
    BY <1>4 DEF RowInv, TruthfulRow, Terminal
  <2>2. TruthfulRow'
    BY <1>2, <1>5, <2>1 DEF RowInv, TruthfulRow, Terminal
  <2>3. OutcomeKnown'
    BY <1>2, <1>3, <1>5, <1>6 DEF RowInv, OutcomeKnown, Busy
  <2>4. ProcessingRowIsHeld'
    BY <1>2, <1>3 DEF RowInv, ProcessingRowIsHeld
  <2>5. QED BY <2>2, <2>3, <2>4 DEF RowInv
<1>10. SleepInv'
  <2>1. \A v \in Workers : pc'[v] \in {"waiting", "parking"} => pc'[v] = pc[v]
    BY <1>3
  <2>2. \A v \in Workers : pc'[v] = "parking" => queue'[WorkerType[v]] = <<>>
    BY <1>2, <2>1 DEF SleepInv, ParkingEmpty
  <2>3. QED BY <1>2, <2>1, <2>2, SleepKept
<1>11. DownIdle'
  BY <1>1, <1>2 DEF DownIdle
<1>12. QED BY <1>7, <1>8, <1>9, <1>10, <1>11

\* complete_job or fail_job, and back to the loop.
LEMMA RecordStep ==
  ASSUME IInv, NEW w \in Workers, TypeOK', Record(w)
  PROVE  IInv'
<1> USE DEF IInv
<1> DEFINE j == held[w]
<1>1. /\ pc' = [pc EXCEPT ![w] = "loop"] /\ held' = [held EXCEPT ![w] = NoJob]
      /\ UNCHANGED <<queue, running, phase, caller, outcome, runs, boots>>
  BY DEF Record, Goto
<1>2. /\ pc'[w] = "loop" /\ held'[w] = NoJob
      /\ \A v \in Workers : v # w => pc'[v] = pc[v] /\ held'[v] = held[v]
  BY <1>1 DEF TypeOK
<1>3. pc[w] \in {"complete", "fail"}
  BY DEF Record
<1>4. j \in Jobs /\ j # NoJob
  BY <1>3 DEF PlaceInv, BusyHolds, Busy, TypeOK
<1>5. \/ row' = row /\ faults' = faults + 1
      \/ /\ pc[w] = "complete" /\ faults' = faults
         /\ row' = [row EXCEPT ![j] = [status |-> "completed", progress |-> 100]]
      \/ /\ pc[w] = "fail" /\ faults' = faults
         /\ row' = [row EXCEPT ![j] = [status |-> "failed", progress |-> row[j].progress]]
  BY DEF Record, complete_job, fail_job, UpdateRow
<1>6. /\ \/ row'[j] = row[j] /\ faults' > 0
         \/ pc[w] = "complete" /\ row'[j].status = "completed" /\ row'[j].progress = 100
         \/ pc[w] = "fail" /\ row'[j].status = "failed" /\ row'[j].progress = row[j].progress
      /\ \A k \in Jobs : k # j => row'[k] = row[k]
  <2>1. CASE row' = row /\ faults' = faults + 1
    BY <2>1 DEF TypeOK
  <2>2. CASE pc[w] = "complete" /\ row' = [row EXCEPT ![j] = [status |-> "completed", progress |-> 100]]
    BY <1>4, <2>2 DEF TypeOK
  <2>3. CASE pc[w] = "fail" /\ row' = [row EXCEPT ![j] = [status |-> "failed", progress |-> row[j].progress]]
    BY <1>4, <2>3 DEF TypeOK
  <2>4. QED BY <1>5, <2>1, <2>2, <2>3
<1>7. PlaceInv'
  <2>1. QueueOwned' /\ QueueOnce'
    BY <1>1 DEF PlaceInv, QueueOwned, QueueOnce
  <2>2. HeldOwned' /\ HeldOnce'
    BY <1>1, <1>2 DEF PlaceInv, HeldOwned, HeldOnce
  <2>3. BusyHolds'
    BY <1>2 DEF PlaceInv, BusyHolds, Busy
  <2>4. QED BY <2>1, <2>2, <2>3 DEF PlaceInv
<1>8. FreshInv'
  BY <1>1, <1>2 DEF FreshInv, UnpushedFresh, QueuedFresh, HeldFresh, HandledAtMostOnce
<1>9. RowInv'
  <2>1. TruthfulRow'
    BY <1>1, <1>4, <1>6 DEF RowInv, TruthfulRow, OutcomeKnown
  <2>2. OutcomeKnown'
    BY <1>1, <1>2 DEF RowInv, OutcomeKnown
  <2>3. ProcessingRowIsHeld'
    <3> SUFFICES ASSUME NEW k \in Jobs, row'[k].status = "processing", faults' = 0
                 PROVE  \/ \E v \in Workers :
                             held'[v] = k /\ pc'[v] \in {"handling", "complete", "fail"}
                        \/ caller[k] = "gone"
      BY <1>1 DEF ProcessingRowIsHeld, TypeOK
    <3>1. faults = 0
      BY <1>5 DEF TypeOK
    <3>2. k # j
      BY <1>6
    <3>3. row[k].status = "processing"
      BY <1>6, <3>2
    <3>4. (\E v \in Workers : held[v] = k /\ pc[v] \in {"handling", "complete", "fail"}) \/ caller[k] = "gone"
      BY <3>1, <3>3 DEF RowInv, ProcessingRowIsHeld
    <3>5. QED BY <1>2, <3>2, <3>4
  <2>4. QED BY <2>1, <2>2, <2>3 DEF RowInv
<1>10. SleepInv'
  <2>1. \A v \in Workers : pc'[v] \in {"waiting", "parking"} => pc'[v] = pc[v]
    BY <1>2
  <2>2. \A v \in Workers : pc'[v] = "parking" => queue'[WorkerType[v]] = <<>>
    BY <1>1, <2>1 DEF SleepInv, ParkingEmpty
  <2>3. QED BY <1>1, <2>1, <2>2, SleepKept
<1>11. DownIdle'
  BY <1>1, <1>3 DEF DownIdle
<1>12. QED BY <1>7, <1>8, <1>9, <1>10, <1>11

\* queue.front() and pop() under the mutex.
LEMMA PopStep ==
  ASSUME IInv, NEW w \in Workers, TypeOK', Pop(w)
  PROVE  IInv'
<1> USE DEF IInv
<1> DEFINE t == WorkerType[w]
           j == Head(queue[t])
<1>1. /\ pc[w] = "acquire" /\ pc' = [pc EXCEPT ![w] = "popped"]
      /\ held' = [held EXCEPT ![w] = j] /\ queue' = [queue EXCEPT ![t] = Tail(queue[t])]
      /\ UNCHANGED <<running, phase, caller, row, outcome, runs, boots, faults>>
      /\ queue[t] # <<>>
  BY DEF Pop, Goto
<1>2. t \in Types /\ queue[t] \in Seq(Jobs)
  BY TypesAssumption DEF TypeOK
<1>3. /\ pc'[w] = "popped" /\ held'[w] = j
      /\ \A v \in Workers : v # w => pc'[v] = pc[v] /\ held'[v] = held[v]
  BY <1>1 DEF TypeOK
<1>4. /\ 1 \in 1..Len(queue[t]) /\ j = queue[t][1] /\ j \in Jobs /\ j # NoJob
      /\ queue'[t] = Tail(queue[t])
      /\ \A i \in 1..Len(queue'[t]) : i + 1 \in 1..Len(queue[t]) /\ queue'[t][i] = queue[t][i + 1]
  <2>1. queue'[t] = Tail(queue[t])
    BY <1>1, <1>2 DEF TypeOK
  <2>2. /\ Len(queue[t]) \in Nat /\ Len(queue[t]) > 0 /\ j \in Jobs /\ j = queue[t][1]
        /\ Len(Tail(queue[t])) = Len(queue[t]) - 1
        /\ \A i \in 1..Len(Tail(queue[t])) : Tail(queue[t])[i] = queue[t][i + 1]
    BY <1>1, <1>2, PopElements
  <2>3. \A i \in 1..Len(queue'[t]) : i + 1 \in 1..Len(queue[t])
    BY <2>1, <2>2
  <2>4. QED BY <2>1, <2>2, <2>3, NoJobAssumption
<1>5. \A u \in Types : u # t => queue'[u] = queue[u]
  BY <1>1, <1>2 DEF TypeOK
<1>6. \A u \in Types : \A i \in 1..Len(queue'[u]) :
        \E k \in 1..Len(queue[u]) : queue'[u][i] = queue[u][k] /\ queue'[u][i] # j
  <2> SUFFICES ASSUME NEW u \in Types, NEW i \in 1..Len(queue'[u])
               PROVE  \E k \in 1..Len(queue[u]) : queue'[u][i] = queue[u][k] /\ queue'[u][i] # j
    OBVIOUS
  <2>1. CASE u = t
    <3> i + 1 # 1
      OBVIOUS
    <3>1. i + 1 \in 1..Len(queue[t]) /\ queue'[t][i] = queue[t][i + 1]
      BY <1>4, <2>1
    <3>2. queue[t][i + 1] # queue[t][1]
      BY <1>2, <1>4, <3>1 DEF PlaceInv, QueueOnce
    <3>3. QED BY <1>4, <2>1, <3>1, <3>2
  <2>2. CASE u # t
    BY <1>2, <1>4, <1>5, <2>2 DEF PlaceInv, QueueOwned
  <2>3. QED BY <2>1, <2>2
<1>7. caller[j] \in Pushed /\ runs[j] = 0 /\ outcome[j] = "none"
  BY <1>2, <1>4 DEF PlaceInv, QueueOwned, FreshInv, QueuedFresh
<1>8. \A v \in Workers : held[v] # j
  BY <1>2, <1>4 DEF PlaceInv, HeldOwned
<1>9. held[w] = NoJob
  BY <1>1 DEF PlaceInv, BusyHolds, Busy
<1>10. PlaceInv'
  <2>1. QueueOwned'
    BY <1>1, <1>6 DEF PlaceInv, QueueOwned
  <2>2. QueueOnce'
    <3> SUFFICES ASSUME NEW u \in Types, NEW i \in 1..Len(queue'[u]), NEW k \in 1..Len(queue'[u]),
                        queue'[u][i] = queue'[u][k]
                 PROVE  i = k
      BY DEF QueueOnce
    <3>1. CASE u = t
      <4>1. /\ i + 1 \in 1..Len(queue[t]) /\ queue'[t][i] = queue[t][i + 1]
            /\ k + 1 \in 1..Len(queue[t]) /\ queue'[t][k] = queue[t][k + 1]
        BY <1>4, <3>1
      <4>2. i + 1 = k + 1
        BY <1>2, <3>1, <4>1 DEF PlaceInv, QueueOnce
      <4>3. QED BY <4>2
    <3>2. CASE u # t
      BY <1>5, <3>2 DEF PlaceInv, QueueOnce
    <3>3. QED BY <3>1, <3>2
  <2>3. HeldOwned'
    <3> SUFFICES ASSUME NEW v \in Workers, held'[v] # NoJob
                 PROVE  /\ caller[held'[v]] \in Pushed
                        /\ \A u \in Types : \A i \in 1..Len(queue'[u]) : queue'[u][i] # held'[v]
      BY <1>1 DEF HeldOwned
    <3>1. CASE v = w
      BY <1>3, <1>6, <1>7, <3>1
    <3>2. CASE v # w
      BY <1>3, <1>6, <3>2 DEF PlaceInv, HeldOwned
    <3>3. QED BY <3>1, <3>2
  <2>4. HeldOnce'
    BY <1>3, <1>8 DEF PlaceInv, HeldOnce
  <2>5. BusyHolds'
    BY <1>3, <1>4 DEF PlaceInv, BusyHolds, Busy
  <2>6. QED BY <2>1, <2>2, <2>3, <2>4, <2>5 DEF PlaceInv
<1>11. FreshInv'
  <2>1. UnpushedFresh' /\ HandledAtMostOnce'
    BY <1>1 DEF FreshInv, UnpushedFresh, HandledAtMostOnce
  <2>2. QueuedFresh'
    BY <1>1, <1>6 DEF FreshInv, QueuedFresh
  <2>3. HeldFresh'
    BY <1>1, <1>3, <1>7 DEF FreshInv, HeldFresh
  <2>4. QED BY <2>1, <2>2, <2>3 DEF FreshInv
<1>12. RowInv'
  <2>1. TruthfulRow'
    BY <1>1 DEF RowInv, TruthfulRow
  <2>2. OutcomeKnown'
    BY <1>1, <1>3 DEF RowInv, OutcomeKnown
  <2>3. ProcessingRowIsHeld'
    BY <1>1, <1>3 DEF RowInv, ProcessingRowIsHeld
  <2>4. QED BY <2>1, <2>2, <2>3 DEF RowInv
<1>13. SleepInv'
  <2>1. \A v \in Workers : pc'[v] \in {"waiting", "parking"} => pc'[v] = pc[v]
    BY <1>3
  <2>2. \A v \in Workers : pc'[v] = "parking" => queue'[WorkerType[v]] = <<>>
    <3> SUFFICES ASSUME NEW v \in Workers, pc'[v] = "parking"
                 PROVE  queue'[WorkerType[v]] = <<>>
      OBVIOUS
    <3>1. queue[WorkerType[v]] = <<>> /\ WorkerType[v] \in Types
      BY <2>1, TypesAssumption DEF SleepInv, ParkingEmpty
    <3>2. QED BY <1>1, <1>5, <3>1
  <2>3. \A u \in Types : queue'[u] # <<>> => queue[u] # <<>>
    BY <1>1, <1>5
  <2>4. QED BY <1>1, <2>1, <2>2, <2>3, SleepKept
<1>14. DownIdle'
  BY <1>1 DEF DownIdle
<1>15. QED BY <1>10, <1>11, <1>12, <1>13, <1>14

\* create_job, before the job is handed to the queue.
LEMMA CreateJobStep ==
  ASSUME IInv, NEW j \in Jobs, TypeOK', CreateJob(j)
  PROVE  IInv'
<1> USE DEF IInv
<1>1. /\ caller[j] = "idle" /\ caller' = [caller EXCEPT ![j] = "created"]
      /\ row' = [row EXCEPT ![j] = [status |-> "queued", progress |-> 0]]
      /\ UNCHANGED <<queue, running, phase, pc, held, outcome, runs, boots, faults>>
  BY DEF CreateJob
<1>2. /\ caller'[j] = "created" /\ row'[j].status = "queued" /\ row'[j].progress = 0
      /\ \A k \in Jobs : k # j => caller'[k] = caller[k] /\ row'[k] = row[k]
  BY <1>1 DEF TypeOK
<1>3. \A k \in Jobs : caller[k] \in Pushed => k # j /\ caller'[k] = caller[k]
  BY <1>1, <1>2 DEF Pushed
<1>4. PlaceInv'
  <2>1. QueueOwned'
    BY <1>1, <1>3 DEF PlaceInv, QueueOwned, TypeOK
  <2>2. HeldOwned'
    BY <1>1, <1>3 DEF PlaceInv, HeldOwned, TypeOK
  <2>3. QueueOnce' /\ HeldOnce' /\ BusyHolds'
    BY <1>1 DEF PlaceInv, QueueOnce, HeldOnce, BusyHolds
  <2>4. QED BY <2>1, <2>2, <2>3 DEF PlaceInv
<1>5. FreshInv'
  BY <1>1, <1>2 DEF FreshInv, UnpushedFresh, QueuedFresh, HeldFresh, HandledAtMostOnce
<1>6. RowInv'
  <2>1. TruthfulRow'
    BY <1>1, <1>2 DEF RowInv, TruthfulRow
  <2>2. OutcomeKnown'
    BY <1>1 DEF RowInv, OutcomeKnown
  <2>3. ProcessingRowIsHeld'
    BY <1>1, <1>2 DEF RowInv, ProcessingRowIsHeld
  <2>4. QED BY <2>1, <2>2, <2>3 DEF RowInv
<1>7. SleepInv'
  BY <1>1, <1>2, SleepKept DEF SleepInv, ParkingEmpty
<1>8. DownIdle'
  BY <1>1 DEF DownIdle
<1>9. QED BY <1>4, <1>5, <1>6, <1>7, <1>8

\* queue.push under the mutex.
LEMMA PushStep ==
  ASSUME IInv, NEW j \in Jobs, TypeOK', Push(j)
  PROVE  IInv'
<1> USE DEF IInv
<1> DEFINE t == JobType[j]
           n == Len(queue[t]) + 1
<1>1. /\ caller[j] = "created" /\ caller' = [caller EXCEPT ![j] = "pushed"]
      /\ queue' = [queue EXCEPT ![t] = Append(queue[t], j)]
      /\ UNCHANGED <<running, phase, pc, held, row, outcome, runs, boots, faults>>
      /\ MutexFree(t)
  BY DEF Push
<1>2. t \in Types /\ queue[t] \in Seq(Jobs) /\ n \in Nat
  BY TypesAssumption DEF TypeOK
<1>3. /\ caller'[j] = "pushed"
      /\ \A k \in Jobs : k # j => caller'[k] = caller[k]
  BY <1>1 DEF TypeOK
<1>4. /\ queue'[t] = Append(queue[t], j)
      /\ \A u \in Types : u # t => queue'[u] = queue[u]
  BY <1>1, <1>2 DEF TypeOK
<1>5. /\ Len(queue'[t]) = n /\ queue'[t][n] = j
      /\ \A i \in 1..Len(queue[t]) : queue'[t][i] = queue[t][i]
      /\ queue'[t] # <<>>
  BY <1>2, <1>4, AppendElements
<1>6. \A k \in Jobs : caller[k] \in Pushed => k # j /\ caller'[k] \in Pushed
  BY <1>1, <1>3 DEF Pushed
<1>7. \A u \in Types : \A i \in 1..Len(queue'[u]) :
        \/ u = t /\ i = n /\ queue'[u][i] = j
        \/ i \in 1..Len(queue[u]) /\ queue'[u][i] = queue[u][i] /\ queue[u][i] # j
  <2> SUFFICES ASSUME NEW u \in Types, NEW i \in 1..Len(queue'[u]), ~(u = t /\ i = n)
               PROVE  i \in 1..Len(queue[u]) /\ queue'[u][i] = queue[u][i] /\ queue[u][i] # j
    BY <1>5
  <2>1. i \in 1..Len(queue[u]) /\ queue'[u][i] = queue[u][i]
    <3>1. CASE u = t
      <4>1. i \in 1..n /\ i # n
        BY <1>5, <3>1
      <4>2. i \in 1..Len(queue[t])
        BY <1>2, <4>1
      <4>3. QED BY <1>5, <3>1, <4>2
    <3>2. CASE u # t
      BY <1>4, <3>2
    <3>3. QED BY <3>1, <3>2
  <2>2. queue[u][i] \in Jobs /\ caller[queue[u][i]] \in Pushed
    BY <2>1 DEF PlaceInv, QueueOwned, TypeOK
  <2>3. QED BY <1>6, <2>1, <2>2
<1>8. \A v \in Workers : held[v] # NoJob => held[v] \in Jobs /\ held[v] # j
  BY <1>6 DEF PlaceInv, HeldOwned, TypeOK
<1>9. runs[j] = 0 /\ outcome[j] = "none"
  BY <1>1 DEF FreshInv, UnpushedFresh
<1>10. PlaceInv'
  <2>1. QueueOwned'
    <3> SUFFICES ASSUME NEW u \in Types, NEW i \in 1..Len(queue'[u])
                 PROVE  JobType[queue'[u][i]] = u /\ caller'[queue'[u][i]] \in Pushed
      BY DEF QueueOwned
    <3>1. CASE u = t /\ queue'[u][i] = j
      BY <1>3, <3>1 DEF Pushed
    <3>2. CASE i \in 1..Len(queue[u]) /\ queue'[u][i] = queue[u][i]
      <4>1. queue[u][i] \in Jobs
        BY <3>2 DEF TypeOK
      <4>2. JobType[queue[u][i]] = u /\ caller[queue[u][i]] \in Pushed
        BY <3>2 DEF PlaceInv, QueueOwned
      <4>3. QED BY <1>6, <3>2, <4>1, <4>2
    <3>3. QED BY <1>7, <3>1, <3>2
  <2>2. QueueOnce'
    <3> SUFFICES ASSUME NEW u \in Types, NEW i \in 1..Len(queue'[u]), NEW k \in 1..Len(queue'[u]),
                        queue'[u][i] = queue'[u][k]
                 PROVE  i = k
      BY DEF QueueOnce
    <3>1. CASE queue'[u][i] = j
      BY <1>7, <3>1
    <3>2. CASE queue'[u][i] # j
      BY <1>7, <3>2 DEF PlaceInv, QueueOnce
    <3>3. QED BY <3>1, <3>2
  <2>3. HeldOwned'
    <3> SUFFICES ASSUME NEW v \in Workers, held[v] # NoJob
                 PROVE  /\ caller'[held[v]] \in Pushed
                        /\ \A u \in Types : \A i \in 1..Len(queue'[u]) : queue'[u][i] # held[v]
      BY <1>1 DEF HeldOwned
    <3>1. caller'[held[v]] \in Pushed
      BY <1>6, <1>8 DEF PlaceInv, HeldOwned
    <3>2. \A u \in Types : \A i \in 1..Len(queue'[u]) : queue'[u][i] # held[v]
      BY <1>7, <1>8 DEF PlaceInv, HeldOwned
    <3>3. QED BY <3>1, <3>2
  <2>4. HeldOnce' /\ BusyHolds'
    BY <1>1 DEF PlaceInv, HeldOnce, BusyHolds
  <2>5. QED BY <2>1, <2>2, <2>3, <2>4 DEF PlaceInv
<1>11. FreshInv'
  <2>1. UnpushedFresh'
    BY <1>1, <1>3 DEF FreshInv, UnpushedFresh
  <2>2. QueuedFresh'
    BY <1>1, <1>7, <1>9 DEF FreshInv, QueuedFresh
  <2>3. HeldFresh' /\ HandledAtMostOnce'
    BY <1>1 DEF FreshInv, HeldFresh, HandledAtMostOnce
  <2>4. QED BY <2>1, <2>2, <2>3 DEF FreshInv
<1>12. RowInv'
  <2>1. TruthfulRow' /\ OutcomeKnown'
    BY <1>1 DEF RowInv, TruthfulRow, OutcomeKnown
  <2>2. ProcessingRowIsHeld'
    BY <1>1, <1>3 DEF RowInv, ProcessingRowIsHeld
  <2>3. QED BY <2>1, <2>2 DEF RowInv
<1>13. SleepInv'
  <2>1. ParkingEmpty'
    <3> SUFFICES ASSUME NEW v \in Workers, pc[v] = "parking" PROVE queue'[WorkerType[v]] = <<>>
      BY <1>1 DEF ParkingEmpty
    <3>1. WorkerType[v] # t /\ WorkerType[v] \in Types
      BY <1>1, TypesAssumption DEF MutexFree, Pool
    <3>2. QED BY <1>4, <3>1 DEF SleepInv, ParkingEmpty
  <2>2. NoSleepThroughWork'
    <3> SUFFICES ASSUME NEW u \in Types, queue'[u] # <<>>, Pool(u) # {}, WaitSet(u)' = Pool(u)
                 PROVE  \E k \in Jobs : JobType[k] = u /\ caller'[k] = "pushed"
      BY DEF NoSleepThroughWork, Pool
    <3>1. CASE u = t
      BY <1>3, <3>1
    <3>2. CASE u # t
      <4>1. WaitSet(u) = Pool(u) /\ queue[u] # <<>>
        BY <1>1, <1>4, <3>2 DEF WaitSet, Pool
      <4>2. PICK k \in Jobs : JobType[k] = u /\ caller[k] = "pushed"
        BY <4>1 DEF SleepInv, NoSleepThroughWork
      <4>3. QED BY <1>3, <3>2, <4>2
    <3>3. QED BY <3>1, <3>2
  <2>3. QED BY <2>1, <2>2 DEF SleepInv
<1>14. DownIdle'
  BY <1>1 DEF DownIdle
<1>15. QED BY <1>10, <1>11, <1>12, <1>13, <1>14

\* notify_one, after the mutex was released.
LEMMA NotifyOneStep ==
  ASSUME IInv, NEW j \in Jobs, TypeOK', NotifyOne(j)
  PROVE  IInv'
<1> USE DEF IInv
<1> DEFINE t == JobType[j]
<1>1. /\ caller[j] = "pushed" /\ caller' = [caller EXCEPT ![j] = "notified"]
      /\ UNCHANGED <<queue, running, phase, held, row, outcome, runs, boots, faults>>
  BY DEF NotifyOne
<1>2. /\ caller'[j] = "notified"
      /\ \A k \in Jobs : k # j => caller'[k] = caller[k]
      /\ \A k \in Jobs : caller[k] \in Pushed => caller'[k] \in Pushed
  BY <1>1 DEF Pushed, TypeOK
<1>3. \/ WaitSet(t) = {} /\ pc' = pc
      \/ \E w \in WaitSet(t) : pc' = [v \in Workers |-> IF v \in {w} THEN "acquire" ELSE pc[v]]
  BY DEF NotifyOne, Wake
<1>4. \A v \in Workers : pc'[v] = pc[v] \/ (pc[v] = "waiting" /\ pc'[v] = "acquire")
  <2>1. CASE pc' = pc
    BY <2>1
  <2>2. ASSUME NEW w \in WaitSet(t),
               pc' = [v \in Workers |-> IF v \in {w} THEN "acquire" ELSE pc[v]]
        PROVE  \A v \in Workers : pc'[v] = pc[v] \/ (pc[v] = "waiting" /\ pc'[v] = "acquire")
    <3>1. w \in Workers /\ pc[w] = "waiting"
      BY DEF WaitSet, Pool
    <3>2. QED BY <2>2, <3>1
  <2>3. QED BY <1>3, <2>1, <2>2
<1>5. WaitSet(t) # {} => \E v \in WaitSet(t) : pc'[v] = "acquire"
  <2>1. \A w \in WaitSet(t) : w \in Workers
    BY DEF WaitSet, Pool
  <2>2. QED BY <1>3, <2>1
<1>6. PlaceInv'
  <2>1. QueueOwned'
    BY <1>1, <1>2 DEF PlaceInv, QueueOwned, TypeOK
  <2>2. HeldOwned'
    BY <1>1, <1>2 DEF PlaceInv, HeldOwned, TypeOK
  <2>3. QueueOnce' /\ HeldOnce'
    BY <1>1 DEF PlaceInv, QueueOnce, HeldOnce
  <2>4. BusyHolds'
    BY <1>1, <1>4 DEF PlaceInv, BusyHolds, Busy
  <2>5. QED BY <2>1, <2>2, <2>3, <2>4 DEF PlaceInv
<1>7. FreshInv'
  BY <1>1, <1>2, <1>4 DEF FreshInv, UnpushedFresh, QueuedFresh, HeldFresh, HandledAtMostOnce
<1>8. RowInv'
  <2>1. TruthfulRow' /\ OutcomeKnown'
    BY <1>1, <1>4 DEF RowInv, TruthfulRow, OutcomeKnown
  <2>2. ProcessingRowIsHeld'
    BY <1>1, <1>2, <1>4 DEF RowInv, ProcessingRowIsHeld
  <2>3. QED BY <2>1, <2>2 DEF RowInv
<1>9. SleepInv'
  <2>1. ParkingEmpty'
    BY <1>1, <1>4 DEF SleepInv, ParkingEmpty
  <2>2. NoSleepThroughWork'
    <3> SUFFICES ASSUME NEW u \in Types, queue[u] # <<>>, Pool(u) # {}, WaitSet(u)' = Pool(u)
                 PROVE  \E k \in Jobs : JobType[k] = u /\ caller'[k] = "pushed"
      BY <1>1 DEF NoSleepThroughWork, Pool
    <3>1. \A v \in Pool(u) : v \in Workers /\ pc'[v] = "waiting"
      BY DEF WaitSet, Pool
    <3>2. \A v \in Pool(u) : pc[v] = "waiting"
      BY <1>4, <3>1
    <3>3. WaitSet(u) = Pool(u)
      BY <3>2 DEF WaitSet
    <3>4. u # t
      BY <1>5, <3>1, <3>3
    <3>5. PICK k \in Jobs : JobType[k] = u /\ caller[k] = "pushed"
      BY <3>3 DEF SleepInv, NoSleepThroughWork
    <3>6. QED BY <1>2, <3>4, <3>5
  <2>3. QED BY <2>1, <2>2 DEF SleepInv
<1>10. DownIdle'
  BY <1>1, <1>4 DEF DownIdle
<1>11. QED BY <1>6, <1>7, <1>8, <1>9, <1>10

\* The late update_job_status(id, "queued", 0).
LEMMA WriteQueuedStep ==
  ASSUME IInv, NEW j \in Jobs, TypeOK', WriteQueued(j)
  PROVE  IInv'
<1> USE DEF IInv
<1>1. /\ caller[j] = "notified" /\ caller' = [caller EXCEPT ![j] = "returned"]
      /\ UNCHANGED <<queue, running, phase, pc, held, outcome, runs, boots>>
  BY DEF WriteQueued
<1>2. /\ caller'[j] = "returned"
      /\ \A k \in Jobs : k # j => caller'[k] = caller[k]
      /\ \A k \in Jobs : caller[k] \in Pushed => caller'[k] \in Pushed
  BY <1>1 DEF Pushed, TypeOK
<1>3. \/ row' = [row EXCEPT ![j] = [status |-> "queued", progress |-> 0]] /\ faults' = faults
      \/ row' = row /\ faults' = faults + 1
  BY DEF WriteQueued, update_job_status, UpdateRow
<1>4. /\ (row'[j].status = "queued" /\ row'[j].progress = 0) \/ row'[j] = row[j]
      /\ \A k \in Jobs : k # j => row'[k] = row[k]
  BY <1>3 DEF TypeOK
<1>5. faults > 0 => faults' > 0
  BY <1>3 DEF TypeOK
<1>6. PlaceInv'
  <2>1. QueueOwned'
    BY <1>1, <1>2 DEF PlaceInv, QueueOwned, TypeOK
  <2>2. HeldOwned'
    BY <1>1, <1>2 DEF PlaceInv, HeldOwned, TypeOK
  <2>3. QueueOnce' /\ HeldOnce' /\ BusyHolds'
    BY <1>1 DEF PlaceInv, QueueOnce, HeldOnce, BusyHolds
  <2>4. QED BY <2>1, <2>2, <2>3 DEF PlaceInv
<1>7. FreshInv'
  BY <1>1, <1>2 DEF FreshInv, UnpushedFresh, QueuedFresh, HeldFresh, HandledAtMostOnce
<1>8. RowInv'
  <2>1. TruthfulRow'
    BY <1>1, <1>4 DEF RowInv, TruthfulRow
  <2>2. OutcomeKnown'
    BY <1>1 DEF RowInv, OutcomeKnown
  <2>3. ProcessingRowIsHeld'
    BY <1>1, <1>2, <1>4, <1>5 DEF RowInv, ProcessingRowIsHeld
  <2>4. QED BY <2>1, <2>2, <2>3 DEF RowInv
<1>9. SleepInv'
  BY <1>1, <1>2, SleepKept DEF SleepInv, ParkingEmpty
<1>10. DownIdle'
  BY <1>1 DEF DownIdle
<1>11. QED BY <1>6, <1>7, <1>8, <1>9, <1>10

\* initialize(), the steps of shutdown(), and the end of the process.
LEMMA LifecycleStep ==
  ASSUME IInv, TypeOK', Lifecycle
  PROVE  IInv'
<1> USE DEF IInv
<1>1. CASE Initialize
  <2>1. /\ pc' = [w \in Workers |-> "loop"] /\ phase = "down" /\ phase' = "up"
        /\ UNCHANGED <<queue, held, caller, row, outcome, runs, faults>>
    BY <1>1 DEF Initialize
  <2>2. \A w \in Workers : pc[w] = "exited" /\ pc'[w] = "loop"
    BY <2>1 DEF DownIdle
  <2>3. PlaceInv'
    BY <2>1, <2>2, PlaceKept DEF Busy
  <2>4. FreshInv'
    BY <2>1, <2>2 DEF FreshInv, UnpushedFresh, QueuedFresh, HeldFresh, HandledAtMostOnce
  <2>5. RowInv'
    <3>1. TruthfulRow' /\ OutcomeKnown'
      BY <2>1, <2>2 DEF RowInv, TruthfulRow, OutcomeKnown
    <3>2. ProcessingRowIsHeld'
      BY <2>1, <2>2 DEF RowInv, ProcessingRowIsHeld
    <3>3. QED BY <3>1, <3>2 DEF RowInv
  <2>6. SleepInv'
    BY <2>1, <2>2, SleepKept
  <2>7. QED BY <2>1, <2>3, <2>4, <2>5, <2>6 DEF DownIdle
<1>2. CASE ShutdownFlag \/ Join
  <2>1. UNCHANGED <<queue, pc, held, caller, row, outcome, runs, faults>>
    BY <1>2 DEF ShutdownFlag, Join
  <2>2. PlaceInv'
    BY <2>1, PlaceKept
  <2>3. FreshInv'
    BY <2>1 DEF FreshInv, UnpushedFresh, QueuedFresh, HeldFresh, HandledAtMostOnce
  <2>4. RowInv'
    BY <2>1 DEF RowInv, TruthfulRow, OutcomeKnown, ProcessingRowIsHeld
  <2>5. SleepInv'
    BY <2>1, SleepKept DEF SleepInv, ParkingEmpty
  <2>6. DownIdle'
    BY <1>2, <2>1 DEF ShutdownFlag, Join, DownIdle
  <2>7. QED BY <2>2, <2>3, <2>4, <2>5, <2>6
<1>3. CASE NotifyAllImage \/ NotifyAllVideo
  <2>1. UNCHANGED <<queue, held, caller, row, outcome, runs, faults>> /\ phase' # "down"
    BY <1>3 DEF NotifyAllImage, NotifyAllVideo
  <2>2. \A w \in Workers : pc'[w] = pc[w] \/ (pc[w] = "waiting" /\ pc'[w] = "acquire")
    <3>1. PICK t \in {"image", "video"} :
            pc' = [w \in Workers |-> IF w \in WaitSet(t) THEN "acquire" ELSE pc[w]]
      BY <1>3 DEF NotifyAllImage, NotifyAllVideo, Wake
    <3>2. \A w \in WaitSet(t) : pc[w] = "waiting"
      BY DEF WaitSet
    <3>3. QED BY <3>1, <3>2
  <2>3. PlaceInv'
    <3>1. \A w \in Workers : pc[w] \in Busy <=> pc'[w] \in Busy
      BY <2>2 DEF Busy
    <3>2. QED BY <2>1, <3>1, PlaceKept
  <2>4. FreshInv'
    BY <2>1, <2>2 DEF FreshInv, UnpushedFresh, QueuedFresh, HeldFresh, HandledAtMostOnce
  <2>5. RowInv'
    <3>1. TruthfulRow' /\ OutcomeKnown'
      BY <2>1, <2>2 DEF RowInv, TruthfulRow, OutcomeKnown
    <3>2. ProcessingRowIsHeld'
      BY <2>1, <2>2 DEF RowInv, ProcessingRowIsHeld
    <3>3. QED BY <3>1, <3>2 DEF RowInv
  <2>6. SleepInv'
    <3>1. \A w \in Workers : pc'[w] \in {"waiting", "parking"} => pc'[w] = pc[w]
      BY <2>2
    <3>2. \A w \in Workers : pc'[w] = "parking" => queue'[WorkerType[w]] = <<>>
      BY <2>1, <3>1 DEF SleepInv, ParkingEmpty
    <3>3. QED BY <2>1, <3>1, <3>2, SleepKept
  <2>7. QED BY <2>1, <2>3, <2>4, <2>5, <2>6 DEF DownIdle
<1>4. CASE Crash
  <2>1. /\ queue' = [t \in Types |-> <<>>] /\ pc' = [w \in Workers |-> "exited"]
        /\ held' = [w \in Workers |-> NoJob]
        /\ caller' = [j \in Jobs |-> IF caller[j] = "idle" THEN "idle" ELSE "gone"]
        /\ UNCHANGED <<row, outcome, runs, faults>>
    BY <1>4 DEF Crash
  <2>2. /\ \A t \in Types : queue'[t] = <<>> /\ Len(queue'[t]) = 0
        /\ \A w \in Workers : pc'[w] = "exited" /\ held'[w] = NoJob
    BY <2>1
  <2>3. PlaceInv'
    BY <2>2 DEF PlaceInv, QueueOwned, QueueOnce, HeldOwned, HeldOnce, BusyHolds, Busy
  <2>4. FreshInv'
    <3>1. UnpushedFresh'
      BY <2>1 DEF FreshInv, UnpushedFresh
    <3>2. QueuedFresh' /\ HeldFresh'
      BY <2>2 DEF QueuedFresh, HeldFresh
    <3>3. HandledAtMostOnce'
      BY <2>1 DEF FreshInv, HandledAtMostOnce
    <3>4. QED BY <3>1, <3>2, <3>3 DEF FreshInv
  <2>5. RowInv'
    <3>1. TruthfulRow' /\ OutcomeKnown'
      BY <2>1, <2>2 DEF RowInv, TruthfulRow, OutcomeKnown
    <3>2. ProcessingRowIsHeld'
      <4> SUFFICES ASSUME NEW j \in Jobs, row[j].status = "processing", ~(faults > 0)
                   PROVE  caller'[j] = "gone"
        BY <2>1 DEF ProcessingRowIsHeld
      <4>1. (\E w \in Workers : held[w] = j) \/ caller[j] = "gone"
        BY DEF RowInv, ProcessingRowIsHeld
      <4>2. caller[j] # "idle"
        BY <4>1, NoJobAssumption DEF PlaceInv, HeldOwned, Pushed
      <4>3. QED BY <2>1, <4>2
    <3>3. QED BY <3>1, <3>2 DEF RowInv
  <2>6. SleepInv'
    BY <2>2 DEF SleepInv, ParkingEmpty, NoSleepThroughWork
  <2>7. QED BY <2>2, <2>3, <2>4, <2>5, <2>6 DEF DownIdle
<1>5. QED BY <1>1, <1>2, <1>3, <1>4 DEF Lifecycle

---------------------------------------------------------------------------
(* The theorems.                                                           *)

LEMMA NextIInv == IInv /\ [Next]_vars => IInv'
<1> SUFFICES ASSUME IInv, [Next]_vars PROVE IInv'
  OBVIOUS
<1>1. TypeOK'
  BY NextTypeOK DEF IInv
<1>2. CASE Lifecycle
  BY <1>1, <1>2, LifecycleStep
<1>3. ASSUME NEW j \in Jobs, Caller(j) PROVE IInv'
  BY <1>1, <1>3, CreateJobStep, PushStep, NotifyOneStep, WriteQueuedStep DEF Caller
<1>4. ASSUME NEW w \in Workers, Worker(w) \/ SpuriousWake(w) PROVE IInv'
  BY <1>1, <1>4, IdleStep, PopStep, MarkProcessingStep, HandlerEndsStep, RecordStep DEF Worker
<1>5. CASE UNCHANGED vars
  <2>1. UNCHANGED <<queue, phase, pc, held, caller, row, outcome, runs, faults>>
    BY <1>5 DEF vars
  <2> USE DEF IInv
  <2>2. PlaceInv'
    BY <2>1, PlaceKept
  <2>3. FreshInv'
    BY <2>1 DEF FreshInv, UnpushedFresh, QueuedFresh, HeldFresh, HandledAtMostOnce
  <2>4. RowInv'
    BY <2>1 DEF RowInv, TruthfulRow, OutcomeKnown, ProcessingRowIsHeld
  <2>5. SleepInv' /\ DownIdle'
    BY <2>1, SleepKept DEF SleepInv, ParkingEmpty, DownIdle
  <2>6. QED BY <1>1, <2>2, <2>3, <2>4, <2>5
<1>6. QED BY <1>2, <1>3, <1>4, <1>5 DEF Next

LEMMA Inductive == Spec => []IInv
  BY InitIInv, NextIInv, PTL DEF Spec

\* worker_loop gives no job to a handler twice, whatever the pools, the order of
\* the threads, the shutdowns and the crashes.
THEOREM AtMostOnce == Spec => []HandledAtMostOnce
<1>1. IInv => HandledAtMostOnce
  BY DEF IInv, FreshInv
<1>2. QED BY <1>1, Inductive, PTL

\* A terminal row never lies about the handler, and a row never says "processing"
\* of a job that nobody works on, short of a crash or a refused update.
THEOREM RowsTellTheTruth == Spec => [](TruthfulRow /\ ProcessingRowIsHeld)
<1>1. IInv => TruthfulRow /\ ProcessingRowIsHeld
  BY DEF IInv, RowInv
<1>2. QED BY <1>1, Inductive, PTL

\* Together: handled once, and with a row that says so.
THEOREM JobsAndRows == Spec => []JobsAccounted
<1>1. TypeOK /\ HandledAtMostOnce /\ TruthfulRow /\ ProcessingRowIsHeld => JobsAccounted
  BY DEF JobsAccounted
<1>2. QED BY <1>1, TypeCorrect, AtMostOnce, RowsTellTheTruth, PTL

\* notify_one after the unlock is enough: a pool never sleeps beside a full queue
\* unless an enqueue call is about to wake it.
THEOREM NoLostJobWakeup == Spec => []NoSleepThroughWork
<1>1. IInv => NoSleepThroughWork
  BY DEF IInv, SleepInv
<1>2. QED BY <1>1, Inductive, PTL

---------------------------------------------------------------------------
(* The rows that are left.                                                 *)

\* What the registry makes of an update: the row is the new one, or nothing changed.
LEMMA UpdateRowLeaves ==
  ASSUME TypeOK, NEW j \in Jobs, NEW r, UpdateRow(j, r)
  PROVE  /\ row'[j] = r \/ row'[j] = row[j]
         /\ \A k \in Jobs : k # j => row'[k] = row[k]
<1>1. row' = [row EXCEPT ![j] = r] \/ row' = row
  BY DEF UpdateRow
<1>2. QED BY <1>1 DEF TypeOK

\* A terminal row means that the handler ended, and how.
LEMMA TerminalKnows ==
  ASSUME IInv, NEW j \in Jobs, row[j].status \in Terminal
  PROVE  /\ outcome[j] # "none"
         /\ outcome[j] = "ok" => row[j].status = "completed"
         /\ outcome[j] = "error" => row[j].status = "failed"
BY DEF IInv, RowInv, TruthfulRow, Terminal

LEMMA NextReopens ==
  ASSUME IInv, [Next]_vars, NEW j \in Jobs,
         row[j].status \in Terminal, row'[j].status # row[j].status
  PROVE  caller[j] = "notified" /\ row'[j].status = "queued"
<1>1. CASE UNCHANGED row
  BY <1>1
<1>2. ASSUME NEW k \in Jobs, CreateJob(k) PROVE FALSE
  <2>1. k = j
    BY <1>2 DEF CreateJob, IInv, TypeOK
  <2>2. outcome[j] = "none"
    BY <1>2, <2>1 DEF CreateJob, IInv, FreshInv, UnpushedFresh
  <2>3. QED BY <2>2, TerminalKnows
<1>3. ASSUME NEW k \in Jobs, WriteQueued(k)
      PROVE  caller[j] = "notified" /\ row'[j].status = "queued"
  <2>1. UpdateRow(k, [status |-> "queued", progress |-> 0])
    BY <1>3 DEF WriteQueued, update_job_status
  <2>2. k = j /\ row'[j].status = "queued"
    BY <2>1, UpdateRowLeaves DEF IInv
  <2>3. QED BY <1>3, <2>2 DEF WriteQueued
<1>4. ASSUME NEW w \in Workers, MarkProcessing(w) PROVE FALSE
  <2>1. pc[w] = "popped" /\ UpdateRow(held[w], [status |-> "processing", progress |-> 0])
    BY <1>4 DEF MarkProcessing, update_job_status
  <2>2. held[w] \in Jobs /\ outcome[held[w]] = "none"
    BY <2>1 DEF IInv, TypeOK, PlaceInv, BusyHolds, Busy, FreshInv, HeldFresh
  <2>3. held[w] = j
    BY <2>1, <2>2, UpdateRowLeaves DEF IInv
  <2>4. QED BY <2>2, <2>3, TerminalKnows
<1>5. ASSUME NEW w \in Workers, Record(w) PROVE FALSE
  <2>1. held[w] \in Jobs
    BY <1>5 DEF Record, IInv, TypeOK, PlaceInv, BusyHolds, Busy
  <2>2. CASE pc[w] = "complete" /\ UpdateRow(held[w], [status |-> "completed", progress |-> 100])
    <3>1. held[w] = j /\ row'[j].status = "completed" /\ outcome[j] = "ok"
      BY <2>1, <2>2, UpdateRowLeaves DEF IInv, RowInv, OutcomeKnown
    <3>2. QED BY <3>1, TerminalKnows
  <2>3. CASE /\ pc[w] = "fail"
             /\ UpdateRow(held[w], [status |-> "failed", progress |-> row[held[w]].progress])
    <3>1. held[w] = j /\ row'[j].status = "failed" /\ outcome[j] = "error"
      BY <2>1, <2>3, UpdateRowLeaves DEF IInv, RowInv, OutcomeKnown
    <3>2. QED BY <3>1, TerminalKnows
  <2>4. QED BY <1>5, <2>2, <2>3 DEF Record, complete_job, fail_job
<1>6. CASE Lifecycle
  BY <1>1, <1>6 DEF Lifecycle, Initialize, ShutdownFlag, NotifyAllImage, NotifyAllVideo, Join, Crash
<1>7. ASSUME NEW k \in Jobs, Push(k) \/ NotifyOne(k) PROVE UNCHANGED row
  BY <1>7 DEF Push, NotifyOne
<1>8. ASSUME NEW w \in Workers,
             \/ LoopTest(w) \/ FindNothing(w) \/ Leave(w) \/ Pop(w) \/ Block(w)
             \/ SpuriousWake(w) \/ HandlerEnds(w)
      PROVE  UNCHANGED row
  BY <1>8 DEF LoopTest, FindNothing, Leave, Pop, Block, SpuriousWake, HandlerEnds
<1>9. CASE UNCHANGED vars
  BY <1>1, <1>9 DEF vars
<1>10. QED
  BY <1>1, <1>2, <1>3, <1>4, <1>5, <1>6, <1>7, <1>8, <1>9 DEF Next, Caller, Worker

\* Nothing but the late "queued" write of enqueue_*_job takes a row out of a terminal
\* status: no worker, no crash, no restart and no other call does (job_queue.cpp:55, :64).
THEOREM LateWriteOnly == Spec => OnlyLateQueuedReopens
<1> DEFINE Reopens(j) ==
      row[j].status \in Terminal /\ row'[j].status # row[j].status =>
        caller[j] = "notified" /\ row'[j].status = "queued"
<1>1. IInv /\ [Next]_vars => \A j \in Jobs : Reopens(j)
  BY NextReopens
<1>2. QED BY <1>1, Inductive, PTL DEF Spec, OnlyLateQueuedReopens

---------------------------------------------------------------------------
(* Refinement: every step of the queue is a step of JobLifecycle, or leaves *)
(* the stages alone.                                                       *)

Held(j) == \E w \in Workers : held[w] = j

\* The stage of a job depends on its outcome, its caller and whether it is held.
LEMMA StageKept ==
  ASSUME NEW j \in Jobs, outcome'[j] = outcome[j], Held(j)' <=> Held(j),
         caller'[j] = caller[j] \/ {caller[j], caller'[j]} \subseteq Pushed \cup {"created"}
  PROVE  Stage(j)' = Stage(j)
<1>1. caller'[j] = "idle" <=> caller[j] = "idle"
  BY DEF Pushed
<1>2. caller'[j] = "gone" <=> caller[j] = "gone"
  BY DEF Pushed
<1>3. QED BY <1>1, <1>2 DEF Stage, Held

\* What a job's stage is in the three situations in which it changes.
LEMMA StageIs ==
  ASSUME IInv, NEW j \in Jobs
  PROVE  /\ caller[j] = "idle" => Stage(j) = "absent"
         /\ caller[j] = "created" => Stage(j) = "queued"
         /\ outcome[j] = "none" /\ caller[j] \in Pushed /\ ~Held(j) => Stage(j) = "queued"
         /\ outcome[j] = "none" /\ caller[j] \in Pushed /\ Held(j) => Stage(j) = "processing"
<1>1. caller[j] \in {"idle", "created"} => outcome[j] = "none" /\ ~Held(j)
  BY NoJobAssumption DEF IInv, FreshInv, UnpushedFresh, PlaceInv, HeldOwned, Pushed, Held
<1>2. QED BY <1>1 DEF Stage, Held, Pushed

LEMMA NextRefines == IInv /\ IInv' /\ [Next]_vars => [Abstract!Next]_[j \in Jobs |-> Stage(j)]
<1> SUFFICES ASSUME IInv, IInv', [Next]_vars
             PROVE  \/ Abstract!Next
                    \/ [j \in Jobs |-> Stage(j)]' = [j \in Jobs |-> Stage(j)]
  OBVIOUS
<1> DEFINE stage == [j \in Jobs |-> Stage(j)]
<1>1. ASSUME \A j \in Jobs : Stage(j)' = Stage(j) PROVE stage' = stage
  BY <1>1
<1>2. ASSUME NEW k \in Jobs, \A j \in Jobs : j # k => Stage(j)' = Stage(j)
      PROVE  /\ stage' = [stage EXCEPT ![k] = Stage(k)']
             /\ stage[k] = Stage(k)
  BY <1>2
<1>3. CASE UNCHANGED <<outcome, held, caller>>
  BY <1>1, <1>3, StageKept DEF Held
<1>4. CASE Crash
  <2> DEFINE S == {j \in Jobs : Stage(j) \in {"queued", "processing"}}
  <2>1. /\ outcome' = outcome /\ \A w \in Workers : held'[w] = NoJob
        /\ caller' = [j \in Jobs |-> IF caller[j] = "idle" THEN "idle" ELSE "gone"]
    BY <1>4 DEF Crash
  <2>2. \A j \in Jobs : Stage(j)' = IF j \in S THEN "lost" ELSE Stage(j)
    <3> TAKE j \in Jobs
    <3>1. outcome[j] \in Outcomes
      BY DEF IInv, TypeOK
    <3>2. CASE outcome[j] # "none"
      BY <2>1, <3>1, <3>2 DEF Stage, Outcomes
    <3>3. CASE outcome[j] = "none" /\ caller[j] = "idle"
      BY <2>1, <3>3 DEF Stage
    <3>4. CASE outcome[j] = "none" /\ caller[j] # "idle"
      <4>1. caller'[j] = "gone" /\ outcome'[j] = "none"
        BY <2>1, <3>4
      <4>2. Stage(j)' = "lost"
        BY <4>1 DEF Stage
      <4>3. Stage(j) \in {"lost", "queued", "processing"}
        BY <3>4 DEF Stage
      <4>4. QED BY <4>2, <4>3
    <3>5. QED BY <3>2, <3>3, <3>4
  <2>3. stage' = [j \in Jobs |-> IF j \in S THEN "lost" ELSE stage[j]]
    BY <2>2
  <2>4. S \in SUBSET {j \in Jobs : stage[j] \in Abstract!Live}
    BY DEF Abstract!Live
  <2>5. Abstract!Lose
    BY <2>3, <2>4 DEF Abstract!Lose
  <2>6. QED BY <2>5 DEF Abstract!Next
<1>5. ASSUME NEW k \in Jobs, CreateJob(k)
      PROVE  Abstract!Next
  <2>1. /\ caller[k] = "idle" /\ caller'[k] = "created"
        /\ \A j \in Jobs : j # k => caller'[j] = caller[j]
        /\ outcome' = outcome /\ held' = held
    BY <1>5 DEF CreateJob, IInv, TypeOK
  <2>2. \A j \in Jobs : j # k => Stage(j)' = Stage(j)
    BY <2>1, StageKept DEF Held
  <2>3. Stage(k) = "absent"
    BY <2>1, StageIs
  <2>4. Stage(k)' = "queued"
    <3>1. outcome[k] = "none" /\ ~Held(k)
      BY <2>1, NoJobAssumption DEF IInv, FreshInv, UnpushedFresh, PlaceInv, HeldOwned, Pushed, Held
    <3>2. QED BY <2>1, <3>1 DEF Stage, Held
  <2>5. Abstract!Submit(k)
    BY <1>2, <2>2, <2>3, <2>4 DEF Abstract!Submit, Abstract!Move
  <2>6. QED BY <2>5 DEF Abstract!Next
<1>6. ASSUME NEW k \in Jobs, Push(k) \/ NotifyOne(k) \/ WriteQueued(k)
      PROVE  stage' = stage
  <2>1. /\ {caller[k], caller'[k]} \subseteq Pushed \cup {"created"}
        /\ \A j \in Jobs : j # k => caller'[j] = caller[j]
        /\ outcome' = outcome /\ held' = held
    BY <1>6 DEF Push, NotifyOne, WriteQueued, IInv, TypeOK, Pushed
  <2>2. \A j \in Jobs : Stage(j)' = Stage(j)
    BY <2>1, StageKept DEF Held
  <2>3. QED BY <1>1, <2>2
<1>7. ASSUME NEW w \in Workers, Pop(w)
      PROVE  Abstract!Next
  <2>1. /\ held' = [held EXCEPT ![w] = Head(queue[WorkerType[w]])] /\ pc[w] = "acquire"
        /\ outcome' = outcome /\ caller' = caller
        /\ queue[WorkerType[w]] # <<>>
    BY <1>7 DEF Pop
  <2>2. WorkerType[w] \in Types /\ queue[WorkerType[w]] \in Seq(Jobs)
    BY TypesAssumption DEF IInv, TypeOK
  <2>3. PICK k \in Jobs : /\ k = Head(queue[WorkerType[w]])
                         /\ k = queue[WorkerType[w]][1]
                         /\ 1 \in 1..Len(queue[WorkerType[w]])
    BY <2>1, <2>2, PopElements
  <2>4. outcome[k] = "none" /\ caller[k] \in Pushed /\ ~Held(k)
    BY <2>2, <2>3, NoJobAssumption DEF IInv, FreshInv, QueuedFresh, PlaceInv, QueueOwned, HeldOwned, Held
  <2>5. held[w] = NoJob
    BY <2>1 DEF IInv, PlaceInv, BusyHolds, Busy
  <2>6. held'[w] = k /\ \A v \in Workers : v # w => held'[v] = held[v]
    BY <2>1, <2>3 DEF IInv, TypeOK
  <2>7. Held(k)' /\ \A j \in Jobs : j # k => (Held(j)' <=> Held(j))
    BY <2>5, <2>6, NoJobAssumption DEF Held
  <2>8. \A j \in Jobs : j # k => Stage(j)' = Stage(j)
    BY <2>1, <2>7, StageKept
  <2>9. Stage(k) = "queued"
    BY <2>3, <2>4, StageIs
  <2>10. Stage(k)' = "processing"
    BY <2>1, <2>4, <2>7 DEF Stage, Held, Pushed
  <2>11. Abstract!Start(k)
    BY <1>2, <2>3, <2>8, <2>9, <2>10 DEF Abstract!Start, Abstract!Move
  <2>12. QED BY <2>3, <2>11 DEF Abstract!Next
<1>8. ASSUME NEW w \in Workers, HandlerEnds(w)
      PROVE  Abstract!Next
  <2>1. PICK o \in {"ok", "error"} : outcome' = [outcome EXCEPT ![held[w]] = o]
    BY <1>8 DEF HandlerEnds
  <2>2. pc[w] = "handling" /\ held' = held /\ caller' = caller
    BY <1>8 DEF HandlerEnds
  <2>3. PICK k \in Jobs : k = held[w] /\ outcome[k] = "none" /\ caller[k] \in Pushed /\ Held(k)
    BY <2>2 DEF IInv, TypeOK, FreshInv, HeldFresh, PlaceInv, HeldOwned, BusyHolds, Busy, Held
  <2>4. outcome'[k] = o /\ \A j \in Jobs : j # k => outcome'[j] = outcome[j]
    BY <2>1, <2>3 DEF IInv, TypeOK
  <2>5. \A j \in Jobs : j # k => Stage(j)' = Stage(j)
    BY <2>2, <2>4, StageKept DEF Held
  <2>6. Stage(k) = "processing"
    BY <2>3, StageIs
  <2>7. Stage(k)' \in {"completed", "failed"}
    BY <2>4 DEF Stage
  <2>8. Abstract!Finish(k)
    BY <1>2, <2>3, <2>5, <2>6, <2>7 DEF Abstract!Finish, Abstract!Move
  <2>9. QED BY <2>3, <2>8 DEF Abstract!Next
<1>9. ASSUME NEW w \in Workers, Record(w)
      PROVE  stage' = stage
  <2> DEFINE k == held[w]
  <2>1. /\ held' = [held EXCEPT ![w] = NoJob] /\ pc[w] \in {"complete", "fail"}
        /\ outcome' = outcome /\ caller' = caller
    BY <1>9 DEF Record
  <2>2. outcome[k] \in {"ok", "error"}
    BY <2>1 DEF IInv, RowInv, OutcomeKnown
  <2>3. \A j \in Jobs : j # k => (Held(j)' <=> Held(j))
    BY <2>1, NoJobAssumption DEF Held, IInv, TypeOK
  <2>4. \A j \in Jobs : Stage(j)' = Stage(j)
    <3> TAKE j \in Jobs
    <3>1. CASE j = k
      BY <2>1, <2>2, <3>1 DEF Stage
    <3>2. CASE j # k
      BY <2>1, <2>3, <3>2, StageKept
    <3>3. QED BY <3>1, <3>2
  <2>5. QED BY <1>1, <2>4
<1>10. ASSUME NEW w \in Workers, \/ LoopTest(w) \/ FindNothing(w) \/ Leave(w) \/ Block(w)
                                 \/ SpuriousWake(w) \/ MarkProcessing(w)
       PROVE  UNCHANGED <<outcome, held, caller>>
  BY <1>10 DEF LoopTest, FindNothing, Leave, Block, SpuriousWake, MarkProcessing
<1>11. CASE Initialize \/ ShutdownFlag \/ NotifyAllImage \/ NotifyAllVideo \/ Join \/ UNCHANGED vars
  <2>1. UNCHANGED <<outcome, held, caller>>
    BY <1>11 DEF Initialize, ShutdownFlag, NotifyAllImage, NotifyAllVideo, Join, vars
  <2>2. QED BY <1>3, <2>1
<1>12. QED
  BY <1>3, <1>4, <1>5, <1>6, <1>7, <1>8, <1>9, <1>10, <1>11 DEF Next, Lifecycle, Caller, Worker

\* The queue implements the job lifecycle: one submission, one start, one end.
THEOREM Refinement == Spec => ImplementsLifecycle
<1>1. Init => Abstract!Init
  BY DEF Init, Abstract!Init, Stage
<1>2. QED BY <1>1, Inductive, NextRefines, PTL DEF Spec, ImplementsLifecycle, Abstract!Spec
===========================================================================
