------------------------ MODULE ContinuousBatching ------------------------
(***************************************************************************)
(* The batching scheduler of engine/continuous_batching.cpp: clients push  *)
(* requests, one thread forms batches of them and runs the text engine.    *)
(*                                                                         *)
(* queue_mutex_ is never held across a step that matters to another        *)
(* thread, so a critical section is one step.  form_batch keeps the        *)
(* address of a queue node that it then frees: such an entry of a batch is *)
(* a ghost, and reading it is undefined.  What the build can do: find an   *)
(* empty request (the engine refuses it), find the request whose node was  *)
(* allocated in the same place since, or crash.                            *)
(***************************************************************************)
EXTENDS Integers, Sequences, FiniteSets, FiniteSetsExt, SequencesExt

CONSTANTS
  Requests,
  Tokens,        \* form_batch's estimate for each request
  BlockSize,     \* tokens in a block of the KV cache
  PoolBlocks,    \* blocks in the KV cache
  MaxBatchSize, MaxTokensPerBatch, MaxQueueSize,  \* config_
  MaxStarts      \* bound: calls of initialize()

ASSUME RequestsAssumption == IsFiniteSet(Requests) /\ Tokens \in [Requests -> Nat]
ASSUME SizesAssumption ==
  /\ BlockSize \in Nat \ {0} /\ PoolBlocks \in Nat
  /\ MaxBatchSize \in Nat \ {0} /\ MaxTokensPerBatch \in Nat \ {0} /\ MaxQueueSize \in Nat
ASSUME StartsAssumption == MaxStarts \in Nat

VARIABLES
  pending,   \* pending_queue_
  active,    \* the keys of active_requests_
  completed, \* the keys of completed_requests_
  finished,  \* the requests whose finished flag is set
  fresh,     \* the requests pushed since the last batch was formed
  free,      \* free blocks of the KV cache
  held,      \* held[r]: the blocks allocated for r
  running,   \* running_
  pc,        \* where the scheduler thread is
  ghosts,    \* the batch: how many dead entries are not yet prefilled
  work,      \* the batch: its active requests
  todo,      \* those of work that are not yet prefilled
  stage,     \* where the thread in stop() is
  starts,    \* calls of initialize()
  served     \* history: engine calls that saw the content of r

batch == <<ghosts, work, todo>>
cache == <<free, held>>
vars == <<pending, active, completed, finished, fresh, cache, running, pc, batch, stage,
          starts, served>>

Init ==
  /\ pending = <<>> /\ active = {} /\ completed = {} /\ finished = {} /\ fresh = {}
  /\ free = PoolBlocks /\ held = [r \in Requests |-> 0]
  /\ running = FALSE /\ pc = "off" /\ ghosts = 0 /\ work = {} /\ todo = {}
  /\ stage = "none" /\ starts = 0 /\ served = [r \in Requests |-> 0]

Gone == pc = "gone"

---------------------------------------------------------------------------
\* initialize(): again only after a stop() that has returned.
Initialize ==
  /\ pc \in {"off", "exited"} /\ stage = "none" /\ starts < MaxStarts
  /\ running' = TRUE /\ pc' = "top" /\ starts' = starts + 1
  /\ UNCHANGED <<pending, active, completed, finished, fresh, cache, batch, stage, served>>

\* submit_request(): also before initialize() and after stop().
Submit(r) ==
  /\ ~Gone /\ Len(pending) < MaxQueueSize
  /\ r \notin ToSet(pending) \cup active \cup completed
  /\ pending' = Append(pending, r) /\ fresh' = fresh \cup {r}
  /\ UNCHANGED <<active, completed, finished, cache, running, pc, batch, stage, starts, served>>

\* stop(): the flag, the notification, the join.
StopFlag ==
  /\ running /\ stage = "none" /\ ~Gone
  /\ running' = FALSE /\ stage' = "join"
  /\ UNCHANGED <<pending, active, completed, finished, fresh, cache, pc, batch, starts, served>>

Join ==
  /\ stage = "join" /\ pc = "exited" /\ stage' = "none"
  /\ UNCHANGED <<pending, active, completed, finished, fresh, cache, running, pc, batch,
                 starts, served>>

---------------------------------------------------------------------------
BlocksNeeded(r) == (Tokens[r] + BlockSize - 1) \div BlockSize

TokensOf(s) == FoldLeft(LAMBDA n, r : n + Tokens[r], 0, s)
BlocksOf(s) == FoldLeft(LAMBDA n, r : n + BlocksNeeded(r), 0, s)

\* Slip: the budget also stops a request that is alone in its batch.
FitsAlways(i) ==
  /\ i <= MaxBatchSize
  /\ TokensOf(SubSeq(pending, 1, i)) <= MaxTokensPerBatch
  /\ BlocksOf(SubSeq(pending, 1, i)) <= free

\* Slip: a refused allocation is not noticed.
FitsAnyPool(i) ==
  /\ i <= MaxBatchSize
  /\ TokensOf(SubSeq(pending, 1, i - 1)) < MaxTokensPerBatch
  /\ i > 1 => TokensOf(SubSeq(pending, 1, i)) <= MaxTokensPerBatch

\* May the loop of form_batch go past its i-th request?
Fits(i) ==
  /\ i <= MaxBatchSize
  /\ TokensOf(SubSeq(pending, 1, i - 1)) < MaxTokensPerBatch
  /\ i > 1 => TokensOf(SubSeq(pending, 1, i)) <= MaxTokensPerBatch
  /\ BlocksOf(SubSeq(pending, 1, i)) <= free

\* How many requests form_batch takes from the queue.
Admitted == Max({k \in 0..Len(pending) : \A i \in 1..k : Fits(i)})

\* Slip: the first finished request that the hash map yields ends the loop.
JoiningUpToFinished(now, room) == {W \in SUBSET (now \ finished) :
  Cardinality(W) <= room /\ (Cardinality(W) = room \/ W = now \ finished \/ now \cap finished # {})}

\* The active requests that fill the batch, in the hash map's order.
Joining(now, room) ==
  LET open == now \ finished IN
    {W \in SUBSET open : Cardinality(W) = Min({room, Cardinality(open)})}

\* run_scheduler: the loop test, and the predicate of wait_for.
LoopTest ==
  /\ pc = "top" /\ pc' = IF running THEN "wait" ELSE "exited"
  /\ UNCHANGED <<pending, active, completed, finished, fresh, cache, running, batch, stage,
                 starts, served>>

Awake == ~running \/ pending # <<>> \/ active # {}

Sleep ==
  /\ pc = "wait" /\ ~Awake /\ pc' = "asleep"
  /\ UNCHANGED <<pending, active, completed, finished, fresh, cache, running, batch, stage,
                 starts, served>>

\* Slip: a wait without a timeout, whose predicate forgets running_.
ReturnedWithWork == pc \in {"wait", "asleep"} /\ (pending # <<>> \/ active # {})

\* The wait is over: by the predicate, by a notification or after batch_timeout.
Returned == (pc = "wait" /\ Awake) \/ pc = "asleep"

Break ==
  /\ Returned /\ ~running /\ pc' = "exited"
  /\ UNCHANGED <<pending, active, completed, finished, fresh, cache, running, batch, stage,
                 starts, served>>

\* Slip: the blocks are allocated before the token budget is looked at.
FormBatchAllocatesFirst ==
  LET k == Admitted
      taken == ToSet(SubSeq(pending, 1, k))
      cost == BlocksOf(SubSeq(pending, 1, Min({k + 1, Len(pending)})))
  IN /\ Returned /\ running
     /\ pending' = SubSeq(pending, k + 1, Len(pending)) /\ fresh' = {}
     /\ active' = active \cup taken /\ free' = free - Min({cost, free})
     /\ held' = [r \in Requests |-> IF r \in taken THEN BlocksNeeded(r) ELSE held[r]]
     /\ ghosts' = k /\ work' \in Joining(active \cup taken, MaxBatchSize - k) /\ todo' = work'
     /\ pc' = IF ghosts' = 0 /\ work' = {} THEN "top" ELSE "prefill"
     /\ UNCHANGED <<completed, finished, running, stage, starts, served>>

\* Slip: pop() is forgotten, and the request is admitted again, unfinished.
FormBatchKeeps ==
  LET k == Admitted
      taken == ToSet(SubSeq(pending, 1, k))
  IN /\ Returned /\ running
     /\ fresh' = {} /\ finished' = finished \ taken
     /\ active' = active \cup taken /\ free' = free - BlocksOf(SubSeq(pending, 1, k))
     /\ held' = [r \in Requests |-> IF r \in taken THEN BlocksNeeded(r) ELSE held[r]]
     /\ ghosts' = k /\ work' \in Joining(active \cup taken, MaxBatchSize - k) /\ todo' = work'
     /\ pc' = IF ghosts' = 0 /\ work' = {} THEN "top" ELSE "prefill"
     /\ UNCHANGED <<pending, completed, running, stage, starts, served>>

\* form_batch().
FormBatch ==
  LET k == Admitted
      taken == ToSet(SubSeq(pending, 1, k))
  IN /\ Returned /\ running
     /\ pending' = SubSeq(pending, k + 1, Len(pending)) /\ fresh' = {}
     /\ active' = active \cup taken /\ free' = free - BlocksOf(SubSeq(pending, 1, k))
     /\ held' = [r \in Requests |-> IF r \in taken THEN BlocksNeeded(r) ELSE held[r]]
     /\ ghosts' = k /\ work' \in Joining(active \cup taken, MaxBatchSize - k) /\ todo' = work'
     /\ pc' = IF ghosts' = 0 /\ work' = {} THEN "top" ELSE "prefill"
     /\ UNCHANGED <<completed, finished, running, stage, starts, served>>

---------------------------------------------------------------------------
\* run_prefill on one request: the whole answer, or an exception of which the
\* client is not told.
Complete(r) ==
  IF r \in finished THEN UNCHANGED <<finished, served>>
  ELSE /\ served' = [served EXCEPT ![r] = @ + 1] /\ finished' = finished \cup {r}

PrefillGhost ==
  /\ pc = "prefill" /\ ghosts > 0 /\ ghosts' = ghosts - 1
  /\ \/ UNCHANGED <<finished, pc, served>>
     \/ \E r \in fresh : Complete(r) /\ UNCHANGED pc
     \/ pc' = "gone" /\ UNCHANGED <<finished, served>>
  /\ UNCHANGED <<pending, active, completed, fresh, cache, running, work, todo, stage, starts>>

Prefill(r) ==
  /\ pc = "prefill" /\ ghosts = 0 /\ r \in todo
  /\ Complete(r) /\ todo' = todo \ {r}
  /\ UNCHANGED <<pending, active, completed, fresh, cache, running, pc, ghosts, work, stage,
                 starts>>

\* is_finished(): generated_tokens is never counted, so only the flag decides.
IsFinished(r) == r \in finished

\* The end of process_batch: finish_request for whatever is_finished - which returns
\* at once when the finished flag is set.
FinishBatch ==
  LET ending == {r \in work : IsFinished(r)} \ finished IN
    /\ pc = "prefill" /\ ghosts = 0 /\ todo = {} /\ pc' = "top" /\ work' = {}
    /\ finished' = finished \cup ending
    /\ free' = free + MapThenSumSet(LAMBDA r : held[r], ending)
    /\ held' = [r \in Requests |-> IF r \in ending THEN 0 ELSE held[r]]
    /\ active' = active \ ending /\ completed' = completed \cup ending
    /\ UNCHANGED <<pending, fresh, running, ghosts, todo, stage, starts, served>>

Scheduler == LoopTest \/ Sleep \/ Break \/ FormBatch \/ PrefillGhost \/ FinishBatch
             \/ \E r \in Requests : Prefill(r)

Next == Initialize \/ (\E r \in Requests : Submit(r)) \/ StopFlag \/ Join \/ Scheduler

Spec == Init /\ [][Next]_vars

\* The scheduler thread runs, engine calls end (text_engine.cpp bounds each by its
\* token limit), the thread in stop() runs; nobody owes a request.
FairSpec == Spec /\ WF_vars(Scheduler) /\ WF_vars(Join)

---------------------------------------------------------------------------
\* The shape of the state; free stays a number of blocks: the pool is never overdrawn.
TypeOK ==
  /\ pending \in Seq(Requests)
  /\ active \subseteq Requests /\ completed \subseteq Requests /\ finished \subseteq Requests
  /\ fresh \subseteq Requests /\ work \subseteq Requests /\ todo \subseteq work
  /\ free \in 0..PoolBlocks /\ held \in [Requests -> Nat] /\ served \in [Requests -> Nat]
  /\ running \in BOOLEAN /\ ghosts \in 0..MaxBatchSize /\ stage \in {"none", "join"}
  /\ pc \in {"off", "top", "wait", "asleep", "prefill", "exited", "gone"}
  /\ starts \in 0..MaxStarts

\* The content of a request reaches the engine once at most, although a request may be in a
\* batch twice, as a ghost and by its address in active_requests_, may be found by a ghost
\* before it is admitted, and is offered again after a restart.
ServedOnce == \A r \in Requests : served[r] <= 1

\* No two places hold one request, and the blocks of the pool are those free and those held by
\* the admitted: no admission takes from another, whatever finishes or restarts.
PoolAccounted ==
  /\ TypeOK
  /\ ToSet(pending) \cap active = {} /\ IsInjective(pending)
  /\ free + MapThenSumSet(LAMBDA r : held[r], Requests) = PoolBlocks
  /\ \A r \in Requests \ active : held[r] = 0

\* The comment at finish_request, "Clean up finished request" (continuous_batching.hpp:123), and
\* "Free KV cache blocks" (continuous_batching.cpp:289): once a batch is through, what is
\* finished holds no blocks.
BlocksComeBack == pc = "top" => \A r \in finished \cap active : held[r] = 0

\* An admitted request gets its engine call, unless the scheduler is stopped or the process
\* ends: ghosts may fill the whole batch, but not for ever.
AdmittedIsServed ==
  \A r \in Requests : r \in active ~> (r \in finished \/ ~running \/ Gone)

\* A request waits in the queue for nothing but blocks for the one at its head - one that
\* exceeds the token budget alone is let through alone.
HeadLacksBlocks == pending # <<>> /\ BlocksNeeded(Head(pending)) > free
WaitsOnlyForBlocks ==
  \A r \in Requests :
    r \in ToSet(pending) ~> (r \in active \/ HeadLacksBlocks \/ ~running \/ Gone)

\* stop() returns: a sleeping scheduler is woken or times out, a busy one reads running_.
StopReturns == stage = "join" ~> (stage = "none" \/ Gone)

\* Nothing waits for ever: not in the queue for a reason other than blocks, not
\* admitted beside finished requests and ghosts, not in stop() for a busy loop.
RequestsProgress == AdmittedIsServed /\ WaitsOnlyForBlocks /\ StopReturns
===========================================================================
