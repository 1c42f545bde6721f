--------------------------- MODULE PagedKVCache ---------------------------
(***************************************************************************)
(* The block manager of engine/paged_kv_cache.cpp: a FIFO of free blocks   *)
(* and one allocation record per sequence.                                 *)
(*                                                                         *)
(* Every operation runs under mutex_, so a call is one step; evict_lru     *)
(* alone takes one step per sequence that it frees, and the others wait    *)
(* meanwhile.  A call that is refused (no room, unknown sequence) changes  *)
(* nothing and is not an action.                                           *)
(***************************************************************************)
EXTENDS Integers, Sequences, Functions

CONSTANTS
  MaxBlocks,     \* config_.max_blocks
  BlockSize,     \* config_.block_size, in tokens
  TokenCounts,   \* the token counts that callers pass
  MaxSequences,  \* bound: how many sequences are ever allocated
  MaxAccess      \* bound: how far access_counter_ counts

ASSUME SizesAssumption  == MaxBlocks \in Nat /\ BlockSize \in Nat \ {0}
ASSUME TokensAssumption == TokenCounts \subseteq Nat
ASSUME BoundsAssumption == MaxSequences \in Nat /\ MaxAccess \in Nat

VARIABLES
  pool,            \* how many blocks initialize() created
  free,            \* free_blocks_
  inUse,           \* the blocks whose in_use flag is set
  allocations,     \* allocations_: sequence id -> block_ids, num_tokens, last_access
  next_block_id,   \* the next sequence id
  access_counter,
  need,            \* evict_lru: the blocks it is asked for; 0 while it does not run
  freed,           \* evict_lru: blocks_freed
  rest             \* evict_lru: what it has not visited of seq_access

eviction == <<need, freed, rest>>
vars == <<pool, free, inUse, allocations, next_block_id, access_counter, eviction>>

Blocks == 0 .. MaxBlocks - 1
Pool   == 0 .. pool - 1
Active == DOMAIN allocations

Init ==
  /\ pool = 0 /\ free = <<>> /\ inUse = {} /\ allocations = <<>>
  /\ next_block_id = 0 /\ access_counter = 0
  /\ need = 0 /\ freed = 0 /\ rest = {}

---------------------------------------------------------------------------
Unlocked == need = 0

BlocksNeeded(n) == (n + BlockSize - 1) \div BlockSize

\* The first n free blocks, and what is left of the queue without them.
Foremost(n) == SubSeq(free, 1, n)
Behind(n) == SubSeq(free, n + 1, Len(free))

\* Record the blocks and the length of sequence s, used just now.
Record(s, blocks, n) ==
  /\ allocations' = [q \in Active \cup {s} |->
       IF q = s THEN [block_ids |-> blocks, num_tokens |-> n, last_access |-> access_counter]
                ELSE allocations[q]]
  /\ access_counter < MaxAccess /\ access_counter' = access_counter + 1

\* Slip: the ids start at one.
InitializeFromOne ==
  /\ pool = 0
  /\ \E k \in 1..MaxBlocks : pool' = k /\ free' = [i \in 1..k |-> i]
  /\ UNCHANGED <<inUse, allocations, next_block_id, access_counter, eviction>>

\* initialize(): once per manager.  When the tensors of a block cannot be made,
\* the blocks before it stay in the queue.
Initialize ==
  /\ pool = 0
  /\ \E k \in 1..MaxBlocks : pool' = k /\ free' = [i \in 1..k |-> i - 1]
  /\ UNCHANGED <<inUse, allocations, next_block_id, access_counter, eviction>>

\* Slip: front() without pop().
AllocateKeepsFront(n) ==
  LET k == BlocksNeeded(n) IN
    /\ Unlocked /\ k <= Len(free) /\ next_block_id < MaxSequences
    /\ inUse' = inUse \cup Range(Foremost(k))
    /\ Record(next_block_id, Foremost(k), n)
    /\ next_block_id' = next_block_id + 1
    /\ UNCHANGED <<pool, free, eviction>>

\* allocate_blocks(num_tokens) of a new sequence.
Allocate(n) ==
  LET k == BlocksNeeded(n) IN
    /\ Unlocked /\ k <= Len(free) /\ next_block_id < MaxSequences
    /\ free' = Behind(k) /\ inUse' = inUse \cup Range(Foremost(k))
    /\ Record(next_block_id, Foremost(k), n)
    /\ next_block_id' = next_block_id + 1
    /\ UNCHANGED <<pool, eviction>>

\* Slip: the new tokens are rounded up on their own.
AdditionalRoundedUp(s, n) == BlocksNeeded(n)

\* The blocks that n more tokens need beyond those the old length needed.
Additional(s, n) ==
  BlocksNeeded(allocations[s].num_tokens + n) - BlocksNeeded(allocations[s].num_tokens)

\* append_blocks(sequence_id, num_new_tokens).
AppendBlocks(s, n) ==
  LET k == Additional(s, n) IN
    /\ Unlocked /\ k <= Len(free)
    /\ free' = Behind(k) /\ inUse' = inUse \cup Range(Foremost(k))
    /\ Record(s, allocations[s].block_ids \o Foremost(k), allocations[s].num_tokens + n)
    /\ UNCHANGED <<pool, next_block_id, eviction>>

\* Slip: the access is recorded, the counter does not move.
TouchInPlace(s) ==
  /\ Unlocked
  /\ allocations' = [allocations EXCEPT ![s].last_access = access_counter]
  /\ UNCHANGED <<pool, free, inUse, next_block_id, access_counter, eviction>>

Touch(s) ==
  /\ Unlocked /\ Record(s, allocations[s].block_ids, allocations[s].num_tokens)
  /\ UNCHANGED <<pool, free, inUse, next_block_id, eviction>>

\* Slip: the record goes, its blocks are not pushed back.
ReleaseForgets(s) ==
  /\ inUse' = inUse \ Range(allocations[s].block_ids)
  /\ allocations' = Restrict(allocations, Active \ {s})
  /\ UNCHANGED free

\* Slip: the blocks are pushed back, the record stays.
ReleaseKeepsRecord(s) ==
  /\ free' = free \o allocations[s].block_ids
  /\ inUse' = inUse \ Range(allocations[s].block_ids)
  /\ UNCHANGED allocations

\* free_sequence_unlocked.
Release(s) ==
  /\ free' = free \o allocations[s].block_ids
  /\ inUse' = inUse \ Range(allocations[s].block_ids)
  /\ allocations' = Restrict(allocations, Active \ {s})

FreeSequence(s) ==
  /\ Unlocked /\ Release(s)
  /\ UNCHANGED <<pool, next_block_id, access_counter, eviction>>

---------------------------------------------------------------------------
(* evict_lru(num_blocks_needed).                                           *)

EvictBegin(n) ==
  /\ Unlocked /\ Len(free) < n
  /\ need' = n /\ freed' = 0 /\ rest' = Active
  /\ UNCHANGED <<pool, free, inUse, allocations, next_block_id, access_counter>>

\* The next sequence of the sorted list.
Oldest(s) == \A q \in rest : allocations[s].last_access <= allocations[q].last_access

\* Slip: the tokens are counted, not the blocks.
EvictCountsTokens(s) ==
  /\ need > 0 /\ freed < need /\ Oldest(s)
  /\ freed' = freed + allocations[s].num_tokens
  /\ rest' = rest \ {s}
  /\ Release(s)
  /\ UNCHANGED <<pool, next_block_id, access_counter, need>>

Evict(s) ==
  /\ need > 0 /\ freed < need /\ Oldest(s)
  /\ freed' = freed + Len(allocations[s].block_ids)
  /\ rest' = rest \ {s}
  /\ Release(s)
  /\ UNCHANGED <<pool, next_block_id, access_counter, need>>

EvictReturn ==
  /\ need > 0 /\ (freed >= need \/ rest = {})
  /\ need' = 0 /\ freed' = 0 /\ rest' = {}
  /\ UNCHANGED <<pool, free, inUse, allocations, next_block_id, access_counter>>

---------------------------------------------------------------------------
Next == \/ Initialize
        \/ \E n \in TokenCounts : Allocate(n) \/ \E s \in Active : AppendBlocks(s, n)
        \/ \E s \in Active : Touch(s) \/ FreeSequence(s)
        \/ \E n \in 1 .. MaxBlocks + 1 : EvictBegin(n)
        \/ \E s \in rest : Evict(s)
        \/ EvictReturn

Spec == Init /\ [][Next]_vars

---------------------------------------------------------------------------
(* Properties.                                                             *)

Allocation == [block_ids : Seq(Pool), num_tokens : Nat, last_access : Nat]

\* Every variable has its type.
TypeOK ==
  /\ pool \in 0..MaxBlocks /\ free \in Seq(Pool) /\ inUse \subseteq Pool
  /\ next_block_id \in Nat /\ access_counter \in Nat
  /\ Active \subseteq 0 .. next_block_id - 1 /\ allocations \in [Active -> Allocation]
  /\ need \in Nat /\ freed \in Nat /\ rest \subseteq Active

BlocksOf(s) == Range(allocations[s].block_ids)
Owned == UNION {BlocksOf(s) : s \in Active}

\* No block is in two places: not twice in the queue, not twice in a sequence,
\* not in two sequences, not free and owned (allocate, append, free, evict).
OwnedOnce ==
  /\ IsInjective(free)
  /\ \A s \in Active : IsInjective(allocations[s].block_ids) /\ BlocksOf(s) \cap Range(free) = {}
  /\ \A s, q \in Active : s # q => BlocksOf(s) \cap BlocksOf(q) = {}

\* No block gets lost: the queue and the sequences together hold every block
\* that initialize() created, and in_use marks those of the sequences.
NoneLost == Range(free) \cup Owned = Pool /\ inUse = Owned

\* A sequence has exactly the blocks its length needs, however it grew: append
\* derives the old number from num_tokens, not from block_ids.
BlocksCoverTokens ==
  \A s \in Active : Len(allocations[s].block_ids) = BlocksNeeded(allocations[s].num_tokens)

\* The books of the pool: every block is in one place, none is lost, and each
\* sequence has as many as its length needs, over any history of calls.
BlocksAccounted == TypeOK /\ OwnedOnce /\ NoneLost /\ BlocksCoverTokens

\* An eviction frees sequences in the order of their last use, and no two are
\* equally old: what it spares was used after what it freed (evict_lru, and
\* every place that advances access_counter_).
EvictsOldestFirst ==
  [][\A s \in Active \ DOMAIN allocations' : need > 0 =>
       \A q \in DOMAIN allocations' : allocations[s].last_access < allocations[q].last_access]_vars

\* When evict_lru returns, as many blocks are free as it was asked for, unless
\* it has freed everything there was.
EvictionMakesRoom ==
  [][need > 0 /\ need' = 0 => Len(free) >= need \/ Active = {}]_vars

\* The manager implements the abstract pool: blocks change hands only between
\* the pool and a sequence, and a sequence gives back all it has in one step.
Owner == [b \in Blocks |->
  IF b \notin Pool THEN -2
  ELSE IF b \in Owned THEN CHOOSE s \in Active : b \in BlocksOf(s) ELSE -1]

Abstract == INSTANCE BlockPool WITH
  owner <- Owner, Sequences <- 0 .. MaxSequences - 1, Nobody <- -1, Absent <- -2

ImplementsBlockPool == Abstract!Spec

---------------------------------------------------------------------------
(* What a comment says, and the code does not do.                          *)

\* paged_kv_cache.hpp:79: evict_lru evicts sequences if needed.  Then it frees
\* none once enough blocks are free.
EvictsOnlyIfNeeded ==
  [][need > 0 /\ DOMAIN allocations' # Active => Len(free) < need]_vars
===========================================================================
