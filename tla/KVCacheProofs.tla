--------------------------- MODULE KVCacheProofs ---------------------------
(***************************************************************************)
(* Theorems about the blocks of the KV cache: about PagedKVCache, which    *)
(* owns them, for any number of blocks, any block size and any lengths,    *)
(* and about PrefixCache, which hands out their ids again, for any         *)
(* prompts, sizes and TTL.                                                 *)
(*                                                                         *)
(* PagedKVCache: two operations move blocks, Growth (allocate, append,     *)
(* touch) takes them from the front of the queue, Release (free, evict)    *)
(* pushes them back.  The inductive invariant IInv adds to the properties  *)
(* that last_access differs between sequences (AgesDistinct) and that an   *)
(* eviction still has every sequence before it and frees at least what it  *)
(* counts (EvictSound).                                                    *)
(*                                                                         *)
(* PrefixCache: beside the types the invariant CacheIInv says that an      *)
(* entry has the blocks of its tokens, was not used before it was made,    *)
(* and that the entry of the last hit, while it is there, was not used     *)
(* since.                                                                  *)
(***************************************************************************)
EXTENDS PagedKVCache, PrefixCache, SequenceTheorems, FiniteSetTheorems, WellFoundedInduction,
        TLAPS

---------------------------------------------------------------------------
(* Sequences without repetitions, and their two operations here.           *)

\* Taking the first k elements off a queue splits its elements.
LEMMA SplitQueue ==
  ASSUME NEW S, NEW q \in Seq(S), IsInjective(q), NEW k \in 0..Len(q)
  PROVE  LET a == SubSeq(q, 1, k)  b == SubSeq(q, k + 1, Len(q)) IN
         /\ a \in Seq(S) /\ b \in Seq(S) /\ Len(a) = k /\ Len(b) = Len(q) - k
         /\ IsInjective(a) /\ IsInjective(b)
         /\ Range(a) \cap Range(b) = {} /\ Range(a) \cup Range(b) = Range(q)
<1> DEFINE a == SubSeq(q, 1, k)
           b == SubSeq(q, k + 1, Len(q))
<1>1. /\ a \in Seq(S) /\ Len(a) = k /\ DOMAIN a = 1..k
      /\ \A i \in 1..k : a[i] = q[i]
  BY SubSeqProperties
<1>2. /\ b \in Seq(S) /\ Len(b) = Len(q) - k /\ DOMAIN b = 1 .. Len(q) - k
      /\ \A i \in 1 .. Len(q) - k : b[i] = q[k + i]
  BY SubSeqProperties
<1>3. /\ Len(q) \in Nat /\ DOMAIN q = 1..Len(q)
      /\ \A i, j \in 1..Len(q) : q[i] = q[j] => i = j
  BY DEF IsInjective
<1> HIDE DEF a, b
<1>4. IsInjective(a)
  BY <1>1, <1>3 DEF IsInjective
<1>5. IsInjective(b)
  <2> SUFFICES ASSUME NEW i \in 1 .. Len(q) - k, NEW j \in 1 .. Len(q) - k, b[i] = b[j]
               PROVE  i = j
    BY <1>2 DEF IsInjective
  <2>1. q[k + i] = q[k + j] /\ k + i \in 1..Len(q) /\ k + j \in 1..Len(q)
    BY <1>2, <1>3
  <2>2. QED BY <2>1, <1>3
<1>6. Range(a) \cap Range(b) = {}
  <2> SUFFICES ASSUME NEW i \in 1..k, NEW j \in 1 .. Len(q) - k, a[i] = b[j] PROVE FALSE
    BY <1>1, <1>2 DEF Range
  <2>1. q[i] = q[k + j] /\ i \in 1..Len(q) /\ k + j \in 1..Len(q)
    BY <1>1, <1>2, <1>3
  <2>2. QED BY <2>1, <1>3
<1>7. Range(a) \cup Range(b) = Range(q)
  <2>1. Range(a) \subseteq Range(q)
    BY <1>1, <1>3 DEF Range
  <2>2. Range(b) \subseteq Range(q)
    <3> SUFFICES ASSUME NEW i \in 1 .. Len(q) - k PROVE b[i] \in Range(q)
      BY <1>2 DEF Range
    <3>1. b[i] = q[k + i] /\ k + i \in 1..Len(q)
      BY <1>2, <1>3
    <3>2. QED BY <3>1, <1>3 DEF Range
  <2>3. ASSUME NEW i \in 1..Len(q) PROVE q[i] \in Range(a) \cup Range(b)
    <3>1. CASE i <= k
      BY <3>1, <1>1 DEF Range
    <3>2. CASE i > k
      <4>1. i - k \in 1 .. Len(q) - k /\ b[i - k] = q[k + (i - k)] /\ k + (i - k) = i
        BY <3>2, <1>2, <1>3
      <4>2. QED BY <4>1, <1>2 DEF Range
    <3>3. QED BY <3>1, <3>2, <1>3
  <2>4. QED BY <2>1, <2>2, <2>3, <1>3 DEF Range
<1>8. QED BY <1>1, <1>2, <1>4, <1>5, <1>6, <1>7 DEF a, b

\* Appending a sequence of other elements.
LEMMA JoinQueues ==
  ASSUME NEW S, NEW a \in Seq(S), NEW b \in Seq(S), IsInjective(a), IsInjective(b),
         Range(a) \cap Range(b) = {}
  PROVE  /\ a \o b \in Seq(S) /\ Len(a \o b) = Len(a) + Len(b)
         /\ IsInjective(a \o b) /\ Range(a \o b) = Range(a) \cup Range(b)
<1> DEFINE c == a \o b
<1>1. /\ c \in Seq(S) /\ Len(c) = Len(a) + Len(b) /\ DOMAIN c = 1 .. Len(a) + Len(b)
      /\ \A i \in 1..Len(a) : c[i] = a[i]
      /\ \A i \in 1 .. Len(a) + Len(b) : i > Len(a) => c[i] = b[i - Len(a)]
  BY ConcatProperties
<1>2. /\ Len(a) \in Nat /\ DOMAIN a = 1..Len(a) /\ Len(b) \in Nat /\ DOMAIN b = 1..Len(b)
      /\ \A i, j \in 1..Len(a) : a[i] = a[j] => i = j
      /\ \A i, j \in 1..Len(b) : b[i] = b[j] => i = j
      /\ \A i \in 1..Len(a), j \in 1..Len(b) : a[i] # b[j]
  BY DEF IsInjective, Range
<1> HIDE DEF c
<1>3. IsInjective(c)
  <2> SUFFICES ASSUME NEW i \in DOMAIN c, NEW j \in DOMAIN c, c[i] = c[j] PROVE i = j
    BY DEF IsInjective
  <2>1. CASE i <= Len(a) /\ j <= Len(a)
    BY <2>1, <1>1, <1>2
  <2>2. CASE i > Len(a) /\ j > Len(a)
    <3>1. i - Len(a) \in 1..Len(b) /\ j - Len(a) \in 1..Len(b)
      BY <2>2, <1>1, <1>2
    <3>2. b[i - Len(a)] = b[j - Len(a)]
      BY <2>2, <1>1
    <3>3. i - Len(a) = j - Len(a)
      BY <3>1, <3>2, <1>2
    <3>4. QED BY <3>3, <1>1, <1>2
  <2>3. CASE i <= Len(a) /\ j > Len(a)
    BY <2>3, <1>1, <1>2
  <2>4. CASE i > Len(a) /\ j <= Len(a)
    BY <2>4, <1>1, <1>2
  <2>5. QED BY <2>1, <2>2, <2>3, <2>4, <1>1, <1>2
<1>4. Range(c) = Range(a) \cup Range(b)
  <2>1. ASSUME NEW i \in DOMAIN c PROVE c[i] \in Range(a) \cup Range(b)
    <3>1. CASE i <= Len(a)
      BY <3>1, <1>1, <1>2 DEF Range
    <3>2. CASE i > Len(a)
      <4>1. c[i] = b[i - Len(a)] /\ i - Len(a) \in 1..Len(b)
        BY <3>2, <1>1, <1>2
      <4>2. QED BY <4>1, <1>2 DEF Range
    <3>3. i \in Nat
      BY <1>1
    <3>4. QED BY <3>1, <3>2, <3>3, <1>2
  <2>2. Range(a) \subseteq Range(c)
    BY <1>1, <1>2 DEF Range
  <2>3. ASSUME NEW j \in 1..Len(b) PROVE b[j] \in Range(c)
    <3>1. PICK i \in 1 .. Len(a) + Len(b) : i > Len(a) /\ i - Len(a) = j
      <4>1. Len(a) + j \in 1 .. Len(a) + Len(b) /\ Len(a) + j > Len(a) /\ (Len(a) + j) - Len(a) = j
        BY <1>2
      <4>2. QED BY <4>1
    <3>2. c[i] = b[j]
      BY <3>1, <1>1
    <3>3. i \in DOMAIN c
      BY <1>1
    <3>4. QED BY <3>2, <3>3 DEF Range
  <2>4. Range(c) \subseteq Range(a) \cup Range(b)
    BY <2>1 DEF Range
  <2>5. Range(b) \subseteq Range(c)
    BY <2>3, <1>2 DEF Range
  <2>6. QED BY <2>2, <2>4, <2>5
<1>5. QED BY <1>1, <1>3, <1>4 DEF c

\* The number of blocks grows with the length.
LEMMA BlocksNeededType ==
  ASSUME NEW n \in Nat
  PROVE  BlocksNeeded(n) \in Nat
BY SizesAssumption DEF BlocksNeeded

LEMMA BlocksNeededMonotone ==
  ASSUME NEW m \in Nat, NEW n \in Nat
  PROVE  BlocksNeeded(m) <= BlocksNeeded(m + n)
BY SizesAssumption DEF BlocksNeeded

---------------------------------------------------------------------------
AgesDistinct ==
  /\ \A s \in Active : allocations[s].last_access < access_counter
  /\ \A s, q \in Active : s # q => allocations[s].last_access # allocations[q].last_access

EvictSound == /\ need = 0 => rest = {}
              /\ need > 0 => rest = Active /\ freed <= Len(free)

IInv == TypeOK /\ OwnedOnce /\ NoneLost /\ BlocksCoverTokens /\ AgesDistinct /\ EvictSound

\* Sequence s, new or known, gets the first k free blocks.
LEMMA Growth ==
  ASSUME IInv, NEW s \in Nat, NEW old \in Seq(Pool), NEW k \in 0..Len(free), NEW n \in Nat,
         s \in Active => old = allocations[s].block_ids,
         s \notin Active => old = <<>>,
         Len(old) + k = BlocksNeeded(n),
         free' = Behind(k), inUse' = inUse \cup Range(Foremost(k)),
         Record(s, old \o Foremost(k), n), pool' = pool
  PROVE  /\ free' \in Seq(Pool)' /\ (inUse \subseteq Pool)'
         /\ Active' = Active \cup {s} /\ allocations' \in [Active' -> Allocation']
         /\ OwnedOnce' /\ NoneLost' /\ BlocksCoverTokens' /\ AgesDistinct'
<1> USE DEF IInv
<1> DEFINE F == Foremost(k)
           B == Behind(k)
           N == old \o F
<1>1. /\ F \in Seq(Pool) /\ B \in Seq(Pool) /\ Len(F) = k
      /\ IsInjective(F) /\ IsInjective(B)
      /\ Range(F) \cap Range(B) = {} /\ Range(F) \cup Range(B) = Range(free)
  BY SplitQueue DEF TypeOK, OwnedOnce, Foremost, Behind
<1>2. /\ IsInjective(old) /\ Range(old) \cap Range(free) = {}
      /\ \A q \in Active : q # s => Range(old) \cap BlocksOf(q) = {}
      /\ s \in Active => BlocksOf(s) = Range(old)
      /\ s \notin Active => Range(old) = {}
  <2>1. CASE s \in Active
    BY <2>1 DEF OwnedOnce, BlocksOf
  <2>2. CASE s \notin Active
    BY <2>2 DEF IsInjective, Range
  <2>3. QED BY <2>1, <2>2
<1>3. free' = B /\ inUse' = inUse \cup Range(F) /\ Pool' = Pool
  BY DEF Pool
<1> HIDE DEF F, B
<1>4. /\ N \in Seq(Pool) /\ Len(N) = Len(old) + k /\ IsInjective(N)
      /\ Range(N) = Range(old) \cup Range(F)
  <2>1. Range(old) \cap Range(F) = {}
    BY <1>1, <1>2
  <2>2. QED BY <1>1, <1>2, <2>1, JoinQueues
<1>5. /\ allocations' = [q \in Active \cup {s} |->
           IF q = s THEN [block_ids |-> N, num_tokens |-> n, last_access |-> access_counter]
                    ELSE allocations[q]]
      /\ access_counter' = access_counter + 1
  BY DEF Record, F
<1> HIDE DEF N
<1>6. /\ Active' = Active \cup {s}
      /\ allocations'[s].block_ids = N /\ allocations'[s].num_tokens = n
      /\ allocations'[s].last_access = access_counter
      /\ \A q \in Active : q # s => allocations'[q] = allocations[q]
  BY <1>5 DEF Active
<1>7. allocations' \in [Active' -> Allocation']
  <2>1. [block_ids |-> N, num_tokens |-> n, last_access |-> access_counter] \in Allocation
    BY <1>4 DEF Allocation, TypeOK
  <2>2. \A q \in Active : allocations[q] \in Allocation
    BY DEF TypeOK
  <2>3. Allocation' = Allocation
    BY <1>3 DEF Allocation
  <2>4. QED BY <1>5, <1>6, <2>1, <2>2, <2>3
<1>8. /\ BlocksOf(s)' = Range(N)
      /\ \A q \in Active : q # s => BlocksOf(q)' = BlocksOf(q)
  BY <1>6 DEF BlocksOf
<1>9. OwnedOnce'
  <2>1. IsInjective(free)'
    BY <1>1, <1>3
  <2>2. ASSUME NEW q \in Active'
        PROVE  IsInjective(allocations'[q].block_ids) /\ BlocksOf(q)' \cap Range(free') = {}
    <3>1. CASE q = s
      BY <3>1, <1>1, <1>2, <1>3, <1>4, <1>6, <1>8
    <3>2. CASE q # s
      <4>1. q \in Active /\ IsInjective(allocations[q].block_ids) /\ BlocksOf(q) \cap Range(free) = {}
        BY <3>2, <1>6 DEF OwnedOnce
      <4>2. QED BY <4>1, <3>2, <1>1, <1>3, <1>6, <1>8
    <3>3. QED BY <3>1, <3>2
  <2>3. ASSUME NEW q \in Active, q # s PROVE BlocksOf(s)' \cap BlocksOf(q)' = {}
    <3>1. BlocksOf(q) \cap Range(free) = {}
      BY DEF OwnedOnce
    <3>2. QED BY <2>3, <3>1, <1>1, <1>2, <1>4, <1>8
  <2>4. ASSUME NEW p \in Active', NEW q \in Active', p # q PROVE BlocksOf(p)' \cap BlocksOf(q)' = {}
    <3>1. CASE p # s /\ q # s
      BY <3>1, <2>4, <1>6, <1>8 DEF OwnedOnce
    <3>2. CASE p = s \/ q = s
      BY <3>2, <2>3, <2>4, <1>6
    <3>3. QED BY <3>1, <3>2
  <2>5. QED BY <2>1, <2>2, <2>4 DEF OwnedOnce
<1>10. Owned' = Owned \cup Range(F)
  <2>1. Owned' = Range(N) \cup UNION {BlocksOf(q) : q \in Active \ {s}}
    BY <1>6, <1>8 DEF Owned
  <2>2. Owned = Range(old) \cup UNION {BlocksOf(q) : q \in Active \ {s}}
    BY <1>2 DEF Owned
  <2>3. QED BY <2>1, <2>2, <1>4
<1>11. NoneLost'
  BY <1>1, <1>3, <1>10 DEF NoneLost
<1>12. BlocksCoverTokens'
  <2> SUFFICES ASSUME NEW q \in Active'
               PROVE  Len(allocations'[q].block_ids) = BlocksNeeded(allocations'[q].num_tokens)
    BY DEF BlocksCoverTokens, BlocksNeeded
  <2>1. CASE q = s
    BY <2>1, <1>4, <1>6
  <2>2. CASE q # s
    BY <2>2, <1>6 DEF BlocksCoverTokens
  <2>3. QED BY <2>1, <2>2
<1>13. AgesDistinct'
  <2>1. \A q \in Active : allocations[q].last_access \in Nat
    BY DEF TypeOK, Allocation
  <2>2. access_counter \in Nat
    BY DEF TypeOK
  <2>3. \A q \in Active : q # s => allocations'[q].last_access = allocations[q].last_access
    BY <1>6
  <2>4. QED BY <2>1, <2>2, <2>3, <1>5, <1>6 DEF AgesDistinct
<1>14. free' \in Seq(Pool)' /\ (inUse \subseteq Pool)'
  <2>1. Range(F) \subseteq Pool
    BY <1>1 DEF Range
  <2>2. QED BY <1>1, <1>3, <2>1 DEF TypeOK
<1>15. QED BY <1>6, <1>7, <1>9, <1>11, <1>12, <1>13, <1>14

\* Sequence s gives back its blocks.
LEMMA Shrinkage ==
  ASSUME IInv, NEW s \in Active, Release(s), pool' = pool, access_counter' = access_counter
  PROVE  /\ free' \in Seq(Pool)' /\ (inUse \subseteq Pool)'
         /\ Len(free') = Len(free) + Len(allocations[s].block_ids)
         /\ Active' = Active \ {s} /\ allocations' \in [Active' -> Allocation']
         /\ OwnedOnce' /\ NoneLost' /\ BlocksCoverTokens' /\ AgesDistinct'
<1> USE DEF IInv
<1> DEFINE old == allocations[s].block_ids
<1>1. /\ old \in Seq(Pool) /\ IsInjective(old) /\ Range(old) \cap Range(free) = {}
      /\ free \in Seq(Pool) /\ IsInjective(free)
  BY DEF TypeOK, Allocation, OwnedOnce, BlocksOf
<1>2. /\ free' = free \o old /\ inUse' = inUse \ Range(old)
      /\ allocations' = [q \in Active \ {s} |-> allocations[q]]
  BY DEF Release, Restrict
<1>3. BlocksOf(s) = Range(old)
  BY DEF BlocksOf
<1> HIDE DEF old
<1>4. /\ free' \in Seq(Pool) /\ Len(free') = Len(free) + Len(old)
      /\ IsInjective(free') /\ Range(free') = Range(free) \cup Range(old)
  BY <1>1, <1>2, JoinQueues
<1>5. Pool' = Pool /\ Allocation' = Allocation
  BY DEF Pool, Allocation
<1>6. /\ Active' = Active \ {s}
      /\ \A q \in Active' : allocations'[q] = allocations[q] /\ BlocksOf(q)' = BlocksOf(q)
  BY <1>2 DEF Active, BlocksOf
<1>7. allocations' \in [Active' -> Allocation']
  BY <1>2, <1>5, <1>6 DEF TypeOK
<1>8. OwnedOnce'
  <2>1. ASSUME NEW q \in Active' PROVE BlocksOf(q)' \cap Range(free') = {}
    BY <1>3, <1>4, <1>6 DEF OwnedOnce
  <2>2. ASSUME NEW q \in Active' PROVE IsInjective(allocations'[q].block_ids)
    BY <1>6 DEF OwnedOnce
  <2>3. ASSUME NEW p \in Active', NEW q \in Active', p # q PROVE BlocksOf(p)' \cap BlocksOf(q)' = {}
    BY <2>3, <1>6 DEF OwnedOnce
  <2>4. QED BY <2>1, <2>2, <2>3, <1>4 DEF OwnedOnce
<1>9. Owned' = Owned \ Range(old)
  <2>1. Owned' = UNION {BlocksOf(q) : q \in Active \ {s}}
    BY <1>6 DEF Owned
  <2>2. \A q \in Active \ {s} : BlocksOf(q) \cap Range(old) = {}
    BY <1>3 DEF OwnedOnce
  <2>3. Owned = Range(old) \cup UNION {BlocksOf(q) : q \in Active \ {s}}
    BY <1>3 DEF Owned
  <2>4. QED BY <2>1, <2>2, <2>3
<1>10. NoneLost'
  <2>1. Range(old) \subseteq Owned
    BY <1>3 DEF Owned
  <2>2. QED BY <2>1, <1>2, <1>4, <1>5, <1>9 DEF NoneLost
<1>11. BlocksCoverTokens'
  BY <1>6 DEF BlocksCoverTokens, BlocksNeeded
<1>12. AgesDistinct'
  BY <1>6 DEF AgesDistinct
<1>13. free' \in Seq(Pool)' /\ (inUse \subseteq Pool)'
  BY <1>2, <1>4, <1>5 DEF TypeOK
<1>14. QED BY <1>4, <1>6, <1>7, <1>8, <1>10, <1>11, <1>12, <1>13 DEF old

---------------------------------------------------------------------------
(* The operations.                                                         *)

LEMMA InitializeStep ==
  ASSUME IInv, Initialize
  PROVE  IInv'
<1> USE DEF IInv
<1>1. PICK k \in 1..MaxBlocks : pool' = k /\ free' = [i \in 1..k |-> i - 1]
  BY DEF Initialize
<1>2. /\ pool = 0
      /\ UNCHANGED <<inUse, allocations, next_block_id, access_counter, need, freed, rest>>
  BY DEF Initialize, eviction
<1>3. Pool = {} /\ Pool' = 0 .. k - 1
  BY <1>1, <1>2, SizesAssumption DEF Pool
<1>4. free' \in Seq(Pool') /\ Len(free') = k /\ IsInjective(free') /\ Range(free') = Pool'
  <2>1. k \in Nat /\ \A i \in 1..k : i - 1 \in 0 .. k - 1
    BY SizesAssumption
  <2>2. free' \in Seq(Pool') /\ Len(free') = k
    BY <1>1, <1>3, <2>1, IsASeq
  <2>3. IsInjective(free')
    BY <1>1, <2>1 DEF IsInjective
  <2>4. \A j \in 0 .. k - 1 : j + 1 \in 1..k /\ (j + 1) - 1 = j
    BY <2>1
  <2>5. Range(free') \subseteq Pool'
    BY <1>1, <1>3, <2>1 DEF Range
  <2>6. ASSUME NEW j \in 0 .. k - 1 PROVE j \in Range(free')
    <3>1. free'[j + 1] = j /\ j + 1 \in DOMAIN free'
      BY <1>1, <2>4
    <3>2. QED BY <3>1 DEF Range
  <2>7. QED BY <2>2, <2>3, <2>5, <2>6, <1>3
<1>5. Owned = {} /\ inUse = {} /\ Range(free) = {}
  BY <1>3 DEF NoneLost
<1>6. Active' = Active /\ Owned' = Owned /\ \A s \in Active : BlocksOf(s)' = BlocksOf(s)
  BY <1>2 DEF Active, Owned, BlocksOf
<1>7. \A s \in Active : BlocksOf(s) = {}
  BY <1>5 DEF Owned
<1>8. allocations' \in [Active' -> Allocation']
  <2>1. Seq(Pool) \subseteq Seq(Pool')
    BY <1>3, SeqMonotonic
  <2>2. Allocation \subseteq Allocation'
    BY <2>1 DEF Allocation
  <2>3. QED BY <1>2, <1>6, <2>2 DEF TypeOK
<1>9. TypeOK'
  BY <1>1, <1>2, <1>4, <1>5, <1>6, <1>8, SizesAssumption DEF TypeOK
<1>10. OwnedOnce'
  BY <1>2, <1>4, <1>6, <1>7 DEF OwnedOnce
<1>11. NoneLost'
  BY <1>2, <1>4, <1>5, <1>6 DEF NoneLost
<1>12. BlocksCoverTokens' /\ AgesDistinct'
  BY <1>2, <1>6 DEF BlocksCoverTokens, BlocksNeeded, AgesDistinct
<1>13. EvictSound'
  <2>1. Len(free) = 0
    BY <1>3, EmptySeq, LenProperties DEF TypeOK
  <2>2. QED BY <1>2, <1>4, <1>6, <2>1, SizesAssumption DEF EvictSound, TypeOK
<1>14. QED BY <1>9, <1>10, <1>11, <1>12, <1>13

LEMMA AllocateStep ==
  ASSUME IInv, NEW n \in TokenCounts, Allocate(n)
  PROVE  IInv'
<1> USE DEF IInv
<1> DEFINE k == BlocksNeeded(n)
<1>1. /\ need = 0 /\ k <= Len(free) /\ free' = Behind(k) /\ inUse' = inUse \cup Range(Foremost(k))
      /\ Record(next_block_id, Foremost(k), n) /\ next_block_id' = next_block_id + 1
      /\ UNCHANGED <<pool, need, freed, rest>>
  BY DEF Allocate, Unlocked, eviction
<1>2. n \in Nat /\ k \in 0..Len(free) /\ next_block_id \in Nat
  BY <1>1, TokensAssumption, BlocksNeededType, LenProperties DEF TypeOK
<1>3. next_block_id \notin Active
  BY DEF TypeOK
<1>4. <<>> \in Seq(Pool) /\ Len(<<>>) = 0 /\ <<>> \o Foremost(k) = Foremost(k)
  BY <1>2, SplitQueue, ConcatEmptySeq, EmptySeq DEF TypeOK, OwnedOnce, Foremost
<1>5. Len(<<>>) + k = k
  BY <1>2, <1>4
<1> HIDE DEF k
<1>6. /\ free' \in Seq(Pool)' /\ (inUse \subseteq Pool)'
      /\ Active' = Active \cup {next_block_id} /\ allocations' \in [Active' -> Allocation']
      /\ OwnedOnce' /\ NoneLost' /\ BlocksCoverTokens' /\ AgesDistinct'
  BY <1>1, <1>2, <1>3, <1>4, <1>5, Growth DEF k
<1>7. TypeOK'
  <2>1. access_counter' \in Nat
    BY <1>1 DEF Record, TypeOK
  <2>2. Active' \subseteq 0 .. next_block_id' - 1
    BY <1>1, <1>6 DEF TypeOK
  <2>3. rest' \subseteq Active'
    BY <1>1, <1>6 DEF TypeOK
  <2>4. QED BY <2>1, <2>2, <2>3, <1>1, <1>6 DEF TypeOK
<1>8. EvictSound'
  BY <1>1 DEF EvictSound
<1>9. QED BY <1>6, <1>7, <1>8

\* append_blocks and touch_sequence.
LEMMA GrowKnownStep ==
  ASSUME IInv, NEW s \in Active, NEW k \in 0..Len(free), NEW n \in Nat,
         Len(allocations[s].block_ids) + k = BlocksNeeded(n), need = 0,
         free' = Behind(k), inUse' = inUse \cup Range(Foremost(k)),
         Record(s, allocations[s].block_ids \o Foremost(k), n),
         UNCHANGED <<pool, next_block_id, eviction>>
  PROVE  IInv'
<1> USE DEF IInv
<1>1. allocations[s].block_ids \in Seq(Pool) /\ s \in Nat
  BY DEF TypeOK, Allocation
<1>2. /\ free' \in Seq(Pool)' /\ (inUse \subseteq Pool)'
      /\ Active' = Active \cup {s} /\ allocations' \in [Active' -> Allocation']
      /\ OwnedOnce' /\ NoneLost' /\ BlocksCoverTokens' /\ AgesDistinct'
  BY <1>1, Growth
<1>3. TypeOK'
  <2>1. access_counter' \in Nat
    BY DEF Record, TypeOK
  <2>2. UNCHANGED <<pool, next_block_id, need, freed, rest>>
    BY DEF eviction
  <2>3. QED BY <2>1, <2>2, <1>2 DEF TypeOK
<1>4. EvictSound'
  BY DEF EvictSound, eviction
<1>5. QED BY <1>2, <1>3, <1>4

LEMMA AppendStep ==
  ASSUME IInv, NEW s \in Active, NEW n \in TokenCounts, AppendBlocks(s, n)
  PROVE  IInv'
<1> USE DEF IInv
<1> DEFINE k == Additional(s, n)
           total == allocations[s].num_tokens + n
<1>1. /\ need = 0 /\ k <= Len(free) /\ free' = Behind(k) /\ inUse' = inUse \cup Range(Foremost(k))
      /\ Record(s, allocations[s].block_ids \o Foremost(k), total)
      /\ UNCHANGED <<pool, next_block_id, eviction>>
  BY DEF AppendBlocks, Unlocked
<1>2. n \in Nat /\ allocations[s].num_tokens \in Nat /\ total \in Nat
  BY TokensAssumption DEF TypeOK, Allocation
<1>3. /\ BlocksNeeded(allocations[s].num_tokens) \in Nat /\ BlocksNeeded(total) \in Nat
      /\ BlocksNeeded(allocations[s].num_tokens) <= BlocksNeeded(total)
  BY <1>2, BlocksNeededType, BlocksNeededMonotone
<1>4. Len(allocations[s].block_ids) = BlocksNeeded(allocations[s].num_tokens)
  BY DEF BlocksCoverTokens
<1>5. k = BlocksNeeded(total) - BlocksNeeded(allocations[s].num_tokens)
  BY DEF Additional
<1> HIDE DEF k, total
<1>6. k \in 0..Len(free) /\ Len(allocations[s].block_ids) + k = BlocksNeeded(total)
  <2>1. Len(free) \in Nat
    BY LenProperties DEF TypeOK
  <2>2. QED BY <2>1, <1>1, <1>3, <1>4, <1>5
<1>7. QED BY <1>1, <1>2, <1>6, GrowKnownStep

LEMMA TouchStep ==
  ASSUME IInv, NEW s \in Active, Touch(s)
  PROVE  IInv'
<1> USE DEF IInv
<1> DEFINE old == allocations[s].block_ids
           n == allocations[s].num_tokens
<1>1. /\ need = 0 /\ Record(s, old, n)
      /\ UNCHANGED <<pool, free, inUse, next_block_id, eviction>>
  BY DEF Touch, Unlocked
<1>2. old \in Seq(Pool) /\ n \in Nat /\ Len(old) = BlocksNeeded(n) /\ free \in Seq(Pool)
  BY DEF TypeOK, Allocation, BlocksCoverTokens
<1> HIDE DEF old, n
<1>3. Foremost(0) = <<>> /\ Behind(0) = free
  BY <1>2, SubSeqEmpty, SubSeqFull DEF Foremost, Behind
<1>4. old \o Foremost(0) = old /\ Range(Foremost(0)) = {}
  BY <1>2, <1>3, ConcatEmptySeq DEF Range
<1>5. 0 \in 0..Len(free) /\ Len(old) + 0 = BlocksNeeded(n)
  BY <1>2, LenProperties
<1>6. /\ free' = Behind(0) /\ inUse' = inUse \cup Range(Foremost(0))
      /\ Record(s, old \o Foremost(0), n)
  BY <1>1, <1>3, <1>4
<1>7. QED BY <1>1, <1>2, <1>5, <1>6, GrowKnownStep DEF old

LEMMA FreeStep ==
  ASSUME IInv, NEW s \in Active, FreeSequence(s)
  PROVE  IInv'
<1> USE DEF IInv
<1>1. /\ need = 0 /\ Release(s)
      /\ UNCHANGED <<pool, next_block_id, access_counter, need, freed, rest>>
  BY DEF FreeSequence, Unlocked, eviction
<1>2. /\ free' \in Seq(Pool)' /\ (inUse \subseteq Pool)'
      /\ Active' = Active \ {s} /\ allocations' \in [Active' -> Allocation']
      /\ OwnedOnce' /\ NoneLost' /\ BlocksCoverTokens' /\ AgesDistinct'
  BY <1>1, Shrinkage
<1>3. rest' = {}
  BY <1>1 DEF EvictSound
<1>4. TypeOK'
  BY <1>1, <1>2, <1>3 DEF TypeOK
<1>5. EvictSound'
  BY <1>1 DEF EvictSound
<1>6. QED BY <1>2, <1>4, <1>5

LEMMA EvictStep ==
  ASSUME IInv, NEW s \in rest, Evict(s)
  PROVE  IInv'
<1> USE DEF IInv
<1>1. /\ need > 0 /\ Release(s) /\ freed' = freed + Len(allocations[s].block_ids)
      /\ rest' = rest \ {s}
      /\ UNCHANGED <<pool, next_block_id, access_counter, need>>
  BY DEF Evict
<1>2. s \in Active /\ rest = Active /\ freed <= Len(free)
  BY <1>1 DEF TypeOK, EvictSound
<1>3. /\ free' \in Seq(Pool)' /\ (inUse \subseteq Pool)'
      /\ Len(free') = Len(free) + Len(allocations[s].block_ids)
      /\ Active' = Active \ {s} /\ allocations' \in [Active' -> Allocation']
      /\ OwnedOnce' /\ NoneLost' /\ BlocksCoverTokens' /\ AgesDistinct'
  BY <1>1, <1>2, Shrinkage
<1>4. Len(allocations[s].block_ids) \in Nat /\ Len(free) \in Nat /\ freed \in Nat
  BY <1>2, LenProperties DEF TypeOK, Allocation
<1>5. TypeOK'
  BY <1>1, <1>2, <1>3, <1>4 DEF TypeOK
<1>6. EvictSound'
  BY <1>1, <1>2, <1>3, <1>4 DEF EvictSound
<1>7. QED BY <1>3, <1>5, <1>6

LEMMA EvictFrameStep ==
  ASSUME IInv, (\E n \in 1 .. MaxBlocks + 1 : EvictBegin(n)) \/ EvictReturn \/ UNCHANGED vars
  PROVE  IInv'
<1> USE DEF IInv
<1>1. UNCHANGED <<pool, free, inUse, allocations, next_block_id, access_counter>>
  BY DEF EvictBegin, EvictReturn, vars
<1>2. Active' = Active /\ Pool' = Pool
  BY <1>1 DEF Active, Pool
<1>3. /\ need' \in Nat /\ freed' \in Nat /\ rest' \subseteq Active /\ EvictSound'
  <2>1. CASE \E n \in 1 .. MaxBlocks + 1 : EvictBegin(n)
    <3>1. need' \in Nat \ {0} /\ freed' = 0 /\ rest' = Active
      BY <2>1, SizesAssumption DEF EvictBegin
    <3>2. Len(free') \in Nat
      BY <1>1, LenProperties DEF TypeOK
    <3>3. QED BY <3>1, <3>2, <1>2 DEF EvictSound
  <2>2. CASE EvictReturn
    BY <2>2 DEF EvictReturn, EvictSound
  <2>3. CASE UNCHANGED vars
    BY <2>3, <1>2 DEF vars, eviction, EvictSound, TypeOK
  <2>4. QED BY <2>1, <2>2, <2>3
<1>4. TypeOK'
  BY <1>1, <1>2, <1>3 DEF TypeOK, Allocation
<1>5. OwnedOnce' /\ NoneLost'
  BY <1>1, <1>2 DEF OwnedOnce, NoneLost, Owned, BlocksOf
<1>6. BlocksCoverTokens' /\ AgesDistinct'
  BY <1>1, <1>2 DEF BlocksCoverTokens, BlocksNeeded, AgesDistinct
<1>7. QED BY <1>3, <1>4, <1>5, <1>6

LEMMA InitIInv == Init => IInv
<1> SUFFICES ASSUME Init PROVE IInv
  OBVIOUS
<1>1. /\ pool = 0 /\ free = <<>> /\ inUse = {} /\ allocations = <<>> /\ next_block_id = 0
      /\ access_counter = 0 /\ need = 0 /\ freed = 0 /\ rest = {}
  BY DEF Init
<1>2. Active = {} /\ Pool = {} /\ Owned = {} /\ Range(free) = {}
  BY <1>1 DEF Active, Pool, Owned, Range
<1>3. TypeOK
  <2>1. allocations \in [Active -> Allocation]
    BY <1>1, <1>2 DEF Active
  <2>2. free \in Seq(Pool)
    BY <1>1, EmptySeq
  <2>3. QED BY <1>1, <1>2, <2>1, <2>2, SizesAssumption DEF TypeOK
<1>4. OwnedOnce /\ NoneLost
  BY <1>1, <1>2 DEF OwnedOnce, NoneLost, IsInjective
<1>5. BlocksCoverTokens /\ AgesDistinct /\ EvictSound
  BY <1>1, <1>2 DEF BlocksCoverTokens, AgesDistinct, EvictSound
<1>6. QED BY <1>3, <1>4, <1>5 DEF IInv

LEMMA NextIInv == IInv /\ [Next]_vars => IInv'
<1> SUFFICES ASSUME IInv, [Next]_vars PROVE IInv'
  OBVIOUS
<1>1. CASE Initialize
  BY <1>1, InitializeStep
<1>2. ASSUME NEW n \in TokenCounts, Allocate(n) PROVE IInv'
  BY <1>2, AllocateStep
<1>3. ASSUME NEW n \in TokenCounts, NEW s \in Active, AppendBlocks(s, n) PROVE IInv'
  BY <1>3, AppendStep
<1>4. ASSUME NEW s \in Active, Touch(s) PROVE IInv'
  BY <1>4, TouchStep
<1>5. ASSUME NEW s \in Active, FreeSequence(s) PROVE IInv'
  BY <1>5, FreeStep
<1>6. ASSUME NEW s \in rest, Evict(s) PROVE IInv'
  BY <1>6, EvictStep
<1>7. CASE (\E n \in 1 .. MaxBlocks + 1 : EvictBegin(n)) \/ EvictReturn \/ UNCHANGED vars
  BY <1>7, EvictFrameStep
<1>8. QED BY <1>1, <1>2, <1>3, <1>4, <1>5, <1>6, <1>7 DEF Next

\* The inductive invariant holds in every reachable state of the block manager.
THEOREM Invariance == Spec => []IInv
<1>1. QED BY InitIInv, NextIInv, PTL DEF Spec

\* The variables keep their types (all operations of paged_kv_cache.cpp).
THEOREM TypeCorrect == Spec => []TypeOK
<1>1. IInv => TypeOK
  BY DEF IInv
<1>2. QED BY <1>1, Invariance, PTL

\* No block is ever in two places: twice free, in two sequences, or free while a
\* sequence has it (allocate_blocks, append_blocks, free_sequence, evict_lru).
THEOREM BlocksOwnedOnce == Spec => []OwnedOnce
<1>1. IInv => OwnedOnce
  BY DEF IInv
<1>2. QED BY <1>1, Invariance, PTL

\* Every block that initialize() made stays in the queue or in a sequence.
THEOREM BlocksNeverLost == Spec => []NoneLost
<1>1. IInv => NoneLost
  BY DEF IInv
<1>2. QED BY <1>1, Invariance, PTL

\* A sequence has the blocks its length needs, in whatever portions it grew.
THEOREM LengthCovered == Spec => []BlocksCoverTokens
<1>1. IInv => BlocksCoverTokens
  BY DEF IInv
<1>2. QED BY <1>1, Invariance, PTL

\* The books of the pool are right at all times.
THEOREM Books == Spec => []BlocksAccounted
<1>1. TypeOK /\ OwnedOnce /\ NoneLost /\ BlocksCoverTokens => BlocksAccounted
  BY DEF BlocksAccounted
<1>2. QED BY <1>1, TypeCorrect, BlocksOwnedOnce, BlocksNeverLost, LengthCovered, PTL

\* evict_lru frees the sequences in the order of their last use.
THEOREM EvictionOrder == Spec => EvictsOldestFirst
<1>1. ASSUME IInv, [Next]_vars, need > 0,
             NEW s \in Active \ DOMAIN allocations', NEW q \in DOMAIN allocations'
      PROVE  allocations[s].last_access < allocations[q].last_access
  <2>1. PICK t \in rest : Evict(t)
    BY <1>1 DEF Next, Allocate, AppendBlocks, Touch, FreeSequence, Unlocked, Initialize,
                EvictBegin, EvictReturn, vars, Active
  <2>2. Oldest(t) /\ DOMAIN allocations' = Active \ {t}
    BY <2>1 DEF Evict, Release, Restrict
  <2>3. s = t /\ q \in Active /\ q # t
    BY <1>1, <2>2
  <2>4. q \in rest /\ allocations[t].last_access <= allocations[q].last_access
    BY <1>1, <2>2, <2>3 DEF IInv, EvictSound, Oldest
  <2>5. allocations[t].last_access # allocations[q].last_access
    BY <1>1, <2>3 DEF IInv, AgesDistinct
  <2>6. allocations[t].last_access \in Nat /\ allocations[q].last_access \in Nat
    BY <1>1, <2>3 DEF IInv, TypeOK, Allocation
  <2>7. QED BY <2>3, <2>4, <2>5, <2>6
<1>2. IInv /\ [Next]_vars =>
        \A s \in Active \ DOMAIN allocations' : need > 0 =>
          \A q \in DOMAIN allocations' : allocations[s].last_access < allocations[q].last_access
  BY <1>1
<1>3. QED BY <1>2, Invariance, PTL DEF Spec, EvictsOldestFirst

\* evict_lru returns with the room it was asked for, or with no sequence left.
THEOREM EvictionRoom == Spec => EvictionMakesRoom
<1>1. ASSUME IInv, [Next]_vars, need > 0, need' = 0
      PROVE  Len(free) >= need \/ Active = {}
  <2>1. EvictReturn
    BY <1>1 DEF Next, Allocate, AppendBlocks, Touch, FreeSequence, Unlocked, Initialize,
                EvictBegin, Evict, vars, eviction
  <2>2. freed >= need \/ rest = {}
    BY <2>1 DEF EvictReturn
  <2>3. rest = Active /\ freed <= Len(free)
    BY <1>1 DEF IInv, EvictSound
  <2>4. freed \in Nat /\ need \in Nat /\ Len(free) \in Nat
    BY <1>1, LenProperties DEF IInv, TypeOK
  <2>5. QED BY <2>2, <2>3, <2>4
<1>2. IInv /\ [Next]_vars => (need > 0 /\ need' = 0 => Len(free) >= need \/ Active = {})
  BY <1>1
<1>3. QED BY <1>2, Invariance, PTL DEF Spec, EvictionMakesRoom

---------------------------------------------------------------------------
(* The refinement.                                                         *)

\* Only MaxSequences ids are given out (the bound of Allocate).
IdsBounded == Active \subseteq 0 .. MaxSequences - 1 /\ next_block_id <= MaxSequences

LEMMA IdsBoundedStep == IInv /\ IdsBounded /\ [Next]_vars => IdsBounded'
<1> SUFFICES ASSUME IInv, IdsBounded, [Next]_vars PROVE IdsBounded'
  OBVIOUS
<1>1. next_block_id \in Nat /\ MaxSequences \in Nat /\ Active \subseteq 0 .. next_block_id - 1
  BY BoundsAssumption DEF IInv, TypeOK
<1>2. CASE Active' \subseteq Active /\ next_block_id' = next_block_id
  BY <1>2 DEF IdsBounded
<1>3. ASSUME NEW n \in TokenCounts, Allocate(n) PROVE IdsBounded'
  <2>1. next_block_id < MaxSequences /\ next_block_id' = next_block_id + 1
        /\ Active' = Active \cup {next_block_id}
    BY <1>3 DEF Allocate, Record, Active
  <2>2. QED BY <1>1, <2>1 DEF IdsBounded
<1>4. ASSUME NEW n \in TokenCounts, NEW s \in Active, AppendBlocks(s, n) PROVE IdsBounded'
  BY <1>2, <1>4 DEF AppendBlocks, Record, Active
<1>5. ASSUME NEW s \in Active, Touch(s) PROVE IdsBounded'
  BY <1>2, <1>5 DEF Touch, Record, Active
<1>6. ASSUME NEW s \in Active, FreeSequence(s) PROVE IdsBounded'
  BY <1>2, <1>6 DEF FreeSequence, Release, Restrict, Active
<1>7. ASSUME NEW s \in rest, Evict(s) PROVE IdsBounded'
  BY <1>2, <1>7 DEF Evict, Release, Restrict, Active
<1>8. CASE Initialize \/ (\E n \in 1 .. MaxBlocks + 1 : EvictBegin(n)) \/ EvictReturn
           \/ UNCHANGED vars
  BY <1>2, <1>8 DEF Initialize, EvictBegin, EvictReturn, vars, Active
<1>9. QED BY <1>3, <1>4, <1>5, <1>6, <1>7, <1>8 DEF Next

\* The owner of each block, read off the records.
OwnerIs ==
  /\ Pool \subseteq Blocks /\ Owned \subseteq Pool
  /\ Owner = [b \in Blocks |-> Owner[b]]
  /\ \A b \in Blocks : /\ b \notin Pool => Owner[b] = -2
                       /\ b \in Pool \ Owned => Owner[b] = -1
                       /\ \A s \in Active : b \in BlocksOf(s) => Owner[b] = s

LEMMA OwnerCharacter == IInv => OwnerIs
<1> SUFFICES ASSUME IInv PROVE OwnerIs
  OBVIOUS
<1>1. Pool \subseteq Blocks
  BY SizesAssumption DEF IInv, TypeOK, Pool, Blocks
<1>2. Owned \subseteq Pool
  BY DEF IInv, NoneLost
<1>3. Owner = [b \in Blocks |-> Owner[b]]
  BY DEF Owner
<1>4. ASSUME NEW b \in Blocks
      PROVE  /\ b \notin Pool => Owner[b] = -2
             /\ b \in Pool \ Owned => Owner[b] = -1
  BY DEF Owner
<1>5. ASSUME NEW b \in Blocks, NEW s \in Active, b \in BlocksOf(s)
      PROVE  Owner[b] = s
  <2>1. b \in Owned /\ b \in Pool
    BY <1>2, <1>5 DEF Owned
  <2>2. Owner[b] = CHOOSE q \in Active : b \in BlocksOf(q)
    BY <2>1 DEF Owner
  <2>3. \A q \in Active : b \in BlocksOf(q) => q = s
    BY <1>5 DEF IInv, OwnedOnce
  <2>4. QED BY <1>5, <2>2, <2>3
<1>6. QED BY <1>1, <1>2, <1>3, <1>4, <1>5 DEF OwnerIs

\* Growth hands the front of the queue to sequence s, and nothing else moves.
LEMMA GrowthTakes ==
  ASSUME IInv, OwnerIs, OwnerIs', NEW s \in 0 .. MaxSequences - 1, NEW old \in Seq(Pool),
         NEW k \in 0..Len(free), NEW n,
         s \in Active => old = allocations[s].block_ids,
         s \notin Active => old = <<>>,
         Record(s, old \o Foremost(k), n), pool' = pool
  PROVE  Abstract!Next
<1> DEFINE B == Range(Foremost(k))
<1>1. /\ B \subseteq Range(free) /\ Foremost(k) \in Seq(Pool) /\ IsInjective(Foremost(k))
      /\ IsInjective(free)
  BY SplitQueue DEF Foremost, IInv, TypeOK, OwnedOnce
<1>2. IsInjective(old) /\ Range(old) \cap B = {}
  <2>1. CASE s \in Active
    BY <2>1, <1>1 DEF IInv, OwnedOnce, BlocksOf
  <2>2. CASE s \notin Active
    BY <2>2 DEF IsInjective, Range
  <2>3. QED BY <2>1, <2>2
<1>3. Range(old \o Foremost(k)) = Range(old) \cup B
  BY <1>1, <1>2, JoinQueues
<1> HIDE DEF B
<1>4. /\ Active' = Active \cup {s} /\ BlocksOf(s)' = Range(old) \cup B
      /\ \A q \in Active : q # s => BlocksOf(q)' = BlocksOf(q)
  BY <1>3 DEF Record, Active, BlocksOf
<1>5. /\ s \in Active => BlocksOf(s) = Range(old)
      /\ s \notin Active => Range(old) = {}
  BY DEF BlocksOf, Range
<1>6. Owned' = Owned \cup B /\ Pool' = Pool
  BY <1>4, <1>5 DEF Owned, Pool
<1>7. B \subseteq Pool \ Owned
  BY <1>1 DEF IInv, NoneLost, OwnedOnce, Owned
<1>8. \A b \in B : b \in Blocks /\ Owner[b] = -1
  BY <1>7 DEF OwnerIs
<1>9. ASSUME NEW b \in Blocks
      PROVE  Owner'[b] = IF b \in B THEN s ELSE Owner[b]
  <2>1. CASE b \in B
    BY <2>1, <1>4 DEF OwnerIs
  <2>2. CASE b \notin Pool
    BY <2>2, <1>6, <1>7 DEF OwnerIs
  <2>3. CASE b \in (Pool \ Owned) \ B
    BY <2>3, <1>6 DEF OwnerIs
  <2>4. CASE b \in Owned \ B
    <3>1. PICK q \in Active : b \in BlocksOf(q)
      BY <2>4 DEF Owned
    <3>2. b \in BlocksOf(q)' /\ q \in Active'
      BY <3>1, <1>4, <1>5
    <3>3. Owner[b] = q /\ Owner'[b] = q
      BY <3>1, <3>2 DEF OwnerIs
    <3>4. QED BY <2>4, <3>3
  <2>5. QED BY <2>1, <2>2, <2>3, <2>4
<1>10. Owner' = [b \in Blocks |-> IF b \in B THEN s ELSE Owner[b]]
  BY <1>9 DEF OwnerIs
<1>11. Abstract!Take(s, B)
  BY <1>8, <1>10 DEF Abstract!Take
<1>12. B \in SUBSET Blocks
  BY <1>8
<1>13. QED BY <1>11, <1>12 DEF Abstract!Next

\* Release gives every block of sequence s back, and nothing else moves.
LEMMA ReleaseGivesBack ==
  ASSUME IInv, OwnerIs, OwnerIs', NEW s \in Active, s \in 0 .. MaxSequences - 1,
         Release(s), pool' = pool
  PROVE  Abstract!Next
<1>1. /\ Active' = Active \ {s}
      /\ \A q \in Active' : BlocksOf(q)' = BlocksOf(q)
  BY DEF Release, Restrict, Active, BlocksOf
<1>2. Owned' = Owned \ BlocksOf(s) /\ Pool' = Pool
  <2>1. \A q \in Active : q # s => BlocksOf(q) \cap BlocksOf(s) = {}
    BY DEF IInv, OwnedOnce
  <2>2. QED BY <2>1, <1>1 DEF Owned, Pool
<1>3. ASSUME NEW b \in Blocks
      PROVE  Owner'[b] = IF Owner[b] = s THEN -1 ELSE Owner[b]
  <2>1. s # -1 /\ s # -2
    OBVIOUS
  <2>2. CASE b \notin Pool
    BY <2>1, <2>2, <1>2 DEF OwnerIs
  <2>3. CASE b \in Pool \ Owned
    BY <2>1, <2>3, <1>2 DEF OwnerIs
  <2>4. CASE b \in Owned
    <3>1. PICK q \in Active : b \in BlocksOf(q)
      BY <2>4 DEF Owned
    <3>2. Owner[b] = q
      BY <3>1 DEF OwnerIs
    <3>3. CASE q = s
      BY <3>1, <3>2, <3>3, <2>4, <1>2 DEF OwnerIs
    <3>4. CASE q # s
      <4>1. q \in Active' /\ b \in BlocksOf(q)'
        BY <3>1, <3>4, <1>1
      <4>2. Owner'[b] = q
        BY <4>1 DEF OwnerIs
      <4>3. QED BY <3>2, <3>4, <4>2
    <3>5. QED BY <3>3, <3>4
  <2>5. QED BY <2>2, <2>3, <2>4
<1>4. Owner' = [b \in Blocks |-> IF Owner[b] = s THEN -1 ELSE Owner[b]]
  BY <1>3 DEF OwnerIs
<1>5. Abstract!GiveBack(s)
  BY <1>4 DEF Abstract!GiveBack
<1>6. QED BY <1>5 DEF Abstract!Next

\* initialize() creates the first blocks.
LEMMA InitializeCreates ==
  ASSUME IInv, OwnerIs, OwnerIs', Initialize
  PROVE  Abstract!Next
<1>1. PICK k \in 1..MaxBlocks : pool' = k
  BY DEF Initialize
<1>2. pool = 0 /\ allocations' = allocations
  BY DEF Initialize
<1>3. Pool = {} /\ Pool' \subseteq Blocks /\ Owned = {} /\ Owned' = {}
  <2>1. Pool = {}
    BY <1>2 DEF Pool
  <2>2. Owned = {} /\ Owned' = Owned
    BY <2>1, <1>2 DEF IInv, NoneLost, Owned, Active, BlocksOf
  <2>3. QED BY <2>1, <2>2 DEF OwnerIs
<1>4. \A b \in Blocks : Owner[b] = -2
  BY <1>3 DEF OwnerIs
<1>5. ASSUME NEW b \in Blocks
      PROVE  Owner'[b] = IF b \in Pool' THEN -1 ELSE Owner[b]
  <2>1. CASE b \in Pool'
    BY <2>1, <1>3 DEF OwnerIs
  <2>2. CASE b \notin Pool'
    BY <2>2, <1>4 DEF OwnerIs
  <2>3. QED BY <2>1, <2>2
<1>6. Owner' = [b \in Blocks |-> IF b \in Pool' THEN -1 ELSE Owner[b]]
  BY <1>5 DEF OwnerIs
<1>7. \E B \in SUBSET Blocks : Abstract!Create(B)
  <2> DEFINE B == 0 .. k - 1
  <2>1. Pool' = B /\ B \in SUBSET Blocks
    BY <1>1, <1>3 DEF Pool
  <2> HIDE DEF B
  <2>2. Abstract!Create(B)
    BY <2>1, <1>4, <1>6 DEF Abstract!Create
  <2>3. QED BY <2>1, <2>2
<1>8. QED BY <1>7 DEF Abstract!Next

LEMMA NextRefines ==
  IInv /\ IdsBounded /\ OwnerIs /\ OwnerIs' /\ [Next]_vars => [Abstract!Next]_Owner
<1> SUFFICES ASSUME IInv, IdsBounded, OwnerIs, OwnerIs', [Next]_vars
             PROVE  Abstract!Next \/ Owner' = Owner
  OBVIOUS
<1>1. CASE Initialize
  BY <1>1, InitializeCreates
<1>2. ASSUME NEW n \in TokenCounts, Allocate(n) PROVE Abstract!Next
  <2> DEFINE k == BlocksNeeded(n)
  <2>1. /\ k <= Len(free) /\ next_block_id < MaxSequences
        /\ Record(next_block_id, Foremost(k), n) /\ pool' = pool
    BY <1>2 DEF Allocate
  <2>2. n \in Nat /\ k \in 0..Len(free) /\ next_block_id \in 0 .. MaxSequences - 1
    BY <2>1, TokensAssumption, BoundsAssumption, BlocksNeededType, LenProperties DEF IInv, TypeOK
  <2>3. next_block_id \notin Active
    BY DEF IInv, TypeOK
  <2>4. <<>> \in Seq(Pool) /\ <<>> \o Foremost(k) = Foremost(k)
    BY <2>2, SplitQueue, ConcatEmptySeq, EmptySeq DEF IInv, TypeOK, OwnedOnce, Foremost
  <2> HIDE DEF k
  <2>5. QED BY <2>1, <2>2, <2>3, <2>4, GrowthTakes
<1>3. ASSUME NEW n \in TokenCounts, NEW s \in Active, AppendBlocks(s, n) PROVE Abstract!Next
  <2> DEFINE k == Additional(s, n)
             old == allocations[s].block_ids
             total == allocations[s].num_tokens + n
  <2>1. k <= Len(free) /\ Record(s, old \o Foremost(k), total) /\ pool' = pool
    BY <1>3 DEF AppendBlocks
  <2>2. n \in Nat /\ allocations[s].num_tokens \in Nat /\ old \in Seq(Pool)
        /\ s \in 0 .. MaxSequences - 1
    BY TokensAssumption DEF IInv, TypeOK, Allocation, IdsBounded
  <2>3. k \in 0..Len(free)
    <3>1. total \in Nat
      BY <2>2
    <3>2. BlocksNeeded(allocations[s].num_tokens) \in Nat /\ BlocksNeeded(total) \in Nat
      BY <2>2, <3>1, BlocksNeededType
    <3>3. BlocksNeeded(allocations[s].num_tokens) <= BlocksNeeded(total)
      BY <2>2, BlocksNeededMonotone
    <3>4. Len(free) \in Nat
      BY LenProperties DEF IInv, TypeOK
    <3>5. k = BlocksNeeded(total) - BlocksNeeded(allocations[s].num_tokens)
      BY DEF Additional
    <3> HIDE DEF k, total
    <3>6. QED BY <3>2, <3>3, <3>4, <3>5, <2>1
  <2> HIDE DEF k, total
  <2>4. QED BY <2>1, <2>2, <2>3, GrowthTakes
<1>4. ASSUME NEW s \in Active, Touch(s) PROVE Owner' = Owner
  <2>1. pool' = pool /\ Active' = Active /\ \A q \in Active : BlocksOf(q)' = BlocksOf(q)
    BY <1>4 DEF Touch, Record, Active, BlocksOf
  <2>2. Owned' = Owned /\ Pool' = Pool
    BY <2>1 DEF Owned, Pool
  <2>3. ASSUME NEW b \in Blocks PROVE Owner'[b] = Owner[b]
    <3>1. CASE b \notin Owned
      BY <3>1, <2>2 DEF OwnerIs
    <3>2. CASE b \in Owned
      <4>1. PICK q \in Active : b \in BlocksOf(q)
        BY <3>2 DEF Owned
      <4>2. QED BY <4>1, <2>1 DEF OwnerIs
    <3>3. QED BY <3>1, <3>2
  <2>4. QED BY <2>3 DEF OwnerIs
<1>5. ASSUME NEW s \in Active, FreeSequence(s) PROVE Abstract!Next
  BY <1>5, ReleaseGivesBack DEF FreeSequence, IdsBounded
<1>6. ASSUME NEW s \in rest, Evict(s) PROVE Abstract!Next
  BY <1>6, ReleaseGivesBack DEF Evict, IdsBounded, IInv, TypeOK
<1>7. CASE (\E n \in 1 .. MaxBlocks + 1 : EvictBegin(n)) \/ EvictReturn \/ UNCHANGED vars
  <2>1. pool' = pool /\ allocations' = allocations
    BY <1>7 DEF EvictBegin, EvictReturn, vars
  <2>2. QED BY <2>1 DEF Owner, Pool, Owned, Active, BlocksOf
<1>8. QED BY <1>1, <1>2, <1>3, <1>4, <1>5, <1>6, <1>7 DEF Next

\* The block manager implements BlockPool: a block changes hands only between the
\* pool and one sequence, whatever operations interleave.
THEOREM Refinement == Spec => ImplementsBlockPool
<1>1. Init => IdsBounded
  BY BoundsAssumption DEF Init, IdsBounded, Active
<1>2. Init => Abstract!Init
  BY DEF Init, Abstract!Init, Owner, Pool, Blocks
<1>3. QED
  BY <1>1, <1>2, Invariance, IdsBoundedStep, OwnerCharacter, NextRefines, PTL
  DEF Spec, ImplementsBlockPool, Abstract!Spec
---------------------------------------------------------------------------
(* The prefix cache: its entries and its last hit.                         *)

Entries == [id : 1..stores, tokens : Prompts, blocks : Nat, created : 0..now, used : 0..now]

EntriesInv ==
  \A e \in cache : e.blocks = BlocksFor(Len(e.tokens)) /\ e.created <= e.used

MatchInv == \A e \in cache : e.id = match.id => e.used = match.at

CacheIInv == CacheTypeOK /\ HitIsYoung /\ HitIsCovered /\ IsFiniteSet(cache) /\ EntriesInv /\ MatchInv

---------------------------------------------------------------------------
(* Greatest numbers, common prefixes and blocks.                            *)

\* A bounded, nonempty set of numbers has a greatest element: the one that is
\* nearest to the bound.
LEMMA MaxOfBounded ==
  ASSUME NEW b \in Nat, NEW S, S \subseteq 0..b, S # {}
  PROVE  Max(S) \in S /\ \A y \in S : y <= Max(S)
<1> DEFINE D == {n \in 0..b : b - n \in S}
           R == {ss \in Nat \X Nat : ss[1] < ss[2]}
<1>1. D \subseteq Nat /\ D # {}
  <2>1. PICK x \in S : TRUE
    OBVIOUS
  <2>2. b - x \in 0..b /\ b - (b - x) = x
    BY <2>1
  <2>3. QED BY <2>1, <2>2
<1>2. PICK d \in D : \A y \in D : ~(<<y, d>> \in R)
  <2>1. IsWellFoundedOn(R, Nat)
    BY NatLessThanWellFounded DEF OpToRel
  <2> HIDE DEF D, R
  <2>2. QED BY <1>1, <2>1, WFMin
<1>3. \A y \in D : ~(y < d)
  BY <1>1, <1>2
<1>4. b - d \in S
  BY <1>2
<1>5. ASSUME NEW y \in S PROVE y <= b - d
  <2>1. b - y \in 0..b /\ b - (b - y) = y
    BY <1>5
  <2>2. b - y \in D
    BY <2>1
  <2>3. ~(b - y < d)
    BY <1>3, <2>2
  <2>4. QED BY <2>1, <2>3, <1>2
<1>6. \E x \in S : \A y \in S : x >= y
  BY <1>4, <1>5
<1>7. QED BY <1>6 DEF Max

\* One more element.
LEMMA AddOne ==
  ASSUME NEW S, IsFiniteSet(S), NEW x
  PROVE  /\ IsFiniteSet(S \cup {x})
         /\ Cardinality(S) \in Nat /\ Cardinality(S \cup {x}) \in Nat
         /\ Cardinality(S \cup {x}) <= Cardinality(S) + 1
<1>1. Cardinality(S) \in Nat
  BY FS_CardinalityType
<1>2. /\ IsFiniteSet(S \cup {x})
      /\ Cardinality(S \cup {x}) = IF x \in S THEN Cardinality(S) ELSE Cardinality(S) + 1
  BY FS_AddElement, Zenon
<1>3. QED BY <1>1, <1>2

LEMMA MinOfTwo ==
  ASSUME NEW m \in Nat, NEW n \in Nat
  PROVE  Min({m, n}) = IF m <= n THEN m ELSE n
BY DEF Min

\* find_lcp finds no more than there is in either sequence.
LEMMA LcpBound ==
  ASSUME NEW a \in Prompts, NEW b \in Prompts
  PROVE  Lcp(a, b) \in Nat /\ Lcp(a, b) <= Len(a) /\ Lcp(a, b) <= Len(b)
<1> DEFINE m == Min({Len(a), Len(b)})
           S == {n \in 0..m : SubSeq(a, 1, n) = SubSeq(b, 1, n)}
<1>1. Len(a) \in Nat /\ Len(b) \in Nat
  BY PromptsAssumption, LenProperties
<1>2. m \in Nat /\ m <= Len(a) /\ m <= Len(b)
  BY <1>1, MinOfTwo
<1>3. SubSeq(a, 1, 0) = SubSeq(b, 1, 0)
  BY SubSeqEmpty
<1>4. S \subseteq 0..m /\ S # {}
  BY <1>2, <1>3
<1>5. Max(S) \in S
  <2> HIDE DEF S, m
  <2>1. QED BY <1>2, <1>4, MaxOfBounded
<1>6. Lcp(a, b) = Max(S)
  BY DEF Lcp
<1>7. QED BY <1>1, <1>2, <1>5, <1>6

\* The blocks of n tokens hold them, and all but the last are full.
LEMMA BlocksBounds ==
  ASSUME NEW n \in Nat
  PROVE  /\ BlocksFor(n) \in Nat
         /\ n <= BlocksFor(n) * KVBlockSize
         /\ n > 0 => (BlocksFor(n) - 1) * KVBlockSize < n
<1>1. KVBlockSize \in Nat /\ KVBlockSize > 0
  BY CacheSizesAssumption
<1>2. QED BY <1>1 DEF BlocksFor

\* More tokens need no fewer blocks.
LEMMA BlocksMonotone ==
  ASSUME NEW m \in Nat, NEW n \in Nat, m <= n
  PROVE  BlocksFor(m) <= BlocksFor(n)
<1>1. KVBlockSize \in Nat /\ KVBlockSize > 0
  BY CacheSizesAssumption
<1>2. QED BY <1>1 DEF BlocksFor

---------------------------------------------------------------------------
(* The invariant.                                                           *)

LEMMA InitCacheIInv == CacheInit => CacheIInv
<1> SUFFICES ASSUME CacheInit PROVE CacheIInv
  OBVIOUS
<1> USE DEF CacheInit, NoMatch
<1>1. IsFiniteSet(cache) /\ Cardinality(cache) = 0
  BY FS_EmptySet
<1>2. CacheTypeOK
  BY <1>1, CacheSizesAssumption, CacheBoundsAssumption DEF CacheTypeOK
<1>3. HitIsYoung /\ HitIsCovered
  BY CacheSizesAssumption DEF HitIsYoung, HitIsCovered
<1>4. EntriesInv /\ MatchInv
  BY DEF EntriesInv, MatchInv
<1>5. QED BY <1>1, <1>2, <1>3, <1>4 DEF CacheIInv

\* A hit ages its entry by created_at, counts its blocks by the match, and is
\* the last use of the entry.
LEMMA FindPrefixStep ==
  ASSUME CacheIInv, NEW p \in Prompts, FindPrefix(p) PROVE CacheIInv'
<1>1. PICK e \in Best(p) : Hit(e, p)
  BY DEF FindPrefix
<1> DEFINE n == Lcp(p, e.tokens)
           f == [e EXCEPT !.used = now]
<1>2. e \in cache /\ e \in Entries /\ now - e.created <= TTL
  BY DEF Best, Live, CacheIInv, CacheTypeOK, Entries
<1>3. n \in Nat /\ n <= Len(e.tokens) /\ Len(e.tokens) \in Nat
  BY <1>2, LcpBound, PromptsAssumption, LenProperties DEF Entries
<1>4. /\ match' = [length |-> n, blocks |-> Reusable(e, n), id |-> e.id, created |-> e.created,
                   at |-> now]
      /\ cache' = (cache \ {e}) \cup {f}
      /\ stores' = stores /\ now' = now
  BY <1>1 DEF Hit
<1>5. Reusable(e, n) = BlocksFor(n) /\ BlocksFor(n) \in Nat
  <2>1. e.blocks = BlocksFor(Len(e.tokens))
    BY <1>2 DEF CacheIInv, EntriesInv
  <2>2. BlocksFor(n) \in Nat /\ e.blocks \in Nat /\ BlocksFor(n) <= e.blocks
    BY <2>1, <1>3, BlocksBounds, BlocksMonotone
  <2>3. QED BY <2>2, MinOfTwo DEF Reusable
<1>6. now \in 0..MaxTime /\ stores \in 0..MaxStores /\ MaxTime \in Nat /\ MaxStores \in Nat
  BY CacheBoundsAssumption DEF CacheIInv, CacheTypeOK
<1>7. f \in Entries /\ f.id = e.id /\ f.used = now /\ f.created = e.created
      /\ f.tokens = e.tokens /\ f.blocks = e.blocks
  BY <1>2, <1>6 DEF Entries
<1>8. IsFiniteSet(cache') /\ Cardinality(cache') <= MaxEntries
  <2>1. /\ IsFiniteSet(cache) /\ Cardinality(cache) <= MaxEntries /\ MaxEntries \in Nat
    BY CacheSizesAssumption DEF CacheIInv, CacheTypeOK
  <2>2. IsFiniteSet(cache \ {e}) /\ Cardinality(cache \ {e}) = Cardinality(cache) - 1
    BY <2>1, <1>2, FS_RemoveElement
  <2>3. Cardinality(cache) \in Nat /\ Cardinality(cache \ {e}) \in Nat
    BY <2>1, <2>2, FS_CardinalityType
  <2>4. /\ IsFiniteSet(cache') /\ Cardinality(cache') \in Nat
        /\ Cardinality(cache') <= Cardinality(cache \ {e}) + 1
    <3>1. cache' = (cache \ {e}) \cup {f}
      BY <1>4
    <3> HIDE DEF f
    <3>2. QED BY <2>2, <3>1, AddOne
  <2>5. QED BY <2>1, <2>2, <2>3, <2>4
<1>9. match' \in [length : Nat, blocks : Nat, id : 0..stores, created : 0..now, at : 0..now]
  BY <1>2, <1>3, <1>4, <1>5, <1>6 DEF Entries
<1>10. CacheTypeOK'
  <2>1. cache' \subseteq Entries
    BY <1>4, <1>7 DEF CacheIInv, CacheTypeOK, Entries
  <2>2. \A c, d \in cache' : c.id = d.id => c = d
    BY <1>2, <1>4, <1>7 DEF CacheIInv, CacheTypeOK
  <2>3. QED BY <2>1, <2>2, <1>4, <1>6, <1>8, <1>9 DEF CacheTypeOK, Entries
<1>11. HitIsYoung' /\ HitIsCovered'
  <2>1. /\ match'.length = n /\ match'.blocks = BlocksFor(n)
        /\ match'.at = now /\ match'.created = e.created
    BY <1>4, <1>5
  <2>2. QED BY <2>1, <1>2, <1>3, BlocksBounds DEF HitIsYoung, HitIsCovered
<1>12. EntriesInv'
  <2>1. f.created <= f.used
    BY <1>2, <1>6, <1>7 DEF Entries
  <2>2. QED BY <2>1, <1>2, <1>4, <1>7 DEF CacheIInv, EntriesInv
<1>13. MatchInv'
  <2>1. match'.id = e.id /\ match'.at = now
    BY <1>4
  <2>2. QED BY <2>1, <1>2, <1>4, <1>7 DEF CacheIInv, CacheTypeOK, MatchInv
<1>14. QED BY <1>8, <1>10, <1>11, <1>12, <1>13 DEF CacheIInv

\* Removing entries leaves the invariant alone.
LEMMA RemovalKeeps ==
  ASSUME CacheIInv, NEW K, K \subseteq cache
  PROVE  /\ IsFiniteSet(K) /\ Cardinality(K) <= Cardinality(cache) /\ Cardinality(K) \in Nat
         /\ Cardinality(K) <= MaxEntries
<1>1. IsFiniteSet(cache) /\ Cardinality(cache) <= MaxEntries /\ MaxEntries \in Nat
  BY CacheSizesAssumption DEF CacheIInv, CacheTypeOK
<1>2. QED BY <1>1, FS_Subset, FS_CardinalityType

\* Where a store finds room there is room.
LEMMA KeptHasRoom ==
  ASSUME CacheIInv, NEW K \in Kept
  PROVE  K \subseteq cache /\ IsFiniteSet(K) /\ Cardinality(K) + 1 <= MaxEntries
<1>1. IsFiniteSet(cache) /\ Cardinality(cache) <= MaxEntries /\ MaxEntries \in Nat
  BY CacheSizesAssumption DEF CacheIInv, CacheTypeOK
<1>2. Cardinality(cache) \in Nat
  BY <1>1, FS_CardinalityType
<1>3. CASE Cardinality(cache) < MaxEntries
  BY <1>1, <1>2, <1>3 DEF Kept
<1>4. CASE ~(Cardinality(cache) < MaxEntries)
  <2>1. PICK e \in Idlest : K = cache \ {e}
    BY <1>4 DEF Kept
  <2>2. e \in cache
    BY DEF Idlest
  <2>3. IsFiniteSet(K) /\ Cardinality(K) = Cardinality(cache) - 1
    BY <1>1, <2>1, <2>2, FS_RemoveElement
  <2>4. QED BY <1>1, <1>2, <2>1, <2>3
<1>5. QED BY <1>3, <1>4

LEMMA StorePrefixStep ==
  ASSUME CacheIInv, NEW p \in Prompts, StorePrefix(p) PROVE CacheIInv'
<1> DEFINE new == [id |-> stores', tokens |-> p, blocks |-> BlocksFor(Len(p)),
                   created |-> now, used |-> now]
<1>1. PICK K \in Kept : cache' = K \cup {new}
  BY DEF StorePrefix
<1>2. K \subseteq cache /\ IsFiniteSet(K) /\ Cardinality(K) + 1 <= MaxEntries
  BY KeptHasRoom
<1>3. /\ stores' = stores + 1 /\ stores < MaxStores /\ now' = now /\ match' = match
      /\ now \in 0..MaxTime /\ stores \in 0..MaxStores /\ MaxTime \in Nat /\ MaxStores \in Nat
  BY CacheBoundsAssumption DEF StorePrefix, CacheIInv, CacheTypeOK
<1>4. Len(p) \in Nat /\ BlocksFor(Len(p)) \in Nat
  BY PromptsAssumption, LenProperties, BlocksBounds
<1>5. new \in Entries'
  BY <1>3, <1>4 DEF Entries
<1>6. \A e \in cache : e \in Entries' /\ e.id # new.id
  BY <1>3 DEF CacheIInv, CacheTypeOK, Entries
<1>7. IsFiniteSet(cache') /\ Cardinality(cache') <= MaxEntries
  <2>1. Cardinality(K) \in Nat /\ MaxEntries \in Nat
    BY <1>2, FS_CardinalityType, CacheSizesAssumption
  <2> HIDE DEF new
  <2>2. /\ IsFiniteSet(K \cup {new}) /\ Cardinality(K \cup {new}) \in Nat
        /\ Cardinality(K \cup {new}) <= Cardinality(K) + 1
    BY <1>2, AddOne
  <2>3. QED BY <1>1, <1>2, <2>1, <2>2
<1>8. CacheTypeOK'
  <2>1. cache' \subseteq Entries'
    BY <1>1, <1>2, <1>5, <1>6
  <2>2. \A c, d \in cache' : c.id = d.id => c = d
    BY <1>1, <1>2, <1>6 DEF CacheIInv, CacheTypeOK
  <2>3. match' \in [length : Nat, blocks : Nat, id : 0..stores', created : 0..now', at : 0..now']
    BY <1>3 DEF CacheIInv, CacheTypeOK
  <2>4. stores' \in 0..MaxStores /\ now' \in 0..MaxTime
    BY <1>3
  <2>5. QED BY <2>1, <2>2, <2>3, <2>4, <1>7 DEF CacheTypeOK, Entries
<1>9. HitIsYoung' /\ HitIsCovered'
  BY <1>3 DEF CacheIInv, HitIsYoung, HitIsCovered
<1>10. EntriesInv'
  BY <1>1, <1>2, <1>3 DEF CacheIInv, EntriesInv
<1>11. MatchInv'
  <2>1. match.id # new.id
    BY <1>3 DEF CacheIInv, CacheTypeOK
  <2>2. QED BY <2>1, <1>1, <1>2, <1>3 DEF CacheIInv, MatchInv
<1>12. QED BY <1>7, <1>8, <1>9, <1>10, <1>11 DEF CacheIInv

LEMMA ShrinkStep ==
  ASSUME CacheIInv, cache' \subseteq cache, UNCHANGED <<stores, now, match>> PROVE CacheIInv'
<1>1. IsFiniteSet(cache') /\ Cardinality(cache') <= MaxEntries
  BY RemovalKeeps
<1>2. CacheTypeOK'
  BY <1>1 DEF CacheIInv, CacheTypeOK
<1>3. HitIsYoung' /\ HitIsCovered'
  BY DEF CacheIInv, HitIsYoung, HitIsCovered
<1>4. EntriesInv' /\ MatchInv'
  BY DEF CacheIInv, EntriesInv, MatchInv
<1>5. QED BY <1>1, <1>2, <1>3, <1>4 DEF CacheIInv

LEMMA TickStep == ASSUME CacheIInv, Tick PROVE CacheIInv'
<1>1. now \in 0..MaxTime /\ now' = now + 1 /\ now' \in 0..MaxTime /\ MaxTime \in Nat
      /\ UNCHANGED <<cache, stores, match>>
  BY CacheBoundsAssumption DEF CacheIInv, CacheTypeOK, Tick
<1>2. CacheTypeOK'
  <2>1. 0..now \subseteq 0..now'
    BY <1>1
  <2>2. /\ cache' \subseteq Entries'
        /\ match' \in [length : Nat, blocks : Nat, id : 0..stores', created : 0..now', at : 0..now']
    BY <1>1, <2>1 DEF CacheIInv, CacheTypeOK, Entries
  <2>3. QED BY <1>1, <2>2 DEF CacheIInv, CacheTypeOK, Entries
<1>3. HitIsYoung' /\ HitIsCovered'
  BY <1>1 DEF CacheIInv, HitIsYoung, HitIsCovered
<1>4. EntriesInv' /\ MatchInv' /\ IsFiniteSet(cache')
  BY <1>1 DEF CacheIInv, EntriesInv, MatchInv
<1>5. QED BY <1>2, <1>3, <1>4 DEF CacheIInv

LEMMA NextCacheIInv == CacheIInv /\ [CacheNext]_cacheVars => CacheIInv'
<1> SUFFICES ASSUME CacheIInv, [CacheNext]_cacheVars PROVE CacheIInv'
  OBVIOUS
<1>1. ASSUME NEW p \in Prompts, FindPrefix(p) PROVE CacheIInv'
  BY <1>1, FindPrefixStep
<1>2. ASSUME NEW p \in Prompts, StorePrefix(p) PROVE CacheIInv'
  BY <1>2, StorePrefixStep
<1>3. CASE Invalidate
  BY <1>3, ShrinkStep DEF Invalidate
<1>4. CASE CleanupExpired
  BY <1>4, ShrinkStep DEF CleanupExpired
<1>5. CASE Tick
  BY <1>5, TickStep
<1>6. CASE UNCHANGED cacheVars
  BY <1>6, ShrinkStep DEF cacheVars
<1>7. QED BY <1>1, <1>2, <1>3, <1>4, <1>5, <1>6 DEF CacheNext

LEMMA CacheInvariance == CacheSpec => []CacheIInv
<1>1. QED BY InitCacheIInv, NextCacheIInv, PTL DEF CacheSpec

---------------------------------------------------------------------------
\* A hit is no older than the TTL and hands out just the blocks of its tokens, for
\* any prompts, block size, TTL and threshold (find_prefix).
THEOREM SoundHits == CacheSpec => []HitIsSound
<1>1. CacheIInv => HitIsSound
  BY DEF CacheIInv, HitIsSound
<1>2. QED BY <1>1, CacheInvariance, PTL

\* cleanup_expired removes nothing that find_prefix could still return: an entry
\* was not used before it was made.
LEMMA CleanupSpares ==
  ASSUME CacheIInv, CleanupExpired, NEW e \in cache \ cache' PROVE ~Live(e)
<1>1. now - e.used > TTL
  BY DEF CleanupExpired, Stale
<1>2. e.created <= e.used /\ e.created \in Int /\ e.used \in Int /\ now \in Int /\ TTL \in Int
  BY CacheSizesAssumption DEF CacheIInv, EntriesInv, CacheTypeOK
<1>3. QED BY <1>1, <1>2 DEF Live

\* A store gives up the entry of the last hit only if no other was used earlier.
LEMMA EvictionSpares ==
  ASSUME CacheIInv, [CacheNext]_cacheVars, stores' > stores, NEW e \in cache \ cache', e.id = match.id,
         NEW d \in cache
  PROVE  d.used >= match.at
<1>1. PICK p \in Prompts : StorePrefix(p)
  <2>1. stores \in Int
    BY DEF CacheIInv, CacheTypeOK
  <2>2. stores' # stores
    BY <2>1
  <2>3. QED BY <2>2 DEF CacheNext, FindPrefix, Hit, Invalidate, CleanupExpired, Tick, cacheVars
<1>2. PICK K \in Kept : K \subseteq cache'
  BY <1>1 DEF StorePrefix
<1>3. e \in cache /\ e \notin K
  BY <1>2
<1>4. PICK i \in Idlest : K = cache \ {i}
  BY <1>2, <1>3 DEF Kept
<1>5. e \in Idlest
  BY <1>3, <1>4
<1>6. e.used <= d.used /\ e.used = match.at
  BY <1>3, <1>5 DEF Idlest, CacheIInv, MatchInv
<1>7. e.used \in Int /\ d.used \in Int
  BY <1>3 DEF CacheIInv, CacheTypeOK
<1>8. QED BY <1>6, <1>7

\* Neither the cleanup nor the eviction removes what find_prefix would still use,
\* for any history of hits, stores and seconds.
THEOREM SparingRemoval == CacheSpec => RemovalSparesTheLive
<1>1. CacheIInv /\ [CacheNext]_cacheVars => (CleanupExpired => \A e \in cache \ cache' : ~Live(e))
  BY CleanupSpares
<1>2. CacheIInv /\ [CacheNext]_cacheVars =>
        (stores' > stores /\ (\E e \in cache \ cache' : e.id = match.id)
           => \A d \in cache : d.used >= match.at)
  BY EvictionSpares
<1>3. QED
  BY <1>1, <1>2, CacheInvariance, PTL DEF CacheSpec, RemovalSparesTheLive, CleanupSparesLive,
     EvictionSparesTheHit
===========================================================================
