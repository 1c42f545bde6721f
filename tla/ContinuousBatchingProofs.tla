---------------------- MODULE ContinuousBatchingProofs ----------------------
(* Two theorems about ContinuousBatching for any requests, pool and sizes.  No *)
(* request reaches the engine twice: the finished flag is what run_prefill     *)
(* tests first and sets last, and nothing clears it; IInv says that it counts  *)
(* the engine calls exactly.  And no block leaks: the sum over the requests is *)
(* a fold, of which nothing can be proved by induction; it is counted instead, *)
(* as the cardinality of the pairs <<request, unit>>.                          *)
EXTENDS ContinuousBatching, FiniteSetTheorems, SequenceTheorems, WellFoundedInduction, TLAPS

IInv ==
  /\ fresh \subseteq Requests /\ finished \subseteq Requests
  /\ served \in [Requests -> Nat]
  /\ \A r \in Requests : served[r] = IF r \in finished THEN 1 ELSE 0

\* run_prefill on one request, whoever points to it.
LEMMA CompleteKeeps ==
  ASSUME IInv, NEW r \in Requests, Complete(r), UNCHANGED fresh
  PROVE  IInv'
<1>1. CASE r \in finished
  BY <1>1 DEF Complete, IInv
<1>2. CASE r \notin finished
  <2>1. /\ served' = [served EXCEPT ![r] = @ + 1] /\ finished' = finished \cup {r}
        /\ served[r] = 0
    BY <1>2 DEF Complete, IInv
  <2>2. served' \in [Requests -> Nat] /\ finished' \subseteq Requests
    BY <2>1 DEF IInv
  <2>3. \A q \in Requests : served'[q] = IF q \in finished' THEN 1 ELSE 0
    BY <2>1 DEF IInv
  <2>4. QED BY <2>2, <2>3 DEF IInv
<1>3. QED BY <1>1, <1>2

\* A step of no request's engine call.
LEMMA OthersKeep ==
  ASSUME IInv, fresh' \subseteq Requests, UNCHANGED <<finished, served>>
  PROVE  IInv'
BY DEF IInv

\* finish_request is called for what is finished, and returns at once for it.
LEMMA FinishBatchKeeps == ASSUME IInv, FinishBatch PROVE IInv'
<1>1. finished' = finished /\ served' = served /\ fresh' = fresh
  BY DEF FinishBatch, IsFinished
<1>2. QED BY <1>1, OthersKeep DEF IInv

LEMMA InitIInv == Init => IInv
BY DEF Init, IInv

LEMMA NextIInv == IInv /\ [Next]_vars => IInv'
<1> SUFFICES ASSUME IInv, [Next]_vars PROVE IInv'
  OBVIOUS
<1> USE OthersKeep
<1>0. fresh \subseteq Requests
  BY DEF IInv
<1>1. CASE Initialize
  BY <1>0, <1>1 DEF Initialize
<1>2. ASSUME NEW r \in Requests, Submit(r) PROVE IInv'
  BY <1>0, <1>2 DEF Submit
<1>3. CASE StopFlag \/ Join
  BY <1>0, <1>3 DEF StopFlag, Join
<1>4. CASE LoopTest \/ Sleep \/ Break
  BY <1>0, <1>4 DEF LoopTest, Sleep, Break
<1>5. CASE FormBatch
  BY <1>5 DEF FormBatch
<1>6. CASE PrefillGhost
  <2>1. UNCHANGED <<finished, served>> \/ \E r \in fresh : Complete(r)
    BY <1>6 DEF PrefillGhost
  <2>2. UNCHANGED fresh
    BY <1>6 DEF PrefillGhost
  <2>3. QED BY <1>0, <2>1, <2>2, CompleteKeeps
<1>7. ASSUME NEW r \in Requests, Prefill(r) PROVE IInv'
  BY <1>7, CompleteKeeps DEF Prefill
<1>8. CASE FinishBatch
  BY <1>8, FinishBatchKeeps
<1>9. CASE UNCHANGED vars
  BY <1>0, <1>9 DEF vars
<1>10. QED BY <1>1, <1>2, <1>3, <1>4, <1>5, <1>6, <1>7, <1>8, <1>9 DEF Next, Scheduler

\* The content of a request reaches the engine once at most, through the queue, the
\* active map and the dead entries of a batch, over any restarts (run_prefill).
THEOREM OneEngineCall == Spec => []ServedOnce
<1>1. IInv => ServedOnce
  BY DEF IInv, ServedOnce
<1>2. QED BY <1>1, InitIInv, NextIInv, PTL DEF Spec

---------------------------------------------------------------------------
(* Sums: a fold over a finite set counts units, f[x] of them for each x.      *)

Units(f, s) == {u \in s \X Nat : u[2] \in 1..f[u[1]]}

\* c takes an element of every set; g adds f[x] for every x, in the order c takes them.
Chooses(c, S) == \A s \in SUBSET S : s # {} => c[s] \in s
Adds(g, f, c, S) ==
  /\ g \in [SUBSET S -> Nat] /\ g[{}] = 0
  /\ \A s \in SUBSET S : s # {} => g[s] = f[c[s]] + g[s \ {c[s]}]

\* A non-empty set of subsets of a finite set has a member none of whose elements can go.
LEMMA LeastSubset ==
  ASSUME NEW S, IsFiniteSet(S), NEW B, B \subseteq SUBSET S, B # {}
  PROVE  \E T \in B : \A x \in T : T \ {x} \notin B
<1> DEFINE R == StrictSubsetOrdering(S)
<1>1. IsWellFoundedOn(R, SUBSET S)
  BY FS_StrictSubsetOrderingWellFounded, FS_FiniteSubsetsOfFinite
<1>2. PICK T \in B : \A U \in B : ~(<<U, T>> \in R)
  <2> HIDE DEF R
  <2>1. QED BY <1>1, WFMin
<1>3. ASSUME NEW x \in T, T \ {x} \in B PROVE FALSE
  <2>1. <<T \ {x}, T>> \in R
    BY <1>3 DEF StrictSubsetOrdering
  <2>2. QED BY <1>2, <1>3, <2>1
<1>4. QED BY <1>2, <1>3

\* One element adds its own units to those of the others.
LEMMA UnitsOfOneMore ==
  ASSUME NEW f, NEW s, NEW x \in s, f[x] \in Nat, IsFiniteSet(Units(f, s \ {x}))
  PROVE  /\ IsFiniteSet(Units(f, s))
         /\ Cardinality(Units(f, s)) = f[x] + Cardinality(Units(f, s \ {x}))
<1> DEFINE own == {x} \X (1..f[x])
           rest == Units(f, s \ {x})
<1>1. IsFiniteSet(own) /\ Cardinality(own) = f[x]
  <2>1. IsFiniteSet({x}) /\ Cardinality({x}) = 1
    BY FS_Singleton
  <2>2. IsFiniteSet(1..f[x]) /\ Cardinality(1..f[x]) = f[x]
    BY FS_Interval
  <2> DEFINE range == 1..f[x]
  <2>3. IsFiniteSet({x} \X range) /\ Cardinality({x} \X range) = Cardinality({x}) * Cardinality(range)
    <3> HIDE DEF range
    <3>1. QED BY <2>1, <2>2, FS_Product DEF range
  <2>4. 1 * f[x] = f[x]
    OBVIOUS
  <2>5. QED BY <2>1, <2>2, <2>3, <2>4
<1>2. Units(f, s) = own \cup rest /\ own \cap rest = {}
  BY DEF Units
<1>3. IsFiniteSet(rest) /\ Cardinality(rest) \in Nat
  BY FS_CardinalityType
<1> HIDE DEF own, rest
<1>4. /\ IsFiniteSet(own \cup rest)
      /\ Cardinality(own \cup rest)
           = Cardinality(own) + Cardinality(rest) - Cardinality(own \cap rest)
  BY <1>1, <1>3, FS_Union
<1>5. Cardinality({}) = 0
  BY FS_EmptySet
<1>6. Cardinality(own \cap rest) = 0
  BY <1>2, <1>5
<1>7. Cardinality(own \cup rest) = f[x] + Cardinality(rest)
  BY <1>1, <1>3, <1>4, <1>6
<1>8. QED BY <1>2, <1>4, <1>7 DEF rest

LEMMA UnitsFinite ==
  ASSUME NEW f, NEW S, IsFiniteSet(S), \A x \in S : f[x] \in Nat
  PROVE  \A T \in SUBSET S : IsFiniteSet(Units(f, T)) /\ Cardinality(Units(f, T)) \in Nat
<1> DEFINE B == {T \in SUBSET S : ~IsFiniteSet(Units(f, T))}
<1>1. SUFFICES ASSUME B # {} PROVE FALSE
  BY FS_CardinalityType
<1>2. PICK T \in B : \A x \in T : T \ {x} \notin B
  <2> HIDE DEF B
  <2>1. B \subseteq SUBSET S
    BY DEF B
  <2>2. QED BY <1>1, <2>1, LeastSubset
<1>3. CASE T = {}
  <2>1. Units(f, T) = {}
    BY <1>3 DEF Units
  <2>2. QED BY <2>1, FS_EmptySet
<1>4. ASSUME NEW x \in T PROVE FALSE
  BY <1>2, UnitsOfOneMore
<1>5. QED BY <1>3, <1>4

\* The recursive function of a fold that adds f, whatever element it takes next, counts units.
LEMMA FoldCountsUnits ==
  ASSUME NEW f, NEW S, IsFiniteSet(S), \A x \in S : f[x] \in Nat,
         NEW c, Chooses(c, S),
         NEW g, g[{}] = 0,
         \A s \in SUBSET S :
           s # {} /\ g[s \ {c[s]}] \in Nat => g[s] = f[c[s]] + g[s \ {c[s]}]
  PROVE  g[S] = Cardinality(Units(f, S))
<1> DEFINE B == {T \in SUBSET S : g[T] # Cardinality(Units(f, T))}
<1>1. SUFFICES ASSUME B # {} PROVE FALSE
  OBVIOUS
<1>2. PICK T \in B : \A x \in T : T \ {x} \notin B
  <2> HIDE DEF B
  <2>1. B \subseteq SUBSET S
    BY DEF B
  <2>2. QED BY <1>1, <2>1, LeastSubset
<1>3. CASE T = {}
  <2>1. Units(f, T) = {}
    BY <1>3 DEF Units
  <2>2. QED BY <1>3, <2>1, FS_EmptySet
<1>4. CASE T # {}
  <2>1. c[T] \in T /\ T \ {c[T]} \in SUBSET S /\ f[c[T]] \in Nat
    BY <1>4 DEF Chooses
  <2>2. g[T \ {c[T]}] = Cardinality(Units(f, T \ {c[T]}))
    BY <1>2, <2>1
  <2>3. IsFiniteSet(Units(f, T \ {c[T]})) /\ Cardinality(Units(f, T \ {c[T]})) \in Nat
    BY <2>1, UnitsFinite
  <2> DEFINE x == c[T]
  <2>4. Cardinality(Units(f, T)) = f[x] + Cardinality(Units(f, T \ {x}))
    <3>1. x \in T /\ f[x] \in Nat /\ IsFiniteSet(Units(f, T \ {x}))
      BY <2>1, <2>3
    <3> HIDE DEF x
    <3>2. QED BY <3>1, UnitsOfOneMore
  <2>5. g[T] = f[c[T]] + g[T \ {c[T]}]
    BY <1>4, <2>2, <2>3
  <2>6. QED BY <2>2, <2>4, <2>5
<1>5. QED BY <1>3, <1>4

\* There is such a function.
LEMMA FoldExists ==
  ASSUME NEW f, NEW S, IsFiniteSet(S), \A x \in S : f[x] \in Nat, NEW c, Chooses(c, S)
  PROVE  \E g : Adds(g, f, c, S)
<1> DEFINE g == [s \in SUBSET S |-> Cardinality(Units(f, s))]
<1>1. \A s \in SUBSET S : g[s] \in Nat
  BY UnitsFinite
<1>2. g[{}] = 0
  <2>1. Units(f, {}) = {}
    BY DEF Units
  <2>2. QED BY <2>1, FS_EmptySet
<1>3. ASSUME NEW s \in SUBSET S, s # {} PROVE g[s] = f[c[s]] + g[s \ {c[s]}]
  <2> DEFINE x == c[s]
  <2>1. x \in s /\ s \ {x} \in SUBSET S /\ f[x] \in Nat
    BY <1>3 DEF Chooses
  <2>2. IsFiniteSet(Units(f, s \ {x}))
    BY <2>1, UnitsFinite
  <2>3. Cardinality(Units(f, s)) = f[x] + Cardinality(Units(f, s \ {x}))
    <3> HIDE DEF x
    <3>1. QED BY <2>1, <2>2, UnitsOfOneMore
  <2>4. QED BY <2>1, <2>3
<1>4. g \in [SUBSET S -> Nat]
  BY <1>1
<1> HIDE DEF g
<1>5. QED BY <1>2, <1>3, <1>4 DEF Adds

\* The greatest of a bounded, non-empty set of numbers is one of them.
LEMMA MaxOfBounded ==
  ASSUME NEW b \in Nat, NEW S, S \subseteq 0..b, S # {}
  PROVE  Max(S) \in S
<1> DEFINE R == {ss \in Nat \X Nat : ss[1] < ss[2]}
           D == {n \in 0..b : b - n \in S}
<1>1. D \subseteq Nat /\ D # {}
  <2>1. PICK x \in S : TRUE
    OBVIOUS
  <2>2. b - x \in 0..b /\ b - (b - x) = x
    BY <2>1
  <2>3. QED BY <2>1, <2>2
<1>2. PICK d \in D : \A y \in D : ~(<<y, d>> \in R)
  <2>1. IsWellFoundedOn(R, Nat)
    BY NatLessThanWellFounded DEF OpToRel
  <2> HIDE DEF D, R
  <2>2. QED BY <1>1, <2>1, WFMin
<1>3. ASSUME NEW y \in S PROVE y <= b - d
  <2>1. b - y \in D
    BY <1>3
  <2>2. ~(b - y < d)
    BY <1>1, <1>2, <2>1
  <2>3. QED BY <2>2, <1>2
<1>4. \E x \in S : \A y \in S : x >= y
  BY <1>2, <1>3
<1>5. QED BY <1>4 DEF Max

\* The sum over a set.
LEMMA SumCountsUnits ==
  ASSUME NEW f, NEW S, IsFiniteSet(S), \A x \in S : f[x] \in Nat
  PROVE  MapThenSumSet(LAMBDA x : f[x], S) = Cardinality(Units(f, S))
<1> DEFINE Some(s) == CHOOSE x \in s : TRUE
           c == [s \in SUBSET S |-> Some(s)]
           Is(g) == g = [s \in SUBSET S |->
                           IF s = {} THEN 0 ELSE f[Some(s)] + g[s \ {Some(s)}]]
           fold == CHOOSE g : Is(g)
<1>1. Chooses(c, S)
  BY DEF Chooses
<1>2. MapThenSumSet(LAMBDA x : f[x], S) = fold[S]
  BY DEF MapThenSumSet, MapThenFoldSet
<1>3. \A s \in SUBSET S : c[s] = Some(s)
  OBVIOUS
<1> HIDE DEF c
<1>4. PICK g : Adds(g, f, c, S)
  BY <1>1, FoldExists
<1> HIDE DEF Some
<1>5. Is(g)
  <2> DEFINE h == [s \in SUBSET S |-> IF s = {} THEN 0 ELSE f[Some(s)] + g[s \ {Some(s)}]]
  <2>1. \A s \in SUBSET S : g[s] = h[s]
    BY <1>3, <1>4 DEF Adds
  <2>2. QED BY <1>4, <2>1 DEF Adds
<1>6. Is(fold)
  BY <1>5
<1> HIDE DEF fold
<1>7. /\ fold[{}] = 0
      /\ \A s \in SUBSET S : s # {} => fold[s] = f[c[s]] + fold[s \ {c[s]}]
  BY <1>3, <1>6
<1>8. fold[S] = Cardinality(Units(f, S))
  BY <1>1, <1>7, FoldCountsUnits
<1>9. QED BY <1>2, <1>8

Need == [r \in Requests |-> BlocksNeeded(r)]

LEMMA NeedType == Need \in [Requests -> Nat]
<1>1. ASSUME NEW r \in Requests PROVE BlocksNeeded(r) \in Nat
  <2>1. Tokens[r] + BlockSize - 1 \in Nat /\ BlockSize \in Nat \ {0}
    BY RequestsAssumption, SizesAssumption
  <2>2. \A m \in Nat, n \in Nat \ {0} : m \div n \in Nat
    OBVIOUS
  <2>3. QED BY <2>1, <2>2 DEF BlocksNeeded
<1>2. QED BY <1>1 DEF Need

\* The sum along a queue.
LEMMA BlocksOfCountsUnits ==
  ASSUME NEW q \in Seq(Requests)
  PROVE  BlocksOf(q) = Cardinality(Units([j \in DOMAIN q |-> Need[q[j]]], DOMAIN q))
<1> DEFINE S == DOMAIN q
           f == [j \in S |-> Need[q[j]]]
           c == [s \in SUBSET S |-> Max(s)]
           Is(g) == g = [s \in SUBSET S |->
                           IF s = {} THEN 0 ELSE g[s \ {Max(s)}] + BlocksNeeded(q[Max(s)])]
           fold == CHOOSE g : Is(g)
<1>1. IsFiniteSet(S) /\ S = 1..Len(q) /\ Len(q) \in Nat
  <2>1. S = 1..Len(q) /\ Len(q) \in Nat
    BY LenProperties
  <2>2. QED BY <2>1, FS_Interval
<1>2. \A x \in S : q[x] \in Requests /\ f[x] \in Nat /\ f[x] = BlocksNeeded(q[x])
  BY <1>1, NeedType DEF Need
<1>3. BlocksOf(q) = fold[S]
  BY DEF BlocksOf, FoldLeft, MapThenFoldSet
<1> HIDE DEF f
<1>4. Chooses(c, S)
  <2>1. ASSUME NEW s \in SUBSET S, s # {} PROVE Max(s) \in s
    <3>1. s \subseteq 0..Len(q)
      BY <1>1
    <3>2. QED BY <1>1, <2>1, <3>1, MaxOfBounded
  <2>2. QED BY <2>1 DEF Chooses
<1>5. \A s \in SUBSET S : c[s] = Max(s)
  OBVIOUS
<1> HIDE DEF c, S
<1>6. PICK g : Adds(g, f, c, S)
  BY <1>1, <1>2, <1>4, FoldExists
<1>7. Is(g)
  <2> DEFINE h == [s \in SUBSET S |->
                     IF s = {} THEN 0 ELSE g[s \ {Max(s)}] + BlocksNeeded(q[Max(s)])]
  <2>1. ASSUME NEW s \in SUBSET S, s # {} PROVE g[s] = h[s]
    <3>1. c[s] \in S /\ s \ {c[s]} \in SUBSET S
      BY <1>4, <2>1 DEF Chooses
    <3>2. f[c[s]] \in Nat /\ f[c[s]] = BlocksNeeded(q[c[s]]) /\ g[s \ {c[s]}] \in Nat
      BY <1>2, <1>6, <3>1 DEF Adds
    <3>3. g[s] = f[c[s]] + g[s \ {c[s]}]
      BY <1>6, <2>1 DEF Adds
    <3>4. h[s] = g[s \ {c[s]}] + f[c[s]]
      BY <1>5, <2>1, <3>2
    <3>5. QED BY <3>2, <3>3, <3>4
  <2>2. g[{}] = h[{}]
    BY <1>6 DEF Adds
  <2>3. \A s \in SUBSET S : g[s] = h[s]
    BY <2>1, <2>2
  <2>4. QED BY <1>6, <2>3 DEF Adds
<1>8. Is(fold)
  BY <1>7
<1> HIDE DEF fold
<1>9. fold[{}] = 0
  BY <1>8
<1>10. ASSUME NEW s \in SUBSET S, s # {}, fold[s \ {c[s]}] \in Nat
       PROVE  fold[s] = f[c[s]] + fold[s \ {c[s]}]
  <2>1. fold[s] = fold[s \ {c[s]}] + BlocksNeeded(q[c[s]])
    BY <1>5, <1>8, <1>10
  <2>2. c[s] \in S
    BY <1>4, <1>10 DEF Chooses
  <2>3. f[c[s]] \in Nat /\ f[c[s]] = BlocksNeeded(q[c[s]])
    BY <1>2, <2>2
  <2>4. QED BY <1>10, <2>1, <2>3
<1>11. \A s \in SUBSET S :
         s # {} /\ fold[s \ {c[s]}] \in Nat => fold[s] = f[c[s]] + fold[s \ {c[s]}]
  BY <1>10
<1>12. IsFiniteSet(S) /\ \A x \in S : f[x] \in Nat
  BY <1>1, <1>2
<1>13. fold[S] = Cardinality(Units(f, S))
  BY <1>4, <1>9, <1>11, <1>12, FoldCountsUnits
<1>14. QED BY <1>3, <1>13 DEF f, S

\* A queue that holds nothing twice needs what its requests need.
LEMMA BlocksOfDistinct ==
  ASSUME NEW q \in Seq(Requests), IsInjective(q)
  PROVE  BlocksOf(q) = Cardinality(Units(Need, ToSet(q)))
<1> DEFINE f == [j \in DOMAIN q |-> Need[q[j]]]
           A == Units(f, DOMAIN q)
           B == Units(Need, ToSet(q))
           m == [u \in A |-> <<q[u[1]], u[2]>>]
<1>1. IsFiniteSet(DOMAIN q) /\ \A x \in DOMAIN q : q[x] \in Requests /\ f[x] \in Nat
  <2>1. DOMAIN q = 1..Len(q) /\ Len(q) \in Nat
    BY LenProperties
  <2>2. QED BY <2>1, FS_Interval, NeedType
<1>2. IsFiniteSet(A)
  <2> HIDE DEF f
  <2>1. QED BY <1>1, UnitsFinite
<1>3. m \in Bijection(A, B)
  <2>1. m \in [A -> B]
    BY DEF Units, ToSet
  <2>2. \A u \in A, v \in A : m[u] = m[v] => u = v
    BY DEF Units, IsInjective
  <2>3. \A w \in B : \E u \in A : m[u] = w
    <3>1. TAKE w \in B
    <3>2. PICK j \in DOMAIN q : w[1] = q[j]
      BY DEF Units, ToSet
    <3>3. <<j, w[2]>> \in A /\ m[<<j, w[2]>>] = w
      BY <3>2 DEF Units
    <3>4. QED BY <3>3
  <2>4. QED BY <2>1, <2>2, <2>3 DEF Bijection, Injection, Surjection, IsInjective
<1>4. Cardinality(B) = Cardinality(A)
  <2> HIDE DEF A, B, m
  <2>1. QED BY <1>2, <1>3, FS_Bijection DEF ExistsBijection
<1>5. QED BY <1>4, BlocksOfCountsUnits

---------------------------------------------------------------------------
(* The pool.                                                                *)

HeldBlocks == Cardinality(Units(held, Requests))

\* The books of the pool, in units.
Books ==
  /\ ToSet(pending) \cap active = {} /\ IsInjective(pending)
  /\ free + HeldBlocks = PoolBlocks
  /\ \A r \in Requests \ active : held[r] = 0

PoolInv == IInv /\ TypeOK /\ Books

\* The sum of what is held is a number of units.
LEMMA HeldIsCounted ==
  held \in [Requests -> Nat] => MapThenSumSet(LAMBDA r : held[r], Requests) = HeldBlocks
<1>1. SUFFICES ASSUME held \in [Requests -> Nat]
               PROVE  MapThenSumSet(LAMBDA r : held[r], Requests) = HeldBlocks
  OBVIOUS
<1>2. IsFiniteSet(Requests) /\ \A r \in Requests : held[r] \in Nat
  BY <1>1, RequestsAssumption
<1>3. QED BY <1>2, SumCountsUnits DEF HeldBlocks

LEMMA BooksAreKept == TypeOK => (PoolAccounted <=> Books)
<1>1. SUFFICES ASSUME TypeOK PROVE PoolAccounted <=> Books
  OBVIOUS
<1>2. held \in [Requests -> Nat]
  BY <1>1 DEF TypeOK
<1>3. MapThenSumSet(LAMBDA r : held[r], Requests) = HeldBlocks
  BY <1>2, HeldIsCounted
<1>4. QED BY <1>1, <1>3 DEF PoolAccounted, Books

\* A step that leaves the queue, the map and the pool alone.
LEMMA PoolUntouched ==
  ASSUME Books, UNCHANGED <<pending, active, cache>> PROVE Books'
BY DEF Books, HeldBlocks, cache

\* The loop of form_batch stops at a request that does not fit, and below the batch's size.
LEMMA AdmittedFits ==
  ASSUME TypeOK
  PROVE  /\ Admitted \in 0..Len(pending) /\ Admitted <= MaxBatchSize
         /\ BlocksOf(SubSeq(pending, 1, Admitted)) <= free
<1> DEFINE S == {k \in 0..Len(pending) : \A j \in 1..k : Fits(j)}
           k == Admitted
<1>1. Len(pending) \in Nat /\ MaxBatchSize \in Nat /\ free \in Nat
  BY LenProperties, SizesAssumption DEF TypeOK
<1>2. 0 \in S
  BY <1>1
<1>3. S \subseteq 0..Len(pending) /\ S # {}
  BY <1>2
<1>4. k \in S
  <2>1. Admitted = Max(S)
    BY DEF Admitted
  <2> HIDE DEF S
  <2>2. QED BY <1>1, <1>3, <2>1, MaxOfBounded
<1> HIDE DEF k
<1>5. k \in 0..Len(pending) /\ (k # 0 => Fits(k))
  BY <1>1, <1>4
<1>6. CASE k = 0
  <2>1. SubSeq(pending, 1, k) = <<>>
    BY <1>6, SubSeqEmpty DEF TypeOK
  <2>2. <<>> \in Seq(Requests) /\ IsInjective(<<>>) /\ ToSet(<<>>) = {}
    BY EmptySeq DEF IsInjective, ToSet
  <2>3. Units(Need, {}) = {}
    BY DEF Units
  <2>4. BlocksOf(<<>>) = 0
    BY <2>2, <2>3, BlocksOfDistinct, FS_EmptySet
  <2>5. BlocksOf(SubSeq(pending, 1, k)) = 0
    BY <2>1, <2>4
  <2>6. 0 <= free /\ 0 <= MaxBatchSize
    BY <1>1
  <2>7. QED BY <1>5, <1>6, <2>5, <2>6 DEF k
<1>7. CASE k # 0
  BY <1>1, <1>5, <1>7 DEF Fits, k
<1>8. QED BY <1>6, <1>7

\* A queue that holds nothing twice, cut in two.
LEMMA CutQueue ==
  ASSUME NEW q \in Seq(Requests), IsInjective(q), NEW k \in 0..Len(q)
  PROVE  LET front == SubSeq(q, 1, k)
             rest == SubSeq(q, k + 1, Len(q))
         IN  /\ front \in Seq(Requests) /\ IsInjective(front)
             /\ rest \in Seq(Requests) /\ IsInjective(rest)
             /\ ToSet(front) \subseteq ToSet(q) /\ ToSet(rest) \subseteq ToSet(q)
             /\ ToSet(front) \cap ToSet(rest) = {}
             /\ ToSet(q) \subseteq Requests
<1> DEFINE front == SubSeq(q, 1, k)
           rest == SubSeq(q, k + 1, Len(q))
<1>1. Len(q) \in Nat /\ DOMAIN q = 1..Len(q) /\ \A j \in 1..Len(q) : q[j] \in Requests
  BY LenProperties
<1>2. /\ front \in Seq(Requests) /\ DOMAIN front = 1..k
      /\ \A j \in 1..k : front[j] = q[j]
  <2>1. \A j \in 1..k : q[j] \in Requests
    BY <1>1
  <2>2. front \in Seq(Requests) /\ Len(front) = k /\ \A j \in 1..k : front[j] = q[j]
    BY <1>1, <2>1, SubSeqProperties
  <2>3. QED BY <2>2, LenProperties
<1>3. /\ rest \in Seq(Requests) /\ DOMAIN rest = 1..(Len(q) - k)
      /\ \A j \in 1..(Len(q) - k) : rest[j] = q[k + j]
  <2>1. \A j \in (k + 1)..Len(q) : q[j] \in Requests
    BY <1>1
  <2>2. /\ rest \in Seq(Requests)
        /\ Len(rest) = IF k + 1 <= Len(q) THEN Len(q) - (k + 1) + 1 ELSE 0
        /\ \A j \in 1..(Len(q) - (k + 1) + 1) : rest[j] = q[(k + 1) + j - 1]
    <3>1. k + 1 \in Int /\ Len(q) \in Int
      BY <1>1
    <3> HIDE DEF rest
    <3>2. QED BY <2>1, <3>1, SubSeqProperties DEF rest
  <2> HIDE DEF rest
  <2>3. Len(rest) = Len(q) - k
    <3>1. Len(q) \in Nat /\ k \in Nat /\ k <= Len(q)
      BY <1>1
    <3>2. Len(rest) = IF k + 1 <= Len(q) THEN Len(q) - (k + 1) + 1 ELSE 0
      BY <2>2
    <3>3. CASE k + 1 <= Len(q)
      BY <3>1, <3>2, <3>3
    <3>4. CASE ~(k + 1 <= Len(q))
      <4>1. k = Len(q)
        BY <3>1, <3>4
      <4>2. Len(q) - k = 0
        BY <3>1, <4>1
      <4>3. QED BY <3>2, <3>4, <4>2
    <3>5. QED BY <3>3, <3>4
  <2>4. \A j \in 1..(Len(q) - k) : rest[j] = q[k + j]
    <3>1. TAKE j \in 1..(Len(q) - k)
    <3>2. j \in 1..(Len(q) - (k + 1) + 1) /\ (k + 1) + j - 1 = k + j
      BY <1>1
    <3>3. QED BY <2>2, <3>2
  <2>5. QED BY <2>2, <2>3, <2>4, LenProperties
<1> HIDE DEF front, rest
<1>4. IsInjective(front) /\ ToSet(front) \subseteq ToSet(q)
  BY <1>1, <1>2 DEF IsInjective, ToSet
<1>5. IsInjective(rest) /\ ToSet(rest) \subseteq ToSet(q)
  <2>1. \A j \in DOMAIN rest : k + j \in DOMAIN q /\ rest[j] = q[k + j]
    BY <1>1, <1>3
  <2>2. \A a \in DOMAIN rest, b \in DOMAIN rest : k + a = k + b => a = b
    BY <1>3
  <2>3. QED BY <2>1, <2>2 DEF IsInjective, ToSet
<1>6. ToSet(front) \cap ToSet(rest) = {}
  <2>1. ASSUME NEW a \in DOMAIN front, NEW b \in DOMAIN rest, front[a] = rest[b] PROVE FALSE
    <3>1. a \in DOMAIN q /\ k + b \in DOMAIN q /\ q[a] = q[k + b] /\ a # k + b
      BY <1>1, <1>2, <1>3, <2>1
    <3>2. QED BY <3>1 DEF IsInjective
  <2>2. QED BY <2>1 DEF ToSet
<1>7. QED BY <1>1, <1>2, <1>3, <1>4, <1>5, <1>6 DEF front, rest, ToSet

\* What is admitted gets its blocks from the free ones, and held none before.
LEMMA AllocationCounts ==
  ASSUME held \in [Requests -> Nat], NEW taken \in SUBSET Requests,
         \A r \in taken : held[r] = 0,
         NEW h, h = [r \in Requests |-> IF r \in taken THEN BlocksNeeded(r) ELSE held[r]]
  PROVE  /\ h \in [Requests -> Nat]
         /\ Cardinality(Units(h, Requests)) = HeldBlocks + Cardinality(Units(Need, taken))
<1>1. /\ h \in [Requests -> Nat]
      /\ \A r \in Requests : h[r] = IF r \in taken THEN Need[r] ELSE held[r]
  BY NeedType DEF Need
<1> DEFINE A == Units(held, Requests)
           B == Units(Need, taken)
<1>2. /\ IsFiniteSet(A) /\ Cardinality(A) \in Nat
      /\ IsFiniteSet(B) /\ Cardinality(B) \in Nat
  <2>1. IsFiniteSet(Requests) /\ \A r \in Requests : held[r] \in Nat /\ Need[r] \in Nat
    BY RequestsAssumption, NeedType
  <2>2. QED BY <2>1, UnitsFinite
<1>3. Units(h, Requests) = A \cup B /\ A \cap B = {}
  BY <1>1 DEF Units
<1> HIDE DEF A, B
<1>4. Cardinality(A \cup B) = Cardinality(A) + Cardinality(B) - Cardinality(A \cap B)
  BY <1>2, FS_Union
<1>5. Cardinality(A \cap B) = 0
  BY <1>3, FS_EmptySet
<1>6. Cardinality(A \cup B) = Cardinality(A) + Cardinality(B)
  BY <1>2, <1>4, <1>5
<1>7. QED BY <1>1, <1>3, <1>6 DEF HeldBlocks, A, B

LEMMA FormBatchBooks == ASSUME PoolInv, FormBatch PROVE TypeOK' /\ Books'
<1> DEFINE k == Admitted
           front == SubSeq(pending, 1, k)
           rest == SubSeq(pending, k + 1, Len(pending))
           taken == ToSet(front)
<1>1. /\ pending' = rest /\ fresh' = {}
      /\ active' = active \cup taken /\ free' = free - BlocksOf(front)
      /\ held' = [r \in Requests |-> IF r \in taken THEN BlocksNeeded(r) ELSE held[r]]
      /\ ghosts' = k /\ work' \in Joining(active \cup taken, MaxBatchSize - k) /\ todo' = work'
      /\ pc' \in {"top", "prefill"}
      /\ UNCHANGED <<completed, finished, running, stage, starts, served>>
  BY DEF FormBatch
<1>2. k \in 0..Len(pending) /\ k <= MaxBatchSize /\ BlocksOf(front) <= free
  BY AdmittedFits DEF PoolInv
<1> HIDE DEF k
<1>3. /\ front \in Seq(Requests) /\ IsInjective(front)
      /\ rest \in Seq(Requests) /\ IsInjective(rest)
      /\ taken \subseteq ToSet(pending) /\ ToSet(rest) \subseteq ToSet(pending)
      /\ taken \cap ToSet(rest) = {} /\ ToSet(pending) \subseteq Requests
  BY <1>2, CutQueue DEF PoolInv, TypeOK, Books
<1>4. BlocksOf(front) = Cardinality(Units(Need, taken))
  BY <1>3, BlocksOfDistinct
<1>5. Cardinality(Units(Need, taken)) \in Nat
  <2>1. \A r \in Requests : Need[r] \in Nat
    BY NeedType
  <2>2. taken \in SUBSET Requests
    BY <1>3
  <2> HIDE DEF taken
  <2>3. QED BY <2>1, <2>2, RequestsAssumption, UnitsFinite
<1> HIDE DEF front, rest, taken
<1>6. /\ held \in [Requests -> Nat] /\ active \subseteq Requests /\ free \in 0..PoolBlocks
      /\ ToSet(pending) \cap active = {} /\ free + HeldBlocks = PoolBlocks
      /\ \A r \in Requests \ active : held[r] = 0
  BY DEF PoolInv, TypeOK, Books
<1>7. taken \subseteq Requests /\ \A r \in taken : held[r] = 0
  BY <1>3, <1>6
<1>8. held' \in [Requests -> Nat] /\ HeldBlocks' = HeldBlocks + BlocksOf(front)
  <2>1. taken \in SUBSET Requests
    BY <1>7
  <2>2. /\ held' \in [Requests -> Nat]
        /\ Cardinality(Units(held', Requests)) = HeldBlocks + Cardinality(Units(Need, taken))
    BY <1>1, <1>6, <1>7, <2>1, AllocationCounts
  <2>3. QED BY <1>4, <2>2 DEF HeldBlocks
<1>9. HeldBlocks \in Nat
  <2>1. IsFiniteSet(Requests) /\ \A r \in Requests : held[r] \in Nat
    BY <1>6, RequestsAssumption
  <2>2. QED BY <2>1, UnitsFinite DEF HeldBlocks
<1>10. PoolBlocks \in Nat /\ MaxBatchSize \in Nat
  BY SizesAssumption
<1>11. free' \in 0..PoolBlocks /\ free' + HeldBlocks' = PoolBlocks
  <2> DEFINE b == BlocksOf(front)
  <2>1. b \in Nat /\ b <= free /\ free \in Nat /\ free <= PoolBlocks
    BY <1>2, <1>4, <1>5, <1>6, <1>10
  <2>2. free' = free - b /\ HeldBlocks' = HeldBlocks + b /\ free + HeldBlocks = PoolBlocks
    BY <1>1, <1>6, <1>8
  <2> HIDE DEF b
  <2>3. QED BY <1>9, <1>10, <2>1, <2>2
<1>12. work' \subseteq Requests /\ todo' \subseteq work'
  <2>1. work' \subseteq (active \cup taken) \ finished
    BY <1>1 DEF Joining
  <2>2. QED BY <1>1, <1>6, <1>7, <2>1
<1>13. ghosts' \in 0..MaxBatchSize
  <2>1. Len(pending) \in Nat
    BY LenProperties DEF PoolInv, TypeOK
  <2>2. QED BY <1>1, <1>2, <1>10, <2>1
<1>14. TypeOK'
  BY <1>1, <1>3, <1>6, <1>7, <1>8, <1>11, <1>12, <1>13 DEF PoolInv, TypeOK
<1>15. /\ ToSet(pending') \cap active' = {} /\ IsInjective(pending')
       /\ \A r \in Requests \ active' : held'[r] = 0
  BY <1>1, <1>3, <1>6
<1>16. QED BY <1>11, <1>14, <1>15 DEF Books

\* submit_request: what is already somewhere is not pushed again.
LEMMA SubmitBooks ==
  ASSUME PoolInv, NEW r \in Requests, Submit(r) PROVE TypeOK' /\ Books'
<1>1. /\ r \notin ToSet(pending) \cup active /\ pending' = Append(pending, r)
      /\ fresh' = fresh \cup {r}
      /\ UNCHANGED <<active, completed, finished, cache, running, pc, batch, stage, starts, served>>
  BY DEF Submit
<1>2. pending \in Seq(Requests) /\ IsInjective(pending) /\ Len(pending) \in Nat
  BY LenProperties DEF PoolInv, TypeOK, Books
<1>3. /\ pending' \in Seq(Requests) /\ Len(pending') = Len(pending) + 1
      /\ \A j \in 1..Len(pending) : pending'[j] = pending[j]
      /\ pending'[Len(pending) + 1] = r
  BY <1>1, <1>2, AppendProperties
<1>4. DOMAIN pending = 1..Len(pending) /\ DOMAIN pending' = 1..(Len(pending) + 1)
  BY <1>2, <1>3, LenProperties
<1>5. \A j \in DOMAIN pending' : j \in DOMAIN pending \/ j = Len(pending) + 1
  BY <1>2, <1>4
<1>6. \A j \in DOMAIN pending : pending[j] # r /\ pending'[j] = pending[j]
  BY <1>1, <1>3, <1>4 DEF ToSet
<1>7. IsInjective(pending')
  BY <1>2, <1>3, <1>5, <1>6 DEF IsInjective
<1>8. ToSet(pending') \subseteq ToSet(pending) \cup {r}
  BY <1>3, <1>5, <1>6 DEF ToSet
<1>9. TypeOK'
  BY <1>1, <1>3 DEF PoolInv, TypeOK, cache, batch
<1>10. Books'
  BY <1>1, <1>7, <1>8 DEF PoolInv, Books, HeldBlocks, cache
<1>11. QED BY <1>9, <1>10

LEMMA InitBooks == Init => TypeOK /\ Books
<1> SUFFICES ASSUME Init PROVE TypeOK /\ Books
  OBVIOUS
<1>1. pending \in Seq(Requests) /\ IsInjective(pending) /\ ToSet(pending) = {}
  BY EmptySeq DEF Init, IsInjective, ToSet
<1>2. Units(held, Requests) = {}
  BY DEF Init, Units
<1>3. HeldBlocks = 0
  BY <1>2, FS_EmptySet DEF HeldBlocks
<1>4. TypeOK
  <2>1. running \in BOOLEAN
    BY Zenon DEF Init
  <2>2. free \in 0..PoolBlocks /\ ghosts \in 0..MaxBatchSize /\ starts \in 0..MaxStarts
    BY SizesAssumption, StartsAssumption DEF Init
  <2>3. held \in [Requests -> Nat] /\ served \in [Requests -> Nat]
    BY DEF Init
  <2>4. QED BY <1>1, <2>1, <2>2, <2>3 DEF Init, TypeOK
<1>5. Books
  BY <1>1, <1>3, SizesAssumption DEF Init, Books
<1>6. QED BY <1>4, <1>5

\* The engine calls, the loop and the other threads leave the pool alone; finish_request
\* returns at once for what is finished.
LEMMA OthersBooks ==
  ASSUME PoolInv, IInv', Initialize \/ StopFlag \/ Join \/ LoopTest \/ Sleep \/ Break
                  \/ PrefillGhost \/ FinishBatch \/ (\E r \in Requests : Prefill(r))
  PROVE  TypeOK' /\ Books'
<1>1. CASE FinishBatch
  <2>1. {r \in work : IsFinished(r)} \ finished = {}
    BY DEF IsFinished
  <2>2. MapThenSumSet(LAMBDA r : held[r], {}) = 0
    <3>1. IsFiniteSet({}) /\ \A x \in {} : held[x] \in Nat
      BY FS_EmptySet
    <3>2. MapThenSumSet(LAMBDA x : held[x], {}) = Cardinality(Units(held, {}))
      BY <3>1, SumCountsUnits
    <3>3. Units(held, {}) = {}
      BY DEF Units
    <3>4. QED BY <3>2, <3>3, FS_EmptySet
  <2>3. /\ pc' = "top" /\ work' = {} /\ todo = {} /\ finished' = finished
        /\ free' = free + MapThenSumSet(LAMBDA r : held[r], {})
        /\ held' = [r \in Requests |-> held[r]] /\ active' = active /\ completed' = completed
        /\ UNCHANGED <<pending, fresh, running, ghosts, todo, stage, starts, served>>
    BY <1>1, <2>1 DEF FinishBatch
  <2>4. free' = free /\ held' = held
    BY <2>2, <2>3 DEF PoolInv, TypeOK
  <2>5. UNCHANGED <<pending, active, cache>>
    BY <2>3, <2>4 DEF cache
  <2>6. TypeOK'
    BY <2>3, <2>4 DEF PoolInv, TypeOK
  <2>7. QED BY <2>5, <2>6, PoolUntouched DEF PoolInv
<1>2. CASE PrefillGhost \/ (\E r \in Requests : Prefill(r))
  <2>1. /\ UNCHANGED <<pending, active, completed, fresh, cache, running, work, stage, starts>>
        /\ pc' \in {"prefill", "gone"} /\ todo' \subseteq todo
        /\ ghosts' = ghosts \/ (ghosts > 0 /\ ghosts' = ghosts - 1)
    BY <1>2 DEF PrefillGhost, Prefill
  <2>2. finished' \subseteq Requests /\ served' \in [Requests -> Nat]
    BY DEF IInv
  <2>3. TypeOK'
    BY <2>1, <2>2, SizesAssumption DEF PoolInv, TypeOK, cache
  <2>4. QED BY <2>1, <2>3, PoolUntouched DEF PoolInv
<1>3. CASE Initialize \/ StopFlag \/ Join \/ LoopTest \/ Sleep \/ Break
  <2>1. UNCHANGED <<pending, active, completed, finished, fresh, cache, batch, served>>
    BY <1>3 DEF Initialize, StopFlag, Join, LoopTest, Sleep, Break
  <2>2. /\ pc' \in {"off", "top", "wait", "asleep", "prefill", "exited", "gone"}
        /\ running' \in BOOLEAN /\ stage' \in {"none", "join"} /\ starts' \in 0..MaxStarts
    <3>1. running' \in BOOLEAN
      BY <1>3, Zenon DEF Initialize, StopFlag, Join, LoopTest, Sleep, Break, PoolInv, TypeOK
    <3>2. stage' \in {"none", "join"}
      BY <1>3 DEF Initialize, StopFlag, Join, LoopTest, Sleep, Break, PoolInv, TypeOK
    <3>3. pc' \in {"off", "top", "wait", "asleep", "prefill", "exited", "gone"}
      BY <1>3 DEF Initialize, StopFlag, Join, LoopTest, Sleep, Break, PoolInv, TypeOK
    <3>4. starts' \in 0..MaxStarts
      BY <1>3, StartsAssumption
      DEF Initialize, StopFlag, Join, LoopTest, Sleep, Break, PoolInv, TypeOK
    <3>5. QED BY <3>1, <3>2, <3>3, <3>4
  <2>3. TypeOK'
    BY <2>1, <2>2 DEF PoolInv, TypeOK, cache, batch
  <2>4. QED BY <2>1, <2>3, PoolUntouched DEF PoolInv
<1>4. QED BY <1>1, <1>2, <1>3

LEMMA NextPoolInv == PoolInv /\ [Next]_vars => PoolInv'
<1> SUFFICES ASSUME PoolInv, [Next]_vars PROVE PoolInv'
  OBVIOUS
<1>1. IInv'
  BY NextIInv DEF PoolInv
<1>2. CASE UNCHANGED vars
  <2>1. TypeOK'
    BY <1>2 DEF PoolInv, TypeOK, vars, cache, batch
  <2>2. Books'
    BY <1>2, PoolUntouched DEF PoolInv, vars, cache
  <2>3. QED BY <1>1, <2>1, <2>2 DEF PoolInv
<1>3. CASE Next
  <2>1. TypeOK' /\ Books'
    BY <1>1, <1>3, SubmitBooks, FormBatchBooks, OthersBooks DEF Next, Scheduler
  <2>2. QED BY <1>1, <2>1 DEF PoolInv
<1>4. QED BY <1>2, <1>3

\* No two places hold one request, and the blocks of the pool are those free and those held
\* by the admitted, for any requests, pool, budgets and restarts (submit_request, form_batch,
\* finish_request).
THEOREM PoolKept == Spec => []PoolAccounted
<1>1. Init => PoolInv
  BY InitIInv, InitBooks DEF PoolInv
<1>2. PoolInv => PoolAccounted
  BY BooksAreKept DEF PoolInv
<1>3. QED BY <1>1, <1>2, NextPoolInv, PTL DEF Spec
=============================================================================
