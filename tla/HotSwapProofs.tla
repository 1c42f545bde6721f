--------------------------- MODULE HotSwapProofs ---------------------------
(***************************************************************************)
(* Proofs about HotSwap, for any models, any request threads and any       *)
(* budget.                                                                 *)
(*                                                                         *)
(* The inductive invariant ties models_mutex_ to the places where a call   *)
(* holds it (MutexHeld): so one thread at most swaps or generates, and     *)
(* what the others may change stands still meanwhile.  WantedIsNew keeps   *)
(* the model being loaded apart from those that may be evicted for it.     *)
(* RequestsGetNearer says how long a request may take.                     *)
(***************************************************************************)
EXTENDS HotSwap, FiniteSetTheorems, TLAPS

Holding == {"swapTarget", "swapDraft", "generating"}

MutexHeld == \A r \in Requests : mutex = r <=> pc[r] \in Holding

RequestKnown == \A r \in Requests :
  /\ pc[r] # "idle" => target[r] \in Models
  /\ pc[r] \in {"loadDraft", "swapDraft"} => draft[r] \in Models

WantedIsNew == \A r \in Requests : Swapping(r) => Wanted(r) \notin loaded

IInv == /\ TypeOK /\ MutexHeld /\ RequestKnown /\ WantedIsNew
        /\ BudgetKept /\ NoWeightsLeaked /\ GeneratingIsResident

\* What Goto and Answer do to thread r, and leave alone in the others.
Moved(r) ==
  /\ pc' \in [Requests -> PCs] /\ kind' \in [Requests -> Kinds]
  /\ target' \in [Requests -> Models \cup {NoModel}]
  /\ draft' \in [Requests -> Models \cup {NoModel}]
  /\ \A q \in Requests : q # r =>
       /\ pc'[q] = pc[q] /\ kind'[q] = kind[q]
       /\ target'[q] = target[q] /\ draft'[q] = draft[q]
  /\ \/ pc'[r] = "idle"
     \/ kind'[r] = kind[r] /\ target'[r] = target[r] /\ draft'[r] = draft[r]

LEMMA GotoMoves ==
  ASSUME TypeOK, NEW r \in Requests, NEW label \in PCs, Goto(r, label)
  PROVE  Moved(r) /\ pc'[r] = label
BY DEF Goto, Moved, TypeOK

LEMMA AnswerMoves ==
  ASSUME TypeOK, NEW r \in Requests, Answer(r)
  PROVE  Moved(r) /\ pc'[r] = "idle"
<1>1. pc' \in [Requests -> PCs] /\ pc'[r] = "idle" /\ \A q \in Requests : q # r => pc'[q] = pc[q]
  BY DEF Answer, TypeOK, PCs
<1>2. kind' \in [Requests -> Kinds] /\ \A q \in Requests : q # r => kind'[q] = kind[q]
  BY DEF Answer, TypeOK, Kinds
<1>3. /\ target' \in [Requests -> Models \cup {NoModel}]
      /\ draft' \in [Requests -> Models \cup {NoModel}]
      /\ \A q \in Requests : q # r => target'[q] = target[q] /\ draft'[q] = draft[q]
  BY DEF Answer, TypeOK
<1>4. QED BY <1>1, <1>2, <1>3 DEF Moved

LEMMA EnsuredMoves ==
  ASSUME TypeOK, NEW r \in Requests, Ensured(r)
  PROVE  Moved(r) /\ pc'[r] \in {"recheck", "checkDraft", "idle"}
<1>1. CASE Goto(r, "recheck")
  BY <1>1, GotoMoves DEF PCs
<1>2. CASE Goto(r, "checkDraft")
  BY <1>2, GotoMoves DEF PCs
<1>3. CASE Answer(r)
  BY <1>3, AnswerMoves
<1>4. QED BY <1>1, <1>2, <1>3 DEF Ensured

---------------------------------------------------------------------------
(* Steps that leave the memory and the mutex alone.                        *)

Memory == <<loaded, weights, mutex>>

LEMMA QuietStep ==
  ASSUME IInv, TypeOK', NEW r \in Requests, Moved(r), UNCHANGED Memory,
         pc[r] # "idle", pc[r] \notin Holding, pc'[r] \notin Holding,
         pc'[r] = "loadDraft" => draft[r] \in Models
  PROVE  IInv'
<1> USE DEF IInv, Memory
<1>1. MutexHeld'
  BY DEF MutexHeld, Moved
<1>2. RequestKnown'
  BY DEF RequestKnown, Moved, Holding
<1>3. \A q \in Requests : q # r =>
        (Swapping(q)' <=> Swapping(q)) /\ Wanted(q)' = Wanted(q)
  BY DEF Moved, Swapping, Wanted
<1>4. ~Swapping(r) /\ ~Swapping(r)'
  BY DEF Swapping, Holding
<1>5. WantedIsNew'
  BY <1>3, <1>4 DEF WantedIsNew
<1>6. NoWeightsLeaked'
  BY <1>3, <1>4 DEF NoWeightsLeaked
<1>7. GeneratingIsResident'
  <2> SUFFICES ASSUME NEW q \in Requests, pc'[q] = "generating"
               PROVE  /\ mutex' = q
                      /\ target'[q] \in loaded' \cap weights'
                      /\ Drafting(q)' => draft'[q] \in weights'
    BY DEF GeneratingIsResident
  <2>1. q # r
    BY DEF Holding
  <2>2. QED BY <2>1 DEF GeneratingIsResident, Drafting, Moved
<1>8. BudgetKept'
  BY DEF BudgetKept
<1>9. QED BY <1>1, <1>2, <1>5, <1>6, <1>7, <1>8

LEMMA EnsureStep ==
  ASSUME IInv, NEW r \in Requests,
         CheckTarget(r) \/ CheckDraft(r) \/ AlreadyLoaded(r) \/ LoadFails(r) \/ Recheck(r)
  PROVE  IInv'
<1> USE DEF IInv
<1>1. /\ UNCHANGED <<loaded, weights, lastUsed, now, mutex, steps, dangling, imageVars>>
      /\ pc[r] \in {"checkTarget", "checkDraft", "loadTarget", "loadDraft", "recheck"}
  BY DEF CheckTarget, CheckDraft, AlreadyLoaded, LoadFails, Recheck
<1>2. \/ Ensured(r) \/ Answer(r) \/ Goto(r, "loadTarget") \/ Goto(r, "render") \/ Goto(r, "generate")
      \/ Goto(r, "loadDraft") /\ draft[r] # NoModel
  BY DEF CheckTarget, CheckDraft, AlreadyLoaded, LoadFails, Recheck
<1>3. /\ Moved(r)
      /\ pc'[r] \in {"recheck", "checkDraft", "idle", "loadTarget", "render", "generate", "loadDraft"}
      /\ pc'[r] = "loadDraft" => draft[r] # NoModel
  BY <1>2, EnsuredMoves, AnswerMoves, GotoMoves DEF PCs
<1>4. TypeOK'
  BY <1>1, <1>3 DEF TypeOK, Moved, imageVars
<1>5. pc'[r] = "loadDraft" => draft[r] \in Models
  BY <1>3 DEF TypeOK
<1>6. pc[r] # "idle" /\ pc[r] \notin Holding /\ pc'[r] \notin Holding
  BY <1>1, <1>3 DEF Holding
<1>7. QED BY <1>1, <1>3, <1>4, <1>5, <1>6, QuietStep DEF Memory

LEMMA ServeQuietStep ==
  ASSUME IInv, NEW r \in Requests,
         GetPointer(r) \/ UsePointer(r) \/ Decide(r) \/ GenerateFails(r)
  PROVE  IInv'
<1> USE DEF IInv
<1>1. /\ UNCHANGED <<loaded, weights, lastUsed, now, mutex, imageVars>>
      /\ dangling' \subseteq dangling /\ steps' \in [Requests -> Nat]
      /\ pc[r] \in {"render", "rendering", "parse", "parsing", "parsed", "generate"}
  BY DEF GetPointer, UsePointer, Decide, GenerateFails, NoAnswer, TypeOK
<1>2. \/ Answer(r) \/ Goto(r, "rendering") \/ Goto(r, "parsing") \/ Goto(r, "parsed")
      \/ Goto(r, "generate")
  BY DEF GetPointer, UsePointer, Decide, GenerateFails, NoAnswer
<1>3. Moved(r) /\ pc'[r] \in {"idle", "rendering", "parsing", "parsed", "generate"}
  BY <1>2, AnswerMoves, GotoMoves DEF PCs
<1>4. TypeOK'
  BY <1>1, <1>3 DEF TypeOK, Moved, imageVars
<1>5. pc[r] # "idle" /\ pc[r] \notin Holding /\ pc'[r] \notin Holding
  BY <1>1, <1>3 DEF Holding
<1>6. QED BY <1>1, <1>3, <1>4, <1>5, QuietStep DEF Memory

LEMMA ArriveStep ==
  ASSUME IInv, NEW r \in Requests, Arrive(r)
  PROVE  IInv'
<1> USE DEF IInv
<1>1. PICK k \in Kinds, m \in Models, d \in Models \cup {NoModel} :
        /\ kind' = [kind EXCEPT ![r] = k]
        /\ target' = [target EXCEPT ![r] = m]
        /\ draft' = [draft EXCEPT ![r] = d]
  BY DEF Arrive
<1>2. /\ pc[r] = "idle" /\ pc' = [pc EXCEPT ![r] = "checkTarget"]
      /\ steps' = [steps EXCEPT ![r] = 0]
      /\ UNCHANGED <<loaded, weights, lastUsed, now, mutex, dangling, imagePc, imageList>>
  BY DEF Arrive, imageVars
<1>3. TypeOK'
  BY <1>1, <1>2 DEF TypeOK, PCs
<1>4. /\ pc'[r] = "checkTarget" /\ target'[r] = m
      /\ \A q \in Requests : q # r =>
           /\ pc'[q] = pc[q] /\ kind'[q] = kind[q]
           /\ target'[q] = target[q] /\ draft'[q] = draft[q]
  BY <1>1, <1>2 DEF TypeOK
<1>5. MutexHeld'
  BY <1>2, <1>4 DEF MutexHeld, Holding
<1>6. RequestKnown'
  BY <1>4 DEF RequestKnown
<1>7. \A q \in Requests : q # r =>
        (Swapping(q)' <=> Swapping(q)) /\ Wanted(q)' = Wanted(q)
  BY <1>4 DEF Swapping, Wanted
<1>8. ~Swapping(r) /\ ~Swapping(r)'
  BY <1>2, <1>4 DEF Swapping
<1>9. WantedIsNew' /\ NoWeightsLeaked'
  <2>1. WantedIsNew'
    BY <1>2, <1>7, <1>8 DEF WantedIsNew
  <2>2. NoWeightsLeaked'
    BY <1>2, <1>7, <1>8 DEF NoWeightsLeaked
  <2>3. QED BY <2>1, <2>2
<1>10. GeneratingIsResident'
  <2> SUFFICES ASSUME NEW q \in Requests, pc'[q] = "generating"
               PROVE  /\ mutex' = q
                      /\ target'[q] \in loaded' \cap weights'
                      /\ Drafting(q)' => draft'[q] \in weights'
    BY DEF GeneratingIsResident
  <2>1. q # r
    BY <1>4
  <2>2. QED BY <1>2, <1>4, <2>1 DEF GeneratingIsResident, Drafting
<1>11. BudgetKept'
  BY <1>2 DEF BudgetKept
<1>12. QED BY <1>3, <1>5, <1>6, <1>9, <1>10, <1>11

---------------------------------------------------------------------------
(* Steps that change the memory: the thread that takes one holds the       *)
(* mutex, or nobody does.                                                  *)

\* Nobody swaps and nobody generates while the mutex is free.
LEMMA MutexFreeQuiet ==
  ASSUME IInv, mutex = NoOne
  PROVE  /\ \A q \in Requests : pc[q] \notin Holding /\ ~Swapping(q)
         /\ weights = loaded
<1>1. \A q \in Requests : pc[q] \notin Holding
  BY NoOneAssumption DEF IInv, MutexHeld
<1>2. \A q \in Requests : ~Swapping(q)
  BY <1>1 DEF Swapping, Holding
<1>3. weights = loaded
  BY <1>2 DEF IInv, NoWeightsLeaked
<1>4. QED BY <1>1, <1>2, <1>3

\* Only the holder of the mutex swaps or generates.
LEMMA HolderAlone ==
  ASSUME IInv, NEW r \in Requests, mutex = r
  PROVE  \A q \in Requests : q # r => pc[q] \notin Holding /\ ~Swapping(q)
BY DEF IInv, MutexHeld, Swapping, Holding

LEMMA LoadedFinite ==
  ASSUME NEW L \in SUBSET Models
  PROVE  IsFiniteSet(L) /\ Cardinality(L) \in Nat
BY ModelsAssumption, FS_Subset, FS_CardinalityType

\* Removing models keeps the budget.
LEMMA FewerFit ==
  ASSUME TypeOK, BudgetKept, loaded' \subseteq loaded
  PROVE  BudgetKept'
<1>1. Cardinality(loaded') <= Cardinality(loaded)
  BY LoadedFinite, FS_Subset DEF TypeOK
<1>2. Cardinality(loaded') \in Nat /\ Cardinality(loaded) \in Nat
  BY LoadedFinite DEF TypeOK
<1>3. QED BY <1>1, <1>2, BoundsAssumption DEF BudgetKept

LEMMA FreeTypes ==
  ASSUME TypeOK, NEW m \in Models, Free(m)
  PROVE  /\ loaded' = loaded \ {m} /\ weights' = weights \ {m}
         /\ loaded' \subseteq Models /\ weights' \subseteq Models
         /\ lastUsed' \in [Models -> Nat] /\ dangling' \subseteq Requests
BY DEF Free, TypeOK, PointsTo

\* A model is freed while nobody holds the mutex.
LEMMA FreeUnheldStep ==
  ASSUME IInv, TypeOK', NEW m \in Models, Free(m), mutex = NoOne,
         UNCHANGED <<mutex, pc, kind, target, draft>>
  PROVE  IInv'
<1> USE DEF IInv
<1>1. loaded' = loaded \ {m} /\ weights' = weights \ {m}
  BY FreeTypes
<1>2. /\ \A q \in Requests : pc[q] \notin Holding /\ ~Swapping(q)
      /\ weights = loaded
  BY MutexFreeQuiet
<1>3. MutexHeld' /\ RequestKnown'
  BY DEF MutexHeld, RequestKnown
<1>4. \A q \in Requests : ~Swapping(q)'
  BY <1>2 DEF Swapping
<1>5. WantedIsNew'
  BY <1>4 DEF WantedIsNew
<1>6. NoWeightsLeaked'
  BY <1>1, <1>2, <1>4 DEF NoWeightsLeaked
<1>7. GeneratingIsResident'
  BY <1>2 DEF GeneratingIsResident, Holding
<1>8. BudgetKept'
  BY <1>1, FewerFit
<1>9. QED BY <1>3, <1>5, <1>6, <1>7, <1>8

LEMMA ClientStep ==
  ASSUME IInv, NEW m \in Models, Unload(m) \/ ImageUnload(m)
  PROVE  IInv'
<1>1. CASE Unload(m)
  <2>1. Free(m) /\ mutex = NoOne /\ UNCHANGED <<now, mutex, requestVars, imageVars>>
    BY <1>1 DEF Unload
  <2>2. TypeOK'
    BY <2>1, FreeTypes DEF IInv, TypeOK, requestVars, imageVars
  <2>3. QED BY <2>1, <2>2, FreeUnheldStep DEF requestVars
<1>2. CASE ImageUnload(m) /\ m \in loaded
  <2>1. /\ Free(m) /\ mutex = NoOne /\ imageList' = imageList \ {m}
        /\ UNCHANGED <<now, mutex, requestVars, imagePc>>
    BY <1>2 DEF ImageUnload
  <2>2. TypeOK'
    BY <2>1, FreeTypes DEF IInv, TypeOK, requestVars
  <2>3. QED BY <2>1, <2>2, FreeUnheldStep DEF requestVars
<1>3. CASE ImageUnload(m) /\ m \notin loaded
  <2>1. /\ imageList' = imageList \ {m}
        /\ UNCHANGED <<loaded, weights, lastUsed, dangling, now, mutex, pc, kind, target, draft,
                       steps, imagePc>>
    BY <1>3 DEF ImageUnload, requestVars
  <2>2. QED
    BY <2>1 DEF IInv, TypeOK, MutexHeld, RequestKnown, WantedIsNew, Swapping, Wanted,
                BudgetKept, NoWeightsLeaked, GeneratingIsResident, Drafting
<1>4. QED BY <1>1, <1>2, <1>3

LEMMA BackgroundStep ==
  ASSUME IInv, ImageList \/ Diffuse \/ Tick \/ UNCHANGED vars
  PROVE  IInv'
<1>1. UNCHANGED <<loaded, weights, lastUsed, mutex, pc, kind, target, draft, steps, dangling>>
  BY DEF ImageList, Diffuse, Tick, vars, requestVars
<1>2. now' \in Nat /\ imagePc' \in {"idle", "unloading", "diffusing"} /\ imageList' \subseteq Models
  BY DEF ImageList, Diffuse, Tick, vars, imageVars, IInv, TypeOK
<1>3. QED
  BY <1>1, <1>2 DEF IInv, TypeOK, MutexHeld, RequestKnown, WantedIsNew, Swapping, Wanted,
                    BudgetKept, NoWeightsLeaked, GeneratingIsResident, Drafting

\* The weights of the model to load are allocated under the mutex.
LEMMA LoadWeightsStep ==
  ASSUME IInv, NEW r \in Requests, LoadWeights(r)
  PROVE  IInv'
<1> USE DEF IInv
<1> DEFINE label == IF pc[r] = "loadTarget" THEN "swapTarget" ELSE "swapDraft"
<1>1. /\ pc[r] \in {"loadTarget", "loadDraft"} /\ mutex = NoOne /\ Wanted(r) \notin loaded
      /\ mutex' = r /\ weights' = weights \cup {Wanted(r)} /\ Goto(r, label)
      /\ UNCHANGED <<loaded, lastUsed, now, steps, dangling, imagePc, imageList>>
  BY DEF LoadWeights, imageVars
<1>2. Wanted(r) \in Models
  BY <1>1 DEF Wanted, RequestKnown
<1>3. label \in PCs
  BY DEF PCs
<1>4. Moved(r) /\ pc'[r] = label
  BY <1>1, <1>3, GotoMoves
<1>5. UNCHANGED <<kind, target, draft>>
  BY <1>1 DEF Goto
<1>6. TypeOK'
  BY <1>1, <1>2, <1>4 DEF TypeOK, Moved
<1>7. \A q \in Requests : q # r => pc'[q] \notin Holding /\ ~Swapping(q)'
  BY <1>1, <1>4, MutexFreeQuiet DEF Moved, Swapping
<1>8. MutexHeld'
  BY <1>1, <1>4, <1>7 DEF MutexHeld, Holding
<1>9. RequestKnown'
  BY <1>1, <1>4, <1>5 DEF RequestKnown, Moved
<1>10. Swapping(r)' /\ Wanted(r)' = Wanted(r)
  BY <1>1, <1>4, <1>5 DEF Swapping, Wanted
<1>11. WantedIsNew'
  BY <1>1, <1>7, <1>10 DEF WantedIsNew
<1>12. NoWeightsLeaked'
  BY <1>1, <1>7, <1>10, MutexFreeQuiet DEF NoWeightsLeaked
<1>13. GeneratingIsResident'
  BY <1>4, <1>7 DEF GeneratingIsResident, Holding
<1>14. BudgetKept'
  BY <1>1 DEF BudgetKept
<1>15. QED BY <1>6, <1>8, <1>9, <1>11, <1>12, <1>13, <1>14

\* A victim leaves while the newcomer waits: they are different models.
LEMMA EvictStep ==
  ASSUME IInv, NEW r \in Requests, Evict(r)
  PROVE  IInv'
<1> USE DEF IInv
<1>1. PICK m \in LeastRecentlyUsed : Free(m)
  BY DEF Evict
<1>2. m \in loaded /\ m \in Models
  BY DEF LeastRecentlyUsed, TypeOK
<1>3. /\ Swapping(r)
      /\ UNCHANGED <<now, mutex, pc, kind, target, draft, steps, imagePc, imageList>>
  BY DEF Evict, Swapping, requestVars, imageVars
<1>4. /\ loaded' = loaded \ {m} /\ weights' = weights \ {m}
      /\ loaded' \subseteq Models /\ weights' \subseteq Models
      /\ lastUsed' \in [Models -> Nat] /\ dangling' \subseteq Requests
  BY <1>1, <1>2, FreeTypes
<1>5. TypeOK'
  BY <1>3, <1>4 DEF TypeOK
<1>6. mutex = r
  BY <1>3 DEF MutexHeld, Swapping, Holding
<1>7. MutexHeld' /\ RequestKnown'
  BY <1>3 DEF MutexHeld, RequestKnown
<1>8. \A q \in Requests : (Swapping(q)' <=> Swapping(q)) /\ Wanted(q)' = Wanted(q)
  BY <1>3 DEF Swapping, Wanted
<1>9. WantedIsNew'
  BY <1>4, <1>8 DEF WantedIsNew
<1>10. \A q \in Requests : Swapping(q) => Wanted(q) # m
  BY <1>2 DEF WantedIsNew
<1>11. NoWeightsLeaked'
  BY <1>4, <1>8, <1>10 DEF NoWeightsLeaked
<1>12. \A q \in Requests : pc'[q] # "generating"
  BY <1>3, <1>6, HolderAlone DEF Holding, Swapping
<1>13. GeneratingIsResident'
  BY <1>12 DEF GeneratingIsResident
<1>14. BudgetKept'
  BY <1>4, FewerFit
<1>15. QED BY <1>5, <1>7, <1>9, <1>11, <1>13, <1>14

\* The newcomer enters the map when there is room for it.
LEMMA InsertStep ==
  ASSUME IInv, NEW r \in Requests, Insert(r)
  PROVE  IInv'
<1> USE DEF IInv
<1>1. /\ Swapping(r) /\ ~OverBudget /\ loaded' = loaded \cup {Wanted(r)}
      /\ Touch({Wanted(r)}) /\ mutex' = NoOne /\ Ensured(r)
      /\ UNCHANGED <<weights, now, steps, dangling, imagePc, imageList>>
  BY DEF Insert, Swapping, imageVars
<1>2. Wanted(r) \in Models
  BY <1>1 DEF Swapping, Wanted, RequestKnown
<1>3. Moved(r) /\ pc'[r] \in {"recheck", "checkDraft", "idle"}
  BY <1>1, EnsuredMoves
<1>4. lastUsed' \in [Models -> Nat]
  BY <1>1 DEF Touch, TypeOK
<1>5. TypeOK'
  BY <1>1, <1>2, <1>3, <1>4 DEF TypeOK, Moved
<1>6. mutex = r
  BY <1>1 DEF MutexHeld, Swapping, Holding
<1>7. \A q \in Requests : q # r => pc[q] \notin Holding /\ ~Swapping(q)
  BY <1>6, HolderAlone
<1>8. \A q \in Requests : pc'[q] \notin Holding /\ ~Swapping(q)'
  BY <1>3, <1>7 DEF Moved, Swapping, Holding
<1>9. MutexHeld'
  BY <1>1, <1>8, NoOneAssumption DEF MutexHeld
<1>10. RequestKnown'
  BY <1>1, <1>3 DEF RequestKnown, Moved, Swapping
<1>11. WantedIsNew'
  BY <1>8 DEF WantedIsNew
<1>12. NoWeightsLeaked'
  BY <1>1, <1>7, <1>8 DEF NoWeightsLeaked
<1>13. GeneratingIsResident'
  BY <1>8 DEF GeneratingIsResident, Holding
<1>14. BudgetKept'
  <2> SUFFICES ASSUME MaxLoaded > 0 PROVE Cardinality(loaded') <= MaxLoaded
    BY DEF BudgetKept
  <2>1. Cardinality(loaded) < MaxLoaded
    BY <1>1, BoundsAssumption, LoadedFinite DEF OverBudget, TypeOK
  <2>2. Cardinality(loaded') = Cardinality(loaded) + 1
    <3>1. Wanted(r) \notin loaded
      BY <1>1 DEF WantedIsNew
    <3>2. IsFiniteSet(loaded)
      BY LoadedFinite DEF TypeOK
    <3>3. QED BY <1>1, <3>1, <3>2, FS_AddElement
  <2>3. Cardinality(loaded) \in Nat
    BY LoadedFinite DEF TypeOK
  <2>4. QED BY <2>1, <2>2, <2>3, BoundsAssumption
<1>15. QED BY <1>5, <1>9, <1>10, <1>11, <1>12, <1>13, <1>14

---------------------------------------------------------------------------
(* A generation begins and ends.                                           *)

LEMMA GenerateStep ==
  ASSUME IInv, NEW r \in Requests, Generate(r)
  PROVE  IInv'
<1> USE DEF IInv
<1>1. /\ pc[r] = "generate" /\ mutex = NoOne /\ target[r] \in loaded /\ mutex' = r
      /\ Goto(r, "generating")
      /\ UNCHANGED <<loaded, weights, now, steps, dangling, imagePc, imageList>>
  BY DEF Generate, imageVars
<1>2. lastUsed' \in [Models -> Nat]
  BY DEF Generate, Touch, TypeOK
<1>3. Moved(r) /\ pc'[r] = "generating"
  BY <1>1, GotoMoves DEF PCs
<1>4. UNCHANGED <<kind, target, draft>>
  BY <1>1 DEF Goto
<1>5. TypeOK'
  BY <1>1, <1>2, <1>3 DEF TypeOK, Moved
<1>6. /\ \A q \in Requests : pc[q] \notin Holding /\ ~Swapping(q)
      /\ weights = loaded
  BY <1>1, MutexFreeQuiet
<1>7. \A q \in Requests : q # r => pc'[q] \notin Holding
  BY <1>3, <1>6 DEF Moved
<1>8. \A q \in Requests : ~Swapping(q)'
  BY <1>3, <1>7 DEF Swapping, Holding
<1>9. MutexHeld'
  BY <1>1, <1>3, <1>7 DEF MutexHeld, Holding
<1>10. RequestKnown'
  BY <1>1, <1>3, <1>4 DEF RequestKnown, Moved
<1>11. WantedIsNew'
  BY <1>8 DEF WantedIsNew
<1>12. NoWeightsLeaked'
  BY <1>1, <1>6, <1>8 DEF NoWeightsLeaked
<1>13. GeneratingIsResident'
  <2> SUFFICES ASSUME NEW q \in Requests, pc'[q] = "generating"
               PROVE  /\ mutex' = q
                      /\ target'[q] \in loaded' \cap weights'
                      /\ Drafting(q)' => draft'[q] \in weights'
    BY DEF GeneratingIsResident
  <2>1. q = r
    BY <1>7 DEF Holding
  <2>2. QED BY <1>1, <1>4, <1>6, <2>1 DEF Drafting
<1>14. BudgetKept'
  BY <1>1 DEF BudgetKept
<1>15. QED BY <1>5, <1>9, <1>10, <1>11, <1>12, <1>13, <1>14

LEMMA GeneratedStep ==
  ASSUME IInv, NEW r \in Requests, Generated(r)
  PROVE  IInv'
<1> USE DEF IInv
<1>1. /\ pc[r] = "generating" /\ mutex' = NoOne
      /\ UNCHANGED <<loaded, weights, now, dangling, imagePc, imageList>>
      /\ Goto(r, "parse") \/ Goto(r, "parsed") \/ Answer(r)
  BY DEF Generated, NoAnswer, imageVars
<1>2. lastUsed' \in [Models -> Nat] /\ steps' \in [Requests -> Nat]
  BY DEF Generated, NoAnswer, Touch, TypeOK
<1>3. Moved(r) /\ pc'[r] \in {"parse", "parsed", "idle"}
  BY <1>1, GotoMoves, AnswerMoves DEF PCs
<1>4. TypeOK'
  BY <1>1, <1>2, <1>3, NoOneAssumption DEF TypeOK, Moved
<1>5. mutex = r
  BY <1>1 DEF MutexHeld, Holding
<1>6. \A q \in Requests : q # r => pc[q] \notin Holding /\ ~Swapping(q)
  BY <1>5, HolderAlone
<1>7. \A q \in Requests : pc'[q] \notin Holding
  BY <1>3, <1>6 DEF Moved, Holding
<1>8. \A q \in Requests : ~Swapping(q) /\ ~Swapping(q)'
  BY <1>1, <1>6, <1>7 DEF Swapping, Holding
<1>9. MutexHeld'
  BY <1>1, <1>7, NoOneAssumption DEF MutexHeld
<1>10. RequestKnown'
  BY <1>1, <1>3 DEF RequestKnown, Moved
<1>11. WantedIsNew'
  BY <1>8 DEF WantedIsNew
<1>12. NoWeightsLeaked'
  BY <1>1, <1>8 DEF NoWeightsLeaked
<1>13. GeneratingIsResident'
  BY <1>7 DEF GeneratingIsResident, Holding
<1>14. BudgetKept'
  BY <1>1 DEF BudgetKept
<1>15. QED BY <1>4, <1>9, <1>10, <1>11, <1>12, <1>13, <1>14

---------------------------------------------------------------------------
(* The invariant, and what follows from it.                                *)

LEMMA InitIInv == Init => IInv
<1> SUFFICES ASSUME Init PROVE IInv
  OBVIOUS
<1>1. TypeOK
  BY DEF Init, TypeOK, PCs, Kinds
<1>2. \A r \in Requests : pc[r] = "idle"
  BY DEF Init
<1>3. MutexHeld
  BY <1>2, NoOneAssumption DEF Init, MutexHeld, Holding
<1>4. RequestKnown /\ WantedIsNew
  BY <1>2 DEF RequestKnown, WantedIsNew, Swapping
<1>5. NoWeightsLeaked
  BY <1>2 DEF Init, NoWeightsLeaked, Swapping
<1>6. GeneratingIsResident
  BY <1>2 DEF GeneratingIsResident
<1>7. BudgetKept
  BY FS_EmptySet, BoundsAssumption DEF Init, BudgetKept
<1>8. QED BY <1>1, <1>3, <1>4, <1>5, <1>6, <1>7 DEF IInv

LEMMA NextIInv == IInv /\ [Next]_vars => IInv'
<1> SUFFICES ASSUME IInv, [Next]_vars PROVE IInv'
  OBVIOUS
<1>1. CASE \E r \in Requests : Arrive(r)
  BY <1>1, ArriveStep
<1>2. CASE \E r \in Requests : Ensure(r)
  BY <1>2, EnsureStep, LoadWeightsStep DEF Ensure
<1>3. CASE \E r \in Requests : Swap(r)
  BY <1>3, EvictStep, InsertStep DEF Swap
<1>4. CASE \E r \in Requests : Serve(r)
  BY <1>4, ServeQuietStep, GenerateStep, GeneratedStep DEF Serve
<1>5. CASE \E m \in Models : Unload(m) \/ ImageUnload(m)
  BY <1>5, ClientStep
<1>6. CASE ImageList \/ Diffuse \/ Tick \/ UNCHANGED vars
  BY <1>6, BackgroundStep
<1>7. QED BY <1>1, <1>2, <1>3, <1>4, <1>5, <1>6 DEF Next

THEOREM Invariance == Spec => []IInv
<1>1. QED BY InitIInv, NextIInv, PTL DEF Spec

\* Type correctness.
THEOREM TypeCorrect == Spec => []TypeOK
<1>1. IInv => TypeOK
  BY DEF IInv
<1>2. QED BY <1>1, Invariance, PTL

\* evict_if_needed keeps the map within --max-loaded-models, for any number of
\* models, of threads and any budget.
THEOREM BudgetNeverExceeded == Spec => []BudgetKept
<1>1. IInv => BudgetKept
  BY DEF IInv
<1>2. QED BY <1>1, Invariance, PTL

\* Every allocated llama_model belongs to a map entry or to the load under way.
THEOREM WeightsAccountedFor == Spec => []NoWeightsLeaked
<1>1. IInv => NoWeightsLeaked
  BY DEF IInv
<1>2. QED BY <1>1, Invariance, PTL

\* The budget is kept by the memory, not only by the map.
THEOREM MemoryKept == Spec => []MemoryAccounted
<1>1. IInv => MemoryAccounted
  BY DEF IInv, MemoryAccounted
<1>2. QED BY <1>1, Invariance, PTL

\* The models of a generation stay in memory until it ends.
THEOREM GenerationKeepsItsModels == Spec => []GeneratingIsResident
<1>1. IInv => GeneratingIsResident
  BY DEF IInv
<1>2. QED BY <1>1, Invariance, PTL

\* While a load swaps only its own evictions remove models, each of them for
\* want of room, and a model that no other loaded one is older than.
THEOREM EvictionOrder == Spec => EvictsLeastRecentlyUsed
<1> DEFINE Step == \A r \in Requests, m \in Models :
       Swapping(r) /\ m \in loaded \ loaded' =>
         /\ Cardinality(loaded) + 1 > MaxLoaded
         /\ \A o \in loaded' : lastUsed[m] <= lastUsed[o]
<1>1. ASSUME IInv, [Next]_vars PROVE Step \/ UNCHANGED vars
  <2> SUFFICES ASSUME NEW r \in Requests, NEW m \in Models, Swapping(r),
                      m \in loaded, m \notin loaded'
               PROVE  /\ Cardinality(loaded) + 1 > MaxLoaded
                      /\ \A o \in loaded' : lastUsed[m] <= lastUsed[o]
    OBVIOUS
  <2>1. mutex = r /\ mutex # NoOne
    BY <1>1, NoOneAssumption DEF IInv, MutexHeld, Swapping, Holding
  <2>2. PICK q \in Requests : Evict(q)
    <3>1. ASSUME NEW q \in Requests,
                 Arrive(q) \/ Ensure(q) \/ Insert(q) \/ Serve(q)
          PROVE  loaded \subseteq loaded'
      BY <3>1 DEF Arrive, Ensure, CheckTarget, CheckDraft, AlreadyLoaded, LoadFails,
                  LoadWeights, Recheck, Insert, Serve, GetPointer, UsePointer, Decide,
                  GenerateFails, Generate, Generated
    <3>2. ASSUME NEW n \in Models PROVE ~Unload(n) /\ ~ImageUnload(n)
      BY <2>1 DEF Unload, ImageUnload
    <3>3. ASSUME ImageList \/ Diffuse \/ Tick \/ UNCHANGED vars PROVE loaded' = loaded
      BY <3>3 DEF ImageList, Diffuse, Tick, vars
    <3>4. QED BY <1>1, <3>1, <3>2, <3>3 DEF Next, Swap
  <2>3. PICK v \in LeastRecentlyUsed : Free(v)
    BY <2>2 DEF Evict
  <2>4. v = m /\ loaded' \subseteq loaded
    BY <2>3 DEF Free
  <2>5. Cardinality(loaded) + 1 > MaxLoaded
    <3>1. Cardinality(loaded) \in Nat
      BY <1>1, LoadedFinite DEF IInv, TypeOK
    <3>2. QED BY <2>2, <3>1, BoundsAssumption DEF Evict, OverBudget
  <2>6. QED BY <2>3, <2>4, <2>5 DEF LeastRecentlyUsed
<1>2. QED BY <1>1, Invariance, PTL DEF Spec, EvictsLeastRecentlyUsed
---------------------------------------------------------------------------
(* How long a request may take.                                            *)

\* What is left of a request: the generations it may still make, its way to the
\* next of them, and, while it swaps, the models that can be evicted.
Passes(r) == MaxSteps + 1 - steps[r]
Leg(r) ==
  CASE pc[r] = "checkTarget" -> 14 [] pc[r] = "loadTarget" -> 13 [] pc[r] = "swapTarget" -> 12
    [] pc[r] = "checkDraft" -> 11 [] pc[r] = "loadDraft" -> 10 [] pc[r] = "swapDraft" -> 9
    [] pc[r] = "recheck" -> 8 [] pc[r] = "render" -> 7 [] pc[r] = "rendering" -> 6
    [] pc[r] = "parse" -> 5 [] pc[r] = "parsing" -> 4 [] pc[r] = "parsed" -> 3
    [] pc[r] = "generate" -> 2 [] pc[r] = "generating" -> 1 [] OTHER -> 0
Evictable(r) == IF Swapping(r) THEN Cardinality(loaded) ELSE 0

Nearer(r) ==
  \/ Passes(r)' < Passes(r)
  \/ /\ Passes(r)' = Passes(r)
     /\ \/ Leg(r)' < Leg(r)
        \/ Leg(r)' = Leg(r) /\ Evictable(r)' < Evictable(r)

\* Only the parse after the last generation finds one more than MaxSteps.
StepsBounded == \A r \in Requests :
  /\ steps[r] <= MaxSteps + 1
  /\ pc[r] \notin {"parse", "parsing", "parsed", "idle"} => steps[r] <= MaxSteps

Stays(r) == pc'[r] = pc[r] /\ steps'[r] = steps[r] /\ Evictable(r)' = Evictable(r)

\* A step within a pass: the thread moves on, its counter stands.
OnTheWay(r) == steps' = steps /\ pc' = [pc EXCEPT ![r] = pc'[r]] /\ Leg(r)' < Leg(r)

LEMMA EnsuredOn ==
  ASSUME TypeOK, NEW r \in Requests, Ensured(r),
         pc[r] \in {"checkTarget", "loadTarget", "swapTarget", "checkDraft", "loadDraft", "swapDraft"}
  PROVE  pc' = [pc EXCEPT ![r] = pc'[r]] /\ Leg(r)' < Leg(r)
<1>1. pc' = [pc EXCEPT ![r] = pc'[r]]
  BY DEF TypeOK, Ensured, Goto, Answer
<1>2. CASE pc[r] \in {"checkDraft", "loadDraft", "swapDraft"}
  <2>1. pc'[r] = "recheck"
    BY <1>2 DEF TypeOK, Ensured, Goto
  <2>2. Leg(r) \in {9, 10, 11} /\ Leg(r)' = 8
    BY <1>2, <2>1 DEF Leg
  <2>3. QED BY <1>1, <2>2
<1>3. CASE pc[r] \in {"checkTarget", "loadTarget", "swapTarget"}
  <2>1. pc'[r] \in {"checkDraft", "idle"}
    BY <1>3 DEF TypeOK, Ensured, Goto, Answer
  <2>2. Leg(r) \in {12, 13, 14} /\ Leg(r)' \in {0, 11}
    BY <1>3, <2>1 DEF Leg
  <2>3. QED BY <1>1, <2>2
<1>4. QED BY <1>2, <1>3

LEMMA EnsureOn ==
  ASSUME TypeOK, NEW r \in Requests, Ensure(r)
  PROVE  OnTheWay(r)
<1>1. steps' = steps
  BY DEF Ensure, CheckTarget, CheckDraft, AlreadyLoaded, LoadFails, LoadWeights, Recheck
<1>2. CASE CheckTarget(r) \/ CheckDraft(r)
  <2>1. CASE Ensured(r)
    BY <1>1, <1>2, <2>1, EnsuredOn DEF CheckTarget, CheckDraft, OnTheWay
  <2>2. CASE pc[r] = "checkTarget" /\ Goto(r, "loadTarget")
    BY <1>1, <2>2 DEF TypeOK, Goto, Leg, OnTheWay
  <2>3. CASE pc[r] = "checkDraft" /\ Goto(r, "loadDraft")
    BY <1>1, <2>3 DEF TypeOK, Goto, Leg, OnTheWay
  <2>4. QED BY <1>2, <2>1, <2>2, <2>3 DEF CheckTarget, CheckDraft
<1>3. CASE AlreadyLoaded(r)
  BY <1>1, <1>3, EnsuredOn DEF AlreadyLoaded, OnTheWay
<1>4. CASE LoadFails(r)
  <2>1. pc[r] \in {"loadTarget", "loadDraft"} /\ pc' = [pc EXCEPT ![r] = "idle"]
    BY <1>4 DEF LoadFails, Answer
  <2>2. QED BY <1>1, <2>1 DEF TypeOK, Leg, OnTheWay
<1>5. CASE LoadWeights(r)
  <2>1. \/ pc[r] = "loadTarget" /\ pc' = [pc EXCEPT ![r] = "swapTarget"]
        \/ pc[r] = "loadDraft" /\ pc' = [pc EXCEPT ![r] = "swapDraft"]
    BY <1>5 DEF LoadWeights, Goto
  <2>2. QED BY <1>1, <2>1 DEF TypeOK, Leg, OnTheWay
<1>6. CASE Recheck(r)
  <2>1. pc[r] = "recheck" /\ \E l \in {"idle", "render", "generate"} : pc' = [pc EXCEPT ![r] = l]
    BY <1>6 DEF Recheck, Goto, Answer
  <2>2. QED BY <1>1, <2>1 DEF TypeOK, Leg, OnTheWay
<1>7. QED BY <1>2, <1>3, <1>4, <1>5, <1>6 DEF Ensure

\* A round of evict_if_needed leaves a model less to evict.
LEMMA EvictOn ==
  ASSUME TypeOK, NEW r \in Requests, Evict(r)
  PROVE  /\ steps' = steps /\ pc' = pc
         /\ Leg(r)' = Leg(r) /\ Evictable(r)' < Evictable(r)
<1>1. PICK m \in loaded : loaded' = loaded \ {m}
  BY DEF Evict, LeastRecentlyUsed, Free
<1>2. Cardinality(loaded') = Cardinality(loaded) - 1 /\ Cardinality(loaded) \in Nat
  BY <1>1, LoadedFinite, FS_RemoveElement DEF TypeOK
<1>3. steps' = steps /\ pc' = pc
  BY DEF Evict, requestVars
<1>4. Swapping(r) /\ Swapping(r)'
  BY <1>3 DEF Evict, Swapping
<1>5. QED BY <1>2, <1>3, <1>4 DEF Leg, Evictable

LEMMA InsertOn ==
  ASSUME TypeOK, NEW r \in Requests, Insert(r)
  PROVE  OnTheWay(r)
BY EnsuredOn DEF Insert, OnTheWay

\* A generation that was counted, or a step on the way to one.
LEMMA ServeOn ==
  ASSUME TypeOK, NEW r \in Requests, Serve(r)
  PROVE  \/ /\ OnTheWay(r)
            /\ pc[r] = "parsed" /\ pc'[r] # "idle" => steps[r] < MaxSteps
            /\ pc[r] \in {"parse", "parsing"} => pc'[r] \in {"parsing", "parsed"}
         \/ /\ pc[r] \in {"generate", "generating"}
            /\ \E l \in {"parse", "parsed"} : pc' = [pc EXCEPT ![r] = l]
            /\ steps' = [steps EXCEPT ![r] = @ + 1]
<1>1. CASE GetPointer(r)
  <2>1. /\ steps' = steps
        /\ \/ pc[r] = "render" /\ \E l \in {"rendering", "idle"} : pc' = [pc EXCEPT ![r] = l]
           \/ pc[r] = "parse" /\ \E l \in {"parsing", "parsed"} : pc' = [pc EXCEPT ![r] = l]
    BY <1>1 DEF GetPointer, Goto, Answer
  <2>2. QED BY <2>1 DEF TypeOK, Leg, OnTheWay
<1>2. CASE UsePointer(r)
  <2>1. /\ steps' = steps
        /\ \/ pc[r] = "rendering" /\ pc' = [pc EXCEPT ![r] = "generate"]
           \/ pc[r] = "parsing" /\ pc' = [pc EXCEPT ![r] = "parsed"]
    BY <1>2 DEF UsePointer, Goto
  <2>2. QED BY <2>1 DEF TypeOK, Leg, OnTheWay
<1>3. CASE Decide(r)
  <2>1. /\ steps' = steps /\ pc[r] = "parsed"
        /\ \/ steps[r] < MaxSteps /\ pc' = [pc EXCEPT ![r] = "generate"]
           \/ pc' = [pc EXCEPT ![r] = "idle"]
    BY <1>3 DEF Decide, Goto, Answer
  <2>2. QED BY <2>1 DEF TypeOK, Leg, OnTheWay
<1>4. CASE GenerateFails(r) \/ Generate(r)
  <2>1. CASE steps' = steps /\ \E l \in {"generating", "idle"} : pc' = [pc EXCEPT ![r] = l]
    <3>1. pc[r] = "generate"
      BY <1>4 DEF GenerateFails, Generate
    <3>2. QED BY <2>1, <3>1 DEF TypeOK, Leg, OnTheWay
  <2>2. CASE NoAnswer(r)
    <3>1. pc[r] = "generate"
      BY <1>4 DEF GenerateFails, Generate
    <3>2. CASE Answer(r) /\ UNCHANGED steps
      BY <2>1, <3>2 DEF Answer
    <3>3. CASE Goto(r, "parsed") /\ steps' = [steps EXCEPT ![r] = @ + 1]
      BY <3>1, <3>3 DEF Goto
    <3>4. QED BY <2>2, <3>2, <3>3 DEF NoAnswer
  <2>3. QED BY <1>4, <2>1, <2>2 DEF GenerateFails, Generate, Goto
<1>5. CASE Generated(r)
  <2>1. pc[r] = "generating"
    BY <1>5 DEF Generated
  <2>2. CASE /\ \E l \in {"parse", "parsed"} : pc' = [pc EXCEPT ![r] = l]
             /\ steps' = [steps EXCEPT ![r] = @ + 1]
    BY <2>1, <2>2
  <2>3. CASE steps' = steps /\ pc' = [pc EXCEPT ![r] = "idle"]
    BY <2>1, <2>3 DEF TypeOK, Leg, OnTheWay
  <2>4. QED BY <1>5, <2>2, <2>3 DEF Generated, NoAnswer, Goto, Answer, TypeOK
<1>6. QED BY <1>1, <1>2, <1>3, <1>4, <1>5 DEF Serve

LEMMA InitSteps == Init => StepsBounded
BY BoundsAssumption DEF Init, StepsBounded

\* How a thread's own step moves it: on its way, over a generation, or a model less.
Moves(r) ==
  \/ /\ OnTheWay(r)
     /\ pc[r] = "parsed" /\ pc'[r] # "idle" => steps[r] < MaxSteps
     /\ pc[r] \in {"parse", "parsing"} => pc'[r] \in {"parsing", "parsed"}
  \/ /\ pc[r] \in {"generate", "generating"}
     /\ \E l \in {"parse", "parsed"} : pc' = [pc EXCEPT ![r] = l]
     /\ steps' = [steps EXCEPT ![r] = @ + 1]
  \/ steps' = steps /\ pc' = pc /\ Leg(r)' = Leg(r) /\ Evictable(r)' < Evictable(r)

LEMMA OwnStepMoves ==
  ASSUME TypeOK, NEW r \in Requests, Ensure(r) \/ Swap(r) \/ Serve(r)
  PROVE  Moves(r) /\ pc[r] # "idle"
<1>1. CASE Ensure(r)
  <2>1. pc[r] \notin {"parse", "parsing", "parsed", "idle"}
    BY <1>1 DEF Ensure, CheckTarget, CheckDraft, AlreadyLoaded, LoadFails, LoadWeights, Recheck
  <2>2. QED BY <1>1, <2>1, EnsureOn DEF Moves
<1>2. CASE Swap(r)
  <2>1. pc[r] \notin {"parse", "parsing", "parsed", "idle"}
    BY <1>2 DEF Swap, Evict, Insert
  <2>2. QED BY <1>2, <2>1, EvictOn, InsertOn DEF Swap, Moves
<1>3. CASE Serve(r)
  <2>1. pc[r] # "idle"
    BY <1>3 DEF Serve, GetPointer, UsePointer, Decide, GenerateFails, Generate, Generated
  <2>2. QED BY <1>3, <2>1, ServeOn DEF Moves
<1>4. QED BY <1>1, <1>2, <1>3

LEMMA OwnStepNearer ==
  ASSUME TypeOK, NEW r \in Requests, Moves(r)
  PROVE  Nearer(r)
<1>1. steps[r] \in Nat /\ MaxSteps \in Nat
  BY BoundsAssumption DEF TypeOK
<1>2. CASE steps' = steps
  <2>1. Passes(r)' = Passes(r)
    BY <1>2 DEF Passes
  <2>2. \/ Leg(r)' < Leg(r)
        \/ Leg(r)' = Leg(r) /\ Evictable(r)' < Evictable(r)
    <3>1. steps[r] # steps[r] + 1
      BY <1>1
    <3>2. QED BY <1>2, <3>1 DEF Moves, OnTheWay, TypeOK
  <2>3. QED BY <2>1, <2>2 DEF Nearer
<1>3. CASE steps' = [steps EXCEPT ![r] = @ + 1]
  BY <1>1, <1>3 DEF Passes, Nearer, TypeOK
<1>4. steps' = steps \/ steps' = [steps EXCEPT ![r] = @ + 1]
  BY DEF Moves, OnTheWay
<1>5. QED BY <1>2, <1>3, <1>4

LEMMA MovesSteps ==
  ASSUME TypeOK, StepsBounded, NEW r \in Requests, Moves(r), pc[r] # "idle"
  PROVE  StepsBounded'
<1>1. MaxSteps \in Nat /\ steps \in [Requests -> Nat] /\ pc \in [Requests -> PCs]
  BY BoundsAssumption DEF TypeOK
<1>2. CASE /\ OnTheWay(r)
           /\ pc[r] = "parsed" /\ pc'[r] # "idle" => steps[r] < MaxSteps
           /\ pc[r] \in {"parse", "parsing"} => pc'[r] \in {"parsing", "parsed"}
  BY <1>1, <1>2 DEF OnTheWay, StepsBounded
<1>3. CASE /\ pc[r] \in {"generate", "generating"}
           /\ \E l \in {"parse", "parsed"} : pc' = [pc EXCEPT ![r] = l]
           /\ steps' = [steps EXCEPT ![r] = @ + 1]
  BY <1>1, <1>3 DEF StepsBounded
<1>4. CASE steps' = steps /\ pc' = pc
  BY <1>4 DEF StepsBounded
<1>5. QED BY <1>2, <1>3, <1>4 DEF Moves

LEMMA NextSteps == IInv /\ StepsBounded /\ [Next]_vars => StepsBounded'
<1> SUFFICES ASSUME IInv, StepsBounded, [Next]_vars PROVE StepsBounded'
  OBVIOUS
<1>1. TypeOK
  BY DEF IInv
<1>2. ASSUME NEW r \in Requests, Arrive(r) PROVE StepsBounded'
  BY <1>1, <1>2, BoundsAssumption DEF Arrive, StepsBounded, TypeOK
<1>3. ASSUME NEW r \in Requests, Ensure(r) \/ Swap(r) \/ Serve(r) PROVE StepsBounded'
  BY <1>1, <1>3, OwnStepMoves, MovesSteps
<1>4. CASE \/ \E m \in Models : Unload(m) \/ ImageUnload(m)
           \/ ImageList \/ Diffuse \/ Tick \/ UNCHANGED vars
  <2>1. pc' = pc /\ steps' = steps
    BY <1>4 DEF Unload, ImageUnload, ImageList, Diffuse, Tick, vars, requestVars
  <2>2. QED BY <2>1 DEF StepsBounded
<1>5. QED BY <1>2, <1>3, <1>4 DEF Next

\* While a thread swaps it holds the mutex, and nobody else changes the map.
LEMMA OthersLeave ==
  ASSUME IInv, NEW r \in Requests, NEW q \in Requests, q # r, pc[r] # "idle",
         Arrive(q) \/ Ensure(q) \/ Swap(q) \/ Serve(q)
  PROVE  Stays(r)
<1>1. TypeOK
  BY DEF IInv
<1>2. pc'[r] = pc[r] /\ steps'[r] = steps[r]
  <2>1. CASE Arrive(q)
    BY <1>1, <2>1 DEF Arrive, TypeOK
  <2>2. CASE Moves(q)
    BY <1>1, <2>2 DEF Moves, OnTheWay, TypeOK
  <2>3. QED BY <1>1, <2>1, <2>2, OwnStepMoves
<1>3. Swapping(r)' <=> Swapping(r)
  BY <1>2 DEF Swapping
<1>4. Swapping(r) => loaded' = loaded
  <2> SUFFICES ASSUME Swapping(r) PROVE loaded' = loaded
    OBVIOUS
  <2>1. mutex = r
    BY DEF IInv, MutexHeld, Swapping, Holding
  <2>2. ~Swapping(q)
    BY <2>1, HolderAlone
  <2>3. ~Swap(q)
    BY <2>2 DEF Swap, Evict, Insert, Swapping
  <2>4. QED BY <2>3 DEF Arrive, Ensure, CheckTarget, CheckDraft, AlreadyLoaded, LoadFails,
               LoadWeights, Recheck, Serve, GetPointer, UsePointer, Decide, GenerateFails,
               Generate, Generated
<1>5. QED BY <1>2, <1>3, <1>4 DEF Stays, Evictable

LEMMA ClientsLeave ==
  ASSUME IInv, NEW r \in Requests,
         \/ \E m \in Models : Unload(m) \/ ImageUnload(m)
         \/ ImageList \/ Diffuse \/ Tick
  PROVE  Stays(r)
<1>1. pc' = pc /\ steps' = steps
  BY DEF Unload, ImageUnload, ImageList, Diffuse, Tick, requestVars
<1>2. Swapping(r) => mutex # NoOne
  BY NoOneAssumption DEF IInv, MutexHeld, Swapping, Holding
<1>3. Swapping(r) => loaded' = loaded
  BY <1>2 DEF Unload, ImageUnload, ImageList, Diffuse, Tick
<1>4. Swapping(r)' <=> Swapping(r)
  BY <1>1 DEF Swapping
<1>5. QED BY <1>1, <1>3, <1>4 DEF Stays, Evictable

LEMMA WhatIsLeft ==
  ASSUME TypeOK, StepsBounded, NEW r \in Requests
  PROVE  Passes(r) \in Nat /\ Leg(r) \in 0 .. 14 /\ Evictable(r) \in Nat
<1>1. Passes(r) \in Nat
  BY BoundsAssumption DEF Passes, StepsBounded, TypeOK
<1>2. Leg(r) \in 0 .. 14
  BY DEF Leg
<1>3. Evictable(r) \in Nat
  BY LoadedFinite DEF Evictable, TypeOK
<1>4. QED BY <1>1, <1>2, <1>3

\* Every step of a request thread brings its request nearer to its answer - a generation less, a
\* leg of the way to the next one, a model less to evict - and no other thread, load, unload or
\* image request sets it back: a target that is evicted again and again is not loaded again and
\* again, and eviction comes to an end.  What is left is well-founded; with threads that get
\* models_mutex_ in the end (Fairness) that is what EveryRequestAnswered rests on.
THEOREM RequestsGetNearer ==
  Spec => /\ [](\A r \in Requests :
                  Passes(r) \in Nat /\ Leg(r) \in 0 .. 14 /\ Evictable(r) \in Nat)
          /\ [][\A r \in Requests :
                  /\ Ensure(r) \/ Swap(r) \/ Serve(r) => Nearer(r)
                  /\ pc[r] # "idle" => Nearer(r) \/ Stays(r)]_vars
<1> DEFINE Bounded == \A r \in Requests :
                        Passes(r) \in Nat /\ Leg(r) \in 0 .. 14 /\ Evictable(r) \in Nat
           Progress == \A r \in Requests :
                         /\ Ensure(r) \/ Swap(r) \/ Serve(r) => Nearer(r)
                         /\ pc[r] # "idle" => Nearer(r) \/ Stays(r)
<1>1. Spec => []StepsBounded
  BY InitSteps, NextSteps, Invariance, PTL DEF Spec
<1>2. IInv /\ StepsBounded => Bounded
  BY WhatIsLeft DEF IInv
<1>3. IInv /\ [Next]_vars => [Progress]_vars
  <2> SUFFICES ASSUME IInv, Next, NEW r \in Requests
               PROVE  /\ Ensure(r) \/ Swap(r) \/ Serve(r) => Nearer(r)
                      /\ pc[r] # "idle" => Nearer(r) \/ Stays(r)
    OBVIOUS
  <2>1. ASSUME Ensure(r) \/ Swap(r) \/ Serve(r) PROVE Nearer(r)
    BY <2>1, OwnStepMoves, OwnStepNearer DEF IInv
  <2>2. ASSUME pc[r] # "idle" PROVE Nearer(r) \/ Stays(r)
    <3>1. ~Arrive(r)
      BY <2>2 DEF Arrive
    <3>2. QED BY <2>1, <2>2, <3>1, OthersLeave, ClientsLeave DEF Next
  <2>3. QED BY <2>1, <2>2
<1> HIDE DEF Bounded, Progress
<1>4. Spec => []Bounded /\ [][Progress]_vars
  BY <1>1, <1>2, <1>3, Invariance, PTL DEF Spec
<1>5. QED BY <1>4 DEF Bounded, Progress
===========================================================================
