------------------------------ MODULE HotSwap ------------------------------
(***************************************************************************)
(* Which text models are in memory: the hot-swap of engine/text_engine.cpp *)
(* and the request handlers of api/server.cpp and agent/agent_loop.cpp     *)
(* that depend on it.                                                      *)
(*                                                                         *)
(* Every TextEngine call takes models_mutex_ for its whole duration, a     *)
(* load or a generation included; the handlers make several such calls in  *)
(* a row ("ensure the model is loaded", then "complete") and hold nothing  *)
(* in between.  One step is one engine call, or a part of one in which     *)
(* memory changes; the calls of the other threads fall between the steps.  *)
(***************************************************************************)
EXTENDS Integers, FiniteSets

CONSTANTS
  Models,      \* the text models of the registry
  Requests,    \* the threads that serve requests, each one request after another
  NoModel,     \* "no draft model" in a request
  NoOne,       \* nobody holds models_mutex_
  MaxLoaded,   \* --max-loaded-models; 0 switches the hot-swap off
  MaxSteps,    \* bound: generations of an agent request (max_steps_, with repairs)
  MaxTime      \* bound: how many seconds pass

ASSUME ModelsAssumption == IsFiniteSet(Models) /\ NoModel \notin Models
ASSUME NoOneAssumption  == NoOne \notin Requests
ASSUME BoundsAssumption == MaxLoaded \in Nat /\ MaxSteps \in Nat /\ MaxTime \in Nat

VARIABLES
  loaded,    \* the keys of loaded_models_
  weights,   \* the models whose llama_model is allocated
  lastUsed,  \* last_used_at of the loaded models, in seconds
  now,       \* the system clock, in seconds
  mutex,     \* who holds models_mutex_ across a step
  pc,        \* pc[r]: where request thread r is in its handler
  kind,      \* kind[r]: "chat" (also embeddings), "agent" (also tool steps), "load"
  target,    \* target[r]: the model of the request
  draft,     \* draft[r]: its draft_model, for speculative decoding
  steps,     \* steps[r]: generations of the agent request so far
  dangling,  \* threads that hold a llama_model pointer which was freed
  imagePc,   \* how far the handler of an image request is
  imageList  \* the models it still has to unload

requestVars == <<pc, kind, target, draft, steps>>
imageVars   == <<imagePc, imageList>>
vars == <<loaded, weights, lastUsed, now, mutex, requestVars, dangling, imageVars>>

Kinds   == {"chat", "agent", "load"}
PCs == {"idle", "checkTarget", "loadTarget", "swapTarget", "checkDraft", "loadDraft",
        "swapDraft", "recheck", "render", "rendering", "generate", "generating",
        "parse", "parsing", "parsed"}

Init ==
  /\ loaded = {} /\ weights = {} /\ lastUsed = [m \in Models |-> 0] /\ now = 0
  /\ mutex = NoOne
  /\ pc = [r \in Requests |-> "idle"] /\ kind = [r \in Requests |-> "chat"]
  /\ target = [r \in Requests |-> NoModel] /\ draft = [r \in Requests |-> NoModel]
  /\ steps = [r \in Requests |-> 0]
  /\ dangling = {} /\ imagePc = "idle" /\ imageList = {}

---------------------------------------------------------------------------
(* Pieces of the engine calls.                                             *)

Goto(r, label) ==
  /\ pc' = [pc EXCEPT ![r] = label]
  /\ UNCHANGED <<kind, target, draft>>

\* The handler sends its response, an answer or an error, and returns.
Answer(r) ==
  /\ pc' = [pc EXCEPT ![r] = "idle"] /\ kind' = [kind EXCEPT ![r] = "chat"]
  /\ target' = [target EXCEPT ![r] = NoModel] /\ draft' = [draft EXCEPT ![r] = NoModel]

Touch(M) == lastUsed' = [m \in Models |-> IF m \in M THEN now ELSE lastUsed[m]]

\* The threads between get_llama_model and their last use of the pointer.
PointsTo(m) == {r \in Requests : pc[r] \in {"rendering", "parsing"} /\ target[r] = m}

\* Slip: the map entry goes, the llama_model stays allocated.
EraseOnly(m) ==
  /\ loaded' = loaded \ {m}
  /\ lastUsed' = [lastUsed EXCEPT ![m] = 0]
  /\ UNCHANGED <<weights, dangling>>

\* unload_model_internal and the erase that follows it.
Free(m) ==
  /\ loaded' = loaded \ {m} /\ weights' = weights \ {m}
  /\ lastUsed' = [lastUsed EXCEPT ![m] = 0]
  /\ dangling' = dangling \cup PointsTo(m)

\* Slip: the newcomer is not counted.
OverBudgetStrict == MaxLoaded > 0 /\ Cardinality(loaded) > MaxLoaded

\* The loop condition of evict_if_needed.
OverBudget == MaxLoaded > 0 /\ Cardinality(loaded) >= MaxLoaded

\* Slip: the most recently used models.
MostRecentlyUsed == {m \in loaded : \A o \in loaded : lastUsed[m] >= lastUsed[o]}

\* The models the scan of evict_if_needed may return: last_used_at counts
\* seconds, and among equals the order of the hash map decides.
LeastRecentlyUsed == {m \in loaded : \A o \in loaded : lastUsed[m] <= lastUsed[o]}

\* The model a load is about, and where the handler goes once it is there.
Wanted(r) == IF pc[r] \in {"loadTarget", "swapTarget"} THEN target[r] ELSE draft[r]

Ensured(r) ==
  IF pc[r] \in {"checkDraft", "loadDraft", "swapDraft"} THEN Goto(r, "recheck")
  ELSE IF kind[r] = "load" THEN Answer(r)
  ELSE Goto(r, "checkDraft")

---------------------------------------------------------------------------
(* A request: the ensure phase.                                            *)

Arrive(r) ==
  /\ pc[r] = "idle" /\ pc' = [pc EXCEPT ![r] = "checkTarget"]
  /\ \E k \in Kinds, m \in Models, d \in Models \cup {NoModel} :
       /\ k = "load" => d = NoModel
       /\ kind' = [kind EXCEPT ![r] = k]
       /\ target' = [target EXCEPT ![r] = m]
       /\ draft' = [draft EXCEPT ![r] = d]
  /\ steps' = [steps EXCEPT ![r] = 0]
  /\ UNCHANGED <<loaded, weights, lastUsed, now, mutex, dangling, imageVars>>

\* is_loaded(model_id), and get_model of the registry when it is not.
CheckTarget(r) ==
  /\ pc[r] = "checkTarget" /\ mutex = NoOne
  /\ IF target[r] \in loaded THEN Ensured(r) ELSE Goto(r, "loadTarget")
  /\ UNCHANGED <<loaded, weights, lastUsed, now, mutex, steps, dangling, imageVars>>

\* Slip: the draft is looked up although the request names none.
CheckDraftAlways(r) ==
  /\ pc[r] = "checkDraft" /\ mutex = NoOne
  /\ IF draft[r] \in loaded THEN Ensured(r) ELSE Goto(r, "loadDraft")
  /\ UNCHANGED <<loaded, weights, lastUsed, now, mutex, steps, dangling, imageVars>>

CheckDraft(r) ==
  /\ pc[r] = "checkDraft" /\ mutex = NoOne
  /\ IF draft[r] = NoModel \/ draft[r] \in loaded THEN Ensured(r) ELSE Goto(r, "loadDraft")
  /\ UNCHANGED <<loaded, weights, lastUsed, now, mutex, steps, dangling, imageVars>>

\* load_model: another thread has loaded the model meanwhile.
AlreadyLoaded(r) ==
  /\ pc[r] \in {"loadTarget", "loadDraft"} /\ mutex = NoOne
  /\ Wanted(r) \in loaded
  /\ Ensured(r)
  /\ UNCHANGED <<loaded, weights, lastUsed, now, mutex, steps, dangling, imageVars>>

\* The file cannot be loaded, or its context cannot be made.
LoadFails(r) ==
  /\ pc[r] \in {"loadTarget", "loadDraft"} /\ mutex = NoOne
  /\ Wanted(r) \notin loaded
  /\ Answer(r)
  /\ UNCHANGED <<loaded, weights, lastUsed, now, mutex, steps, dangling, imageVars>>

\* The new weights are allocated before evict_if_needed is called.
LoadWeights(r) ==
  /\ pc[r] \in {"loadTarget", "loadDraft"} /\ mutex = NoOne
  /\ Wanted(r) \notin loaded
  /\ mutex' = r
  /\ weights' = weights \cup {Wanted(r)}
  /\ Goto(r, IF pc[r] = "loadTarget" THEN "swapTarget" ELSE "swapDraft")
  /\ UNCHANGED <<loaded, lastUsed, now, steps, dangling, imageVars>>

\* Slip: the victim's weights are freed, its map entry stays.
EvictKeepsEntry(r) ==
  /\ pc[r] \in {"swapTarget", "swapDraft"} /\ OverBudget
  /\ \E m \in LeastRecentlyUsed : weights' = weights \ {m}
  /\ UNCHANGED <<loaded, lastUsed, now, mutex, requestVars, dangling, imageVars>>

\* One round of evict_if_needed.
Evict(r) ==
  /\ pc[r] \in {"swapTarget", "swapDraft"} /\ OverBudget
  /\ \E m \in LeastRecentlyUsed : Free(m)
  /\ UNCHANGED <<now, mutex, requestVars, imageVars>>

\* The new model enters the map, load_model returns.
Insert(r) ==
  /\ pc[r] \in {"swapTarget", "swapDraft"} /\ ~OverBudget
  /\ loaded' = loaded \cup {Wanted(r)} /\ Touch({Wanted(r)})
  /\ mutex' = NoOne
  /\ Ensured(r)
  /\ UNCHANGED <<weights, now, steps, dangling, imageVars>>

\* Loading the draft may have evicted the target.
Recheck(r) ==
  /\ pc[r] = "recheck" /\ mutex = NoOne
  /\ IF draft[r] \notin {NoModel, target[r]} /\ target[r] \notin loaded
     THEN Answer(r)
     ELSE Goto(r, IF kind[r] = "agent" THEN "render" ELSE "generate")
  /\ UNCHANGED <<loaded, weights, lastUsed, now, mutex, steps, dangling, imageVars>>

---------------------------------------------------------------------------
(* A request: generation, and the template work of the agent around it.    *)

\* get_llama_model: the pointer leaves the mutex with its caller.  Without a
\* model the agent gives up, and a parse goes on without the template.
GetPointer(r) ==
  /\ pc[r] \in {"render", "parse"} /\ mutex = NoOne
  /\ IF target[r] \in loaded
     THEN Goto(r, IF pc[r] = "render" THEN "rendering" ELSE "parsing")
     ELSE IF pc[r] = "render" THEN Answer(r) ELSE Goto(r, "parsed")
  /\ UNCHANGED <<loaded, weights, lastUsed, now, mutex, steps, dangling, imageVars>>

\* common_chat_templates_init(lmodel): the last use of the pointer.
UsePointer(r) ==
  /\ pc[r] \in {"rendering", "parsing"}
  /\ Goto(r, IF pc[r] = "rendering" THEN "generate" ELSE "parsed")
  /\ dangling' = dangling \ {r}
  /\ UNCHANGED <<loaded, weights, lastUsed, now, mutex, steps, imageVars>>

\* The agent runs the tool calls it parsed and generates again, or repairs a
\* call without arguments; or it has its answer.
Decide(r) ==
  /\ pc[r] = "parsed"
  /\ \/ steps[r] < MaxSteps /\ Goto(r, "generate")
     \/ Answer(r)
  /\ UNCHANGED <<loaded, weights, lastUsed, now, mutex, steps, dangling, imageVars>>

\* A generation without an answer ends the request - unless it was to repair a
\* call without arguments: the agent then goes on with the call as it is.
NoAnswer(r) ==
  \/ Answer(r) /\ UNCHANGED steps
  \/ /\ kind[r] = "agent" /\ steps[r] > 0
     /\ Goto(r, "parsed") /\ steps' = [steps EXCEPT ![r] = @ + 1]

\* complete, complete_stream, complete_raw, embed: the model is gone, or its
\* fresh context cannot be made.
GenerateFails(r) ==
  /\ pc[r] = "generate" /\ mutex = NoOne
  /\ NoAnswer(r)
  /\ UNCHANGED <<loaded, weights, lastUsed, now, mutex, dangling, imageVars>>

\* The draft takes part if it is still there; otherwise the target goes alone.
Drafting(r) == kind[r] = "chat" /\ draft[r] \in loaded \ {target[r]}

Generate(r) ==
  /\ pc[r] = "generate" /\ mutex = NoOne /\ target[r] \in loaded
  /\ mutex' = r
  /\ Touch(IF Drafting(r) THEN {draft[r]} ELSE {})
  /\ Goto(r, "generating")
  /\ UNCHANGED <<loaded, weights, now, steps, dangling, imageVars>>

\* The call returns, or the decoder fails before touch() is reached.
Generated(r) ==
  /\ pc[r] = "generating" /\ mutex' = NoOne
  /\ \/ /\ Touch({target[r]} \cup (IF Drafting(r) THEN {draft[r]} ELSE {}))
        /\ steps' = [steps EXCEPT ![r] = IF kind[r] = "agent" THEN @ + 1 ELSE @]
        /\ IF kind[r] = "agent" THEN Goto(r, "parse") ELSE Answer(r)
     \/ NoAnswer(r) /\ UNCHANGED lastUsed
  /\ UNCHANGED <<loaded, weights, now, dangling, imageVars>>

---------------------------------------------------------------------------
(* The other clients of the engine.                                        *)

\* Slip: unload_model forgets the lock_guard.
UnloadUnlocked(m) ==
  /\ m \in loaded /\ Free(m)
  /\ UNCHANGED <<now, mutex, requestVars, imageVars>>

\* handle_model_unload, handle_router_unload: unload_model.
Unload(m) ==
  /\ mutex = NoOne /\ m \in loaded
  /\ Free(m)
  /\ UNCHANGED <<now, mutex, requestVars, imageVars>>

\* An image request unloads every text model it finds, one call each, to leave
\* the VRAM to the diffusion.
ImageList ==
  /\ imagePc = "idle" /\ mutex = NoOne
  /\ imagePc' = "unloading" /\ imageList' = loaded
  /\ UNCHANGED <<loaded, weights, lastUsed, now, mutex, requestVars, dangling>>

ImageUnload(m) ==
  /\ imagePc = "unloading" /\ m \in imageList /\ mutex = NoOne
  /\ imageList' = imageList \ {m}
  /\ IF m \in loaded THEN Free(m) ELSE UNCHANGED <<loaded, weights, lastUsed, dangling>>
  /\ UNCHANGED <<now, mutex, requestVars, imagePc>>

Diffuse ==
  /\ \/ imagePc = "unloading" /\ imageList = {} /\ imagePc' = "diffusing"
     \/ imagePc = "diffusing" /\ imagePc' = "idle"
  /\ UNCHANGED <<loaded, weights, lastUsed, now, mutex, requestVars, dangling, imageList>>

Tick == /\ now < MaxTime /\ now' = now + 1
        /\ UNCHANGED <<loaded, weights, lastUsed, mutex, requestVars, dangling, imageVars>>

---------------------------------------------------------------------------
Ensure(r) == \/ CheckTarget(r) \/ CheckDraft(r) \/ AlreadyLoaded(r) \/ LoadFails(r)
             \/ LoadWeights(r) \/ Recheck(r)
Swap(r)   == Evict(r) \/ Insert(r)
Serve(r)  == \/ GetPointer(r) \/ UsePointer(r) \/ Decide(r)
             \/ GenerateFails(r) \/ Generate(r) \/ Generated(r)

Next == \/ \E r \in Requests : Arrive(r) \/ Ensure(r) \/ Swap(r) \/ Serve(r)
        \/ \E m \in Models : Unload(m) \/ ImageUnload(m)
        \/ ImageList \/ Diffuse \/ Tick

Spec == Init /\ [][Next]_vars

\* A handler thread that can go on does, and one that waits for models_mutex_
\* gets it if it is free again and again (strong fairness).  A load, a
\* generation and a use of the pointer end; clients owe no request.
Fairness == \A r \in Requests : SF_vars(Ensure(r) \/ Swap(r) \/ Serve(r))

FairSpec == Spec /\ Fairness

---------------------------------------------------------------------------
(* Properties.                                                             *)

\* Every variable has its type.
TypeOK ==
  /\ loaded \subseteq Models /\ weights \subseteq Models
  /\ lastUsed \in [Models -> Nat] /\ now \in Nat
  /\ mutex \in Requests \cup {NoOne}
  /\ pc \in [Requests -> PCs] /\ kind \in [Requests -> Kinds]
  /\ target \in [Requests -> Models \cup {NoModel}]
  /\ draft \in [Requests -> Models \cup {NoModel}]
  /\ steps \in [Requests -> Nat]
  /\ dangling \subseteq Requests
  /\ imagePc \in {"idle", "unloading", "diffusing"} /\ imageList \subseteq Models

\* loaded_models_ never exceeds the hot-swap budget (evict_if_needed runs before
\* the insertion, and nothing else inserts).
BudgetKept == MaxLoaded > 0 => Cardinality(loaded) <= MaxLoaded

Swapping(r) == pc[r] \in {"swapTarget", "swapDraft"}

\* No weights are leaked and none are missing: allocated are the models of the
\* map, plus the one that a load under way has allocated (load_model,
\* evict_if_needed, unload_model).
NoWeightsLeaked == weights = loaded \cup {Wanted(r) : r \in {q \in Requests : Swapping(q)}}

\* The map keeps the budget and accounts for every allocated model, whoever loads,
\* evicts and unloads at the same time and whichever loads fail.
MemoryAccounted == TypeOK /\ BudgetKept /\ NoWeightsLeaked

\* While a generation runs, neither its target nor the draft it uses is evicted
\* or unloaded under it: no other thread's load, unload or image request gets
\* in (every call holds models_mutex_).
GeneratingIsResident ==
  \A r \in Requests :
    pc[r] = "generating" =>
      /\ mutex = r
      /\ target[r] \in loaded \cap weights
      /\ Drafting(r) => draft[r] \in weights

\* A model leaves the map without having been unloaded by a client only if
\* there is no room for the newcomer - not one model too many - and no loaded
\* model was used in an earlier second (evict_if_needed).
EvictsLeastRecentlyUsed ==
  [][\A r \in Requests, m \in Models :
       Swapping(r) /\ m \in loaded \ loaded' =>
         /\ Cardinality(loaded) + 1 > MaxLoaded
         /\ \A o \in loaded' : lastUsed[m] <= lastUsed[o]]_vars

\* Every request is answered, whatever is loaded, evicted and unloaded meanwhile.
EveryRequestAnswered == \A r \in Requests : pc[r] # "idle" ~> pc[r] = "idle"

---------------------------------------------------------------------------
(* What the documents and the comments say, and the code does not do.      *)

\* text_engine.hpp:141: the pointer stays valid while the model is loaded.  The
\* agent uses it only while it is valid.
PointerIsValid == dangling = {}

\* server.cpp:1643: text and diffusion do not fit into memory together, the text
\* models are unloaded first.
DiffusesAlone == imagePc = "diffusing" => weights = {}
===========================================================================
