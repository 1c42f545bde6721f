--------------------------- MODULE MediaJobsProofs ---------------------------
(* Theorems about MediaJobs for every set of jobs, names, files and keys.     *)
(*                                                                            *)
(* The invariant says what a job's thread has in hand at each of its places,  *)
(* which place goes with which row, and how far the start has stored a key.   *)
EXTENDS MediaJobs, TLAPS

\* What the thread of a job has: a name and a file until it has registered
\* them, a known model from then on, a context while it diffuses.
JobInv ==
  \A j \in Jobs :
    /\ pc[j] = "register" => name[j] \in Names /\ file[j] \in Files
    /\ pc[j] \in {"row", "lookup", "context", "diffuse"} =>
         name[j] \in Names /\ known[name[j]] # None
    /\ pc[j] = "context" => file[j] \in Files
    /\ pc[j] = "diffuse" => used[j] = ctx[name[j]] /\ ctx[name[j]].file # None

\* A context is made once: whatever has no file was never made.
ContextInv == \A n \in Names : ctx[n].file = None => ctx[n] = NoContext

\* Which row goes with which place of the thread.
RowInv ==
  \A j \in Jobs :
    /\ pc[j] \in {"idle", "register", "row"} => row[j] = "none"
    /\ pc[j] \in Working => row[j] = IF wait[j] THEN "none" ELSE "queued"
    /\ pc[j] = "lost" => row[j] \in {"none", "queued"}
    /\ pc[j] = "answered" => row[j] # "queued"
    /\ pc[j] = "refused" => row[j] = "queued"

\* Behind each seed, unless it failed, a key is in the store.
AfterEnv  == {"queue", "text", "preload", "image", "server", "lock", "bind", "listening"}
AfterFlag == AfterEnv \ {"queue", "text"}
SeedInv ==
  ~unsaved => /\ phase \in AfterEnv /\ env # None => keys # {}
              /\ phase \in AfterFlag /\ flag # None => keys # {}

IInv == TypeOK /\ JobInv /\ ContextInv /\ RowInv /\ SeedInv

\* The variables of the jobs, and those of the process.
JobsInv == JobInv /\ ContextInv /\ RowInv
JobTypes ==
  /\ models \in [Names -> Files \cup {None}] /\ known \in [Names -> Files \cup {None}]
  /\ row \in [Jobs -> {"none", "queued", "completed", "failed"}]
  /\ ctx \in [Names -> Contexts] /\ used \in [Jobs -> Contexts]
  /\ pc \in [Jobs -> {"idle", "register", "row"} \cup Working \cup Ended]
  /\ wait \in [Jobs -> BOOLEAN] /\ name \in [Jobs -> Names \cup {None}]
  /\ file \in [Jobs -> Files \cup {None}]

LEMMA TypeParts == TypeOK <=> ProcessTypeOK /\ JobTypes
BY DEF TypeOK, JobTypes

LEMMA InitIInv == Init => IInv
<1> SUFFICES ASSUME Init PROVE IInv
  OBVIOUS
<1> USE DEF Init, ProcessInit
<1>1. ProcessTypeOK
  <2>1. phase \in Phases /\ keys \subseteq [id : KeyIds, value : KeyValues]
    BY DEF Phases
  <2>2. signals \in BOOLEAN /\ running \in BOOLEAN /\ unsaved \in BOOLEAN
    OBVIOUS
  <2>3. lives \in 0 .. MaxLives
    BY LivesAssumption
  <2>4. QED BY <2>1, <2>2, <2>3 DEF ProcessTypeOK
<1>2. JobTypes
  BY DEF JobTypes, Contexts, NoContext
<1>3. JobsInv
  BY DEF JobsInv, JobInv, ContextInv, RowInv, NoContext, Working
<1>4. SeedInv
  BY DEF SeedInv, AfterEnv, AfterFlag
<1>5. QED BY <1>1, <1>2, <1>3, <1>4, TypeParts DEF IInv, JobsInv

---------------------------------------------------------------------------
(* The process.                                                             *)

LEMMA InsertedType ==
  ASSUME ProcessTypeOK, NEW id \in KeyIds, NEW value \in KeyValues
  PROVE  /\ Inserted(id, value) \subseteq [id : KeyIds, value : KeyValues]
         /\ Inserted(id, value) # {}
<1>1. Row(id, value) \in [id : KeyIds, value : KeyValues]
  BY DEF Row
<1>2. CASE \E k \in keys : k.id = id
  BY <1>2 DEF Inserted, ProcessTypeOK
<1>3. CASE ~\E k \in keys : k.id = id
  BY <1>1, <1>3 DEF Inserted, ProcessTypeOK
<1>4. QED BY <1>2, <1>3

\* A seed stores a key or sets unsaved, and stores nothing of another type.
LEMMA SeedStep ==
  ASSUME ProcessTypeOK, NEW id \in KeyIds, NEW value \in KeyValues \cup {None}, Seed(id, value)
  PROVE  /\ keys' \subseteq [id : KeyIds, value : KeyValues] /\ unsaved' \in BOOLEAN
         /\ keys # {} => keys' # {}
         /\ ~unsaved' => ~unsaved /\ (value # None => keys' # {})
<1>1. value # None => value \in KeyValues
  OBVIOUS
<1>2. CASE UNCHANGED keys /\ unsaved' = TRUE
  BY <1>2 DEF ProcessTypeOK
<1>3. CASE /\ keys' = IF value = None \/ value \in Values THEN keys ELSE Inserted(id, value)
           /\ UNCHANGED unsaved
  <2>1. CASE value = None
    BY <2>1, <1>3 DEF ProcessTypeOK
  <2>2. CASE value \in Values
    BY <2>2, <1>3 DEF ProcessTypeOK, Values
  <2>3. CASE value # None /\ value \notin Values
    BY <2>3, <1>1, <1>3, InsertedType DEF ProcessTypeOK
  <2>4. QED BY <2>1, <2>2, <2>3
<1>4. QED BY <1>2, <1>3 DEF Seed

LEMMA BootStep ==
  ASSUME ProcessTypeOK, SeedInv, Boot PROVE ProcessTypeOK' /\ SeedInv'
<1> USE DEF Phases, Booting
<1>1. ASSUME NEW f \in KeyValues \cup {None}, NEW e \in KeyValues \cup {None}, Start(f, e)
      PROVE  ProcessTypeOK' /\ SeedInv'
  <2>1. lives' \in 0 .. MaxLives
    BY <1>1, LivesAssumption DEF Start, ProcessTypeOK
  <2>2. /\ signals' \in BOOLEAN /\ running' \in BOOLEAN /\ unsaved' \in BOOLEAN
        /\ flag' \in KeyValues \cup {None} /\ env' \in KeyValues \cup {None}
        /\ UNCHANGED keys /\ phase' = "registry"
    BY <1>1 DEF Start
  <2>3. ProcessTypeOK'
    BY <2>1, <2>2 DEF ProcessTypeOK
  <2>4. SeedInv'
    BY <2>2 DEF SeedInv, AfterEnv, AfterFlag
  <2>5. QED BY <2>3, <2>4
<1>2. ASSUME SeedFromEnv PROVE ProcessTypeOK' /\ SeedInv'
  <2>1. /\ keys' \subseteq [id : KeyIds, value : KeyValues] /\ unsaved' \in BOOLEAN
        /\ ~unsaved' => (env # None => keys' # {})
    BY <1>2, SeedStep DEF SeedFromEnv, KeyIds, ProcessTypeOK
  <2>2. ProcessTypeOK'
    BY <1>2, <2>1 DEF SeedFromEnv, Bring, ProcessTypeOK
  <2>3. SeedInv'
    BY <1>2, <2>1 DEF SeedFromEnv, Bring, SeedInv, AfterEnv, AfterFlag
  <2>4. QED BY <2>2, <2>3
<1>3. ASSUME SeedFromFlag PROVE ProcessTypeOK' /\ SeedInv'
  <2>1. /\ keys' \subseteq [id : KeyIds, value : KeyValues] /\ unsaved' \in BOOLEAN
        /\ keys # {} => keys' # {}
        /\ ~unsaved' => ~unsaved /\ (flag # None => keys' # {})
    BY <1>3, SeedStep DEF SeedFromFlag, KeyIds, ProcessTypeOK
  <2>2. ProcessTypeOK'
    BY <1>3, <2>1 DEF SeedFromFlag, Bring, ProcessTypeOK
  <2>3. SeedInv'
    BY <1>3, <2>1 DEF SeedFromFlag, Bring, SeedInv, AfterEnv, AfterFlag
  <2>4. QED BY <2>2, <2>3
<1>4. ASSUME NEW from, NEW to, Bring(from, to), UNCHANGED <<keys, unsaved>>,
             to \in Phases,
             from \in AfterEnv /\ (to \in AfterFlag => from \in AfterFlag)
      PROVE  ProcessTypeOK' /\ SeedInv'
  BY <1>4 DEF Bring, ProcessTypeOK, SeedInv, AfterEnv, AfterFlag
<1>5. ASSUME BringQueue PROVE ProcessTypeOK' /\ SeedInv'
  BY <1>4, <1>5 DEF BringQueue, AfterEnv, AfterFlag
<1>6. ASSUME Preload \/ BringImage \/ MakeServer \/ acquire_port_lock \/ Listen
      PROVE  ProcessTypeOK' /\ SeedInv'
  BY <1>4, <1>6 DEF Preload, BringImage, MakeServer, acquire_port_lock, Listen, AfterEnv,
                    AfterFlag
<1>7. QED BY <1>1, <1>2, <1>3, <1>5, <1>6 DEF Boot

LEMMA KillStep ==
  ASSUME ProcessTypeOK, SeedInv, Kill PROVE ProcessTypeOK' /\ SeedInv'
BY DEF Kill, ProcessTypeOK, SeedInv, Phases, AfterEnv, AfterFlag

LEMMA SignalStep ==
  ASSUME ProcessTypeOK, SeedInv, Signal, ~running PROVE ProcessTypeOK' /\ SeedInv'
BY DEF Signal, stop, ProcessTypeOK, SeedInv

LEMMA NewKeyStep ==
  ASSUME ProcessTypeOK, SeedInv, NEW v \in KeyValues, CreateKey(v)
  PROVE  ProcessTypeOK' /\ SeedInv'
<1>1. keys' \subseteq [id : KeyIds, value : KeyValues] /\ keys' # {}
  BY InsertedType DEF CreateKey, KeyIds
<1>2. QED BY <1>1 DEF CreateKey, ProcessTypeOK, SeedInv

\* The end of the process drops the threads and the engine, and keeps the rows.
LEMMA VanishStep ==
  ASSUME JobTypes, JobsInv, Vanish, UNCHANGED models PROVE JobTypes' /\ JobsInv'
<1>1. JobTypes'
  BY DEF Vanish, JobTypes, Contexts, NoContext, Ended
<1>2. JobInv' /\ ContextInv'
  BY DEF Vanish, JobInv, ContextInv, JobTypes, NoContext
<1>3. RowInv'
  BY DEF Vanish, JobsInv, RowInv, JobTypes, Working, Ended
<1>4. QED BY <1>1, <1>2, <1>3 DEF JobsInv

LEMMA JobsUntouched ==
  ASSUME JobTypes, JobsInv, UNCHANGED <<tables, engine, thread>> PROVE JobTypes' /\ JobsInv'
BY DEF JobTypes, JobsInv, JobInv, ContextInv, RowInv, tables, engine, thread, locals

LEMMA ProcessUntouched ==
  ASSUME ProcessTypeOK, SeedInv, UNCHANGED process PROVE ProcessTypeOK' /\ SeedInv'
BY DEF ProcessTypeOK, SeedInv, process

---------------------------------------------------------------------------
(* The jobs.                                                                *)

\* A registration changes the registry only.
LEMMA ModelsStep ==
  ASSUME JobTypes, JobsInv, models' \in [Names -> Files \cup {None}],
         UNCHANGED <<row, engine, thread>>
  PROVE  JobTypes' /\ JobsInv'
BY DEF JobTypes, JobsInv, JobInv, ContextInv, RowInv, engine, thread, locals

LEMMA AskImageStep ==
  ASSUME JobTypes, JobsInv, NEW j \in Jobs, NEW w \in BOOLEAN, NEW n \in Names, AskImage(j, w, n)
  PROVE  JobTypes' /\ JobsInv'
<1> USE DEF AskImage, tables, engine
<1>1. Resolved(n) \subseteq Names /\ \A m \in Resolved(n) : models[m] \in Files
  BY AliasAssumption DEF Resolved, JobTypes
<1>2. JobTypes'
  BY <1>1 DEF JobTypes, Ended
<1>3. JobInv'
  BY <1>1 DEF JobsInv, JobInv, JobTypes
<1>4. ContextInv' /\ RowInv'
  BY DEF JobsInv, ContextInv, RowInv, JobTypes, Working
<1>5. QED BY <1>2, <1>3, <1>4 DEF JobsInv

\* The end of a job's thread.
EndTypes ==
  /\ pc' \in [Jobs -> {"idle", "register", "row"} \cup Working \cup Ended]
  /\ wait' \in [Jobs -> BOOLEAN] /\ name' \in [Jobs -> Names \cup {None}]
  /\ file' \in [Jobs -> Files \cup {None}] /\ used' \in [Jobs -> Contexts]

LEMMA EndTyped ==
  ASSUME JobTypes, NEW j \in Jobs, NEW place \in Ended, EndAt(j, place)
  PROVE  EndTypes
<1>1. NoContext \in Contexts
  BY DEF NoContext, Contexts
<1>2. QED BY <1>1 DEF JobTypes, EndTypes, EndAt, Ended

LEMMA RegisterStep ==
  ASSUME JobTypes, JobsInv, NEW j \in Jobs, Register(j) PROVE JobTypes' /\ JobsInv'
<1> USE DEF Register, tables, engine, locals
<1>1. JobTypes'
  <2>1. CASE End(j) /\ UNCHANGED known
    BY <2>1, EndTyped DEF JobTypes, EndTypes, End, Ended
  <2>2. CASE known' = [known EXCEPT ![name[j]] = file[j]]
             /\ pc' = [pc EXCEPT ![j] = "row"] /\ UNCHANGED locals
    BY <2>2 DEF JobTypes
  <2>3. QED BY <2>1, <2>2
<1>2. CASE known' = [known EXCEPT ![name[j]] = file[j]]
           /\ pc' = [pc EXCEPT ![j] = "row"] /\ UNCHANGED locals
  <2>1. name[j] \in Names /\ file[j] \in Files /\ file[j] # None
    BY NoFileAssumption DEF JobsInv, JobInv
  <2>2. JobInv'
    BY <1>2, <2>1 DEF JobsInv, JobInv, JobTypes
  <2>3. ContextInv' /\ RowInv'
    BY <1>2 DEF JobsInv, ContextInv, RowInv, JobTypes, Working
  <2>4. QED BY <1>1, <2>2, <2>3 DEF JobsInv
<1>3. CASE End(j) /\ UNCHANGED known
  <2>1. JobInv'
    BY <1>3 DEF JobsInv, JobInv, JobTypes, End, EndAt
  <2>2. ContextInv' /\ RowInv'
    BY <1>3 DEF JobsInv, ContextInv, RowInv, JobTypes, Working, End, EndAt
  <2>3. QED BY <1>1, <2>1, <2>2 DEF JobsInv
<1>4. QED BY <1>2, <1>3

LEMMA CreateRowStep ==
  ASSUME JobTypes, JobsInv, NEW j \in Jobs, CreateRow(j) PROVE JobTypes' /\ JobsInv'
<1> USE DEF CreateRow, Generate, create_job, engine, locals
<1>1. JobTypes'
  <2>1. CASE wait[j] /\ UNCHANGED row /\ Generate(j)
    BY <2>1 DEF JobTypes, Working
  <2>2. CASE ~wait[j] /\ create_job(j) /\ Generate(j)
    BY <2>2 DEF JobTypes, Working
  <2>3. CASE ~wait[j] /\ UNCHANGED row /\ End(j)
    BY <2>3, EndTyped DEF JobTypes, EndTypes, End, Ended
  <2>4. QED BY <2>1, <2>2, <2>3
<1>2. JobInv'
  BY DEF JobsInv, JobInv, JobTypes, End, EndAt
<1>3. ContextInv'
  BY DEF JobsInv, ContextInv
<1>4. RowInv'
  BY DEF JobsInv, RowInv, JobTypes, Working, End, EndAt
<1>5. QED BY <1>1, <1>2, <1>3, <1>4 DEF JobsInv

LEMMA LookupStep ==
  ASSUME JobTypes, JobsInv, NEW j \in Jobs, Lookup(j) PROVE JobTypes' /\ JobsInv'
<1> USE DEF Lookup, Preview, tables, engine
<1>1. JobTypes'
  BY DEF JobTypes, JobsInv, JobInv, Working
<1>2. JobInv'
  BY DEF JobsInv, JobInv, JobTypes
<1>3. ContextInv' /\ RowInv'
  BY DEF JobsInv, ContextInv, RowInv, JobTypes, Working
<1>4. QED BY <1>1, <1>2, <1>3 DEF JobsInv

\* The second critical section: a context is made only where there is none, so
\* that no thread that diffuses sees its own replaced.
LEMMA ContextStep ==
  ASSUME JobTypes, JobsInv, NEW j \in Jobs, Context(j) PROVE JobTypes' /\ JobsInv'
<1> USE DEF tables, Preview
<1> DEFINE n   == name[j]
           new == [file |-> file[j], made |-> ctx[n].made + 1]
<1>1. n \in Names /\ file[j] \in Files /\ known[n] # None /\ pc[j] = "context"
  BY DEF Context, JobsInv, JobInv
<1>2. CASE ctx[n].file # None /\ Use(j, ctx[n]) /\ UNCHANGED ctx
  <2>1. JobTypes'
    BY <1>1, <1>2 DEF Context, Use, JobTypes, Working
  <2>2. JobInv'
    BY <1>1, <1>2 DEF Context, Use, JobsInv, JobInv, JobTypes
  <2>3. ContextInv' /\ RowInv'
    BY <1>1, <1>2 DEF Context, Use, JobsInv, ContextInv, RowInv, JobTypes, Working
  <2>4. QED BY <2>1, <2>2, <2>3 DEF JobsInv
<1>3. CASE ctx[n].file = None /\ Use(j, new) /\ ctx' = [ctx EXCEPT ![n] = new]
  <2>1. ctx[n].made = 0
    BY <1>1, <1>3 DEF JobsInv, ContextInv, NoContext
  <2>2. new \in Contexts /\ new.file # None
    BY <1>1, <2>1, NoFileAssumption DEF Contexts
  <2>3. JobTypes'
    BY <1>1, <1>3, <2>2 DEF Context, Use, JobTypes, Working
  <2>4. \A k \in Jobs : pc[k] = "diffuse" => name[k] # n
    BY <1>3 DEF JobsInv, JobInv
  <2>5. JobInv'
    BY <1>1, <1>3, <2>2, <2>4 DEF Context, Use, JobsInv, JobInv, JobTypes
  <2>6. ContextInv' /\ RowInv'
    BY <1>1, <1>3, <2>2 DEF Context, Use, JobsInv, ContextInv, RowInv, JobTypes, Working
  <2>7. QED BY <2>3, <2>5, <2>6 DEF JobsInv
<1>4. CASE Preview(j) /\ UNCHANGED <<ctx, used>>
  <2>1. JobTypes'
    BY <1>1, <1>4 DEF Context, JobTypes, Working
  <2>2. JobInv'
    BY <1>1, <1>4 DEF Context, JobsInv, JobInv, JobTypes
  <2>3. ContextInv' /\ RowInv'
    BY <1>1, <1>4 DEF Context, JobsInv, ContextInv, RowInv, JobTypes, Working
  <2>4. QED BY <2>1, <2>2, <2>3 DEF JobsInv
<1>5. QED BY <1>2, <1>3, <1>4 DEF Context

LEMMA DiffuseStep ==
  ASSUME JobTypes, JobsInv, NEW j \in Jobs, Diffuse(j) PROVE JobTypes' /\ JobsInv'
<1> USE DEF Diffuse, tables, engine
<1>1. JobTypes'
  BY DEF JobTypes, Working, Contexts, NoContext
<1>2. JobInv'
  BY DEF JobsInv, JobInv, JobTypes
<1>3. ContextInv' /\ RowInv'
  BY DEF JobsInv, ContextInv, RowInv, JobTypes, Working
<1>4. QED BY <1>1, <1>2, <1>3 DEF JobsInv

LEMMA SaveStep ==
  ASSUME JobTypes, JobsInv, NEW j \in Jobs, NEW b \in BOOLEAN, Save(j, b)
  PROVE  JobTypes' /\ JobsInv'
<1> USE DEF Save, End, EndAt, Outcome, engine
<1>1. JobTypes'
  <2>1. EndTypes
    BY EndTyped DEF Ended
  <2>2. row' \in [Jobs -> {"none", "queued", "completed", "failed"}]
    BY DEF JobTypes
  <2>3. QED BY <2>1, <2>2 DEF JobTypes, EndTypes
<1>2. JobInv'
  BY DEF JobsInv, JobInv, JobTypes
<1>3. ContextInv' /\ RowInv'
  BY DEF JobsInv, ContextInv, RowInv, JobTypes, Working
<1>4. QED BY <1>1, <1>2, <1>3 DEF JobsInv

\* A job's thread leaves the process alone.
LEMMA ThreadStep ==
  ASSUME JobTypes, JobsInv, NEW j \in Jobs, Thread(j)
  PROVE  JobTypes' /\ JobsInv' /\ UNCHANGED process
<1>1. JobTypes' /\ JobsInv'
  BY RegisterStep, CreateRowStep, LookupStep, ContextStep, DiffuseStep, SaveStep
     DEF Thread, save_preview_frames
<1>2. UNCHANGED process
  BY DEF Thread, Register, CreateRow, Lookup, Context, Diffuse, Save
<1>3. QED BY <1>1, <1>2

\* A row is written by its own thread only, and not after its end.
LEMMA RowStep ==
  ASSUME JobTypes, NEW k \in Jobs, Thread(k)
  PROVE  pc[k] # "answered" /\ \A j \in Jobs \ {k} : row'[j] = row[j]
<1>1. ASSUME Register(k) \/ Lookup(k) \/ Context(k) \/ Diffuse(k)
      PROVE  pc[k] # "answered" /\ UNCHANGED row
  BY <1>1 DEF Register, Lookup, Context, Diffuse, tables
<1>2. ASSUME CreateRow(k)
      PROVE  pc[k] # "answered" /\ \A j \in Jobs \ {k} : row'[j] = row[j]
  BY <1>2 DEF CreateRow, create_job, JobTypes
<1>3. ASSUME NEW b \in BOOLEAN, Save(k, b)
      PROVE  pc[k] # "answered" /\ \A j \in Jobs \ {k} : row'[j] = row[j]
  BY <1>3 DEF Save, JobTypes
<1>4. QED BY <1>1, <1>2, <1>3 DEF Thread, save_preview_frames

\* Nobody else writes rows.
LEMMA RowKept == [Next]_vars => (\E k \in Jobs : Thread(k)) \/ UNCHANGED row
<1>1. Process => UNCHANGED row
  BY DEF Process, Vanish, tables
<1>2. NewKey => UNCHANGED row
  BY DEF NewKey, tables
<1>3. ASSUME NEW n \in Names, NEW f \in Files, RegisterModel(n, f) \/ PreloadImage(n, f)
      PROVE  UNCHANGED row
  BY <1>3 DEF RegisterModel, PreloadImage
<1>4. ASSUME NEW j \in Jobs, NEW w \in BOOLEAN, NEW n \in Names, AskImage(j, w, n)
      PROVE  UNCHANGED row
  BY <1>4 DEF AskImage, tables
<1>5. AskVideo => UNCHANGED row
  BY DEF AskVideo, Vanish
<1>6. UNCHANGED vars => UNCHANGED row
  BY DEF vars, tables
<1>7. QED BY <1>1, <1>2, <1>3, <1>4, <1>5, <1>6 DEF Next

---------------------------------------------------------------------------
LEMMA NextIInv == IInv /\ [Next]_vars => IInv'
<1> SUFFICES ASSUME IInv, [Next]_vars PROVE IInv'
  OBVIOUS
<1>1. ProcessTypeOK /\ JobTypes /\ JobsInv /\ SeedInv
  BY TypeParts DEF IInv, JobsInv
<1> SUFFICES (ProcessTypeOK' /\ SeedInv') /\ (JobTypes' /\ JobsInv')
  BY TypeParts DEF IInv, JobsInv, TypeOK, JobTypes
<1>2. CASE Process
  <2>1. CASE Kill /\ Vanish /\ UNCHANGED models
    BY <1>1, <2>1, KillStep, VanishStep
  <2>2. CASE Boot /\ UNCHANGED <<tables, engine, thread>>
    BY <1>1, <2>2, BootStep, JobsUntouched
  <2>3. CASE Boot /\ Vanish /\ UNCHANGED models
    BY <1>1, <2>3, BootStep, VanishStep
  <2>4. CASE Signal /\ ~running /\ UNCHANGED <<tables, engine, thread>>
    BY <1>1, <2>4, SignalStep, JobsUntouched
  <2>5. QED BY <1>2, <2>1, <2>2, <2>3, <2>4 DEF Process
<1>3. CASE NewKey
  BY <1>1, <1>3, NewKeyStep, JobsUntouched DEF NewKey
<1>4. ASSUME NEW n \in Names, NEW f \in Files, RegisterModel(n, f)
      PROVE  (ProcessTypeOK' /\ SeedInv') /\ (JobTypes' /\ JobsInv')
  <2>1. models' \in [Names -> Files \cup {None}]
    BY <1>1, <1>4 DEF RegisterModel, JobTypes
  <2>2. QED BY <1>1, <1>4, <2>1, ModelsStep, ProcessUntouched DEF RegisterModel
<1>5. ASSUME NEW n \in Names, NEW f \in Files, PreloadImage(n, f)
      PROVE  (ProcessTypeOK' /\ SeedInv') /\ (JobTypes' /\ JobsInv')
  <2>1. models' \in [Names -> Files \cup {None}]
    BY <1>1, <1>5 DEF PreloadImage, JobTypes
  <2>2. Boot
    BY <1>5 DEF PreloadImage, Boot
  <2>3. QED BY <1>1, <1>5, <2>1, <2>2, ModelsStep, BootStep DEF PreloadImage
<1>6. ASSUME NEW j \in Jobs, NEW w \in BOOLEAN, NEW n \in Names, AskImage(j, w, n)
      PROVE  (ProcessTypeOK' /\ SeedInv') /\ (JobTypes' /\ JobsInv')
  <2>1. UNCHANGED process
    BY <1>6 DEF AskImage
  <2>2. QED BY <1>1, <1>6, <2>1, AskImageStep, ProcessUntouched
<1>7. CASE AskVideo
  BY <1>1, <1>7, KillStep, VanishStep DEF AskVideo
<1>8. ASSUME NEW j \in Jobs, Thread(j)
      PROVE  (ProcessTypeOK' /\ SeedInv') /\ (JobTypes' /\ JobsInv')
  BY <1>1, <1>8, ThreadStep, ProcessUntouched
<1>9. CASE UNCHANGED vars
  BY <1>1, <1>9, JobsUntouched, ProcessUntouched DEF vars
<1>10. QED BY <1>2, <1>3, <1>4, <1>5, <1>6, <1>7, <1>8, <1>9 DEF Next

LEMMA Invariance == Spec => []IInv
<1>1. QED BY InitIInv, NextIInv, PTL DEF Spec

\* Between request and diffusion a job keeps the model registered for it and the
\* context made of it, for any jobs, names, files, registrations and kills.
THEOREM JobModel == Spec => []JobKeepsItsModel
<1>1. IInv => JobKeepsItsModel
  BY NoFileAssumption DEF IInv, JobInv, JobKeepsItsModel, WorkerFindsItsModel,
     ContextOutlivesItsUsers
<1>2. QED BY <1>1, Invariance, PTL

\* What is listed as queued has a thread, or had one when the process ended, or the
\* registry refused its last update.
THEOREM QueuedThread == Spec => []QueuedHasAThread
<1>1. IInv => QueuedHasAThread
  BY DEF IInv, TypeOK, RowInv, QueuedHasAThread, Listed, Ended
<1>2. QED BY <1>1, Invariance, PTL

\* A server that was given a key and stored it asks for one.
THEOREM Seeded == Spec => []SeededBeforeServing
<1>1. IInv => SeededBeforeServing
  BY DEF IInv, SeedInv, AfterEnv, AfterFlag, SeededBeforeServing, has_keys
<1>2. QED BY <1>1, Invariance, PTL

\* No step changes the answer about a job that ended: only the end of its own
\* thread writes its row, and then the row was "queued".
RowIsFinal ==
  [][\A j \in Jobs : row[j] \in {"completed", "failed"} => Answer(j)' = Answer(j)]_vars

\* What a client has read of a job that ended, it reads for ever: the refinement below
\* speaks of stages, this of the answers of handle_generate_image_status.
THEOREM FinalRow == Spec => RowIsFinal
<1>1. ASSUME IInv, [Next]_vars, NEW j \in Jobs, row[j] \in {"completed", "failed"}
      PROVE  Answer(j)' = Answer(j)
  <2>1. pc[j] = "answered"
    BY <1>1 DEF IInv, RowInv, TypeOK, Ended, Working
  <2>2. JobTypes
    BY <1>1, TypeParts DEF IInv
  <2>3. (\E k \in Jobs : Thread(k)) \/ UNCHANGED row
    BY <1>1, RowKept
  <2>4. row'[j] = row[j]
    BY <2>1, <2>2, <2>3, RowStep
  <2>5. QED BY <2>4 DEF Answer
<1>2. IInv /\ [Next]_vars =>
        \A j \in Jobs : row[j] \in {"completed", "failed"} => Answer(j)' = Answer(j)
  BY <1>1
<1>3. QED BY <1>2, Invariance, PTL DEF Spec, RowIsFinal
---------------------------------------------------------------------------
(* Refinement: every step is a step of JobLifecycle, or leaves the stages   *)
(* alone.                                                                   *)

\* A job's stage depends on its row and its thread's place, and without a row on neither.
LEMMA StageKept ==
  ASSUME NEW j \in Jobs, row'[j] = row[j], row[j] = "none" \/ pc'[j] = pc[j]
  PROVE  Stage(j)' = Stage(j)
BY DEF Stage

\* What the row and the place make of the stage of a job that is not waited for.
LEMMA StageIs ==
  ASSUME RowInv, NEW j \in Jobs, ~wait[j]
  PROVE  /\ pc[j] = "row" => Stage(j) = "absent"
         /\ pc[j] = "lookup" => Stage(j) = "queued"
         /\ pc[j] \in {"context", "diffuse", "save"} => Stage(j) = "processing"
BY DEF RowInv, Working, Stage

\* The end of the process loses every job that was begun or was to be.
LEMMA VanishLoses == ASSUME IInv, Vanish PROVE Lifecycle!Next
<1> DEFINE stage == [j \in Jobs |-> Stage(j)]
           S     == {j \in Jobs : Stage(j) \in {"queued", "processing"} /\ pc[j] # "refused"}
<1>1. /\ row' = row
      /\ \A j \in Jobs : pc'[j] = IF pc[j] \in {"idle", "answered", "refused"} THEN pc[j] ELSE "lost"
  BY DEF Vanish
<1>2. \A j \in Jobs : Stage(j)' = IF j \in S THEN "lost" ELSE Stage(j)
  <2> TAKE j \in Jobs
  <2>1. pc[j] \in {"idle", "register", "row", "lost"} \cup Working \cup {"answered", "refused"}
        /\ row[j] \in {"none", "queued", "completed", "failed"}
    BY DEF IInv, TypeOK, Ended
  <2>2. CASE row[j] # "queued"
    BY <1>1, <2>1, <2>2 DEF Stage
  <2>3. CASE row[j] = "queued" /\ pc[j] = "refused"
    BY <1>1, <2>3 DEF Stage
  <2>4. CASE row[j] = "queued" /\ pc[j] # "refused"
    <3>1. pc[j] \in Working \cup {"lost"}
      BY <2>1, <2>4 DEF IInv, RowInv
    <3>2. pc'[j] = "lost" /\ row'[j] = "queued"
      BY <1>1, <2>4, <3>1 DEF Working
    <3>3. Stage(j)' = "lost"
      BY <3>2 DEF Stage
    <3>4. Stage(j) \in {"queued", "processing", "lost"}
      BY <2>4 DEF Stage
    <3>5. QED BY <2>4, <3>3, <3>4
  <2>5. QED BY <2>2, <2>3, <2>4
<1>3. stage' = [j \in Jobs |-> IF j \in S THEN "lost" ELSE stage[j]]
  BY <1>2
<1>4. S \in SUBSET {j \in Jobs : stage[j] \in Lifecycle!Live}
  BY DEF Lifecycle!Live
<1>5. Lifecycle!Lose
  BY <1>3, <1>4 DEF Lifecycle!Lose
<1>6. QED BY <1>5 DEF Lifecycle!Next

\* A thread touches the row and the place of its own job only.
LEMMA OthersKept ==
  ASSUME JobTypes, NEW k \in Jobs, Thread(k)
  PROVE  \A j \in Jobs : j # k => row'[j] = row[j] /\ pc'[j] = pc[j]
<1>1. \A j \in Jobs : j # k => row'[j] = row[j]
  BY RowStep
<1>2. \E p : pc' = [pc EXCEPT ![k] = p]
  <2>1. Register(k) => \E p : pc' = [pc EXCEPT ![k] = p]
    BY DEF Register, End, EndAt
  <2>2. CreateRow(k) => \E p : pc' = [pc EXCEPT ![k] = p]
    BY DEF CreateRow, Generate, End, EndAt
  <2>3. Lookup(k) => \E p : pc' = [pc EXCEPT ![k] = p]
    BY DEF Lookup, Preview
  <2>4. Context(k) => \E p : pc' = [pc EXCEPT ![k] = p]
    BY DEF Context, Use, Preview
  <2>5. Diffuse(k) => \E p : pc' = [pc EXCEPT ![k] = p]
    BY DEF Diffuse
  <2>6. (\E b \in BOOLEAN : Save(k, b)) => \E p : pc' = [pc EXCEPT ![k] = p]
    BY DEF Save, End, EndAt
  <2>7. QED BY <2>1, <2>2, <2>3, <2>4, <2>5, <2>6 DEF Thread, save_preview_frames
<1>3. QED BY <1>1, <1>2 DEF JobTypes

\* A thread submits, starts or finishes its job, or leaves its stage alone. A job
\* that a client waits for has no row, and no stage.
LEMMA ThreadRefines ==
  ASSUME IInv, NEW k \in Jobs, Thread(k)
  PROVE  Lifecycle!Next \/ \A j \in Jobs : Stage(j)' = Stage(j)
<1> DEFINE stage == [j \in Jobs |-> Stage(j)]
<1>1. JobTypes /\ JobsInv /\ RowInv
  BY TypeParts DEF IInv, JobsInv
<1>2. JobTypes' /\ RowInv'
  BY <1>1, ThreadStep DEF JobsInv
<1>3. \A j \in Jobs : j # k => Stage(j)' = Stage(j)
  BY <1>1, OthersKept, StageKept
<1>4. /\ stage' = [stage EXCEPT ![k] = Stage(k)']
      /\ stage[k] = Stage(k)
  BY <1>3
<1>5. ASSUME Stage(k)' = Stage(k) PROVE \A j \in Jobs : Stage(j)' = Stage(j)
  BY <1>3, <1>5
<1>6. ASSUME row[k] = "none", row'[k] = "none" PROVE Stage(k)' = Stage(k)
  BY <1>6, StageKept
<1>7. CASE Register(k)
  <2>1. row[k] = "none" /\ row' = row
    BY <1>1, <1>7 DEF Register, tables, RowInv
  <2>2. QED BY <1>5, <1>6, <2>1
<1>8. CASE CreateRow(k)
  <2>1. row[k] = "none" /\ pc[k] = "row"
    BY <1>1, <1>8 DEF CreateRow, RowInv
  <2>2. CASE UNCHANGED row
    BY <1>5, <1>6, <2>1, <2>2
  <2>3. CASE ~wait[k] /\ create_job(k) /\ Generate(k)
    <3>1. Stage(k) = "absent"
      BY <1>1, <2>1, <2>3, StageIs
    <3>2. row'[k] = "queued" /\ pc'[k] = "lookup"
      BY <1>1, <2>3 DEF create_job, Generate, JobTypes
    <3>3. Stage(k)' = "queued"
      BY <3>2 DEF Stage
    <3>4. Lifecycle!Submit(k)
      BY <1>4, <3>1, <3>3 DEF Lifecycle!Submit, Lifecycle!Move
    <3>5. QED BY <3>4 DEF Lifecycle!Next
  <2>4. QED BY <1>8, <2>2, <2>3 DEF CreateRow
<1>9. CASE Lookup(k)
  <2>1. pc[k] = "lookup" /\ pc'[k] \in {"save", "context"} /\ row' = row /\ wait' = wait
    BY <1>1, <1>9 DEF Lookup, Preview, tables, JobTypes
  <2>2. CASE wait[k]
    <3>1. row[k] = "none"
      BY <1>1, <2>1, <2>2 DEF RowInv, Working
    <3>2. QED BY <1>5, <1>6, <2>1, <3>1
  <2>3. CASE ~wait[k]
    <3>1. Stage(k) = "queued"
      BY <1>1, <2>1, <2>3, StageIs
    <3>2. row[k] = "queued"
      BY <1>1, <2>1, <2>3 DEF RowInv, Working
    <3>3. Stage(k)' = "processing"
      BY <2>1, <3>2 DEF Stage
    <3>4. Lifecycle!Start(k)
      BY <1>4, <3>1, <3>3 DEF Lifecycle!Start, Lifecycle!Move
    <3>5. QED BY <3>4 DEF Lifecycle!Next
  <2>4. QED BY <2>2, <2>3
<1>10. CASE Context(k) \/ Diffuse(k)
  <2>1. /\ pc[k] \in {"context", "diffuse"} /\ pc'[k] \in {"diffuse", "save"} /\ row' = row
    BY <1>1, <1>10 DEF Context, Use, Preview, Diffuse, tables, JobTypes
  <2>2. row[k] \in {"none", "queued"}
    BY <1>1, <2>1 DEF RowInv, Working
  <2>3. Stage(k)' = Stage(k)
    BY <2>1, <2>2 DEF Stage
  <2>4. QED BY <1>5, <2>3
<1>11. ASSUME NEW b \in BOOLEAN, Save(k, b)
       PROVE  Lifecycle!Next \/ \A j \in Jobs : Stage(j)' = Stage(j)
  <2>1. pc[k] = "save"
    BY <1>11 DEF Save
  <2>2. CASE wait[k]
    <3>1. row[k] = "none" /\ row' = row
      BY <1>1, <1>11, <2>1, <2>2 DEF RowInv, Working, Save
    <3>2. QED BY <1>5, <1>6, <3>1
  <2>3. CASE ~wait[k]
    <3>1. Stage(k) = "processing"
      BY <1>1, <2>1, <2>3, StageIs
    <3>2. CASE row' = [row EXCEPT ![k] = Outcome(b)]
      <4>1. row'[k] \in {"completed", "failed"}
        BY <1>1, <3>2 DEF Outcome, JobTypes
      <4>2. Stage(k)' \in {"completed", "failed"}
        BY <4>1 DEF Stage
      <4>3. Lifecycle!Finish(k)
        BY <1>4, <3>1, <4>2 DEF Lifecycle!Finish, Lifecycle!Move
      <4>4. QED BY <4>3 DEF Lifecycle!Next
    <3>3. CASE UNCHANGED row /\ EndAt(k, "refused")
      <4>1. row'[k] = "queued" /\ pc'[k] = "refused"
        BY <1>1, <2>1, <2>3, <3>3 DEF RowInv, Working, EndAt, JobTypes
      <4>2. Stage(k)' = "processing"
        BY <4>1 DEF Stage
      <4>3. QED BY <1>5, <3>1, <4>2
    <3>4. QED BY <1>11, <2>3, <3>2, <3>3 DEF Save
  <2>4. QED BY <2>2, <2>3
<1>12. QED BY <1>7, <1>8, <1>9, <1>10, <1>11 DEF Thread, save_preview_frames

LEMMA NextRefines == IInv /\ [Next]_vars => [Lifecycle!Next]_[j \in Jobs |-> Stage(j)]
<1> SUFFICES ASSUME IInv, [Next]_vars
             PROVE  Lifecycle!Next \/ \A j \in Jobs : Stage(j)' = Stage(j)
  OBVIOUS
<1>1. ASSUME UNCHANGED <<row, pc>> PROVE \A j \in Jobs : Stage(j)' = Stage(j)
  BY <1>1, StageKept
<1>2. CASE Process
  <2>1. CASE Vanish
    BY <2>1, VanishLoses
  <2>2. CASE UNCHANGED <<tables, engine, thread>>
    BY <1>1, <2>2 DEF tables, thread
  <2>3. QED BY <1>2, <2>1, <2>2 DEF Process
<1>3. CASE NewKey
  BY <1>1, <1>3 DEF NewKey, tables, thread
<1>4. ASSUME NEW n \in Names, NEW f \in Files, RegisterModel(n, f) \/ PreloadImage(n, f)
      PROVE  \A j \in Jobs : Stage(j)' = Stage(j)
  BY <1>1, <1>4 DEF RegisterModel, PreloadImage, thread
<1>5. ASSUME NEW k \in Jobs, NEW w \in BOOLEAN, NEW n \in Names, AskImage(k, w, n)
      PROVE  \A j \in Jobs : Stage(j)' = Stage(j)
  <2>1. row[k] = "none"
    BY <1>5 DEF AskImage, IInv, RowInv
  <2>2. row' = row /\ \A j \in Jobs : j # k => pc'[j] = pc[j]
    BY <1>5 DEF AskImage, tables, IInv, TypeOK
  <2>3. QED BY <2>1, <2>2, StageKept
<1>6. CASE AskVideo
  BY <1>6, VanishLoses DEF AskVideo
<1>7. ASSUME NEW k \in Jobs, Thread(k)
      PROVE  Lifecycle!Next \/ \A j \in Jobs : Stage(j)' = Stage(j)
  BY <1>7, ThreadRefines
<1>8. CASE UNCHANGED vars
  BY <1>1, <1>8 DEF vars, tables, thread
<1>9. QED BY <1>2, <1>3, <1>4, <1>5, <1>6, <1>7, <1>8 DEF Next

\* A detached image job is begun at most once, ends in one way and for ever, and is lost
\* only with the process, for any jobs, registrations, kills and starts: what
\* handle_generate_image promises of its jobs is what the queue promises of its own.
THEOREM MediaLifecycle == Spec => ImplementsLifecycle
<1>1. Init => Lifecycle!Init
  BY DEF Init, Lifecycle!Init, Stage
<1>2. QED BY <1>1, Invariance, NextRefines, PTL DEF Spec, ImplementsLifecycle, Lifecycle!Spec
=============================================================================
