------------------------------ MODULE MediaJobs ------------------------------
(* Image and video generation: the handlers of api/server.cpp, the image      *)
(* engine with its stable-diffusion contexts, and the rows of generation_jobs *)
(* they leave, over starts and kills of the process.                          *)
(*                                                                            *)
(* A job runs in a thread of its own, detached, or in the handler's if the    *)
(* client waits. The engine's mutex covers single steps of it only: looking   *)
(* the model up, then finding or making its context. Unloading the text       *)
(* models first is in HotSwap.                                                *)
EXTENDS ServerProcess

CONSTANTS Jobs, Names, Files,
          Alias    \* Alias[n]: n with hyphens and underscores exchanged

ASSUME AliasAssumption == Alias \in [Names -> Names]
ASSUME NoFileAssumption == None \notin Files /\ None \notin Names

VARIABLES models,   \* registry: the path of a registered image model, or None
          row,      \* registry: status of the job's row, or "none"
          known,    \* ImageEngine::models_: the path it would load, or None
          ctx,      \* its resident context: the file it was made from, a number
          pc,       \* where the job's thread is
          wait,     \* the client waits for the job
          name,     \* model_id in the job's thread
          file,     \* its model_path
          used      \* the context it works with

tables == <<models, row>>
engine == <<known, ctx>>
locals == <<wait, name, file, used>>
thread == <<pc, locals>>
vars   == <<process, tables, engine, thread>>

Contexts  == [file : Files \cup {None}, made : {0, 1}]
NoContext == [file |-> None, made |-> 0]
Working == {"lookup", "context", "diffuse", "save"}
Ended   == {"answered", "refused", "lost"}

\* What the handler takes for the requested model: the row of that id, of the
\* id spelt the other way, or of any image model.
Resolved(n) ==
  IF models[n] # None THEN {n}
  ELSE IF models[Alias[n]] # None THEN {Alias[n]}
  ELSE {m \in Names : models[m] # None}

Admitted == phase = "listening" /\ \E key \in KeyValues \cup {None} : authenticate(key)

\* Slip: a model the registry has is taken for one the engine has.
AskImageRegistered(j, w, n) ==
  /\ Admitted
  /\ pc[j] = "idle"
  /\ wait' = [wait EXCEPT ![j] = w]
  /\ \E m \in Resolved(n) : name' = [name EXCEPT ![j] = m]
  /\ pc' = [pc EXCEPT ![j] = "row"]
  /\ UNCHANGED <<process, tables, engine, file, used>>

\* The registry is read before the engine is asked and told.
AskImage(j, w, n) ==
  /\ Admitted
  /\ pc[j] = "idle"
  /\ wait' = [wait EXCEPT ![j] = w]
  /\ \/ known[n] # None
        /\ name' = [name EXCEPT ![j] = n]
        /\ pc' = [pc EXCEPT ![j] = "row"]
        /\ UNCHANGED file
     \/ known[n] = None /\ Resolved(n) = {}
        /\ pc' = [pc EXCEPT ![j] = "answered"]
        /\ UNCHANGED <<name, file>>
     \/ known[n] = None
        /\ \E m \in Resolved(n) :
             /\ name' = [name EXCEPT ![j] = m]
             /\ file' = [file EXCEPT ![j] = models[m]]
             /\ pc' = [pc EXCEPT ![j] = "register"]
  /\ UNCHANGED <<process, tables, engine, used>>

\* The thread's end: its client is answered or its row is written, or its last
\* update was refused.
EndAt(j, place) ==
  /\ pc' = [pc EXCEPT ![j] = place]
  /\ wait' = [wait EXCEPT ![j] = FALSE]
  /\ name' = [name EXCEPT ![j] = None]
  /\ file' = [file EXCEPT ![j] = None]
  /\ used' = [used EXCEPT ![j] = NoContext]

End(j) == EndAt(j, "answered")

\* Slip: pointing a model to a path drops its context.
RegisterAfresh(j) ==
  /\ pc[j] = "register"
  /\ known' = [known EXCEPT ![name[j]] = file[j]]
  /\ ctx' = [ctx EXCEPT ![name[j]] = NoContext]
  /\ pc' = [pc EXCEPT ![j] = "row"]
  /\ UNCHANGED <<process, tables, locals>>

\* register_model: a known model is pointed to the new path and keeps its
\* context. A missing file is answered with 404.
Register(j) ==
  /\ pc[j] = "register"
  /\ \/ /\ known' = [known EXCEPT ![name[j]] = file[j]]
        /\ pc' = [pc EXCEPT ![j] = "row"]
        /\ UNCHANGED locals
     \/ End(j) /\ UNCHANGED known
  /\ UNCHANGED <<process, tables, ctx>>

\* The handler's thread goes on itself, or generate_async detaches another.
Generate(j) == pc' = [pc EXCEPT ![j] = "lookup"] /\ UNCHANGED locals

create_job(j) == row' = [row EXCEPT ![j] = "queued"]

\* A job that is not waited for gets its row before its thread starts; an
\* INSERT that fails is answered with 500.
CreateRow(j) ==
  /\ pc[j] = "row"
  /\ \/ wait[j] /\ UNCHANGED row /\ Generate(j)
     \/ ~wait[j] /\ create_job(j) /\ Generate(j)
     \/ ~wait[j] /\ UNCHANGED row /\ End(j)
  /\ UNCHANGED <<process, models, engine>>

\* generate() renders a preview when sd_generate fails, wherever it does.
Preview(j) == pc' = [pc EXCEPT ![j] = "save"]

\* sd_generate, first critical section: the path. The file may be gone.
Lookup(j) ==
  /\ pc[j] = "lookup"
  /\ file' = [file EXCEPT ![j] = known[name[j]]]
  /\ Preview(j) \/ pc' = [pc EXCEPT ![j] = "context"]
  /\ UNCHANGED <<process, tables, engine, wait, name, used>>

Use(j, c) ==
  /\ used' = [used EXCEPT ![j] = c]
  /\ pc' = [pc EXCEPT ![j] = "diffuse"]

\* Slip: the context is looked for before the mutex is taken.
ContextUnchecked(j) ==
  /\ pc[j] = "context"
  /\ LET new == [file |-> file[j], made |-> ctx[name[j]].made + 1] IN
       Use(j, new) /\ ctx' = [ctx EXCEPT ![name[j]] = new]
  /\ UNCHANGED <<process, tables, known, wait, name, file>>

\* Second critical section: the resident context, or a new one made from the
\* path found before. Making it may fail (no VAE, no memory).
Context(j) ==
  /\ pc[j] = "context"
  /\ LET n   == name[j]
         new == [file |-> file[j], made |-> ctx[n].made + 1]
     IN \/ ctx[n].file # None /\ Use(j, ctx[n]) /\ UNCHANGED ctx
        \/ ctx[n].file = None /\ Use(j, new) /\ ctx' = [ctx EXCEPT ![n] = new]
        \/ /\ ctx[n].file = None
           /\ Preview(j)
           /\ UNCHANGED <<ctx, used>>
  /\ UNCHANGED <<process, tables, known, wait, name, file>>

\* generate_image, outside the mutex.
Diffuse(j) ==
  /\ pc[j] = "diffuse"
  /\ pc' = [pc EXCEPT ![j] = "save"]
  /\ used' = [used EXCEPT ![j] = NoContext]
  /\ UNCHANGED <<process, tables, engine, wait, name, file>>

\* complete_job or fail_job: whether save_preview_frames wrote a file.
Outcome(written) == IF written THEN "completed" ELSE "failed"
save_preview_frames == BOOLEAN

\* Slip: a job that produced nothing leaves its row alone.
SaveIfAny(j, written) ==
  /\ pc[j] = "save"
  /\ row' = IF wait[j] \/ ~written THEN row ELSE [row EXCEPT ![j] = "completed"]
  /\ End(j)
  /\ UNCHANGED <<process, models, engine>>

\* Slip: the callback runs for every image as if it were the last.
SavePerImage(j, written) ==
  /\ pc[j] = "save"
  /\ row' = IF wait[j] THEN row
            ELSE [row EXCEPT ![j] = Outcome(written)]
  /\ \/ End(j)
     \/ UNCHANGED thread
  /\ UNCHANGED <<process, models, engine>>

\* The final callback, or the rest of a waiting handler: the images are written
\* and the row or the response says whether one was. What the UPDATE returns is
\* not looked at: if it is refused the thread ends all the same.
Save(j, written) ==
  /\ pc[j] = "save"
  /\ \/ wait[j] /\ UNCHANGED row /\ End(j)
     \/ ~wait[j] /\ row' = [row EXCEPT ![j] = Outcome(written)] /\ End(j)
     \/ ~wait[j] /\ UNCHANGED row /\ EndAt(j, "refused")
  /\ UNCHANGED <<process, models, engine>>

\* What the end of the process leaves of the engine and the threads.
Vanish ==
  /\ known' = [n \in Names |-> None]
  /\ ctx' = [n \in Names |-> NoContext]
  /\ pc' = [j \in Jobs |-> IF pc[j] \in {"idle", "answered", "refused"} THEN pc[j] ELSE "lost"]
  /\ wait' = [j \in Jobs |-> FALSE]
  /\ name' = [j \in Jobs |-> None]
  /\ file' = [j \in Jobs |-> None]
  /\ used' = [j \in Jobs |-> NoContext]
  /\ UNCHANGED row

\* handle_generate_video: main() never makes the video engine, and the server
\* holds a reference made from its null pointer; estimate_generation_time reads
\* the benchmark through it, before the client is answered or a row is there.
AskVideo ==
  /\ Admitted
  /\ Kill
  /\ Vanish
  /\ UNCHANGED models

\* handle_model_register: INSERT OR REPLACE; the engines are not told.
RegisterModel(n, f) ==
  /\ phase = "listening"
  /\ models' = [models EXCEPT ![n] = f]
  /\ UNCHANGED <<process, row, engine, thread>>

\* --image-model: registered at start unless its id is.
PreloadImage(n, f) ==
  /\ BringImage
  /\ phase' = "server"
  /\ models' = IF models[n] = None THEN [models EXCEPT ![n] = f] ELSE models
  /\ UNCHANGED <<row, engine, thread>>

Process ==
  \/ Kill /\ Vanish /\ UNCHANGED models
  \/ Boot /\ phase' # "exited" /\ UNCHANGED <<tables, engine, thread>>
  \/ Boot /\ phase' = "exited" /\ Vanish /\ UNCHANGED models
  \/ Signal /\ ~running /\ UNCHANGED <<tables, engine, thread>>

\* handle_generate_image_status and handle_jobs_list only read.
Answer(j) == [status |-> row[j], url |-> row[j] = "completed"]
Listed(status) == {j \in Jobs : row[j] = status}

NewKey == (\E v \in KeyValues : CreateKey(v)) /\ UNCHANGED <<tables, engine, thread>>

Thread(j) == Register(j) \/ CreateRow(j) \/ Lookup(j) \/ Context(j) \/ Diffuse(j)
             \/ \E written \in save_preview_frames : Save(j, written)

Init ==
  /\ ProcessInit
  /\ models = [n \in Names |-> None]
  /\ row = [j \in Jobs |-> "none"]
  /\ known = [n \in Names |-> None] /\ ctx = [n \in Names |-> NoContext]
  /\ pc = [j \in Jobs |-> "idle"] /\ wait = [j \in Jobs |-> FALSE]
  /\ name = [j \in Jobs |-> None] /\ file = [j \in Jobs |-> None]
  /\ used = [j \in Jobs |-> NoContext]

Next ==
  \/ Process
  \/ NewKey
  \/ \E n \in Names, f \in Files : RegisterModel(n, f) \/ PreloadImage(n, f)
  \/ \E j \in Jobs, w \in BOOLEAN, n \in Names : AskImage(j, w, n)
  \/ AskVideo
  \/ \E j \in Jobs : Thread(j)

\* The threads run; nothing is promised of the operator, the clients, or how
\* long the process lives.
Spec == Init /\ [][Next]_vars /\ \A j \in Jobs : WF_vars(Thread(j))

-----------------------------------------------------------------------------
TypeOK ==
  /\ ProcessTypeOK
  /\ models \in [Names -> Files \cup {None}] /\ known \in [Names -> Files \cup {None}]
  /\ row \in [Jobs -> {"none", "queued", "completed", "failed"}]
  /\ ctx \in [Names -> Contexts] /\ used \in [Jobs -> Contexts]
  /\ pc \in [Jobs -> {"idle", "register", "row"} \cup Working \cup Ended]
  /\ wait \in [Jobs -> BOOLEAN] /\ name \in [Jobs -> Names \cup {None}]
  /\ file \in [Jobs -> Files \cup {None}]

\* A context is made once and kept: what a thread diffuses with is still the
\* model's context, though it holds no lock, other threads look for contexts,
\* and the model's path is changed meanwhile.
ContextOutlivesItsUsers ==
  \A j \in Jobs : pc[j] = "diffuse" => used[j] = ctx[name[j]]

\* A job's thread knows its model: what was registered for it in one step is
\* still there in the later ones, under whatever name the client used.
WorkerFindsItsModel ==
  \A j \in Jobs : pc[j] \in {"row", "lookup", "context", "diffuse"} => known[name[j]] # None

\* Between the request and the diffusion, in a thread of its own and without a lock, a job
\* keeps the model that was registered for it and the context that was made of it.
JobKeepsItsModel == TypeOK /\ WorkerFindsItsModel /\ ContextOutlivesItsUsers

\* What is listed as queued has a thread that works on it, or had one until the
\* process ended, or the registry refused the thread's last word.
QueuedHasAThread == \A j \in Listed("queued") : pc[j] \in Working \cup {"lost", "refused"}

\* How far a job with a row is: its row and its thread's place tell it together.
\* A row that says "queued" stands for a job not begun, at work, or lost; where the
\* last update was refused, for one that never ends.
Stage(j) ==
  CASE row[j] = "none" -> "absent"
    [] row[j] = "queued" /\ pc[j] = "lookup" -> "queued"
    [] row[j] = "queued" /\ pc[j] = "lost" -> "lost"
    [] row[j] = "queued" /\ pc[j] \notin {"lookup", "lost"} -> "processing"
    [] OTHER -> row[j]

Lifecycle == INSTANCE JobLifecycle WITH stage <- [j \in Jobs |-> Stage(j)]

\* A detached job keeps the promise the queue makes of its own: it is begun
\* once, its row says one end which no later request, kill or start changes,
\* and only the end of the process loses it before.
ImplementsLifecycle == Lifecycle!Spec

\* image_engine.cpp:205: "re-point, keep resident sd ctx if same file": a thread
\* diffuses with the weights of the file it looked up.
ContextIsOfItsFile == \A j \in Jobs : pc[j] = "diffuse" => used[j].file = file[j]

\* README.md:131: "POST /v1/generate/video + GET /v1/generate/video/{id}  # 4
\* frame BMP preview": asking for a video does not end the server.
VideoIsServed == [][AskVideo => phase' = "listening"]_vars

\* main.cpp:72: "Received signal {}, shutting down...".
SignalStops == signals ~> (phase # "listening")
=============================================================================
