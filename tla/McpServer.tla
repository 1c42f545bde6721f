----------------------------- MODULE McpServer -----------------------------
(***************************************************************************)
(* The client of one MCP server, agent/agent_mcp.cpp: a child process that *)
(* is started lazily and restarted when dead, a reader thread that files   *)
(* its responses under their ids, and the request threads that call tools. *)
(*                                                                         *)
(* Only send, the reader's insertion and the waits hold mu.  shutdown and  *)
(* ensure_started hold nothing, so each of their statements that touches   *)
(* shared state is a step of its own.  A write to a child that does not    *)
(* read its input blocks, with mu held: the child may have stopped, or     *)
(* wait itself until its output is read, by a reader thread that waits for *)
(* mu.  The thread errdrain lives as long as the child's stderr is open;   *)
(* it is joined with the reader.                                           *)
(***************************************************************************)
EXTENDS Integers, FiniteSets

CONSTANTS
  Main,      \* the thread that runs init_agent before the server listens
  Handlers,  \* the threads that serve HTTP requests
  MaxSpawns, \* bound: child processes created
  MaxCalls,  \* bound: calls of execute by each handler thread
  MaxMishaps \* bound: children that end by themselves, stop reading or leave an orphan

Threads == Handlers \cup {Main}

ASSUME MainAssumption   == Main \notin Handlers
ASSUME BoundsAssumption == MaxSpawns \in Nat /\ MaxCalls \in Nat /\ MaxMishaps \in Nat

VARIABLES
  proc,       \* the child that proc refers to, 0 for none
  spawned,    \* how many children were created; they are numbered
  living,     \* the children that run
  orphans,    \* ended children whose server - behind "cmd /c", or started by the
              \* child - runs on and holds the other ends of their pipes
  deaf,       \* the children that read no more, their input pipe being full
  inbox,      \* requests the children have not answered, <<child, id>>
  outbox,     \* responses in the children's pipes, <<child, id>>
  reader,     \* the child whose reader thread the std::thread holds, 0 for none
  readers,    \* the children whose reader thread runs
  pending,    \* pending: the responses filed under their ids
  next_id, stop, ready,
  tools,      \* tools is not empty
  serving,    \* init_agent has returned and the server listens
  pc,         \* pc[r]: where thread r is
  stage,      \* stage[r]: what the thread is after
  sent,       \* sent[r]: its request, <<child, id>>; child 0 if it reached none
  joins,      \* joins[r]: the reader thread it joins
  answer,     \* answer[r]: the response its request got
  calls,      \* history: calls of execute
  mishaps,    \* history: what MaxMishaps bounds
  greeted,    \* history: the children that answered "initialize"
  overlap     \* history: two threads were in ensure_started at a time

fateVars    == <<orphans, deaf>>
childVars   == <<proc, spawned, living, inbox, outbox, fateVars>>
readerVars  == <<reader, readers, pending>>
threadVars  == <<sent, joins, answer, calls>>
historyVars == <<mishaps, greeted, overlap>>
vars == <<childVars, readerVars, next_id, stop, ready, tools, serving, pc, stage,
          threadVars, historyVars>>

Children == 1 .. MaxSpawns
NoAnswer == <<0, 0>>
PCs == {"idle", "ensure", "stop", "terminate", "join", "joining", "reap", "reset", "create",
        "startReader", "notify", "notifying", "send", "writing", "check", "parking", "waiting",
        "last", "gone"}
Stages == {"none", "initialize", "list", "failed", "call"}

Init ==
  /\ proc = 0 /\ spawned = 0 /\ living = {} /\ orphans = {} /\ deaf = {}
  /\ inbox = {} /\ outbox = {}
  /\ reader = 0 /\ readers = {} /\ pending = {}
  /\ next_id = 1 /\ stop = FALSE /\ ready = FALSE /\ tools = FALSE /\ serving = FALSE
  /\ pc = [r \in Threads |-> "idle"] /\ stage = [r \in Threads |-> "none"]
  /\ sent = [r \in Threads |-> NoAnswer] /\ joins = [r \in Threads |-> 0]
  /\ answer = [r \in Threads |-> NoAnswer] /\ calls = [r \in Threads |-> 0]
  /\ mishaps = 0 /\ greeted = {} /\ overlap = FALSE

---------------------------------------------------------------------------
Alive == proc \in living

\* Somebody holds the other ends of the child's pipes.
Open(c) == c \in living \cup orphans

\* A write to the child does not return.
Blocks(c) == Open(c) /\ c \in deaf

\* A thread that writes holds mu, and so does one that found no response and is
\* about to sleep.
MutexFree == \A r \in Threads : pc[r] \notin {"writing", "parking"}

\* std::terminate was called and the process is gone.
Terminated == \E r \in Threads : pc[r] = "gone"

\* The threads inside ensure_started, beyond its first line.
Starting(r) == stage[r] \in {"initialize", "list", "failed"}

Goto(r, label) == pc' = [pc EXCEPT ![r] = label]

\* Where the threads are after notify_all.
Woken == [r \in Threads |-> IF pc[r] = "waiting" THEN "check" ELSE pc[r]]

\* The thread is back where it began, with a result or an error.
Return(r) ==
  /\ pc' = [pc EXCEPT ![r] = "idle"] /\ stage' = [stage EXCEPT ![r] = "none"]
  /\ serving' = (serving \/ r = Main)

---------------------------------------------------------------------------
(* The callers: discover_all once, then execute.                           *)

Discover ==
  /\ ~serving /\ pc[Main] = "idle" /\ Goto(Main, "ensure")
  /\ UNCHANGED <<childVars, readerVars, next_id, stop, ready, tools, serving, stage,
                 threadVars, historyVars>>

Execute(r) ==
  /\ r \in Handlers /\ serving /\ tools /\ pc[r] = "idle" /\ calls[r] < MaxCalls
  /\ Goto(r, "ensure") /\ calls' = [calls EXCEPT ![r] = @ + 1]
  /\ UNCHANGED <<childVars, readerVars, next_id, stop, ready, tools, serving, stage,
                 sent, joins, answer, historyVars>>

\* What a thread does once its process is ready: Main goes home, a handler calls.
Ready(r) == IF r = Main THEN Return(r)
            ELSE /\ Goto(r, "send") /\ stage' = [stage EXCEPT ![r] = "call"]
                 /\ UNCHANGED serving

\* Slip: ensure_started starts the process whether it is there or not.
EnsureAlways(r) ==
  /\ pc[r] = "ensure"
  /\ Goto(r, "stop") /\ stage' = [stage EXCEPT ![r] = "initialize"]
  /\ overlap' = (overlap \/ \E s \in Threads \ {r} : Starting(s))
  /\ UNCHANGED <<childVars, readerVars, next_id, stop, ready, tools, serving, threadVars,
                 mishaps, greeted>>

EnsureStarted(r) ==
  /\ pc[r] = "ensure"
  /\ \/ Alive /\ ready /\ Ready(r) /\ UNCHANGED overlap
     \/ /\ ~(Alive /\ ready)
        /\ Goto(r, "stop") /\ stage' = [stage EXCEPT ![r] = "initialize"]
        /\ overlap' = (overlap \/ \E s \in Threads \ {r} : Starting(s))
        /\ UNCHANGED serving
  /\ UNCHANGED <<childVars, readerVars, next_id, stop, ready, tools, threadVars,
                 mishaps, greeted>>

---------------------------------------------------------------------------
(* shutdown, from ensure_started: before a start, and after one that       *)
(* failed.                                                                 *)

\* stop = true; cv.notify_all(): without mu.
Stop(r) ==
  /\ pc[r] = "stop" /\ stop' = TRUE /\ pc' = [Woken EXCEPT ![r] = "terminate"]
  /\ UNCHANGED <<childVars, readerVars, next_id, ready, tools, serving, stage,
                 threadVars, historyVars>>

\* The child ends, and nothing holds its pipes any more.
Ends(c) ==
  /\ living' = living \ {c} /\ inbox' = {m \in inbox : m[1] # c \/ c \in orphans}
  /\ UNCHANGED orphans

\* The child ends, its server does not.
LeavesOrphan(c) ==
  /\ c \in living /\ mishaps < MaxMishaps /\ mishaps' = mishaps + 1
  /\ living' = living \ {c} /\ orphans' = orphans \cup {c} /\ UNCHANGED inbox

Terminate(r) ==
  /\ pc[r] = "terminate" /\ Goto(r, "join")
  /\ \/ Ends(proc) /\ UNCHANGED mishaps
     \/ LeavesOrphan(proc)
  /\ UNCHANGED <<proc, spawned, outbox, deaf, readerVars, next_id, stop, ready, tools, serving,
                 stage, threadVars, greeted, overlap>>

\* Slip: the reader is not joined.
JoinNothing(r) ==
  /\ pc[r] = "join" /\ joins' = [joins EXCEPT ![r] = 0] /\ Goto(r, "reap")
  /\ UNCHANGED <<childVars, readerVars, next_id, stop, ready, tools, serving, stage,
                 sent, answer, calls, historyVars>>

\* if (reader.joinable()): the thread to be joined is read once.
Join(r) ==
  /\ pc[r] = "join" /\ joins' = [joins EXCEPT ![r] = reader]
  /\ Goto(r, IF reader = 0 THEN "reap" ELSE "joining")
  /\ UNCHANGED <<childVars, readerVars, next_id, stop, ready, tools, serving, stage,
                 sent, answer, calls, historyVars>>

\* reader.join() and errdrain.join() return when the threads have ended.  If
\* another thread joined the reader meanwhile the behaviour is undefined: join
\* returns, and clears whatever the std::thread holds by now, or throws.
Joined(r) ==
  /\ pc[r] = "joining" /\ joins[r] \notin readers /\ ~Open(joins[r])
  /\ \/ reader' = 0 /\ Goto(r, "reap") /\ UNCHANGED <<stage, serving>>
     \/ reader # joins[r] /\ Return(r) /\ UNCHANGED reader
  /\ UNCHANGED <<childVars, readers, pending, next_id, stop, ready, tools, threadVars,
                 historyVars>>

\* proc.join() waits for the child proc refers to.
Reap(r) ==
  /\ pc[r] = "reap" /\ ~Alive /\ proc' = 0
  /\ IF stage[r] = "failed" THEN Return(r)
     ELSE Goto(r, "reset") /\ UNCHANGED <<stage, serving>>
  /\ UNCHANGED <<spawned, living, inbox, outbox, fateVars, readerVars, next_id, stop, ready,
                 tools, threadVars, historyVars>>

---------------------------------------------------------------------------
(* The start of a child: the rest of ensure_started.                       *)

\* Slip: the ids start again with the new process.
ResetIds(r) ==
  /\ pc[r] = "reset" /\ stop' = FALSE /\ pending' = {} /\ next_id' = 1 /\ Goto(r, "create")
  /\ UNCHANGED <<childVars, reader, readers, ready, tools, serving, stage,
                 threadVars, historyVars>>

Reset(r) ==
  /\ pc[r] = "reset" /\ stop' = FALSE /\ pending' = {} /\ Goto(r, "create")
  /\ UNCHANGED <<childVars, reader, readers, next_id, ready, tools, serving, stage,
                 threadVars, historyVars>>

\* proc.create: the handle of a child that proc still refers to is lost.
Create(r) ==
  /\ pc[r] = "create"
  /\ \/ Return(r) /\ UNCHANGED <<proc, spawned, living>>
     \/ /\ spawned < MaxSpawns /\ spawned' = spawned + 1
        /\ proc' = spawned' /\ living' = living \cup {spawned'}
        /\ Goto(r, "startReader") /\ UNCHANGED <<stage, serving>>
  /\ UNCHANGED <<inbox, outbox, fateVars, readerVars, next_id, stop, ready, tools,
                 threadVars, historyVars>>

\* reader = std::thread(...): assigning to a joinable thread calls terminate.
StartReader(r) ==
  /\ pc[r] = "startReader"
  /\ IF reader # 0
     THEN /\ pc' = [t \in Threads |-> "gone"] /\ readers' = {} /\ UNCHANGED reader
     ELSE /\ reader' = proc /\ Goto(r, "send")
          /\ readers' = IF stop \/ proc = 0 THEN readers ELSE readers \cup {proc}
  /\ UNCHANGED <<childVars, pending, next_id, stop, ready, tools, serving, stage,
                 threadVars, historyVars>>

---------------------------------------------------------------------------
(* request.                                                                *)

\* A request without an answer: the start has failed, or the call.
GiveUp(r) == IF stage[r] = "call" THEN Return(r)
             ELSE /\ Goto(r, "stop") /\ stage' = [stage EXCEPT ![r] = "failed"]
                  /\ UNCHANGED serving

\* request takes its id and mu, and finds a pipe to write to or none.
Send(r) ==
  /\ pc[r] = "send" /\ MutexFree
  /\ next_id' = next_id + 1 /\ answer' = [answer EXCEPT ![r] = NoAnswer]
  /\ sent' = [sent EXCEPT ![r] = <<IF Open(proc) THEN proc ELSE 0, next_id>>]
  /\ \/ proc # 0 /\ Goto(r, "writing") /\ UNCHANGED <<stage, serving>>
     \/ proc = 0 /\ GiveUp(r)
  /\ UNCHANGED <<childVars, readerVars, stop, ready, tools, joins, calls, historyVars>>

\* fwrite and fflush return; to a child that is gone they may succeed or fail.
Written(r) ==
  /\ pc[r] = "writing" /\ ~Blocks(sent[r][1])
  /\ \/ Open(sent[r][1]) /\ inbox' = inbox \cup {sent[r]}
        /\ Goto(r, "check") /\ UNCHANGED <<stage, serving>>
     \/ /\ ~Open(sent[r][1]) /\ UNCHANGED inbox
        /\ \/ Goto(r, "check") /\ UNCHANGED <<stage, serving>>
           \/ GiveUp(r)
  /\ UNCHANGED <<proc, spawned, living, outbox, fateVars, readerVars, next_id, stop, ready, tools,
                 threadVars, historyVars>>

\* send("notifications/initialized"): without mu, and whatever comes of it.
Notify(r) ==
  /\ pc[r] = "notify" /\ Goto(r, "notifying")
  /\ sent' = [sent EXCEPT ![r] = <<IF Open(proc) THEN proc ELSE 0, 0>>]
  /\ answer' = [answer EXCEPT ![r] = NoAnswer]
  /\ UNCHANGED <<childVars, readerVars, next_id, stop, ready, tools, serving, stage,
                 joins, calls, historyVars>>

Notified(r) ==
  /\ pc[r] = "notifying" /\ ~Blocks(sent[r][1])
  /\ Goto(r, "send") /\ stage' = [stage EXCEPT ![r] = "list"]
  /\ UNCHANGED <<childVars, readerVars, next_id, stop, ready, tools, serving,
                 threadVars, historyVars>>

Mine(r) == {m \in pending : m[2] = sent[r][2]}

\* The response is taken out of pending; what follows depends on the request.
Take(r) ==
  \E m \in Mine(r) :
    /\ pending' = pending \ {m}
    /\ answer' = [answer EXCEPT ![r] = m]
    /\ CASE stage[r] = "initialize" ->
              /\ greeted' = greeted \cup {m[1]} /\ Goto(r, "notify")
              /\ UNCHANGED <<stage, tools, ready, serving>>
         [] stage[r] = "list" ->
              /\ tools' \in BOOLEAN /\ ready' = TRUE
              /\ Ready(r) /\ UNCHANGED greeted
         [] OTHER -> Return(r) /\ UNCHANGED <<greeted, tools, ready>>

\* The loop's test and the search, under mu.
CheckPending(r) ==
  /\ pc[r] = "check" /\ MutexFree
  /\ IF stop \/ ~Alive
     THEN /\ Goto(r, "last")
          /\ UNCHANGED <<pending, answer, greeted, tools, ready, stage, serving>>
     ELSE \/ Take(r)
          \/ /\ Mine(r) = {} /\ Goto(r, "parking")
             /\ UNCHANGED <<pending, answer, greeted, tools, ready, stage, serving>>
  /\ UNCHANGED <<childVars, reader, readers, next_id, stop, sent, joins, calls, mishaps, overlap>>

\* cv.wait_until enters the wait set and releases mu.
Park(r) ==
  /\ pc[r] = "parking" /\ Goto(r, "waiting")
  /\ UNCHANGED <<childVars, readerVars, next_id, stop, ready, tools, serving, stage,
                 threadVars, historyVars>>

\* Slip: cv.wait in place of cv.wait_until.
NoDeadline(r) == FALSE /\ UNCHANGED vars

Deadline(r) ==
  /\ pc[r] = "waiting" /\ Goto(r, "last")
  /\ UNCHANGED <<childVars, readerVars, next_id, stop, ready, tools, serving, stage,
                 threadVars, historyVars>>

\* The search after the loop.
LastLook(r) ==
  /\ pc[r] = "last" /\ MutexFree
  /\ \/ Take(r)
     \/ /\ Mine(r) = {} /\ GiveUp(r)
        /\ UNCHANGED <<pending, answer, greeted, tools, ready>>
  /\ UNCHANGED <<childVars, reader, readers, next_id, stop, sent, joins, calls, mishaps, overlap>>

---------------------------------------------------------------------------
(* reader_loop, and the children.                                          *)

\* A response is filed, the waiters are notified, and stop is tested.
ReadLine(c) ==
  \E m \in outbox :
    /\ c \in readers /\ m[1] = c /\ MutexFree
    /\ outbox' = outbox \ {m}
    /\ pending' = {p \in pending : p[2] # m[2]} \cup {m}
    /\ pc' = Woken
    /\ readers' = IF stop THEN readers \ {c} ELSE readers
    /\ UNCHANGED <<proc, spawned, living, inbox, fateVars, reader, next_id, stop, ready, tools, serving,
                   stage, threadVars, historyVars>>

\* fgets meets the end of the child's output.  Nobody is notified.
ReadEnd(c) ==
  /\ c \in readers /\ ~Open(c) /\ \A m \in outbox : m[1] # c
  /\ readers' = readers \ {c}
  /\ UNCHANGED <<childVars, reader, pending, next_id, stop, ready, tools, serving, pc, stage,
                 threadVars, historyVars>>

Answer(c) ==
  \E m \in inbox :
    /\ m[1] = c /\ Open(c)
    /\ inbox' = inbox \ {m} /\ outbox' = outbox \cup {m}
    /\ UNCHANGED <<proc, spawned, living, fateVars, readerVars, next_id, stop, ready, tools,
                   serving, pc, stage, threadVars, historyVars>>

Die(c) ==
  /\ c \in living /\ mishaps < MaxMishaps
  /\ \/ Ends(c) /\ mishaps' = mishaps + 1
     \/ LeavesOrphan(c)
  /\ UNCHANGED <<proc, spawned, outbox, deaf, readerVars, next_id, stop, ready, tools, serving,
                 pc, stage, threadVars, greeted, overlap>>

OrphanEnds(c) ==
  /\ c \in orphans /\ orphans' = orphans \ {c}
  /\ inbox' = {m \in inbox : m[1] # c}
  /\ UNCHANGED <<proc, spawned, living, outbox, deaf, readerVars, next_id, stop, ready, tools,
                 serving, pc, stage, threadVars, historyVars>>

StopReading(c) ==
  /\ Open(c) /\ c \notin deaf /\ mishaps < MaxMishaps
  /\ deaf' = deaf \cup {c} /\ mishaps' = mishaps + 1
  /\ UNCHANGED <<proc, spawned, living, inbox, outbox, orphans, readerVars, next_id, stop, ready,
                 tools, serving, pc, stage, threadVars, greeted, overlap>>

---------------------------------------------------------------------------
Shutdown(r) == Stop(r) \/ Terminate(r) \/ Join(r) \/ Joined(r) \/ Reap(r)
Start(r)    == EnsureStarted(r) \/ Reset(r) \/ Create(r) \/ StartReader(r)
Request(r)  == \/ Send(r) \/ Written(r) \/ Notify(r) \/ Notified(r)
               \/ CheckPending(r) \/ Park(r) \/ Deadline(r) \/ LastLook(r)
Thread(r)   == Shutdown(r) \/ Start(r) \/ Request(r)
Reader(c)   == ReadLine(c) \/ ReadEnd(c)
Child(c)    == Answer(c) \/ Die(c) \/ OrphanEnds(c) \/ StopReading(c)

Next == \/ Discover
        \/ \E r \in Threads : Execute(r) \/ Thread(r)
        \/ \E c \in Children : Reader(c) \/ Child(c)

Spec == Init /\ [][Next]_vars

\* A handler thread that can go on does, and one that waits for mu gets it if it is
\* free again and again (strong fairness); so do the readers.  Deadlines come, and
\* a write returns unless it blocks.  Clients owe no call, a child neither an answer
\* nor its death.
Fairness == /\ \A r \in Handlers : SF_vars(Thread(r))
            /\ SF_vars(\E c \in Children : Reader(c))

FairSpec == Spec /\ Fairness

---------------------------------------------------------------------------
\* What a response may be: it belongs to a child and an id that were given out.
Messages == (1 .. spawned) \X (1 .. next_id - 1)

\* Types, and that the ids in use were given out.
TypeOK ==
  /\ proc \in 0 .. spawned /\ spawned \in 0 .. MaxSpawns /\ living \subseteq 1 .. spawned
  /\ orphans \subseteq 1 .. spawned /\ deaf \subseteq 1 .. spawned
  /\ inbox \subseteq Messages /\ outbox \subseteq Messages /\ pending \subseteq Messages
  /\ reader \in 0 .. spawned /\ readers \subseteq 1 .. spawned
  /\ next_id \in Nat \ {0}
  /\ stop \in BOOLEAN /\ ready \in BOOLEAN /\ tools \in BOOLEAN /\ serving \in BOOLEAN
  /\ overlap \in BOOLEAN
  /\ pc \in [Threads -> PCs] /\ stage \in [Threads -> Stages]
  /\ sent \in [Threads -> (0 .. spawned) \X (0 .. next_id - 1)]
  /\ \A r \in Threads : pc[r] = "writing" => sent[r][2] # 0
  /\ joins \in [Threads -> 0 .. spawned]
  /\ answer \in [Threads -> Messages \cup {NoAnswer}]
  /\ calls \in [Threads -> 0 .. MaxCalls]
  /\ mishaps \in 0 .. MaxMishaps /\ greeted \subseteq 1 .. spawned

\* request returns a response to its own request, by the child it was sent to:
\* never one meant for another thread, nor one of an earlier process with that id
\* (agent_mcp.cpp:109).
OwnAnswer ==
  \A r \in Threads : answer[r] # NoAnswer =>
    answer[r] = sent[r] /\ \A s \in Threads \ {r} : sent[s] # answer[r]

\* As long as no two threads were in ensure_started at a time, there is one child
\* and one reader thread, both known to proc and reader, no server of an earlier
\* child runs beside it, and no std::terminate.
SoundWhenAlone ==
  ~overlap => ~Terminated /\ living \cup orphans \subseteq {proc} /\ readers \subseteq {reader}

\* As long as no two threads were in ensure_started at a time, a child that has
\* answered "initialize" is terminated only when its start failed after that.
KeptWhenAlone ==
  [][\A r \in Threads : ~overlap /\ Terminate(r) /\ proc \in living \cap greeted
       => stage[r] = "failed"]_vars

\* A start by one thread at a time is all that the client needs: then there is one
\* child, one reader thread, no std::terminate, and no initialised child is lost.
AloneIsSafe == [](TypeOK /\ SoundWhenAlone) /\ KeptWhenAlone

\* What can hold a thread up: it waits for a child that another thread put into
\* proc while this one was in ensure_started, or for the reader of a child that
\* was never terminated because of that; it joins the reader of a child whose
\* server outlives it; it writes to a child that reads no more, or wants mu, or
\* joins a reader that does, while another thread writes to one.
Jammed == \E s \in Threads : pc[s] = "writing" /\ Blocks(sent[s][1])

HeldUp(r) ==
  \/ overlap /\ pc[r] = "reap" /\ Alive
  \/ overlap /\ pc[r] = "joining" /\ joins[r] \in living
  \/ pc[r] = "joining" /\ joins[r] \in orphans
  \/ pc[r] = "notifying" /\ Blocks(sent[r][1])
  \/ Jammed /\ pc[r] \in {"send", "writing", "check", "last"}
  \/ Jammed /\ pc[r] = "joining" /\ joins[r] \in readers

\* Every call of execute returns, with a result or an error, whether the child
\* answers, is slow, ends, cannot be started or is started by two threads at a time
\* - unless the thread is held up for ever, in one of the places of HeldUp.
CallReturns ==
  \A r \in Handlers :
    <>[]HeldUp(r) \/ (pc[r] = "ensure" ~> pc[r] = "idle" \/ Terminated)

---------------------------------------------------------------------------
\* agent_mcp.hpp:4-5: discovers tools once, keeps the process alive, respawns if
\* dead.  A child that runs and has answered "initialize" is terminated only when
\* its start failed after that.
KeepsAlive ==
  [][\A r \in Threads : Terminate(r) /\ proc \in living \cap greeted
       => stage[r] = "failed"]_vars

\* agent_mcp.cpp:106: a request ends with its timeout, or with the child's death, at
\* the latest.  The write comes before the deadline is set, and may block.
RequestTimesOut ==
  \A r \in Handlers : pc[r] = "send" ~> pc[r] \notin {"send", "writing", "check", "parking",
                                                      "waiting", "last"}
===========================================================================
