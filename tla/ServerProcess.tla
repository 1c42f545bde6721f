---------------------------- MODULE ServerProcess ----------------------------
(* The life of the process: main.cpp brings the parts up in a fixed order,    *)
(* stores the key of the environment and of --api-key in the registry, and    *)
(* calls Server::run, which returns only when the port cannot be bound.       *)
(* The registry's tables survive a kill; everything else starts anew.         *)
EXTENDS Naturals, FiniteSets

CONSTANTS KeyValues,  \* values a client or an operator may use as a key
          None,       \* no key given
          MaxLives    \* bound: starts of the process

ASSUME NoneAssumption == None \notin KeyValues
ASSUME LivesAssumption == MaxLives \in Nat

VARIABLES phase,    \* how far main() is
          flag,     \* this start's --api-key
          env,      \* this start's BARSKUY_API_KEY
          keys,     \* the api_keys table: rows of an id and a value
          signals,  \* SIGINT or SIGTERM came (g_shutdown)
          running,  \* Server::running_
          unsaved,  \* history: an INSERT of this start's keys failed
          lives     \* history: starts so far

process == <<phase, flag, env, keys, signals, running, unsaved, lives>>

Booting == {"registry", "queue", "text", "preload", "image", "server", "lock", "bind"}
Phases  == {"down", "listening", "exited"} \cup Booting

KeyIds == {"key_bootstrap", "key_flag"} \cup KeyValues
Row(id, value) == [id |-> id, value |-> value]
Values == {k.value : k \in keys}
has_keys == keys # {}

\* Server::authenticate: open until there is a key in the store, then only a
\* value of the store is let in. No handler revokes a key.
authenticate(value) == has_keys => value \in Values

\* create_api_key: the id is the primary key; an INSERT of an id that is there
\* fails.
Inserted(id, value) ==
  IF \E k \in keys : k.id = id THEN keys ELSE keys \cup {Row(id, value)}

\* Both seeds: nothing if the value is stored, whatever its id. A database that
\* refuses the write is logged at most, and the start goes on.
Seed(id, value) ==
  \/ /\ keys' = IF value = None \/ value \in Values THEN keys ELSE Inserted(id, value)
     /\ UNCHANGED unsaved
  \/ /\ value # None /\ value \notin Values
     /\ unsaved' = TRUE
     /\ UNCHANGED keys

Start(f, e) ==
  /\ phase \in {"down", "exited"}
  /\ lives < MaxLives
  /\ lives' = lives + 1
  /\ flag' = f /\ env' = e
  /\ phase' = "registry"
  /\ signals' = FALSE
  /\ running' = FALSE
  /\ unsaved' = FALSE
  /\ UNCHANGED keys

\* Each part of main() may fail and ends the process.
Bring(from, to) ==
  /\ phase = from
  /\ phase' \in {to, "exited"}
  /\ UNCHANGED <<flag, env, signals, running, lives>>

\* After the registry is open the environment's key is stored, after the text
\* engine the flag's.
SeedFromEnv  == Bring("registry", "queue") /\ Seed("key_bootstrap", env)
BringQueue   == Bring("queue", "text") /\ UNCHANGED <<keys, unsaved>>

\* Slip of SeedFromFlag: the environment's key again.
SeedFromFlagOfEnv == Bring("text", "preload") /\ Seed("key_flag", env)

SeedFromFlag == Bring("text", "preload") /\ Seed("key_flag", flag)
Preload      == Bring("preload", "image") /\ UNCHANGED <<keys, unsaved>>
BringImage   == Bring("image", "server") /\ UNCHANGED <<keys, unsaved>>
MakeServer   == Bring("server", "lock") /\ UNCHANGED <<keys, unsaved>>

acquire_port_lock == Bring("lock", "bind") /\ UNCHANGED <<keys, unsaved>>

\* Server::run, which binds the port and serves until the process is killed.
\* running_ is set by start() only, which main() does not call.
Listen == Bring("bind", "listening") /\ UNCHANGED <<keys, unsaved>>

\* Server::stop ends the serving if running_ says there is any.
stop ==
  /\ phase' = IF running THEN "exited" ELSE phase
  /\ running' = FALSE

\* signal_handler. The handlers are set before the port is bound.
Signal ==
  /\ phase \in {"bind", "listening"}
  /\ signals' = TRUE
  /\ stop
  /\ UNCHANGED <<flag, env, keys, unsaved, lives>>

\* handle_api_keys: a key nobody has yet, under an id nobody has yet.
CreateKey(value) ==
  /\ phase = "listening"
  /\ \E given \in KeyValues \cup {None} : authenticate(given)
  /\ value \notin Values \cup {flag, env}
  /\ keys' = Inserted(value, value)
  /\ UNCHANGED <<phase, flag, env, signals, running, unsaved, lives>>

Kill ==
  /\ phase \in Booting \cup {"listening"}
  /\ phase' = "down"
  /\ UNCHANGED <<flag, env, keys, signals, running, unsaved, lives>>

ProcessInit ==
  /\ phase = "down" /\ flag = None /\ env = None /\ keys = {}
  /\ signals = FALSE /\ running = FALSE /\ unsaved = FALSE /\ lives = 0

Boot ==
  \/ \E f, e \in KeyValues \cup {None} : Start(f, e)
  \/ SeedFromEnv \/ BringQueue \/ SeedFromFlag \/ Preload \/ BringImage
  \/ MakeServer \/ acquire_port_lock \/ Listen

ProcessTypeOK ==
  /\ phase \in Phases
  /\ flag \in KeyValues \cup {None} /\ env \in KeyValues \cup {None}
  /\ keys \subseteq [id : KeyIds, value : KeyValues]
  /\ signals \in BOOLEAN /\ running \in BOOLEAN /\ unsaved \in BOOLEAN
  /\ lives \in 0 .. MaxLives

\* A server that was given a key, and stored it, is never open, however often it
\* was started before, with whichever keys, and whichever its store already had.
SeededBeforeServing ==
  phase = "listening" /\ ~unsaved /\ (flag # None \/ env # None) => has_keys

\* main.cpp:161: "--api-key seeds a fixed key": a server started with a key
\* lets a client in that sends it.
FlagKeyWorks ==
  phase = "listening" /\ ~unsaved /\ flag # None => authenticate(flag)
=============================================================================
