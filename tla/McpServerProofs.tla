-------------------------- MODULE McpServerProofs --------------------------
(***************************************************************************)
(* Proofs about McpServer, for any number of handler threads, children,    *)
(* calls and mishaps.                                                      *)
(***************************************************************************)
EXTENDS McpServer, TLAPS

(* Types. *)

\* The pieces of TypeOK, by what an action has to do with them.
TypeChildren ==
  /\ proc \in 0 .. spawned /\ spawned \in 0 .. MaxSpawns /\ living \subseteq 1 .. spawned
  /\ orphans \subseteq 1 .. spawned /\ deaf \subseteq 1 .. spawned
  /\ reader \in 0 .. spawned /\ readers \subseteq 1 .. spawned
  /\ mishaps \in 0 .. MaxMishaps /\ greeted \subseteq 1 .. spawned

TypeMessages ==
  /\ inbox \subseteq Messages /\ outbox \subseteq Messages /\ pending \subseteq Messages
  /\ next_id \in Nat \ {0}

TypeFlags ==
  /\ stop \in BOOLEAN /\ ready \in BOOLEAN /\ tools \in BOOLEAN /\ serving \in BOOLEAN
  /\ overlap \in BOOLEAN

TypePlaces == pc \in [Threads -> PCs] /\ stage \in [Threads -> Stages]

TypeRequests ==
  /\ sent \in [Threads -> (0 .. spawned) \X (0 .. next_id - 1)]
  /\ joins \in [Threads -> 0 .. spawned]
  /\ answer \in [Threads -> Messages \cup {NoAnswer}]
  /\ calls \in [Threads -> 0 .. MaxCalls]

\* Who writes has an id.
TypeWriters == \A r \in Threads : pc[r] = "writing" => sent[r][2] # 0

LEMMA TypeParts ==
  TypeOK <=> /\ TypeChildren /\ TypeMessages /\ TypeFlags
             /\ TypePlaces /\ TypeRequests /\ TypeWriters
BY DEF TypeOK, TypeChildren, TypeMessages, TypeFlags, TypePlaces, TypeRequests, TypeWriters

LEMMA InitTypes == Init => TypeOK
<1> SUFFICES ASSUME Init PROVE TypeOK
  OBVIOUS
<1> USE BoundsAssumption DEF Init
<1>1. TypeChildren
  BY DEF TypeChildren
<1>2. TypeMessages
  <2>1. next_id = 1 /\ 1 \in Nat \ {0}
    OBVIOUS
  <2>2. inbox \subseteq Messages /\ outbox \subseteq Messages /\ pending \subseteq Messages
    OBVIOUS
  <2>3. QED BY <2>1, <2>2 DEF TypeMessages
<1>5. TypeFlags
  BY DEF TypeFlags
<1>3. TypePlaces
  BY DEF TypePlaces, PCs, Stages
<1>4. TypeRequests
  <2>1. sent \in [Threads -> (0 .. spawned) \X (0 .. next_id - 1)]
    BY DEF NoAnswer
  <2>2. joins \in [Threads -> 0 .. spawned] /\ calls \in [Threads -> 0 .. MaxCalls]
    OBVIOUS
  <2>3. answer \in [Threads -> Messages \cup {NoAnswer}]
    OBVIOUS
  <2>4. QED BY <2>1, <2>2, <2>3 DEF TypeRequests
<1>6. TypeWriters
  BY DEF TypeWriters
<1>7. QED BY <1>1, <1>2, <1>3, <1>4, <1>5, <1>6, TypeParts

---------------------------------------------------------------------------
(* Where the threads go: every action moves one thread, wakes sleepers, or  *)
(* ends the process.                                                       *)

LEMMA PlacesStep ==
  ASSUME TypePlaces, [Next]_vars
  PROVE  TypePlaces'
<1> USE DEF TypePlaces, PCs, Stages, Goto, Return
<1>1. CASE Discover
  BY <1>1 DEF Discover, Threads
<1>2. ASSUME NEW r \in Threads, Execute(r) \/ Thread(r) PROVE TypePlaces'
  <2> USE <1>2
  <2>1. CASE Execute(r)
    BY <2>1 DEF Execute
  <2>2. CASE Stop(r)
    BY <2>2 DEF Stop, Woken
  <2>3. CASE Terminate(r)
    BY <2>3 DEF Terminate
  <2>4. CASE Join(r)
    BY <2>4 DEF Join
  <2>5. CASE Joined(r)
    BY <2>5 DEF Joined
  <2>6. CASE Reap(r)
    BY <2>6 DEF Reap
  <2>7. CASE EnsureStarted(r)
    BY <2>7 DEF EnsureStarted, Ready
  <2>8. CASE Reset(r)
    BY <2>8 DEF Reset
  <2>9. CASE Create(r)
    BY <2>9 DEF Create
  <2>10. CASE StartReader(r)
    BY <2>10 DEF StartReader
  <2>11. CASE Send(r)
    BY <2>11 DEF Send, GiveUp
  <2>21. CASE Written(r)
    BY <2>21 DEF Written, GiveUp
  <2>22. CASE Notify(r)
    BY <2>22 DEF Notify
  <2>23. CASE Notified(r)
    BY <2>23 DEF Notified
  <2>12. CASE CheckPending(r)
    BY <2>12 DEF CheckPending, Take, Ready
  <2>13. CASE Park(r)
    BY <2>13 DEF Park
  <2>14. CASE Deadline(r)
    BY <2>14 DEF Deadline
  <2>15. CASE LastLook(r)
    BY <2>15 DEF LastLook, Take, Ready, GiveUp
  <2>16. QED
    BY <1>2, <2>1, <2>2, <2>3, <2>4, <2>5, <2>6, <2>7, <2>8, <2>9, <2>10, <2>11, <2>12,
       <2>13, <2>14, <2>15, <2>21, <2>22, <2>23 DEF Thread, Shutdown, Start, Request
<1>3. ASSUME NEW c \in Children, Reader(c) \/ Child(c) PROVE TypePlaces'
  BY <1>3 DEF Reader, Child, ReadLine, ReadEnd, Answer, Die, OrphanEnds, StopReading, Woken
<1>4. CASE UNCHANGED vars
  BY <1>4 DEF vars
<1>5. QED BY <1>1, <1>2, <1>3, <1>4 DEF Next
---------------------------------------------------------------------------
LEMMA ChildrenStep ==
  ASSUME TypeChildren, TypeMessages, [Next]_vars
  PROVE  TypeChildren'
<1> USE BoundsAssumption DEF TypeChildren, vars, childVars, fateVars, readerVars, threadVars, historyVars
<1>1. CASE Discover
  BY <1>1 DEF Discover
<1>2. ASSUME NEW r \in Threads, Execute(r) \/ Thread(r) PROVE TypeChildren'
  <2> USE <1>2
  <2>1. CASE Execute(r)
    BY <2>1 DEF Execute
  <2>2. CASE Stop(r)
    BY <2>2 DEF Stop
  <2>3. CASE Terminate(r)
    <3>1. /\ living' \subseteq living /\ orphans' \subseteq orphans \cup living
          /\ UNCHANGED <<proc, spawned, deaf, reader, readers, greeted>>
      BY <2>3 DEF Terminate, Ends, LeavesOrphan
    <3>2. mishaps' \in 0 .. MaxMishaps
      BY <2>3 DEF Terminate, LeavesOrphan
    <3>3. QED BY <3>1, <3>2
  <2>4. CASE Join(r)
    BY <2>4 DEF Join
  <2>5. CASE Joined(r)
    BY <2>5 DEF Joined
  <2>6. CASE Reap(r)
    BY <2>6 DEF Reap
  <2>7. CASE EnsureStarted(r)
    BY <2>7 DEF EnsureStarted
  <2>8. CASE Reset(r)
    BY <2>8 DEF Reset
  <2>9. CASE Create(r)
    <3>1. CASE UNCHANGED <<proc, spawned, living>>
      BY <2>9, <3>1 DEF Create
    <3>2. CASE spawned < MaxSpawns /\ spawned' = spawned + 1
               /\ proc' = spawned' /\ living' = living \cup {spawned'}
      <4>1. spawned \in Nat /\ spawned' \in 0 .. MaxSpawns /\ 0 .. spawned \subseteq 0 .. spawned'
            /\ 1 .. spawned \subseteq 1 .. spawned' /\ spawned' \in 1 .. spawned'
        BY <3>2
      <4>2. UNCHANGED <<orphans, deaf, reader, readers, mishaps, greeted>>
        BY <2>9 DEF Create
      <4>3. QED BY <3>2, <4>1, <4>2
    <3>3. QED BY <2>9, <3>1, <3>2 DEF Create
  <2>10. CASE StartReader(r)
    <3>1. reader' = reader \/ reader' = proc
      BY <2>10 DEF StartReader
    <3>2. readers' = {} \/ readers' = readers \/ (proc # 0 /\ readers' = readers \cup {proc})
      BY <2>10 DEF StartReader
    <3>3. readers' \subseteq 1 .. spawned
      <4>1. readers \subseteq 1 .. spawned
        OBVIOUS
      <4>2. CASE proc # 0 /\ readers' = readers \cup {proc}
        <5>1. proc \in 1 .. spawned
          BY <4>2
        <5>2. QED BY <4>1, <4>2, <5>1, Zenon
      <4>3. QED BY <3>2, <4>1, <4>2, Zenon
    <3>4. UNCHANGED <<proc, spawned, living, orphans, deaf, mishaps, greeted>>
      BY <2>10 DEF StartReader
    <3>5. QED BY <3>1, <3>3, <3>4
  <2>11. CASE Send(r)
    BY <2>11 DEF Send
  <2>21. CASE Written(r)
    BY <2>21 DEF Written
  <2>22. CASE Notify(r)
    BY <2>22 DEF Notify
  <2>23. CASE Notified(r)
    BY <2>23 DEF Notified
  <2>12. CASE CheckPending(r)
    BY <2>12 DEF CheckPending, Take, Mine, TypeMessages, Messages
  <2>13. CASE Park(r)
    BY <2>13 DEF Park
  <2>14. CASE Deadline(r)
    BY <2>14 DEF Deadline
  <2>15. CASE LastLook(r)
    BY <2>15 DEF LastLook, Take, Mine, TypeMessages, Messages
  <2>16. QED
    BY <1>2, <2>1, <2>2, <2>3, <2>4, <2>5, <2>6, <2>7, <2>8, <2>9, <2>10, <2>11,
       <2>12, <2>13, <2>14, <2>15, <2>21, <2>22, <2>23 DEF Thread, Shutdown, Start, Request
<1>3. ASSUME NEW c \in Children, Reader(c) \/ Child(c) PROVE TypeChildren'
  <2> USE <1>3
  <2>1. CASE ReadLine(c)
    BY <2>1 DEF ReadLine
  <2>2. CASE ReadEnd(c)
    BY <2>2 DEF ReadEnd
  <2>3. CASE Answer(c)
    BY <2>3 DEF Answer
  <2>4. CASE Die(c)
    <3>1. /\ living' \subseteq living /\ orphans' \subseteq orphans \cup living
          /\ UNCHANGED <<proc, spawned, deaf, reader, readers, greeted>>
      BY <2>4 DEF Die, Ends, LeavesOrphan
    <3>2. mishaps' \in 0 .. MaxMishaps
      BY <2>4 DEF Die, LeavesOrphan
    <3>3. QED BY <3>1, <3>2
  <2>6. CASE OrphanEnds(c)
    BY <2>6 DEF OrphanEnds
  <2>7. CASE StopReading(c)
    BY <2>7 DEF StopReading, Open
  <2>5. QED BY <1>3, <2>1, <2>2, <2>3, <2>4, <2>6, <2>7 DEF Reader, Child
<1>4. CASE UNCHANGED vars
  BY <1>4
<1>5. QED BY <1>1, <1>2, <1>3, <1>4 DEF Next

LEMMA FlagsStep ==
  ASSUME TypeFlags, [Next]_vars
  PROVE  TypeFlags'
<1> USE DEF TypeFlags, Return, Ready, GiveUp, vars, childVars, fateVars, readerVars, threadVars, historyVars
<1>1. CASE Discover
  BY <1>1 DEF Discover
<1>2. ASSUME NEW r \in Threads, Execute(r) \/ Thread(r) PROVE TypeFlags'
  <2> USE <1>2
  <2>1. CASE Execute(r)
    BY <2>1 DEF Execute
  <2>2. CASE Stop(r)
    BY <2>2 DEF Stop
  <2>3. CASE Terminate(r)
    BY <2>3 DEF Terminate
  <2>4. CASE Join(r)
    BY <2>4 DEF Join
  <2>5. CASE Joined(r)
    BY <2>5 DEF Joined
  <2>6. CASE Reap(r)
    BY <2>6 DEF Reap
  <2>7. CASE EnsureStarted(r)
    BY <2>7 DEF EnsureStarted
  <2>8. CASE Reset(r)
    BY <2>8 DEF Reset
  <2>9. CASE Create(r)
    BY <2>9 DEF Create
  <2>10. CASE StartReader(r)
    BY <2>10 DEF StartReader
  <2>11. CASE Send(r)
    BY <2>11 DEF Send
  <2>21. CASE Written(r)
    BY <2>21 DEF Written
  <2>22. CASE Notify(r)
    BY <2>22 DEF Notify
  <2>23. CASE Notified(r)
    BY <2>23 DEF Notified
  <2>12. CASE CheckPending(r)
    BY <2>12 DEF CheckPending, Take
  <2>13. CASE Park(r)
    BY <2>13 DEF Park
  <2>14. CASE Deadline(r)
    BY <2>14 DEF Deadline
  <2>15. CASE LastLook(r)
    BY <2>15 DEF LastLook, Take
  <2>16. QED
    BY <1>2, <2>1, <2>2, <2>3, <2>4, <2>5, <2>6, <2>7, <2>8, <2>9, <2>10, <2>11,
       <2>12, <2>13, <2>14, <2>15, <2>21, <2>22, <2>23 DEF Thread, Shutdown, Start, Request
<1>3. ASSUME NEW c \in Children, Reader(c) \/ Child(c) PROVE TypeFlags'
  <2> USE <1>3
  <2>1. CASE ReadLine(c)
    BY <2>1 DEF ReadLine
  <2>2. CASE ReadEnd(c)
    BY <2>2 DEF ReadEnd
  <2>3. CASE Answer(c)
    BY <2>3 DEF Answer
  <2>4. CASE Die(c)
    BY <2>4 DEF Die
  <2>6. CASE OrphanEnds(c)
    BY <2>6 DEF OrphanEnds
  <2>7. CASE StopReading(c)
    BY <2>7 DEF StopReading, Open
  <2>5. QED BY <1>3, <2>1, <2>2, <2>3, <2>4, <2>6, <2>7 DEF Reader, Child
<1>4. CASE UNCHANGED vars
  BY <1>4
<1>5. QED BY <1>1, <1>2, <1>3, <1>4 DEF Next

LEMMA MessagesStep ==
  ASSUME TypeChildren, TypeMessages, TypeRequests, TypeWriters, [Next]_vars
  PROVE  TypeMessages'
<1> USE DEF TypeMessages, TypeChildren, Messages, vars, childVars, fateVars, readerVars, threadVars,
            historyVars
<1>1. CASE Discover
  BY <1>1 DEF Discover
<1>2. ASSUME NEW r \in Threads, Execute(r) \/ Thread(r) PROVE TypeMessages'
  <2> USE <1>2
  <2>1. CASE Execute(r)
    BY <2>1 DEF Execute
  <2>2. CASE Stop(r)
    BY <2>2 DEF Stop
  <2>3. CASE Terminate(r)
    BY <2>3 DEF Terminate, Ends, LeavesOrphan
  <2>4. CASE Join(r)
    BY <2>4 DEF Join
  <2>5. CASE Joined(r)
    BY <2>5 DEF Joined
  <2>6. CASE Reap(r)
    BY <2>6 DEF Reap
  <2>7. CASE EnsureStarted(r)
    BY <2>7 DEF EnsureStarted
  <2>8. CASE Reset(r)
    BY <2>8 DEF Reset
  <2>9. CASE Create(r)
    BY <2>9 DEF Create
  <2>10. CASE StartReader(r)
    BY <2>10 DEF StartReader
  <2>11. CASE Send(r)
    BY <2>11 DEF Send, Alive
  <2>21. CASE Written(r)
    <3>1. next_id' = next_id /\ UNCHANGED <<spawned, outbox, pending>>
      BY <2>21 DEF Written
    <3>2. UNCHANGED inbox \/ (Open(sent[r][1]) /\ inbox' = inbox \cup {sent[r]})
      BY <2>21 DEF Written
    <3>3. sent[r] \in (0 .. spawned) \X (0 .. next_id - 1) /\ sent[r][2] # 0
      BY <2>21 DEF Written, TypeRequests, TypeWriters
    <3>4. Open(sent[r][1]) => sent[r] \in (1 .. spawned) \X (1 .. next_id - 1)
      BY <3>3 DEF Open
    <3>5. QED BY <3>1, <3>2, <3>4
  <2>22. CASE Notify(r)
    BY <2>22 DEF Notify
  <2>23. CASE Notified(r)
    BY <2>23 DEF Notified
  <2>12. CASE CheckPending(r)
    BY <2>12 DEF CheckPending, Take, Mine
  <2>13. CASE Park(r)
    BY <2>13 DEF Park
  <2>14. CASE Deadline(r)
    BY <2>14 DEF Deadline
  <2>15. CASE LastLook(r)
    BY <2>15 DEF LastLook, Take, Mine
  <2>16. QED
    BY <1>2, <2>1, <2>2, <2>3, <2>4, <2>5, <2>6, <2>7, <2>8, <2>9, <2>10, <2>11,
       <2>12, <2>13, <2>14, <2>15, <2>21, <2>22, <2>23 DEF Thread, Shutdown, Start, Request
<1>3. ASSUME NEW c \in Children, Reader(c) \/ Child(c) PROVE TypeMessages'
  <2> USE <1>3
  <2>1. CASE ReadLine(c)
    BY <2>1 DEF ReadLine
  <2>2. CASE ReadEnd(c)
    BY <2>2 DEF ReadEnd
  <2>3. CASE Answer(c)
    BY <2>3 DEF Answer
  <2>4. CASE Die(c)
    BY <2>4 DEF Die, Ends, LeavesOrphan
  <2>6. CASE OrphanEnds(c)
    BY <2>6 DEF OrphanEnds
  <2>7. CASE StopReading(c)
    BY <2>7 DEF StopReading, Open
  <2>5. QED BY <1>3, <2>1, <2>2, <2>3, <2>4, <2>6, <2>7 DEF Reader, Child
<1>4. CASE UNCHANGED vars
  BY <1>4
<1>5. QED BY <1>1, <1>2, <1>3, <1>4 DEF Next

LEMMA RequestsStep ==
  ASSUME TypeChildren, TypeMessages, TypeRequests, [Next]_vars
  PROVE  TypeRequests'
<1> USE DEF TypeMessages, TypeChildren, TypeRequests, Messages, vars, childVars, fateVars, readerVars,
            threadVars, historyVars
<1>1. CASE Discover
  BY <1>1 DEF Discover
<1>2. ASSUME NEW r \in Threads, Execute(r) \/ Thread(r) PROVE TypeRequests'
  <2> USE <1>2
  <2>1. CASE Execute(r)
    <3>1. calls[r] \in 0 .. MaxCalls /\ calls[r] < MaxCalls
      BY <2>1 DEF Execute
    <3>2. calls' \in [Threads -> 0 .. MaxCalls]
      BY <2>1, <3>1, BoundsAssumption DEF Execute
    <3>3. UNCHANGED <<sent, joins, answer, spawned, next_id>>
      BY <2>1 DEF Execute
    <3>4. QED BY <3>2, <3>3
  <2>2. CASE Stop(r)
    BY <2>2 DEF Stop
  <2>3. CASE Terminate(r)
    BY <2>3 DEF Terminate
  <2>4. CASE Join(r)
    BY <2>4 DEF Join
  <2>5. CASE Joined(r)
    BY <2>5 DEF Joined
  <2>6. CASE Reap(r)
    BY <2>6 DEF Reap
  <2>7. CASE EnsureStarted(r)
    BY <2>7 DEF EnsureStarted
  <2>8. CASE Reset(r)
    BY <2>8 DEF Reset
  <2>9. CASE Create(r)
    BY <2>9 DEF Create
  <2>10. CASE StartReader(r)
    BY <2>10 DEF StartReader
  <2>11. CASE Send(r)
    BY <2>11 DEF Send, Alive
  <2>21. CASE Written(r)
    BY <2>21 DEF Written
  <2>22. CASE Notify(r)
    BY <2>22 DEF Notify
  <2>23. CASE Notified(r)
    BY <2>23 DEF Notified
  <2>12. CASE CheckPending(r)
    BY <2>12 DEF CheckPending, Take, Mine
  <2>13. CASE Park(r)
    BY <2>13 DEF Park
  <2>14. CASE Deadline(r)
    BY <2>14 DEF Deadline
  <2>15. CASE LastLook(r)
    BY <2>15 DEF LastLook, Take, Mine
  <2>16. QED
    BY <1>2, <2>1, <2>2, <2>3, <2>4, <2>5, <2>6, <2>7, <2>8, <2>9, <2>10, <2>11,
       <2>12, <2>13, <2>14, <2>15, <2>21, <2>22, <2>23 DEF Thread, Shutdown, Start, Request
<1>3. ASSUME NEW c \in Children, Reader(c) \/ Child(c) PROVE TypeRequests'
  <2> USE <1>3
  <2>1. CASE ReadLine(c)
    BY <2>1 DEF ReadLine
  <2>2. CASE ReadEnd(c)
    BY <2>2 DEF ReadEnd
  <2>3. CASE Answer(c)
    BY <2>3 DEF Answer
  <2>4. CASE Die(c)
    BY <2>4 DEF Die
  <2>6. CASE OrphanEnds(c)
    BY <2>6 DEF OrphanEnds
  <2>7. CASE StopReading(c)
    BY <2>7 DEF StopReading, Open
  <2>5. QED BY <1>3, <2>1, <2>2, <2>3, <2>4, <2>6, <2>7 DEF Reader, Child
<1>4. CASE UNCHANGED vars
  BY <1>4
<1>5. QED BY <1>1, <1>2, <1>3, <1>4 DEF Next

LEMMA WritersStep ==
  ASSUME TypeMessages, TypePlaces, TypeRequests, TypeWriters, [Next]_vars
  PROVE  TypeWriters'
<1> USE DEF TypePlaces, TypeRequests, TypeWriters, Goto, Return, vars, childVars, fateVars,
            readerVars, threadVars, historyVars
<1>1. CASE Discover
  BY <1>1 DEF Discover
<1>2. ASSUME NEW r \in Threads, Execute(r) \/ Thread(r) PROVE TypeWriters'
  <2>1. CASE Execute(r)
    BY <2>1 DEF Execute
  <2>2. CASE Shutdown(r)
    BY <2>2 DEF Shutdown, Stop, Woken, Terminate, Join, Joined, Reap
  <2>3. CASE Start(r)
    BY <2>3 DEF Start, EnsureStarted, Ready, Reset, Create, StartReader
  <2>4. CASE Send(r)
    <3>1. next_id # 0 /\ sent'[r][2] = next_id
      BY <2>4 DEF Send, TypeMessages
    <3>2. \A t \in Threads \ {r} : sent'[t] = sent[t] /\ pc'[t] = pc[t]
      BY <2>4 DEF Send, GiveUp
    <3>3. QED BY <3>1, <3>2
  <2>5. CASE Notify(r)
    <3>1. pc'[r] # "writing" /\ \A t \in Threads \ {r} : sent'[t] = sent[t] /\ pc'[t] = pc[t]
      BY <2>5 DEF Notify
    <3>2. QED BY <3>1
  <2>6. CASE Written(r) \/ Notified(r)
    BY <2>6 DEF Written, Notified, GiveUp
  <2>7. CASE CheckPending(r) \/ LastLook(r)
    BY <2>7 DEF CheckPending, LastLook, Take, Ready, GiveUp
  <2>8. CASE Park(r) \/ Deadline(r)
    BY <2>8 DEF Park, Deadline
  <2>9. QED
    BY <1>2, <2>1, <2>2, <2>3, <2>4, <2>5, <2>6, <2>7, <2>8 DEF Thread, Request
<1>3. ASSUME NEW c \in Children, Reader(c) \/ Child(c) PROVE TypeWriters'
  BY <1>3 DEF Reader, Child, ReadLine, ReadEnd, Answer, Die, OrphanEnds, StopReading, Woken
<1>4. CASE UNCHANGED vars
  BY <1>4
<1>5. QED BY <1>1, <1>2, <1>3, <1>4 DEF Next

\* Every value has its type, and every id and child in use was given out.
THEOREM TypeCorrect == Spec => []TypeOK
<1>1. TypeOK /\ [Next]_vars => TypeOK'
  <2> SUFFICES ASSUME TypeOK, [Next]_vars PROVE TypeOK'
    OBVIOUS
  <2>1. /\ TypeChildren' /\ TypeMessages' /\ TypeFlags'
        /\ TypePlaces' /\ TypeRequests' /\ TypeWriters'
    BY TypeParts, PlacesStep, ChildrenStep, FlagsStep, MessagesStep, RequestsStep, WritersStep
  <2>2. QED
    BY <2>1 DEF TypeOK, TypeChildren, TypeMessages, TypeFlags, TypePlaces, TypeRequests, TypeWriters
<1>2. QED BY InitTypes, <1>1, PTL DEF Spec

---------------------------------------------------------------------------
(* Responses reach the thread that asked.  OwnAnswer is not inductive: it   *)
(* needs that ids are not shared between threads, and that whatever is on   *)
(* its way under the id of a thread's request is that request or its        *)
(* response.                                                                *)

InFlight == inbox \cup outbox \cup pending

OwnIds == \A r, s \in Threads : r # s /\ sent[r][2] # 0 => sent[r][2] # sent[s][2]

OwnMessages == \A r \in Threads : \A m \in InFlight : m[2] = sent[r][2] => m = sent[r]

AnswersSent == \A r \in Threads : answer[r] # NoAnswer => answer[r] = sent[r]

Owned == OwnIds /\ OwnMessages /\ AnswersSent

\* Nothing new is sent or received.
LEMMA OwnedKept ==
  ASSUME Owned, UNCHANGED <<sent, answer>>, InFlight' \subseteq InFlight
  PROVE  Owned'
BY DEF Owned, OwnIds, OwnMessages, AnswersSent

\* A request gets an id above every id in use, the notification gets none.
LEMMA OwnedSend ==
  ASSUME TypeOK, Owned, NEW r \in Threads, Send(r) \/ Notify(r)
  PROVE  Owned'
<1>1. next_id \in Nat \ {0} /\ sent \in [Threads -> (0 .. spawned) \X (0 .. next_id - 1)]
      /\ InFlight \subseteq (1 .. spawned) \X (1 .. next_id - 1)
  BY DEF TypeOK, Messages, InFlight
<1>2. \A i \in {0, next_id} : /\ i # 0 => \A s \in Threads : sent[s][2] # i
                             /\ \A m \in InFlight : m[2] # i
  BY <1>1
<1>3. /\ \A s \in Threads \ {r} : sent'[s] = sent[s] /\ answer'[s] = answer[s]
      /\ answer'[r] = NoAnswer /\ sent'[r][2] \in {0, next_id}
  BY DEF Send, Notify, TypeOK
<1>4. InFlight' = InFlight
  BY DEF Send, Notify, childVars, readerVars, InFlight
<1>5. OwnIds'
  BY <1>2, <1>3 DEF Owned, OwnIds
<1>6. OwnMessages'
  BY <1>2, <1>3, <1>4 DEF Owned, OwnMessages
<1>7. AnswersSent'
  BY <1>3 DEF Owned, AnswersSent
<1>8. QED BY <1>5, <1>6, <1>7 DEF Owned

\* The request reaches the child.
LEMMA OwnedWritten ==
  ASSUME TypeOK, Owned, NEW r \in Threads, Written(r)
  PROVE  Owned'
<1>1. UNCHANGED <<sent, answer, outbox, pending>> /\ inbox' \subseteq inbox \cup {sent[r]}
  BY DEF Written, threadVars, readerVars
<1>2. sent[r][2] # 0
  BY DEF Written, TypeOK
<1>3. OwnMessages'
  <2> SUFFICES ASSUME NEW s \in Threads, NEW m \in InFlight', m[2] = sent[s][2]
               PROVE  m = sent[s]
    BY <1>1 DEF OwnMessages
  <2>1. m \in InFlight \/ m = sent[r]
    BY <1>1 DEF InFlight
  <2>2. CASE m = sent[r]
    BY <1>2, <2>2 DEF Owned, OwnIds
  <2>3. QED BY <2>1, <2>2 DEF Owned, OwnMessages
<1>4. QED BY <1>1, <1>3 DEF Owned, OwnIds, AnswersSent

\* A response is taken by the thread whose id it has.
LEMMA OwnedTake ==
  ASSUME TypeOK, Owned, NEW r \in Threads, Take(r), UNCHANGED <<sent, inbox, outbox>>
  PROVE  Owned'
<1>1. PICK m \in Mine(r) : pending' = pending \ {m} /\ answer' = [answer EXCEPT ![r] = m]
  BY DEF Take
<1>2. m = sent[r]
  BY DEF Mine, Owned, OwnMessages, InFlight
<1>3. OwnIds' /\ OwnMessages'
  BY <1>1 DEF Owned, OwnIds, OwnMessages, InFlight
<1>4. AnswersSent'
  BY <1>1, <1>2 DEF Owned, AnswersSent, TypeOK
<1>5. QED BY <1>3, <1>4 DEF Owned

LEMMA OwnedStep ==
  ASSUME TypeOK, Owned, [Next]_vars
  PROVE  Owned'
<1> USE DEF vars, childVars, fateVars, readerVars, threadVars, historyVars
<1>1. CASE Discover
  BY <1>1, OwnedKept DEF Discover, InFlight
<1>2. ASSUME NEW r \in Threads, Execute(r) \/ Thread(r) PROVE Owned'
  <2>1. CASE Execute(r)
    BY <2>1, OwnedKept DEF Execute, InFlight
  <2>2. CASE Shutdown(r)
    <3>1. UNCHANGED <<sent, answer, outbox, pending>> /\ inbox' \subseteq inbox
      BY <2>2 DEF Shutdown, Stop, Terminate, Ends, LeavesOrphan, Join, Joined, Reap
    <3>2. InFlight' \subseteq InFlight
      BY <3>1 DEF InFlight
    <3>3. QED BY <3>1, <3>2, OwnedKept
  <2>3. CASE Start(r)
    <3>1. UNCHANGED <<sent, answer, inbox, outbox>> /\ pending' \subseteq pending
      BY <2>3 DEF Start, EnsureStarted, Reset, Create, StartReader
    <3>2. InFlight' \subseteq InFlight
      BY <3>1 DEF InFlight
    <3>3. QED BY <3>1, <3>2, OwnedKept
  <2>4. CASE Send(r) \/ Notify(r) \/ Written(r)
    BY <2>4, OwnedSend, OwnedWritten
  <2>5. CASE CheckPending(r) \/ LastLook(r)
    <3>1. UNCHANGED <<sent, inbox, outbox>>
      BY <2>5 DEF CheckPending, LastLook
    <3>2. Take(r) \/ UNCHANGED <<pending, answer>>
      BY <2>5 DEF CheckPending, LastLook
    <3>3. QED BY <3>1, <3>2, OwnedTake, OwnedKept DEF InFlight
  <2>6. CASE Notified(r) \/ Park(r) \/ Deadline(r)
    BY <2>6, OwnedKept DEF Notified, Park, Deadline, InFlight
  <2>7. QED BY <1>2, <2>1, <2>2, <2>3, <2>4, <2>5, <2>6 DEF Thread, Request
<1>3. ASSUME NEW c \in Children, Reader(c) \/ Child(c) PROVE Owned'
  <2>1. CASE ReadLine(c)
    BY <2>1, OwnedKept DEF ReadLine, InFlight
  <2>2. CASE ReadEnd(c)
    BY <2>2, OwnedKept DEF ReadEnd, InFlight
  <2>3. CASE Answer(c)
    BY <2>3, OwnedKept DEF Answer, InFlight
  <2>4. CASE Die(c)
    BY <2>4, OwnedKept DEF Die, Ends, LeavesOrphan, InFlight
  <2>6. CASE OrphanEnds(c) \/ StopReading(c)
    BY <2>6, OwnedKept DEF OrphanEnds, StopReading, InFlight
  <2>5. QED BY <1>3, <2>1, <2>2, <2>3, <2>4, <2>6 DEF Reader, Child
<1>4. CASE UNCHANGED vars
  BY <1>4, OwnedKept DEF InFlight
<1>5. QED BY <1>1, <1>2, <1>3, <1>4 DEF Next

LEMMA OwnedAnswer == TypeOK /\ Owned => OwnAnswer
<1> SUFFICES ASSUME TypeOK, Owned, NEW r \in Threads, answer[r] # NoAnswer
             PROVE  answer[r] = sent[r] /\ \A s \in Threads \ {r} : sent[s] # answer[r]
  BY DEF OwnAnswer
<1>1. answer[r] = sent[r]
  BY DEF Owned, AnswersSent
<1>2. sent[r][2] # 0
  <2>1. answer[r] \in (1 .. spawned) \X (1 .. next_id - 1) /\ next_id \in Nat
    BY DEF TypeOK, Messages
  <2>2. QED BY <1>1, <2>1
<1>3. QED BY <1>1, <1>2 DEF Owned, OwnIds

\* A call gets the response to its own request, and no other thread waits for it,
\* however starts, deaths, deadlines and late responses interleave.
THEOREM OwnAnswers == Spec => []OwnAnswer
<1>1. Init => Owned
  BY DEF Init, Owned, OwnIds, OwnMessages, AnswersSent, InFlight, NoAnswer
<1>2. TypeOK /\ Owned /\ [Next]_vars => Owned'
  BY OwnedStep
<1>3. QED BY TypeCorrect, OwnedAnswer, <1>1, <1>2, PTL DEF Spec

---------------------------------------------------------------------------
(* What holds while ensure_started had no two threads inside at a time.     *)

AtStart   == {"stop", "terminate", "join", "joining", "reap", "reset", "create", "startReader"}
AtRequest == {"notify", "notifying", "send", "writing", "check", "parking", "waiting", "last"}

OneStarter == \A r, s \in Threads : Starting(r) /\ Starting(s) => r = s

\* Who is where in the code has the purpose that belongs there.
Purpose ==
  \A r \in Threads :
    /\ pc[r] \in {"idle", "ensure"} => stage[r] = "none"
    /\ pc[r] \in AtStart => stage[r] \in {"initialize", "failed"}
    /\ pc[r] \in {"reset", "create", "startReader"} => stage[r] = "initialize"
    /\ pc[r] \in AtRequest => stage[r] \in {"initialize", "list", "call"}
    /\ pc[r] \in {"notify", "notifying"} => stage[r] = "initialize"

Running == living \cup orphans

OneChild ==
  /\ Running \subseteq {proc}
  /\ \A r \in Threads : pc[r] \in {"reap", "reset", "create"} => Running = {}

OneReader ==
  /\ readers \subseteq {reader}
  /\ (\A r \in Threads : pc[r] # "startReader") => Running \subseteq {reader}
  /\ \A r \in Threads :
       /\ pc[r] # "gone"
       /\ pc[r] = "joining" => joins[r] = reader
       /\ pc[r] \in {"reap", "reset", "create", "startReader"} => reader = 0 /\ readers = {}

Alone == OneStarter /\ Purpose /\ OneChild /\ OneReader

LEMMA PurposeStep ==
  ASSUME TypePlaces, OneStarter, Purpose, [Next]_vars, ~overlap'
  PROVE  OneStarter' /\ Purpose'
<1> USE DEF TypePlaces, Stages, OneStarter, Purpose, Starting, AtStart, AtRequest, Goto, Return
<1>1. CASE Discover
  BY <1>1 DEF Discover, Threads
<1>2. ASSUME NEW r \in Threads, Execute(r) \/ Thread(r) PROVE OneStarter' /\ Purpose'
  <2>1. CASE Execute(r)
    BY <2>1 DEF Execute
  <2>2. CASE Stop(r)
    BY <2>2 DEF Stop, Woken
  <2>3. CASE Terminate(r)
    BY <2>3 DEF Terminate
  <2>4. CASE Join(r)
    BY <2>4 DEF Join
  <2>5. CASE Joined(r)
    BY <2>5 DEF Joined
  <2>6. CASE Reap(r)
    BY <2>6 DEF Reap
  <2>7. CASE EnsureStarted(r)
    <3>1. CASE Ready(r)
      BY <2>7, <3>1 DEF EnsureStarted, Ready
    <3>2. CASE Goto(r, "stop") /\ stage' = [stage EXCEPT ![r] = "initialize"]
               /\ overlap' = (overlap \/ \E s \in Threads \ {r} : Starting(s))
      <4>1. \A s \in Threads \ {r} : ~Starting(s) /\ stage'[s] = stage[s] /\ pc'[s] = pc[s]
        BY <3>2
      <4>2. pc'[r] = "stop" /\ stage'[r] = "initialize"
        BY <3>2
      <4>3. QED BY <4>1, <4>2
    <3>3. QED BY <2>7, <3>1, <3>2 DEF EnsureStarted
  <2>8. CASE Reset(r)
    BY <2>8 DEF Reset
  <2>9. CASE Create(r)
    BY <2>9 DEF Create
  <2>10. CASE StartReader(r)
    BY <2>10 DEF StartReader
  <2>11. CASE Send(r)
    BY <2>11 DEF Send, GiveUp
  <2>21. CASE Written(r)
    BY <2>21 DEF Written, GiveUp
  <2>22. CASE Notify(r)
    BY <2>22 DEF Notify
  <2>23. CASE Notified(r)
    BY <2>23 DEF Notified
  <2>12. CASE CheckPending(r)
    BY <2>12 DEF CheckPending, Take, Ready
  <2>13. CASE Park(r)
    BY <2>13 DEF Park
  <2>14. CASE Deadline(r)
    BY <2>14 DEF Deadline
  <2>15. CASE LastLook(r)
    BY <2>15 DEF LastLook, Take, Ready, GiveUp
  <2>16. QED
    BY <1>2, <2>1, <2>2, <2>3, <2>4, <2>5, <2>6, <2>7, <2>8, <2>9, <2>10, <2>11,
       <2>12, <2>13, <2>14, <2>15, <2>21, <2>22, <2>23 DEF Thread, Shutdown, Start, Request
<1>3. ASSUME NEW c \in Children, Reader(c) \/ Child(c) PROVE OneStarter' /\ Purpose'
  BY <1>3 DEF Reader, Child, ReadLine, ReadEnd, Answer, Die, OrphanEnds, StopReading, Woken
<1>4. CASE UNCHANGED vars
  BY <1>4 DEF vars
<1>5. QED BY <1>1, <1>2, <1>3, <1>4 DEF Next

\* A step that starts, stops or joins nothing, and brings nobody into the code that does.
LEMMA OthersKept ==
  ASSUME OneChild, OneReader, UNCHANGED <<proc, reader, joins>>,
         Running' \subseteq Running, readers' \subseteq readers,
         \A r \in Threads : /\ pc'[r] # "gone"
                            /\ pc[r] = "startReader" => pc'[r] = pc[r]
                            /\ pc'[r] \in AtStart \ {"stop", "terminate", "join"} => pc'[r] = pc[r]
  PROVE  OneChild' /\ OneReader'
BY DEF OneChild, OneReader, AtStart

\* While one thread is in ensure_started, no other is in the code that only it runs.
LEMMA NobodyElse ==
  ASSUME OneStarter, Purpose, NEW r \in Threads, pc[r] \in AtStart
  PROVE  \A s \in Threads \ {r} : pc[s] \notin AtStart
BY DEF OneStarter, Purpose, Starting

LEMMA ShutdownAlone ==
  ASSUME TypeOK, Alone, NEW r \in Threads, Shutdown(r)
  PROVE  OneChild' /\ OneReader'
<1> USE DEF Alone, Goto, Return, AtStart
<1>1. pc \in [Threads -> PCs] /\ pc[r] \in AtStart \ {"startReader"}
  BY DEF TypeOK, Shutdown, Stop, Terminate, Join, Joined, Reap
<1>2. \A s \in Threads \ {r} : pc[s] \notin AtStart
  BY <1>1, NobodyElse
<1>3. CASE Stop(r)
  <2>1. UNCHANGED <<proc, living, orphans, readers, reader, joins>> /\ pc[r] = "stop"
        /\ pc' = [Woken EXCEPT ![r] = "terminate"]
    BY <1>3 DEF Stop, childVars, fateVars, readerVars, threadVars
  <2>2. \A s \in Threads : /\ pc'[s] # "gone"
                           /\ pc[s] = "startReader" => pc'[s] = pc[s]
                           /\ pc'[s] \in AtStart \ {"stop", "terminate", "join"} => pc'[s] = pc[s]
    BY <1>1, <1>2, <2>1 DEF Woken, OneReader
  <2>3. Running' \subseteq Running /\ readers' \subseteq readers
    BY <2>1 DEF Running
  <2>4. OneChild /\ OneReader /\ UNCHANGED <<proc, reader, joins>>
    BY <2>1
  <2>5. QED BY <2>2, <2>3, <2>4, OthersKept
<1>4. CASE Terminate(r)
  <2>1. UNCHANGED <<proc, readers, reader, joins>> /\ Goto(r, "join") /\ pc[r] = "terminate"
    BY <1>4 DEF Terminate, readerVars, threadVars
  <2>2. Running' \subseteq Running
    BY <1>4 DEF Terminate, Ends, LeavesOrphan, Running
  <2>3. \A s \in Threads : /\ pc'[s] # "gone"
                           /\ pc[s] = "startReader" => pc'[s] = pc[s]
                           /\ pc'[s] \in AtStart \ {"stop", "terminate", "join"} => pc'[s] = pc[s]
    BY <1>1, <2>1 DEF OneReader
  <2>4. OneChild /\ OneReader /\ UNCHANGED <<proc, reader, joins>>
    BY <2>1
  <2>5. QED BY <2>1, <2>2, <2>3, <2>4, OthersKept
<1>5. CASE Join(r)
  <2>1. UNCHANGED <<Running, proc, readers, reader>> /\ joins' = [joins EXCEPT ![r] = reader]
        /\ Goto(r, IF reader = 0 THEN "reap" ELSE "joining")
    BY <1>5 DEF Join, childVars, fateVars, readerVars, Running
  <2>2. Running \subseteq {reader}
    BY <1>1, <1>2 DEF OneReader
  <2>3. reader = 0 => readers = {} /\ Running = {}
    BY <2>2 DEF OneReader, Running, TypeOK
  <2>4. joins'[r] = reader
    BY <2>1 DEF TypeOK
  <2>5. OneChild'
    BY <1>1, <1>2, <2>1, <2>3 DEF OneChild
  <2>6. OneReader'
    BY <1>1, <1>2, <2>1, <2>2, <2>3, <2>4 DEF OneReader
  <2>7. QED BY <2>5, <2>6
<1>6. CASE Joined(r)
  <2>1. /\ UNCHANGED <<Running, proc, readers, joins>> /\ joins[r] = reader
        /\ reader \notin readers /\ reader \notin Running
        /\ reader' = 0 /\ Goto(r, "reap")
    BY <1>6 DEF Joined, childVars, fateVars, threadVars, OneReader, Open, Running
  <2>2. readers = {} /\ Running = {}
    BY <1>1, <1>2, <2>1 DEF OneReader
  <2>3. QED BY <1>1, <1>2, <2>1, <2>2 DEF OneChild, OneReader
<1>7. CASE Reap(r)
  <2>1. UNCHANGED <<Running, readers, reader, joins>> /\ Running = {} /\ readers = {} /\ reader = 0
    BY <1>7 DEF Reap, fateVars, readerVars, threadVars, OneChild, OneReader, Running
  <2>2. Goto(r, "idle") \/ Goto(r, "reset")
    BY <1>7 DEF Reap
  <2>3. QED BY <1>1, <1>2, <2>1, <2>2 DEF OneChild, OneReader
<1>8. QED BY <1>3, <1>4, <1>5, <1>6, <1>7 DEF Shutdown

LEMMA StartAlone ==
  ASSUME TypeOK, Alone, NEW r \in Threads, Start(r)
  PROVE  OneChild' /\ OneReader'
<1> USE DEF Alone, Goto, Return, AtStart
<1>1. pc \in [Threads -> PCs]
  BY DEF TypeOK
<1>2. pc[r] \in AtStart => \A s \in Threads \ {r} : pc[s] \notin AtStart
  BY NobodyElse
<1>3. CASE EnsureStarted(r)
  <2>1. UNCHANGED <<Running, proc, readers, reader, joins>> /\ pc[r] = "ensure"
        /\ \E l \in {"idle", "send", "stop"} : Goto(r, l)
    BY <1>3 DEF EnsureStarted, Ready, childVars, fateVars, readerVars, threadVars, Running
  <2>2. \A s \in Threads : /\ pc'[s] # "gone"
                           /\ pc[s] = "startReader" => pc'[s] = pc[s]
                           /\ pc'[s] \in AtStart \ {"stop", "terminate", "join"} => pc'[s] = pc[s]
    BY <1>1, <2>1 DEF OneReader
  <2>3. OneChild /\ OneReader /\ UNCHANGED <<proc, reader, joins>>
    BY <2>1
  <2>4. Running' \subseteq Running /\ readers' \subseteq readers
    BY <2>1
  <2>5. QED BY <2>2, <2>3, <2>4, OthersKept
<1>4. CASE Reset(r)
  <2>1. UNCHANGED <<Running, proc, readers, reader, joins>> /\ Goto(r, "create") /\ pc[r] = "reset"
    BY <1>4 DEF Reset, childVars, fateVars, threadVars, Running
  <2>2. QED BY <1>1, <1>2, <2>1 DEF OneChild, OneReader
<1>5. CASE Create(r)
  <2>1. UNCHANGED <<readers, reader, joins>> /\ pc[r] = "create" /\ Running = {}
        /\ readers = {} /\ reader = 0 /\ UNCHANGED orphans
    BY <1>5 DEF Create, fateVars, readerVars, threadVars, OneChild, OneReader
  <2>2. \/ Goto(r, "idle") /\ Running' = {}
        \/ Goto(r, "startReader") /\ Running' = {proc'}
    BY <1>5, <2>1 DEF Create, Running
  <2>3. pc'[r] # "startReader" => Running' = {}
    BY <1>1, <2>2
  <2>4. QED BY <1>1, <1>2, <2>1, <2>2, <2>3 DEF OneChild, OneReader
<1>6. CASE StartReader(r)
  <2>1. reader = 0 /\ readers = {} /\ pc[r] = "startReader"
    BY <1>6 DEF StartReader, OneReader
  <2>2. UNCHANGED <<Running, proc, joins>> /\ reader' = proc /\ Goto(r, "send")
        /\ readers' \subseteq {proc}
    BY <1>6, <2>1 DEF StartReader, childVars, fateVars, threadVars, Running
  <2>3. OneChild'
    BY <1>1, <1>2, <2>1, <2>2 DEF OneChild
  <2>4. Running' \subseteq {reader'}
    BY <2>2 DEF OneChild
  <2>5. OneReader'
    BY <1>1, <1>2, <2>1, <2>2, <2>4 DEF OneReader
  <2>6. QED BY <2>3, <2>5
<1>7. QED BY <1>3, <1>4, <1>5, <1>6 DEF Start

LEMMA AloneStep ==
  ASSUME TypeOK, Alone, [Next]_vars, ~overlap'
  PROVE  Alone'
<1> USE DEF Goto, Return, AtStart, fateVars, Running
<1>1. OneStarter' /\ Purpose'
  BY PurposeStep DEF Alone, TypeOK, TypePlaces
<1>2. pc \in [Threads -> PCs] /\ (\A s \in Threads : pc[s] # "gone") /\ OneChild /\ OneReader
  BY DEF Alone, OneReader, TypeOK
<1>3. OneChild' /\ OneReader'
  <2>1. CASE Discover
    BY <1>2, <2>1, OthersKept DEF Discover, Threads, childVars, fateVars, readerVars, threadVars
  <2>2. ASSUME NEW r \in Threads, Execute(r) \/ Thread(r) PROVE OneChild' /\ OneReader'
    <3>1. CASE Execute(r)
      BY <1>2, <3>1, OthersKept DEF Execute, childVars, fateVars, readerVars
    <3>2. CASE Shutdown(r)
      BY <3>2, ShutdownAlone
    <3>3. CASE Start(r)
      BY <3>3, StartAlone
    <3>4. CASE Send(r)
      BY <1>2, <3>4, OthersKept DEF Send, GiveUp, childVars, readerVars
    <3>10. CASE Written(r)
      BY <1>2, <3>10, OthersKept DEF Written, GiveUp, readerVars, threadVars
    <3>11. CASE Notify(r) \/ Notified(r)
      BY <1>2, <3>11, OthersKept DEF Notify, Notified, childVars, readerVars, threadVars
    <3>5. CASE CheckPending(r)
      BY <1>2, <3>5, OthersKept DEF CheckPending, Take, Ready, childVars
    <3>6. CASE Park(r)
      BY <1>2, <3>6, OthersKept DEF Park, childVars, fateVars, readerVars, threadVars
    <3>7. CASE Deadline(r)
      BY <1>2, <3>7, OthersKept DEF Deadline, childVars, fateVars, readerVars, threadVars
    <3>8. CASE LastLook(r)
      BY <1>2, <3>8, OthersKept DEF LastLook, Take, Ready, GiveUp, childVars
    <3>9. QED BY <2>2, <3>1, <3>2, <3>3, <3>4, <3>5, <3>6, <3>7, <3>8, <3>10,
             <3>11 DEF Thread, Request
  <2>3. ASSUME NEW c \in Children, Reader(c) \/ Child(c)
        PROVE  OneChild' /\ OneReader'
    <3>1. CASE ReadLine(c)
      BY <1>2, <3>1, OthersKept DEF ReadLine, Woken, threadVars
    <3>2. CASE ReadEnd(c)
      BY <1>2, <3>2, OthersKept DEF ReadEnd, childVars, fateVars, threadVars
    <3>3. CASE Answer(c)
      BY <1>2, <3>3, OthersKept DEF Answer, readerVars, threadVars
    <3>4. CASE Die(c)
      BY <1>2, <3>4, OthersKept DEF Die, Ends, LeavesOrphan, readerVars, threadVars
    <3>5. CASE OrphanEnds(c) \/ StopReading(c)
      BY <1>2, <3>5, OthersKept DEF OrphanEnds, StopReading, readerVars, threadVars
    <3>6. QED BY <2>3, <3>1, <3>2, <3>3, <3>4, <3>5 DEF Reader, Child
  <2>4. CASE UNCHANGED vars
    BY <1>2, <2>4, OthersKept DEF vars, childVars, fateVars, readerVars, threadVars
  <2>5. QED BY <2>1, <2>2, <2>3, <2>4 DEF Next
<1>4. QED BY <1>1, <1>3 DEF Alone

\* Once two threads were in ensure_started at a time, they were.
LEMMA OverlapStays ==
  ASSUME [Next]_vars, overlap
  PROVE  overlap'
<1> USE DEF historyVars
<1>1. CASE Discover
  BY <1>1 DEF Discover
<1>2. ASSUME NEW r \in Threads, Execute(r) \/ Thread(r) PROVE overlap'
  BY <1>2 DEF Execute, Thread, Shutdown, Stop, Terminate, Join, Joined, Reap, Start,
     EnsureStarted, Reset, Create, StartReader, Request, Send, Written, Notify, Notified,
     CheckPending, Park, Deadline, LastLook
<1>3. ASSUME NEW c \in Children, Reader(c) \/ Child(c) PROVE overlap'
  BY <1>3 DEF Reader, Child, ReadLine, ReadEnd, Answer, Die, OrphanEnds, StopReading
<1>4. CASE UNCHANGED vars
  BY <1>4 DEF vars
<1>5. QED BY <1>1, <1>2, <1>3, <1>4 DEF Next

\* While no two threads were in ensure_started at a time, shutdown and the start
\* after it leave no child and no reader thread behind, and never replace a reader
\* that has not been joined.
THEOREM SoundAlone == Spec => []SoundWhenAlone
<1>1. Init => Alone
  BY DEF Init, Alone, OneStarter, Purpose, OneChild, OneReader, Running, Starting, AtStart, AtRequest
<1>2. TypeOK /\ (~overlap => Alone) /\ [Next]_vars => (~overlap' => Alone')
  BY AloneStep, OverlapStays
<1>3. (~overlap => Alone) => SoundWhenAlone
  BY DEF SoundWhenAlone, Alone, OneChild, OneReader, Running, Terminated
<1>4. QED BY TypeCorrect, <1>1, <1>2, <1>3, PTL DEF Spec

---------------------------------------------------------------------------
(* And the child: one that has answered "initialize" is ready for use, or   *)
(* its start is not over.                                                   *)

Greeted == proc \in living \cap greeted

Settled ==
  /\ Greeted => ready \/ \E r \in Threads : Starting(r)
  /\ \A r \in Threads : pc[r] \in {"stop", "terminate"} =>
       stage[r] = "failed" \/ (stage[r] = "initialize" /\ ~Greeted)

\* No thread leaves ensure_started or comes to shutdown, no child has answered anew.
LEMMA SettledKept ==
  ASSUME Settled, Greeted' => Greeted, ready => ready',
         \A r \in Threads : Starting(r) => Starting(r)',
         \A r \in Threads : pc'[r] \in {"stop", "terminate"} =>
           stage'[r] = "failed" \/ (pc[r] \in {"stop", "terminate"} /\ stage'[r] = stage[r])
  PROVE  Settled'
BY DEF Settled

LEMMA SettledRequest ==
  ASSUME TypeOK, Alone, Settled, NEW r \in Threads, Request(r)
  PROVE  Settled'
<1> USE DEF Goto, Return
<1>1. pc \in [Threads -> PCs] /\ stage \in [Threads -> Stages] /\ ready \in BOOLEAN
  BY DEF TypeOK
<1>2. stage[r] \in {"initialize", "list", "call"} /\ pc[r] \notin {"stop", "terminate"}
  BY DEF Alone, Purpose, AtRequest, Request, Send, Written, Notify, Notified,
     CheckPending, Park, Deadline, LastLook
<1>3. CASE GiveUp(r) /\ UNCHANGED <<proc, living, greeted, ready>>
  <2>1. CASE stage[r] = "call"
    BY <1>1, <1>2, <1>3, <2>1, SettledKept DEF GiveUp, Starting, Greeted
  <2>2. CASE stage[r] # "call"
    <3>1. pc' = [pc EXCEPT ![r] = "stop"] /\ stage' = [stage EXCEPT ![r] = "failed"]
      BY <1>3, <2>2 DEF GiveUp
    <3>2. QED BY <1>1, <1>3, <3>1, SettledKept DEF Starting, Greeted
  <2>3. QED BY <2>1, <2>2
<1>4. CASE Take(r) /\ UNCHANGED <<proc, living>>
  <2>1. CASE stage[r] = "initialize"
    <3>1. pc' = [pc EXCEPT ![r] = "notify"] /\ stage' = stage
      BY <1>4, <2>1 DEF Take
    <3>2. \A s \in Threads \ {r} : ~Starting(s) /\ pc[s] \notin {"stop", "terminate"}
      BY <2>1 DEF Alone, OneStarter, Purpose, AtStart, Starting
    <3>3. Starting(r)' /\ \A s \in Threads : pc'[s] \notin {"stop", "terminate"}
      BY <1>1, <2>1, <3>1, <3>2 DEF Starting
    <3>4. QED BY <3>3 DEF Settled
  <2>2. CASE stage[r] = "list"
    <3>1. ready' = TRUE /\ UNCHANGED greeted /\ (Goto(r, "idle") \/ Goto(r, "send"))
          /\ (\A s \in Threads \ {r} : stage'[s] = stage[s])
      BY <1>1, <1>4, <2>2 DEF Take, Ready
    <3>2. \A s \in Threads : pc'[s] \in {"stop", "terminate"} => pc[s] = pc'[s] /\ s # r
      BY <1>1, <3>1
    <3>3. QED BY <1>4, <3>1, <3>2 DEF Settled, Greeted
  <2>3. CASE stage[r] = "call"
    <3>1. Return(r) /\ UNCHANGED <<greeted, ready>>
      BY <1>4, <2>3 DEF Take
    <3>2. QED BY <1>1, <1>2, <1>4, <2>3, <3>1, SettledKept DEF Starting, Greeted
  <2>4. QED BY <1>2, <2>1, <2>2, <2>3
<1>5. CASE UNCHANGED <<proc, living, greeted, ready, stage>>
           /\ \E l \in {"writing", "notifying", "check", "last", "parking", "waiting"} : Goto(r, l)
  BY <1>1, <1>5, SettledKept DEF Starting, Greeted
<1>6. CASE Notified(r)
  <2>1. UNCHANGED <<proc, living, greeted, ready>> /\ Goto(r, "send")
        /\ stage' = [stage EXCEPT ![r] = "list"]
    BY <1>6 DEF Notified, childVars, historyVars
  <2>2. QED BY <1>1, <2>1, SettledKept DEF Starting, Greeted
<1>7. QED
  BY <1>3, <1>4, <1>5, <1>6 DEF Request, Send, Written, Notify, CheckPending, Park, Deadline,
     LastLook, childVars, threadVars, historyVars

LEMMA SettledShutdown ==
  ASSUME TypeOK, Alone, Settled, NEW r \in Threads, Shutdown(r)
  PROVE  Settled'
<1> USE DEF Goto, Return, Greeted
<1>1. pc \in [Threads -> PCs] /\ stage \in [Threads -> Stages] /\ ready \in BOOLEAN
      /\ 0 \notin living
  BY DEF TypeOK
<1>2. CASE Stop(r)
  <2>1. UNCHANGED <<proc, living, greeted, ready, stage>> /\ pc' = [Woken EXCEPT ![r] = "terminate"]
        /\ pc[r] = "stop"
    BY <1>2 DEF Stop, childVars, fateVars, historyVars
  <2>2. \A s \in Threads : pc'[s] \in {"stop", "terminate"} => pc[s] \in {"stop", "terminate"}
    BY <1>1, <2>1 DEF Woken
  <2>3. QED BY <2>1, <2>2 DEF Settled, Starting
<1>3. CASE Terminate(r)
  BY <1>1, <1>3, SettledKept DEF Terminate, Ends, LeavesOrphan, Starting, historyVars
<1>4. CASE Join(r)
  BY <1>1, <1>4, SettledKept DEF Join, Starting, childVars, fateVars, historyVars
<1>5. CASE Joined(r)
  <2>1. UNCHANGED <<proc, living, greeted, ready, stage>> /\ Goto(r, "reap")
    BY <1>5 DEF Joined, Alone, OneReader, childVars, fateVars, historyVars
  <2>2. QED BY <1>1, <2>1, SettledKept DEF Starting
<1>6. CASE Reap(r)
  <2>1. ~Greeted' /\ (Goto(r, "idle") \/ Goto(r, "reset"))
    BY <1>1, <1>6 DEF Reap
  <2>2. \A s \in Threads \ {r} : stage'[s] = stage[s] /\ pc'[s] = pc[s]
    BY <1>1, <1>6 DEF Reap
  <2>3. \A s \in Threads : pc'[s] \in {"stop", "terminate"} => s # r
    BY <1>1, <2>1
  <2>4. QED BY <2>1, <2>2, <2>3 DEF Settled
<1>7. QED BY <1>2, <1>3, <1>4, <1>5, <1>6 DEF Shutdown

LEMMA SettledStart ==
  ASSUME TypeOK, Alone, Settled, ~overlap', NEW r \in Threads, Start(r)
  PROVE  Settled'
<1> USE DEF Goto, Return, Greeted
<1>1. pc \in [Threads -> PCs] /\ stage \in [Threads -> Stages] /\ ready \in BOOLEAN
  BY DEF TypeOK
<1>2. CASE EnsureStarted(r)
  <2>1. UNCHANGED <<proc, living, greeted, ready>>
    BY <1>2 DEF EnsureStarted, childVars
  <2>2. CASE Alive /\ ready /\ Ready(r)
    <3>1. ready' /\ \A s \in Threads : pc'[s] \in {"stop", "terminate"} =>
                      pc[s] = pc'[s] /\ stage'[s] = stage[s]
      BY <1>1, <2>1, <2>2 DEF Ready
    <3>2. QED BY <2>1, <3>1 DEF Settled
  <2>3. CASE /\ ~(Alive /\ ready) /\ \A s \in Threads \ {r} : ~Starting(s)
             /\ Goto(r, "stop") /\ stage' = [stage EXCEPT ![r] = "initialize"]
    <3>1. pc[r] = "ensure"
      BY <1>2 DEF EnsureStarted
    <3>2. Starting(r)' /\ stage'[r] = "initialize"
      BY <1>1, <2>3 DEF Starting
    <3>3. \A s \in Threads \ {r} : pc'[s] = pc[s] /\ pc[s] \notin {"stop", "terminate"}
      BY <2>3 DEF Alone, Purpose, AtStart, Starting
    <3>4. ~Greeted
      BY <2>3, <3>1 DEF Settled, Alive, Alone, Purpose, Starting
    <3>5. QED BY <2>1, <3>2, <3>3, <3>4 DEF Settled
  <2>4. QED BY <1>2, <2>2, <2>3 DEF EnsureStarted
<1>3. CASE Reset(r)
  BY <1>1, <1>3, SettledKept DEF Reset, Starting, childVars, fateVars, historyVars
<1>4. CASE Create(r)
  <2>1. pc[r] = "create" /\ Starting(r) /\ living = {} /\ UNCHANGED <<greeted, ready>>
    BY <1>4 DEF Create, Alone, Purpose, OneChild, Running, AtStart, Starting, historyVars
  <2>2. CASE UNCHANGED <<proc, spawned, living>> /\ Return(r)
    <3>1. ~Greeted'
      BY <2>1, <2>2
    <3>2. \A s \in Threads : pc'[s] \in {"stop", "terminate"} =>
            pc[s] = pc'[s] /\ stage'[s] = stage[s]
      BY <1>1, <2>2
    <3>3. QED BY <2>1, <3>1, <3>2 DEF Settled
  <2>3. CASE proc' = spawned' /\ spawned' = spawned + 1 /\ Goto(r, "startReader")
             /\ UNCHANGED stage
    <3>1. ~Greeted'
      BY <2>1, <2>3 DEF TypeOK
    <3>2. \A s \in Threads : pc'[s] \in {"stop", "terminate"} => pc[s] = pc'[s]
      BY <1>1, <2>3
    <3>3. QED BY <2>1, <2>3, <3>1, <3>2 DEF Settled
  <2>4. QED BY <1>4, <2>2, <2>3 DEF Create
<1>5. CASE StartReader(r)
  <2>1. UNCHANGED <<proc, living, greeted, ready, stage>> /\ Goto(r, "send")
    BY <1>5 DEF StartReader, Alone, OneReader, childVars, fateVars, historyVars
  <2>2. QED BY <1>1, <2>1, SettledKept DEF Starting
<1>6. QED BY <1>2, <1>3, <1>4, <1>5 DEF Start

LEMMA SettledStep ==
  ASSUME TypeOK, Alone, Settled, [Next]_vars, ~overlap'
  PROVE  Settled'
<1> USE DEF Goto, Greeted
<1>1. pc \in [Threads -> PCs]
  BY DEF TypeOK
<1>2. CASE Discover
  BY <1>1, <1>2, SettledKept DEF Discover, Starting, childVars, fateVars, historyVars
<1>3. ASSUME NEW r \in Threads, Execute(r) \/ Thread(r) PROVE Settled'
  <2>1. CASE Execute(r)
    BY <1>1, <2>1, SettledKept DEF Execute, Starting, childVars, fateVars, historyVars
  <2>2. QED BY <1>3, <2>1, SettledShutdown, SettledStart, SettledRequest DEF Thread
<1>4. ASSUME NEW c \in Children, Reader(c) \/ Child(c) PROVE Settled'
  <2>1. CASE ReadLine(c)
    BY <1>1, <2>1, SettledKept DEF ReadLine, Woken, Starting, historyVars
  <2>2. CASE ReadEnd(c)
    BY <1>1, <2>2, SettledKept DEF ReadEnd, Starting, childVars, fateVars, historyVars
  <2>3. CASE Answer(c)
    BY <1>1, <2>3, SettledKept DEF Answer, Starting, historyVars
  <2>4. CASE Die(c)
    BY <1>1, <2>4, SettledKept DEF Die, Ends, LeavesOrphan, Starting
  <2>5. CASE OrphanEnds(c) \/ StopReading(c)
    BY <1>1, <2>5, SettledKept DEF OrphanEnds, StopReading, Starting, historyVars
  <2>6. QED BY <1>4, <2>1, <2>2, <2>3, <2>4, <2>5 DEF Reader, Child
<1>5. CASE UNCHANGED vars
  BY <1>1, <1>5, SettledKept DEF vars, Starting, childVars, fateVars, historyVars
<1>6. QED BY <1>2, <1>3, <1>4, <1>5 DEF Next

\* While no two threads were in ensure_started at a time, a child that has answered
\* "initialize" and runs is terminated only after its start has failed.
THEOREM KeptAlone == Spec => KeptWhenAlone
<1> DEFINE Inv == ~overlap => Alone /\ Settled
<1>1. Init => Inv
  BY DEF Init, Alone, OneStarter, Purpose, OneChild, OneReader, Running, Starting, AtStart, AtRequest,
     Settled, Greeted
<1>2. TypeOK /\ Inv /\ [Next]_vars => Inv'
  BY AloneStep, SettledStep, OverlapStays
<1>3. Inv => \A r \in Threads : ~overlap /\ Terminate(r) /\ proc \in living \cap greeted
                                  => stage[r] = "failed"
  BY DEF Settled, Greeted, Terminate
<1>4. Inv /\ [Next]_vars =>
        [\A r \in Threads : ~overlap /\ Terminate(r) /\ proc \in living \cap greeted
                              => stage[r] = "failed"]_vars
  BY <1>3
<1>5. QED BY TypeCorrect, <1>1, <1>2, <1>4, PTL DEF Spec, KeptWhenAlone

\* One start at a time is all that the client needs, for any threads and children.
THEOREM AloneSafe == Spec => AloneIsSafe
<1>1. QED BY TypeCorrect, SoundAlone, KeptAlone, PTL DEF AloneIsSafe
============================================================================
