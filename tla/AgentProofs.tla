----------------------------- MODULE AgentProofs -----------------------------
(* Theorems about AgentLoop and AgentTools, for any threads, directories, texts *)
(* and calls, from one inductive invariant, AgentInv.  Of the tools it says     *)
(* where a call works (Placed), what it has read of its child (Watched) and,    *)
(* while nobody else writes its file, what became of the file and what the tool *)
(* holds of it (Kept); of the loop, that every message but the one that is      *)
(* being executed has all its answers (Paired).  EditIsExact gives edit_file    *)
(* its meaning; Recovered says what recover_xml_args computes: its searches     *)
(* never go beyond the call they are for, and are behind the block of every one *)
(* that was lost and whose tool no earlier call kept (SearchedWell).            *)
(*                                                                              *)
(* Recursion says that a function defined by descent exists: the searches, and  *)
(* those of GlobMatch, whose theorems need no state.  Their lemmas follow       *)
(* glob_bracket, the meaning of a pattern and the loop of glob_match (Followed  *)
(* is what the loop knows of the star it saved, LoopIs what it returns from any *)
(* state).                                                                      *)
(*                                                                              *)
(* RunsGetNearer and ToolsGetNearer say how long a run and a call may take.     *)
EXTENDS AgentLoop, SequenceTheorems, FiniteSetTheorems, WellFoundedInduction, TLAPS

(* --------------------------------- numbers -------------------------------- *)
LEMMA MinIs ==
  ASSUME NEW S, S \subseteq Int, NEW x \in S, \A y \in S : x <= y
  PROVE  Min(S) = x
<1>1. \A z \in S : (\A y \in S : z =< y) => z = x
  OBVIOUS
<1>2. QED BY <1>1 DEF Min

LEMMA MinOfTwo ==
  ASSUME NEW m \in Int, NEW n \in Int
  PROVE  Min({m, n}) = IF m <= n THEN m ELSE n
<1>1. CASE m <= n
  BY <1>1, MinIs
<1>2. CASE ~(m <= n)
  BY <1>2, MinIs
<1>3. QED BY <1>1, <1>2

\* A nonempty set of natural numbers has a least element.
LEMMA LeastOf ==
  ASSUME NEW S, S \subseteq Nat, S # {}
  PROVE  Min(S) \in S /\ \A y \in S : Min(S) <= y
<1> DEFINE R == {ss \in Nat \X Nat : ss[1] < ss[2]}
<1>1. PICK d \in S : \A y \in S : ~(<<y, d>> \in R)
  <2>1. IsWellFoundedOn(R, Nat)
    BY NatLessThanWellFounded DEF OpToRel
  <2> HIDE DEF R
  <2>2. QED BY <2>1, WFMin
<1>2. ASSUME NEW y \in S PROVE d <= y
  <2>1. y \in Nat /\ d \in Nat /\ ~(<<y, d>> \in R)
    BY <1>1
  <2>2. QED BY <2>1
<1>3. S \subseteq Int /\ \A y \in S : d <= y
  BY <1>2
<1> HIDE DEF R
<1>4. Min(S) = d
  BY <1>3, MinIs
<1>5. QED BY <1>3, <1>4

(* --------------------- functions defined by recursion --------------------- *)
\* Strong induction up to a bound, for a set.
LEMMA Climb ==
  ASSUME NEW N \in Nat, NEW G,
         \A n \in 0 .. N : (\A m \in 0 .. (n - 1) : m \in G) => n \in G
  PROVE  \A n \in 0 .. N : n \in G
<1> DEFINE B == {n \in 0 .. N : n \notin G}
<1>1. B = {}
  <2> SUFFICES ASSUME B # {} PROVE FALSE
    OBVIOUS
  <2>1. B \subseteq Nat
    OBVIOUS
  <2> DEFINE b == Min(B)
  <2>2. b \in B /\ \A y \in B : b <= y
    <3> HIDE DEF B
    <3>1. QED BY <2>1, LeastOf
  <2> HIDE DEF b
  <2>3. \A m \in 0 .. (b - 1) : m \in G
    BY <2>2
  <2>4. QED BY <2>2, <2>3
<1>2. QED BY <1>1

\* A definition by descent: from each place to one of lower rank, until done.
Falls(rank, D, done, goes) == \A x \in D : x \notin done => rank[goes[x]] < rank[x]
Runs(f, D, done, base, goes, makes) ==
  \A x \in D : f[x] = IF x \in done THEN base[x] ELSE makes[<<x, f[goes[x]]>>]

LEMMA Recursion ==
  ASSUME NEW D, NEW V, NEW N \in Nat, NEW rank \in [D -> 0 .. N],
         NEW done, NEW base \in [D -> V], NEW goes \in [D -> D],
         NEW makes \in [D \X V -> V],
         Falls(rank, D, done, goes)
  PROVE  \E f \in [D -> V] : Runs(f, D, done, base, goes, makes)
<1> DEFINE Low(n) == {x \in D : rank[x] <= n}
           Body(f, x) == IF x \in done THEN base[x] ELSE makes[<<x, f[goes[x]]>>]
           Solves(n, f) == f \in [Low(n) -> V] /\ \A x \in Low(n) : f[x] = Body(f, x)
           G == {n \in 0 .. N : \E f : Solves(n, f)}
<1>1. ASSUME NEW n \in 0 .. N, \A m \in 0 .. (n - 1) : m \in G PROVE n \in G
  <2>1. \E f \in [Low(n - 1) -> V] : \A x \in Low(n - 1) : f[x] = Body(f, x)
    <3>1. CASE n = 0
      <4>1. Low(n - 1) = {}
        BY <3>1
      <4>2. [x \in Low(n - 1) |-> base[x]] \in [Low(n - 1) -> V]
        BY <4>1
      <4>3. QED BY <4>1, <4>2
    <3>2. CASE n # 0
      <4>1. n - 1 \in 0 .. (n - 1)
        BY <3>2
      <4>2. n - 1 \in G
        BY <4>1, <1>1
      <4>3. QED BY <4>2
    <3>3. QED BY <3>1, <3>2
  <2>2. PICK f \in [Low(n - 1) -> V] : \A x \in Low(n - 1) : f[x] = Body(f, x)
    BY <2>1
  <2> DEFINE g == [x \in Low(n) |-> IF x \in Low(n - 1) THEN f[x] ELSE Body(f, x)]
  <2>3. ASSUME NEW x \in Low(n), x \notin done
        PROVE  goes[x] \in Low(n - 1) /\ goes[x] \in Low(n) /\ g[goes[x]] = f[goes[x]] /\ f[goes[x]] \in V
    BY <2>2, <2>3 DEF Falls
  <2>4. ASSUME NEW x \in Low(n) PROVE g[x] = Body(f, x) /\ g[x] \in V
    <3>1. g[x] = Body(f, x)
      BY <2>2
    <3>2. CASE x \in done
      BY <3>1, <3>2
    <3>3. CASE x \notin done
      BY <3>1, <3>3, <2>3
    <3>4. QED BY <3>1, <3>2, <3>3
  <2>5. ASSUME NEW x \in Low(n) PROVE Body(f, x) = Body(g, x)
    BY <2>3
  <2>6. g \in [Low(n) -> V]
    BY <2>4
  <2> HIDE DEF g
  <2>7. Solves(n, g)
    BY <2>4, <2>5, <2>6
  <2>8. QED BY <2>7
<1>2. N \in G
  <2> HIDE DEF G
  <2>1. \A n \in 0 .. N : n \in G
    BY <1>1, Climb
  <2>2. QED BY <2>1
<1>3. Low(N) = D
  OBVIOUS
<1>4. QED BY <1>2, <1>3 DEF Runs

(* ------------------------------ replaced spans ---------------------------- *)
\* s with mid for its l characters behind the k first.
Split(s, k, l, mid) == SubSeq(s, 1, k) \o mid \o SubSeq(s, k + l + 1, Len(s))

At(s, k, old) == s = Split(s, k, Len(old), old)

LEMMA SpanIsAt ==
  ASSUME NEW s \in Seq(Chars), NEW old \in Seq(Chars), NEW k \in Nat,
         k + 1 \in Spans(s, old)
  PROVE  k \in 0 .. Len(s) /\ At(s, k, old)
<1>1. Len(s) \in Nat /\ Len(old) \in Nat
  BY LenProperties
<1>2. k + Len(old) <= Len(s) /\ SubSeq(s, k + 1, k + Len(old)) = old
  BY <1>1 DEF Spans
<1> DEFINE n == k + Len(old)
<1>3. /\ 1 \in 1 .. Len(s) + 1 /\ k \in 1 - 1 .. Len(s) /\ n \in k .. Len(s)
      /\ n \in 1 - 1 .. Len(s) /\ Len(s) \in n .. Len(s)
  BY <1>1, <1>2
<1>4. n = k + Len(old)
  OBVIOUS
<1> HIDE DEF n
<1>5. SubSeq(s, 1, k) \o SubSeq(s, k + 1, n) = SubSeq(s, 1, n)
  BY <1>3, ConcatAdjacentSubSeq
<1>6. SubSeq(s, 1, n) \o SubSeq(s, n + 1, Len(s)) = SubSeq(s, 1, Len(s))
  BY <1>3, ConcatAdjacentSubSeq
<1>7. SubSeq(s, 1, Len(s)) = s
  BY SubSeqFull
<1>8. SubSeq(s, k + 1, n) = old
  BY <1>2, <1>4
<1>9. s = SubSeq(s, 1, k) \o old \o SubSeq(s, n + 1, Len(s))
  BY <1>5, <1>6, <1>7, <1>8
<1>10. At(s, k, old)
  BY <1>9 DEF At, Split, n
<1>11. QED BY <1>3, <1>10

LEMMA AtIsSpan ==
  ASSUME NEW s \in Seq(Chars), NEW old \in Seq(Chars), NEW k \in 0 .. Len(s), At(s, k, old)
  PROVE  k + 1 \in Spans(s, old)
<1> DEFINE A == SubSeq(s, 1, k)
           C == SubSeq(s, k + Len(old) + 1, Len(s))
<1>1. Len(s) \in Nat /\ Len(old) \in Nat /\ k \in Nat
  BY LenProperties
<1>2. A \in Seq(Chars) /\ Len(A) = k
  <2>1. \A i \in 1 .. k : s[i] \in Chars
    BY <1>1, ElementOfSeq
  <2>2. QED BY <1>1, <2>1, SubSeqProperties
<1>3. C \in Seq(Chars) /\ Len(C) \in Nat
  <2>1. \A i \in k + Len(old) + 1 .. Len(s) : s[i] \in Chars
    BY <1>1, ElementOfSeq
  <2>2. C \in Seq(Chars)
    BY <1>1, <2>1, SubSeqProperties
  <2>3. QED BY <2>2, LenProperties
<1>4. s = A \o old \o C
  BY DEF At, Split
<1> HIDE DEF A, C
<1>5. A \o old \in Seq(Chars) /\ Len(A \o old) = k + Len(old)
      /\ \A i \in 1 .. k + Len(old) : (A \o old)[i] = IF i <= k THEN A[i] ELSE old[i - k]
  BY <1>2, ConcatProperties
<1>6. Len(s) = k + Len(old) + Len(C)
      /\ \A i \in 1 .. k + Len(old) : s[i] = (A \o old)[i]
  <2> DEFINE L == A \o old
  <2>1. L \in Seq(Chars) /\ Len(L) = k + Len(old) /\ s = L \o C
    BY <1>4, <1>5
  <2> HIDE DEF L
  <2> DEFINE LC == L \o C
  <2>2. /\ Len(LC) = Len(L) + Len(C)
        /\ \A i \in 1 .. Len(L) + Len(C) : LC[i] = IF i <= Len(L) THEN L[i] ELSE C[i - Len(L)]
    <3>1. C \in Seq(Chars)
      BY <1>3
    <3>2. QED BY <2>1, <3>1, ConcatProperties, ZenonT(30)
  <2>3. /\ Len(s) = Len(L) + Len(C)
        /\ \A i \in 1 .. Len(L) + Len(C) : s[i] = IF i <= Len(L) THEN L[i] ELSE C[i - Len(L)]
    <3>1. s = LC
      BY <2>1
    <3> HIDE DEF LC
    <3>2. QED BY <2>2, <3>1
  <2>4. Len(s) = k + Len(old) + Len(C) /\ \A i \in 1 .. k + Len(old) : s[i] = L[i]
    BY <1>1, <1>3, <2>1, <2>3
  <2>5. QED BY <2>4 DEF L
<1>7. SubSeq(s, k + 1, k + Len(old)) = old
  <2> DEFINE B == SubSeq(s, k + 1, k + Len(old))
  <2>1. \A i \in k + 1 .. k + Len(old) : s[i] \in Chars
    BY <1>1, <1>3, <1>6, ElementOfSeq
  <2>2. B \in Seq(Chars) /\ Len(B) = Len(old)
        /\ \A i \in 1 .. Len(old) : B[i] = s[k + i]
    BY <1>1, <2>1, SubSeqProperties
  <2>3. ASSUME NEW i \in 1 .. Len(old) PROVE s[k + i] = old[i]
    <3>1. k + i \in 1 .. k + Len(old) /\ ~(k + i <= k) /\ (k + i) - k = i
      BY <1>1
    <3>2. QED BY <1>5, <1>6, <3>1
  <2> HIDE DEF B
  <2>4. B = old
    BY <2>2, <2>3, SeqEqual
  <2>5. QED BY <2>4 DEF B
<1>8. QED BY <1>1, <1>3, <1>6, <1>7 DEF Spans

\* What edit_file has in memory: the text with its only span of old_text replaced.
LEMMA EditIsExact ==
  ASSUME NEW s \in Seq(Chars), NEW args \in Arguments, Editable(s, args)
  PROVE  /\ args \in ToEdit /\ args.old # <<>> /\ Replaced(s, args) \in Seq(Chars)
         /\ \E k \in 0 .. Len(s) :
              /\ At(s, k, args.old) /\ \A l \in 0 .. Len(s) : At(s, l, args.old) => l = k
              /\ Replaced(s, args) = Split(s, k, Len(args.old), args.new)
<1>1. /\ args \in [old : Seq(Chars), new : Seq(Chars)] /\ args.old # <<>>
      /\ Cardinality(Spans(s, args.old)) = 1
  BY DEF Editable, ToEdit
<1> DEFINE P == Spans(s, args.old)
<1>2. Len(s) \in Nat /\ Len(args.old) \in Nat
  BY <1>1, LenProperties
<1>3. P \subseteq 1 .. Len(s) - Len(args.old) + 1
  BY <1>1 DEF Spans
<1>4. PICK j : P = {j}
  <2> DEFINE last == Len(s) - Len(args.old) + 1
  <2>1. IsFiniteSet(1 .. last)
    <3>1. last \in Int
      BY <1>2
    <3> HIDE DEF last
    <3>2. QED BY <3>1, FS_Interval
  <2>2. IsFiniteSet(P)
    BY <1>3, <2>1, FS_Subset
  <2>3. QED BY <1>1, <2>2, FS_Singleton
<1>5. j \in Nat \ {0} /\ j <= Len(s) - Len(args.old) + 1 /\ Min(P) = j
  <2>1. j \in Int /\ 1 <= j /\ j <= Len(s) - Len(args.old) + 1
    <3>1. j \in P
      BY <1>4
    <3>2. j \in 1 .. Len(s) - Len(args.old) + 1
      BY <1>3, <3>1
    <3>3. QED BY <1>2, <3>2
  <2>2. P \subseteq Int /\ j \in P /\ \A y \in P : j <= y
    BY <1>4, <2>1
  <2> HIDE DEF P
  <2>3. Min(P) = j
    BY <2>2, MinIs
  <2>4. QED BY <2>1, <2>3
<1> HIDE DEF P
<1> DEFINE k == j - 1
           A == SubSeq(s, 1, k)
           C == SubSeq(s, k + Len(args.old) + 1, Len(s))
<1>6. k \in Nat /\ k + 1 = j
  BY <1>5
<1>7. k + 1 \in Spans(s, args.old)
  BY <1>4, <1>6 DEF P
<1>8. k \in 0 .. Len(s) /\ At(s, k, args.old)
  <2> HIDE DEF k
  <2>1. QED BY <1>1, <1>6, <1>7, SpanIsAt
<1>9. ASSUME NEW l \in 0 .. Len(s), At(s, l, args.old) PROVE l = k
  <2>1. l + 1 \in P
    BY <1>1, <1>9, AtIsSpan DEF P
  <2>2. QED BY <1>2, <1>4, <1>5, <2>1
<1>10. Replaced(s, args) = A \o args.new \o C
  <2>1. Min(Spans(s, args.old)) = j
    BY <1>5 DEF P
  <2>2. j + Len(args.old) = k + Len(args.old) + 1 /\ j - 1 = k
    BY <1>2, <1>5
  <2>3. Replaced(s, args) = SubSeq(s, 1, j - 1) \o args.new \o SubSeq(s, j + Len(args.old), Len(s))
    BY <2>1 DEF Replaced
  <2> HIDE DEF k
  <2>4. QED BY <2>2, <2>3
<1>11. A \in Seq(Chars) /\ C \in Seq(Chars)
  <2>1. /\ \A i \in 1 .. k : s[i] \in Chars
        /\ \A i \in k + Len(args.old) + 1 .. Len(s) : s[i] \in Chars
    BY <1>2, <1>8, ElementOfSeq
  <2>2. k \in Int /\ k + Len(args.old) + 1 \in Int /\ Len(s) \in Int /\ 1 \in Int
    BY <1>2, <1>6
  <2> HIDE DEF k
  <2>3. QED BY <2>1, <2>2, SubSeqProperties
<1>12. A \o args.new \o C = Split(s, k, Len(args.old), args.new)
  BY DEF Split
<1>13. A \o args.new \o C \in Seq(Chars)
  <2> HIDE DEF A, C
  <2>1. A \o args.new \in Seq(Chars)
    BY <1>1, <1>11, ConcatProperties
  <2>2. QED BY <1>11, <2>1, ConcatProperties
<1> HIDE DEF k, A, C
<1>14. QED BY <1>1, <1>8, <1>9, <1>10, <1>12, <1>13 DEF ToEdit

(* --------------------------- one call of a tool --------------------------- *)
CallType == [tool : Tools, cwd : Dirs \cup {None, Missing}, path : Dirs \cup {None},
             args : Arguments]

ChildType == [state : {"none", "running", "exited", "killed"}, behind : BOOLEAN,
              written : 0 .. MaxOut, last : 0 .. MaxOut]

Shells == {"peek", "wait", "late", "drain", "gets"}
Labels == {"idle", "entered", "reopen", "put", "pclose", "done"} \cup Shells

ToolTypes ==
  /\ files \in [Dirs -> Seq(Chars)]
  /\ pc \in [Threads -> Labels]
  /\ call \in [Threads -> CallType \cup {NoCall}]
  /\ override \in [Threads -> Dirs \cup {None}] /\ target \in [Threads -> Dirs \cup {None}]
  /\ text \in [Threads -> Seq(Chars)]
  /\ answer \in [Threads -> {"none", "ok", "error", "cut", "exit", "timeout"}]
  /\ child \in [Threads -> ChildType]
  /\ got \in [Threads -> 0 .. Cap + 1] /\ due \in [Threads -> BOOLEAN]
  /\ seen \in [Threads -> [Dirs -> Seq(Chars)]]
  /\ alone \in [Threads -> BOOLEAN] /\ refused \in [Threads -> BOOLEAN]

\* Where t works: a call that got past the checks of execute works in the
\* directory of its own caller, and a thread comes back to "idle" empty-handed.
Placed(t) ==
  /\ pc[t] = "idle" => /\ target[t] = None /\ answer[t] = "none" /\ text[t] = <<>>
                       /\ child[t] = NoChild /\ got[t] = 0
  /\ pc[t] # "idle" => call[t] \in CallType
                       /\ (call[t].tool = "exec_shell_command" => call[t].path = None)
  /\ pc[t] \notin {"idle", "done"} =>
       /\ answer[t] = "none" /\ override[t] = normalize_cwd(call[t].cwd)
       /\ call[t].cwd \in Dirs \cup {None}
  /\ pc[t] = "entered" => target[t] = None /\ child[t] = NoChild /\ got[t] = 0
  /\ pc[t] \in {"reopen", "put"} => target[t] # None
  /\ target[t] \in {None, Meant(call[t])}

\* What t has read of its child, and what its answer says of it.
Watched(t) ==
  /\ got[t] <= child[t].written /\ child[t].last <= child[t].written
  /\ pc[t] \in Shells => got[t] <= Cap
  /\ pc[t] = "drain" => child[t].state = "exited"
  /\ pc[t] = "pclose" => got[t] > Cap \/ (child[t].state = "exited" /\ got[t] >= child[t].last)
  /\ answer[t] = "exit" => /\ child[t].state = "exited"
                           /\ got[t] >= child[t].last \/ got[t] > Cap
  /\ answer[t] = "timeout" => child[t].state # "running"
  /\ answer[t] = "cut" => got[t] > Cap

Edited(was, args, to) == Editable(was, args) /\ to = Replaced(was, args)

\* What t has in memory, behind a call that entered when its file was was.
Carries(t, was) ==
  \/ call[t].tool = "write_file" /\ IsText(call[t].args) /\ text[t] = Given(call[t].args)
  \/ call[t].tool = "edit_file" /\ Edited(was, call[t].args, text[t])

\* What t does to its file while nobody else writes it: until it empties it the file
\* is as it was, then it carries what will be the file.
Kept(t, was, is) ==
  /\ pc[t] \notin {"put", "done"} => is = was
  /\ pc[t] = "reopen" => call[t].tool = "edit_file" /\ Edited(was, call[t].args, text[t])
  /\ pc[t] = "put" => is = <<>> /\ Carries(t, was)
  /\ pc[t] = "done" /\ ~refused[t] =>
       CASE call[t].tool = "write_file" /\ answer[t] = "ok" ->
              IsText(call[t].args) /\ is = Given(call[t].args)
         [] call[t].tool = "write_file" /\ answer[t] # "ok" /\ ~IsText(call[t].args) ->
              is \in {was, <<>>}
         [] call[t].tool = "edit_file" /\ answer[t] = "ok" -> Edited(was, call[t].args, is)
         [] call[t].tool = "read_file" /\ answer[t] = "ok" -> is = was /\ text[t] = was
         [] OTHER -> is = was

Undisturbed(t) == pc[t] # "idle" /\ alone[t] /\ Meant(call[t]) \in Dirs

FileKept(t) == Undisturbed(t) => Kept(t, seen[t][Meant(call[t])], files[Meant(call[t])])

Sound(t) == Placed(t) /\ Watched(t) /\ FileKept(t)

ToolInv == ToolTypes /\ \A t \in Threads : Sound(t)

LEMMA ToolInvInit == ToolInit => ToolInv
<1> SUFFICES ASSUME ToolInit PROVE ToolInv
  OBVIOUS
<1>1. ToolTypes
  <2>1. <<>> \in Seq(Chars)
    BY EmptySeq
  <2>2. 0 \in 0 .. Cap + 1 /\ 0 \in 0 .. MaxOut
    BY CapAssumption
  <2>3. QED BY <2>1, <2>2, TextAssumption DEF ToolInit, ToolTypes, ChildType, Labels, NoChild
<1>2. ASSUME NEW t \in Threads PROVE Sound(t)
  BY CapAssumption DEF ToolInit, Sound, Placed, Watched, FileKept, Undisturbed, NoChild, Shells
<1>3. QED BY <1>1, <1>2 DEF ToolInv

\* What a step of another thread leaves of u.
Same(u) ==
  /\ pc'[u] = pc[u] /\ call'[u] = call[u] /\ override'[u] = override[u]
  /\ target'[u] = target[u] /\ text'[u] = text[u] /\ answer'[u] = answer[u]
  /\ child'[u] = child[u] /\ got'[u] = got[u] /\ seen'[u] = seen[u] /\ refused'[u] = refused[u]

\* Whatever t writes, u is not disturbed or its file is not the one.
Spared(u) ==
  Undisturbed(u)' => Undisturbed(u) /\ files'[Meant(call[u])] = files[Meant(call[u])]

LEMMA Bystander ==
  ASSUME NEW u \in Threads, Sound(u), Same(u), Spared(u)
  PROVE  Sound(u)'
<1>1. Placed(u)'
  BY DEF Sound, Placed, Same, Meant, normalize_cwd
<1>2. Watched(u)'
  BY DEF Sound, Watched, Same
<1>3. FileKept(u)'
  <2> SUFFICES ASSUME Undisturbed(u)'
               PROVE  Kept(u, seen[u][Meant(call[u])], files[Meant(call[u])])'
    BY DEF FileKept
  <2>1. Kept(u, seen[u][Meant(call[u])], files[Meant(call[u])])
    BY DEF Sound, FileKept, Spared
  <2>2. /\ Meant(call[u])' = Meant(call[u]) /\ files'[Meant(call[u])] = files[Meant(call[u])]
        /\ seen'[u] = seen[u]
    BY DEF Spared, Same, Meant
  <2> DEFINE w == seen[u][Meant(call[u])]
             i == files[Meant(call[u])]
  <2>3. w' = w /\ i' = i
    BY <2>2
  <2> HIDE DEF w, i
  <2>4. Kept(u, w, i) => Kept(u, w, i)'
    BY <2>3 DEF Kept, Same, Carries, Edited
  <2>5. QED BY <2>1, <2>4 DEF w, i
<1>4. QED BY <1>1, <1>2, <1>3 DEF Sound

LEMMA WritesSpare ==
  ASSUME ToolTypes, NEW t \in Threads, NEW u \in Threads, u # t, Same(u),
         NEW d \in Dirs, NEW content \in Seq(Chars), Writes(t, d, content)
  PROVE  Spared(u)
<1> SUFFICES ASSUME Undisturbed(u)'
             PROVE  Undisturbed(u) /\ files'[Meant(call[u])] = files[Meant(call[u])]
  BY DEF Spared
<1>1. Meant(call[u])' = Meant(call[u]) /\ pc[u] # "idle" /\ Meant(call[u]) \in Dirs
  BY DEF Undisturbed, Same, Meant
<1>2. alone'[u] = (alone[u] /\ (u = t \/ pc[u] = "idle" \/ Meant(call[u]) # d))
  BY Zenon DEF Writes
<1>3. alone'[u]
  BY DEF Undisturbed
<1>4. alone[u] /\ Meant(call[u]) # d
  BY <1>1, <1>2, <1>3
<1>5. files'[Meant(call[u])] = files[Meant(call[u])]
  BY <1>1, <1>4 DEF Writes, ToolTypes
<1>6. QED BY <1>1, <1>4, <1>5 DEF Undisturbed


LEMMA Unwritten ==
  ASSUME NEW u \in Threads, Same(u), files' = files, alone'[u] = alone[u]
  PROVE  Spared(u)
<1>1. Undisturbed(u)' => Undisturbed(u)
  BY DEF Undisturbed, Same, Meant
<1>2. QED BY <1>1 DEF Spared

\* A step of t that leaves its own call sound, and of the others what is theirs.
LEMMA StepOf ==
  ASSUME ToolInv, ToolTypes', NEW t \in Threads, Sound(t)',
         \A u \in Threads \ {t} : Same(u) /\ Spared(u)
  PROVE  ToolInv'
<1>1. ASSUME NEW u \in Threads PROVE Sound(u)'
  <2>1. CASE u = t
    BY <2>1
  <2>2. CASE u # t
    BY <2>2, Bystander DEF ToolInv
  <2>3. QED BY <2>1, <2>2
<1>2. QED BY <1>1 DEF ToolInv

LEMMA EnterStep ==
  ASSUME ToolInv, NEW t \in Threads, NEW c \in CallType,
         c.tool = "exec_shell_command" => c.path = None, Enter(t, c)
  PROVE  ToolInv'
<1>1. ToolTypes /\ Sound(t)
  BY DEF ToolInv
<1>2. ToolTypes'
  <2>1. normalize_cwd(c.cwd) \in Dirs \cup {None}
    BY DEF normalize_cwd
  <2>2. /\ files' = files /\ target' = target /\ text' = text /\ child' = child
        /\ got' = got /\ due' = due /\ refused' = refused
    BY DEF Enter
  <2>3. pc' \in [Threads -> Labels] /\ answer' \in [Threads -> {"none", "ok", "error", "cut", "exit", "timeout"}]
    BY <1>1 DEF Enter, ToolTypes, Labels
  <2>4. /\ call' \in [Threads -> CallType \cup {NoCall}]
        /\ override' \in [Threads -> Dirs \cup {None}]
        /\ seen' \in [Threads -> [Dirs -> Seq(Chars)]]
    BY <1>1, <2>1 DEF Enter, SetOverride, ToolTypes
  <2>5. alone' \in [Threads -> BOOLEAN]
    BY <1>1, Zenon DEF Enter, ToolTypes
  <2>6. QED BY <1>1, <2>2, <2>3, <2>4, <2>5 DEF ToolTypes
<1>3. Sound(t)'
  <2>1. /\ pc[t] = "idle" /\ call'[t] = c /\ seen'[t] = files /\ files' = files
        /\ override'[t] = normalize_cwd(c.cwd)
        /\ target'[t] = None /\ child'[t] = NoChild /\ got'[t] = 0
    BY <1>1 DEF Enter, SetOverride, ToolTypes, Sound, Placed
  <2>2. \/ pc'[t] = "done" /\ answer'[t] = "error"
        \/ /\ pc'[t] = "entered" /\ answer'[t] = "none"
           /\ c.cwd \in Dirs \cup {None}
    BY <1>1, <2>1 DEF Enter, ToolTypes, normalize_cwd, Sound, Placed
  <2>3. Placed(t)'
    BY <2>1, <2>2 DEF Placed
  <2>4. Watched(t)'
    BY <2>1, <2>2 DEF Watched, NoChild, Shells
  <2>5. FileKept(t)'
    BY <2>1, <2>2 DEF FileKept, Kept
  <2>6. QED BY <2>3, <2>4, <2>5 DEF Sound
<1>4. ASSUME NEW u \in Threads \ {t} PROVE Same(u) /\ Spared(u)
  <2>1. Same(u)
    BY <1>1 DEF Enter, SetOverride, ToolTypes, Same
  <2>2. alone'[u] = alone[u] /\ files' = files
    BY <1>1, Zenon DEF Enter, ToolTypes
  <2>3. QED BY <2>1, <2>2, Unwritten
<1>5. QED BY <1>2, <1>3, <1>4, StepOf

LEMMA LeaveStep ==
  ASSUME ToolInv, NEW t \in Threads, Leave(t) PROVE ToolInv'
<1>1. ToolTypes
  BY DEF ToolInv
<1>2. ToolTypes'
  <2>1. <<>> \in Seq(Chars) /\ 0 \in 0 .. Cap + 1 /\ NoChild \in ChildType
    BY EmptySeq, CapAssumption DEF NoChild, ChildType
  <2>2. [d \in Dirs |-> Initial] \in [Dirs -> Seq(Chars)]
    BY TextAssumption
  <2>3. /\ files' = files /\ pc' \in [Threads -> Labels]
        /\ answer' \in [Threads -> {"none", "ok", "error", "cut", "exit", "timeout"}]
        /\ call' \in [Threads -> CallType \cup {NoCall}]
    BY <1>1 DEF Leave, ToolTypes, Labels
  <2>4. /\ override' \in [Threads -> Dirs \cup {None}]
        /\ target' \in [Threads -> Dirs \cup {None}] /\ text' \in [Threads -> Seq(Chars)]
    BY <1>1, <2>1 DEF Leave, ToolTypes
  <2>5. /\ got' \in [Threads -> 0 .. Cap + 1] /\ seen' \in [Threads -> [Dirs -> Seq(Chars)]]
        /\ child' \in [Threads -> ChildType]
    BY <1>1, <2>1, <2>2 DEF Leave, ToolTypes
  <2>6. due' \in [Threads -> BOOLEAN] /\ alone' \in [Threads -> BOOLEAN]
        /\ refused' \in [Threads -> BOOLEAN]
    BY <1>1, Zenon DEF Leave, ToolTypes
  <2>7. QED BY <1>1, <2>3, <2>4, <2>5, <2>6 DEF ToolTypes
<1>3. Sound(t)'
  <2>1. /\ pc'[t] = "idle" /\ target'[t] = None /\ answer'[t] = "none" /\ text'[t] = <<>>
        /\ child'[t] = NoChild /\ got'[t] = 0
    BY <1>1 DEF Leave, ToolTypes
  <2>2. Placed(t)' /\ Watched(t)' /\ FileKept(t)'
    BY <2>1 DEF Placed, Watched, FileKept, Undisturbed, NoChild, Shells
  <2>3. QED BY <2>2 DEF Sound
<1>4. ASSUME NEW u \in Threads \ {t} PROVE Same(u) /\ Spared(u)
  <2>1. Same(u)
    <3>1. refused'[u] = refused[u]
      BY <1>1, Zenon DEF Leave, ToolTypes
    <3>2. QED BY <1>1, <3>1 DEF Leave, ToolTypes, Same
  <2>2. alone'[u] = alone[u] /\ files' = files
    BY <1>1, Zenon DEF Leave, ToolTypes
  <2>3. QED BY <2>1, <2>2, Unwritten
<1>5. QED BY <1>2, <1>3, <1>4, StepOf

\* A tool that has no path works in the directory of its caller, and a path is
\* resolved to the directory it means or not at all.
LEMMA ResolvesToMeant ==
  ASSUME ToolInv, NEW t \in Threads, pc[t] = "entered"
  PROVE  /\ call[t].path = None => eff_root(t) = Meant(call[t])
         /\ resolve(t, call[t].path) # None => resolve(t, call[t].path) = Meant(call[t])
         /\ eff_root(t) \in Dirs
<1>1. /\ override[t] = normalize_cwd(call[t].cwd) /\ call[t].cwd \in Dirs \cup {None}
      /\ override[t] \in Dirs \cup {None}
  BY DEF ToolInv, ToolTypes, Sound, Placed
<1>2. eff_root(t) = IF call[t].cwd = None THEN Root ELSE call[t].cwd
  BY <1>1, DirsAssumption DEF eff_root, normalize_cwd
<1>3. QED BY <1>1, <1>2, DirsAssumption DEF Meant, resolve

\* What every tool's step leaves alone.
LEMMA FrameTypes ==
  ASSUME ToolInv, UNCHANGED frame
  PROVE  /\ call' = call /\ override' = override /\ seen' = seen
         /\ call' \in [Threads -> CallType \cup {NoCall}]
         /\ override' \in [Threads -> Dirs \cup {None}]
         /\ seen' \in [Threads -> [Dirs -> Seq(Chars)]]
BY DEF frame, ToolInv, ToolTypes

LEMMA ShellTypes ==
  ASSUME ToolInv, UNCHANGED shell
  PROVE  /\ child' = child /\ got' = got
         /\ child' \in [Threads -> ChildType]
         /\ got' \in [Threads -> 0 .. Cap + 1] /\ due' \in [Threads -> BOOLEAN]
BY DEF shell, ToolInv, ToolTypes

\* A tool that ends without having touched anything.
LEMMA EndsQuietly ==
  ASSUME ToolInv, NEW t \in Threads, NEW a \in {"ok", "error"}, Ends(t, a),
         pc[t] \in {"entered", "reopen"}, a = "ok" => call[t].tool = "get_datetime",
         UNCHANGED <<files, target, text, alone, refused, shell, frame>>
  PROVE  ToolInv'
<1>1. ToolTypes /\ Sound(t)
  BY DEF ToolInv
<1>2. UNCHANGED frame /\ UNCHANGED shell
  OBVIOUS
<1>3. ToolTypes'
  <2>1. /\ pc' \in [Threads -> Labels]
        /\ answer' \in [Threads -> {"none", "ok", "error", "cut", "exit", "timeout"}]
    BY <1>1 DEF Ends, ToolTypes, Labels
  <2>2. QED BY <1>1, <1>2, <2>1, FrameTypes, ShellTypes DEF ToolTypes
<1>4. /\ pc'[t] = "done" /\ answer'[t] = a /\ files' = files /\ target' = target /\ text' = text
      /\ alone' = alone /\ refused' = refused /\ call' = call /\ override' = override
      /\ seen' = seen /\ child' = child /\ got' = got
  BY <1>1, <1>2 DEF Ends, ToolTypes, frame, shell
<1>5. Sound(t)'
  <2>1. Placed(t)' /\ Watched(t)'
    BY <1>1, <1>4 DEF Sound, Placed, Watched, Meant, Shells
  <2>2. FileKept(t)'
    <3> SUFFICES ASSUME Undisturbed(t)'
                 PROVE  Kept(t, seen[t][Meant(call[t])], files[Meant(call[t])])'
      BY DEF FileKept
    <3>1. Undisturbed(t) /\ Meant(call[t])' = Meant(call[t])
      BY <1>4 DEF Undisturbed, Meant
    <3>2. files[Meant(call[t])] = seen[t][Meant(call[t])]
      BY <1>1, <3>1 DEF Sound, FileKept, Kept
    <3>3. files'[Meant(call[t])'] = seen'[t][Meant(call[t])']
      BY <1>4, <3>1, <3>2
    <3>4. QED BY <1>4, <3>3 DEF Kept
  <2>3. QED BY <2>1, <2>2 DEF Sound
<1>6. ASSUME NEW u \in Threads \ {t} PROVE Same(u) /\ Spared(u)
  <2>1. Same(u)
    BY <1>1, <1>4 DEF Ends, ToolTypes, Same
  <2>2. QED BY <1>4, <2>1, Unwritten
<1>7. QED BY <1>3, <1>5, <1>6, StepOf

LEMMA FailsStep ==
  ASSUME ToolInv, NEW t \in Threads, Fails(t), pc[t] \in {"entered", "reopen"}
  PROVE  ToolInv'
BY EndsQuietly DEF Fails

LEMMA GetDatetimeStep ==
  ASSUME ToolInv, NEW t \in Threads, get_datetime(t) PROVE ToolInv'
BY EndsQuietly DEF get_datetime, Entered

LEMMA CannotOpenStep ==
  ASSUME ToolInv, NEW t \in Threads, CannotOpen(t) PROVE ToolInv'
BY FailsStep DEF CannotOpen, Entered

\* What opening a file tells of it.
LEMMA OpensMeant ==
  ASSUME ToolInv, NEW t \in Threads, NEW tool, Opens(t, tool)
  PROVE  /\ pc[t] = "entered" /\ call[t].tool = tool /\ answer[t] = "none"
         /\ target'[t] = Meant(call[t]) /\ Meant(call[t]) \in Dirs
         /\ target' \in [Threads -> Dirs \cup {None}]
         /\ \A u \in Threads \ {t} : target'[u] = target[u]
<1>1. pc[t] = "entered" /\ call[t].tool = tool /\ resolve(t, call[t].path) # None
  BY DEF Opens, Entered
<1>2. resolve(t, call[t].path) = Meant(call[t]) /\ eff_root(t) \in Dirs
  BY <1>1, ResolvesToMeant
<1>3. resolve(t, call[t].path) \in Dirs
  BY <1>1, <1>2 DEF resolve
<1>4. target \in [Threads -> Dirs \cup {None}] /\ answer[t] = "none"
  BY <1>1 DEF ToolInv, ToolTypes, Sound, Placed
<1>5. QED BY <1>1, <1>2, <1>3, <1>4 DEF Opens

LEMMA ReadFileStep ==
  ASSUME ToolInv, NEW t \in Threads, read_file(t) PROVE ToolInv'
<1>1. ToolTypes /\ Sound(t)
  BY DEF ToolInv
<1> DEFINE m == Meant(call[t])
<1>2. /\ pc[t] = "entered" /\ call[t].tool = "read_file" /\ target'[t] = m /\ m \in Dirs
      /\ target' \in [Threads -> Dirs \cup {None}] /\ \A u \in Threads \ {t} : target'[u] = target[u]
  BY OpensMeant DEF read_file
<1>3. UNCHANGED frame /\ UNCHANGED shell
  BY DEF read_file
<1>4. text' = [text EXCEPT ![t] = files[m]] /\ files[m] \in Seq(Chars)
  BY <1>1, <1>2 DEF read_file, ToolTypes
<1>5. ToolTypes'
  <2>1. /\ pc' \in [Threads -> Labels]
        /\ answer' \in [Threads -> {"none", "ok", "error", "cut", "exit", "timeout"}]
        /\ text' \in [Threads -> Seq(Chars)]
    BY <1>1, <1>4 DEF read_file, Ends, ToolTypes, Labels
  <2>2. files' = files /\ alone' = alone /\ refused' = refused
    BY DEF read_file
  <2>3. QED BY <1>1, <1>2, <1>3, <2>1, <2>2, FrameTypes, ShellTypes DEF ToolTypes
<1>6. /\ pc'[t] = "done" /\ answer'[t] = "ok" /\ files' = files /\ text'[t] = files[m]
      /\ alone' = alone /\ refused' = refused /\ call' = call /\ override' = override
      /\ seen' = seen /\ child' = child /\ got' = got
  BY <1>1, <1>3, <1>4 DEF read_file, Ends, ToolTypes, frame, shell
<1>7. Sound(t)'
  <2>1. m' = m
    BY <1>6 DEF Meant
  <2>2. Placed(t)' /\ Watched(t)'
    BY <1>1, <1>2, <1>6, <2>1 DEF Sound, Placed, Watched, Shells
  <2>3. FileKept(t)'
    <3> SUFFICES ASSUME Undisturbed(t)' PROVE Kept(t, seen[t][m], files[m])'
      BY DEF FileKept
    <3>1. Undisturbed(t)
      BY <1>2, <1>6, <2>1 DEF Undisturbed
    <3>2. files[m] = seen[t][m]
      BY <1>1, <1>2, <3>1 DEF Sound, FileKept, Kept
    <3>3. files'[m'] = seen'[t][m'] /\ text'[t] = seen'[t][m']
      BY <1>6, <2>1, <3>2
    <3>4. call'[t].tool = "read_file"
      BY <1>2, <1>6
    <3> HIDE DEF m
    <3>5. QED BY <1>6, <3>3, <3>4 DEF Kept
  <2>4. QED BY <2>2, <2>3 DEF Sound
<1>8. ASSUME NEW u \in Threads \ {t} PROVE Same(u) /\ Spared(u)
  <2>1. Same(u)
    BY <1>1, <1>2, <1>4, <1>6 DEF read_file, Ends, ToolTypes, Same
  <2>2. QED BY <1>6, <2>1, Unwritten
<1>9. QED BY <1>5, <1>7, <1>8, StepOf

LEMMA WritesTypes ==
  ASSUME ToolInv, NEW t \in Threads, NEW d \in Dirs, NEW content \in Seq(Chars),
         Writes(t, d, content)
  PROVE  /\ files' \in [Dirs -> Seq(Chars)] /\ files'[d] = content
         /\ alone' \in [Threads -> BOOLEAN] /\ alone'[t] = alone[t]
<1>1. ToolTypes
  BY DEF ToolInv
<1>2. files' \in [Dirs -> Seq(Chars)] /\ files'[d] = content
  BY <1>1 DEF Writes, ToolTypes
<1>3. alone' \in [Threads -> BOOLEAN]
  BY <1>1, Zenon DEF Writes, ToolTypes
<1>4. alone[t] \in BOOLEAN
  BY <1>1 DEF ToolTypes
<1>5. alone'[t] = (alone[t] /\ (t = t \/ pc[t] = "idle" \/ Meant(call[t]) # d))
  BY Zenon DEF Writes
<1>6. alone'[t] = alone[t]
  <2>1. CASE alone[t] = TRUE
    BY <1>5, <2>1
  <2>2. CASE alone[t] = FALSE
    BY <1>5, <2>2
  <2>3. QED BY <1>4, <2>1, <2>2
<1>7. QED BY <1>2, <1>3, <1>6

LEMMA TruncateStep ==
  ASSUME ToolInv, NEW t \in Threads, Truncate(t) PROVE ToolInv'
<1>1. ToolTypes /\ Sound(t)
  BY DEF ToolInv
<1> DEFINE m == Meant(call[t])
           args == call[t].args
           given == Given(args)
<1>2. /\ pc[t] = "entered" /\ call[t].tool = "write_file" /\ answer[t] = "none"
      /\ target'[t] = m /\ m \in Dirs
      /\ target' \in [Threads -> Dirs \cup {None}] /\ \A u \in Threads \ {t} : target'[u] = target[u]
  BY OpensMeant DEF Truncate
<1>3. UNCHANGED frame /\ UNCHANGED shell
  BY DEF Truncate
<1>4. <<>> \in Seq(Chars) /\ (IsText(args) => given \in Seq(Chars))
  BY EmptySeq DEF IsText, Given, ToWrite
<1>5. Writes(t, m, <<>>) /\ refused' = refused
  BY <1>2 DEF Truncate
<1>6. /\ files' \in [Dirs -> Seq(Chars)] /\ files'[m] = <<>>
      /\ alone' \in [Threads -> BOOLEAN] /\ alone'[t] = alone[t]
  BY <1>2, <1>4, <1>5, WritesTypes
<1>7. \/ /\ IsText(args) /\ text' = [text EXCEPT ![t] = given]
         /\ pc' = [pc EXCEPT ![t] = "put"] /\ answer' = answer
      \/ /\ ~IsText(args) /\ text' = text
         /\ pc' = [pc EXCEPT ![t] = "done"] /\ answer' = [answer EXCEPT ![t] = "error"]
  BY DEF Truncate, Ends
<1> HIDE DEF given
<1>8. ToolTypes'
  <2>1. pc' \in [Threads -> Labels] /\ text' \in [Threads -> Seq(Chars)]
        /\ answer' \in [Threads -> {"none", "ok", "error", "cut", "exit", "timeout"}]
    <3>1. CASE IsText(args)
      BY <1>1, <1>4, <1>7, <3>1 DEF ToolTypes, Labels
    <3>2. CASE ~IsText(args)
      BY <1>1, <1>7, <3>2 DEF ToolTypes, Labels
    <3>3. QED BY <3>1, <3>2
  <2>2. QED BY <1>1, <1>2, <1>3, <1>5, <1>6, <2>1, FrameTypes, ShellTypes DEF ToolTypes
<1>9. /\ refused' = refused /\ call' = call /\ override' = override
      /\ seen' = seen /\ child' = child /\ got' = got
  BY <1>3, <1>5 DEF frame, shell
<1>10. \/ IsText(args) /\ pc'[t] = "put" /\ answer'[t] = "none" /\ text'[t] = given
       \/ ~IsText(args) /\ pc'[t] = "done" /\ answer'[t] = "error"
  BY <1>1, <1>2, <1>7 DEF ToolTypes
<1>11. Sound(t)'
  <2>1. m' = m /\ args' = args
    BY <1>9 DEF Meant
  <2>2. Placed(t)' /\ Watched(t)'
    BY <1>1, <1>2, <1>9, <1>10, <2>1, DirsAssumption DEF Sound, Placed, Watched, Shells
  <2>3. FileKept(t)'
    <3> SUFFICES ASSUME Undisturbed(t)' PROVE Kept(t, seen[t][m], files[m])'
      BY DEF FileKept
    <3>1. files'[m'] = <<>> /\ call'[t].tool = "write_file" /\ call'[t].args = args
      BY <1>2, <1>6, <1>9, <2>1
    <3> HIDE DEF m, args
    <3>2. QED BY <1>10, <3>1 DEF Kept, Carries, given
  <2>4. QED BY <2>2, <2>3 DEF Sound
<1>12. ASSUME NEW u \in Threads \ {t} PROVE Same(u) /\ Spared(u)
  <2>1. Same(u)
    BY <1>1, <1>2, <1>7, <1>9 DEF ToolTypes, Same
  <2>2. QED BY <1>1, <1>2, <1>4, <1>5, <2>1, WritesSpare
<1>13. QED BY <1>8, <1>11, <1>12, StepOf

LEMMA LoadStep ==
  ASSUME ToolInv, NEW t \in Threads, Load(t) PROVE ToolInv'
<1>1. ToolTypes /\ Sound(t)
  BY DEF ToolInv
<1> DEFINE m == Meant(call[t])
           s == files[m]
           args == call[t].args
<1>2. /\ pc[t] = "entered" /\ call[t].tool = "edit_file" /\ answer[t] = "none"
      /\ target'[t] = m /\ m \in Dirs
      /\ target' \in [Threads -> Dirs \cup {None}] /\ \A u \in Threads \ {t} : target'[u] = target[u]
  BY OpensMeant DEF Load
<1>3. UNCHANGED frame /\ UNCHANGED shell
  BY DEF Load
<1>4. files' = files /\ alone' = alone /\ refused' = refused
  BY DEF Load
<1>5. call' = call /\ override' = override /\ seen' = seen /\ child' = child /\ got' = got
  BY <1>3 DEF frame, shell
<1>6. s \in Seq(Chars) /\ args \in Arguments
  BY <1>1, <1>2 DEF Sound, Placed, ToolTypes, CallType
<1>7. \/ /\ Editable(s, args) /\ Replaced(s, args) \in Seq(Chars)
         /\ text' = [text EXCEPT ![t] = Replaced(s, args)]
         /\ pc' = [pc EXCEPT ![t] = "reopen"] /\ answer' = answer
      \/ /\ pc' = [pc EXCEPT ![t] = "done"] /\ answer' = [answer EXCEPT ![t] = "error"]
         /\ text' = text
  <2>1. \/ /\ Editable(s, args)
           /\ text' = [text EXCEPT ![t] = Replaced(s, args)]
           /\ pc' = [pc EXCEPT ![t] = "reopen"] /\ answer' = answer
        \/ /\ pc' = [pc EXCEPT ![t] = "done"] /\ answer' = [answer EXCEPT ![t] = "error"]
           /\ text' = text
    BY <1>2 DEF Load, Ends
  <2>2. Editable(s, args) => Replaced(s, args) \in Seq(Chars)
    BY <1>6, EditIsExact
  <2>3. QED BY <2>1, <2>2
<1>8. ToolTypes'
  <2>1. pc' \in [Threads -> Labels] /\ text' \in [Threads -> Seq(Chars)]
        /\ answer' \in [Threads -> {"none", "ok", "error", "cut", "exit", "timeout"}]
    <3> DEFINE to == Replaced(s, args)
    <3>1. \/ to \in Seq(Chars) /\ text' = [text EXCEPT ![t] = to]
          \/ text' = text
      BY <1>7
    <3>2. \/ pc' = [pc EXCEPT ![t] = "reopen"] /\ answer' = answer
          \/ pc' = [pc EXCEPT ![t] = "done"] /\ answer' = [answer EXCEPT ![t] = "error"]
      BY <1>7
    <3> HIDE DEF to
    <3>3. text' \in [Threads -> Seq(Chars)]
      BY <1>1, <3>1 DEF ToolTypes
    <3>4. QED BY <1>1, <3>2, <3>3 DEF ToolTypes, Labels
  <2>2. QED BY <1>1, <1>2, <1>3, <1>4, <2>1, FrameTypes, ShellTypes DEF ToolTypes
<1>9. Sound(t)'
  <2>1. m' = m /\ s' = s /\ args' = args
    BY <1>4, <1>5 DEF Meant
  <2>2. \/ pc'[t] = "reopen" /\ answer'[t] = "none" /\ Edited(s, args, text'[t])
        \/ pc'[t] = "done" /\ answer'[t] = "error"
    BY <1>1, <1>2, <1>7 DEF ToolTypes, Edited
  <2>3. Placed(t)' /\ Watched(t)'
    BY <1>1, <1>2, <1>5, <2>1, <2>2, DirsAssumption DEF Sound, Placed, Watched, Shells
  <2>4. FileKept(t)'
    <3> SUFFICES ASSUME Undisturbed(t)' PROVE Kept(t, seen[t][m], files[m])'
      BY DEF FileKept
    <3>1. Undisturbed(t)
      BY <1>2, <1>4, <1>5, <2>1 DEF Undisturbed
    <3>2. s = seen[t][m]
      BY <1>1, <1>2, <3>1 DEF Sound, FileKept, Kept
    <3>3. files'[m'] = s /\ seen'[t][m'] = s /\ call'[t].tool = "edit_file"
          /\ call'[t].args = args
      BY <1>2, <1>4, <1>5, <2>1, <3>2
    <3> HIDE DEF m, s, args
    <3>4. QED BY <2>2, <3>3 DEF Kept, Edited
  <2>5. QED BY <2>3, <2>4 DEF Sound
<1>10. ASSUME NEW u \in Threads \ {t} PROVE Same(u) /\ Spared(u)
  <2>1. Same(u)
    BY <1>1, <1>2, <1>4, <1>5, <1>7 DEF ToolTypes, Same
  <2>2. QED BY <1>4, <2>1, Unwritten
<1>11. QED BY <1>8, <1>9, <1>10, StepOf

\* A tool that has a file open has its caller's.
LEMMA TargetIsMeant ==
  ASSUME ToolInv, NEW t \in Threads, pc[t] \in {"reopen", "put"}
  PROVE  target[t] = Meant(call[t]) /\ Meant(call[t]) \in Dirs /\ answer[t] = "none"
BY DEF ToolInv, ToolTypes, Sound, Placed

LEMMA ReopenStep ==
  ASSUME ToolInv, NEW t \in Threads, Reopen(t) PROVE ToolInv'
<1>1. CASE Fails(t)
  BY <1>1, FailsStep DEF Reopen
<1>2. CASE ~Fails(t)
  <2> DEFINE m == Meant(call[t])
  <2>1. ToolTypes /\ Sound(t)
    BY DEF ToolInv
  <2>2. /\ pc[t] = "reopen" /\ Writes(t, target[t], <<>>) /\ pc' = [pc EXCEPT ![t] = "put"]
        /\ UNCHANGED <<answer, target, text, refused, shell, frame>>
    BY <1>2 DEF Reopen
  <2>3. target[t] = m /\ m \in Dirs /\ answer[t] = "none"
    BY <2>2, TargetIsMeant
  <2>4. UNCHANGED frame /\ UNCHANGED shell
    BY <2>2
  <2>5. <<>> \in Seq(Chars) /\ Writes(t, m, <<>>)
    BY <2>2, <2>3, EmptySeq
  <2>6. /\ files' \in [Dirs -> Seq(Chars)] /\ files'[m] = <<>>
        /\ alone' \in [Threads -> BOOLEAN] /\ alone'[t] = alone[t]
    BY <2>3, <2>5, WritesTypes
  <2>7. ToolTypes'
    <3>1. pc' \in [Threads -> Labels]
      BY <2>1, <2>2 DEF ToolTypes, Labels
    <3>2. QED BY <2>1, <2>2, <2>4, <2>6, <3>1, FrameTypes, ShellTypes DEF ToolTypes
  <2>8. /\ pc'[t] = "put" /\ answer' = answer /\ target' = target /\ text' = text
        /\ refused' = refused /\ call' = call /\ override' = override
        /\ seen' = seen /\ child' = child /\ got' = got
    BY <2>1, <2>2, <2>4 DEF ToolTypes, frame, shell
  <2>9. Sound(t)'
    <3>1. m' = m
      BY <2>8 DEF Meant
    <3>2. Placed(t)' /\ Watched(t)'
      BY <2>1, <2>2, <2>3, <2>8, <3>1, DirsAssumption DEF Sound, Placed, Watched, Shells
    <3>3. FileKept(t)'
      <4> SUFFICES ASSUME Undisturbed(t)' PROVE Kept(t, seen[t][m], files[m])'
        BY DEF FileKept
      <4>1. Undisturbed(t)
        BY <2>2, <2>6, <2>8, <3>1 DEF Undisturbed
      <4>2. call[t].tool = "edit_file" /\ Edited(seen[t][m], call[t].args, text[t])
        BY <2>1, <2>2, <4>1 DEF Sound, FileKept, Kept
      <4>3. files'[m'] = <<>> /\ Edited(seen'[t][m'], call'[t].args, text'[t])
            /\ call'[t].tool = "edit_file"
        BY <2>6, <2>8, <3>1, <4>2
      <4>4. Carries(t, seen[t][m])'
        BY <4>3 DEF Carries, Edited
      <4> HIDE DEF m
      <4>5. QED BY <2>8, <4>3, <4>4 DEF Kept
    <3>4. QED BY <3>2, <3>3 DEF Sound
  <2>10. ASSUME NEW u \in Threads \ {t} PROVE Same(u) /\ Spared(u)
    <3>1. Same(u)
      BY <2>1, <2>2, <2>8 DEF ToolTypes, Same
    <3>2. QED BY <2>1, <2>3, <2>5, <3>1, WritesSpare
  <2>11. QED BY <2>7, <2>9, <2>10, StepOf
<1>3. QED BY <1>1, <1>2

\* A stream that was opened empties the file, and the text is what is in it then.
LEMMA OverlaidIs ==
  ASSUME NEW s \in Seq(Chars), NEW content \in Seq(Chars)
  PROVE  /\ Overlaid(s, content) \in Seq(Chars)
         /\ s = <<>> => Overlaid(s, content) = content
<1> DEFINE R == SubSeq(s, Len(content) + 1, Len(s))
<1>1. Len(s) \in Nat /\ Len(content) \in Nat
  BY LenProperties
<1>2. R \in Seq(Chars)
  <2>1. \A i \in Len(content) + 1 .. Len(s) : s[i] \in Chars
    BY <1>1, ElementOfSeq
  <2>2. QED BY <1>1, <2>1, SubSeqProperties
<1>3. s = <<>> => R = <<>>
  <2> SUFFICES ASSUME s = <<>> PROVE R = <<>>
    OBVIOUS
  <2>1. Len(s) = 0
    BY EmptySeq
  <2>2. Len(content) + 1 \in Int /\ Len(s) \in Int /\ Len(s) < Len(content) + 1
    BY <1>1, <2>1
  <2>3. QED BY <2>2, SubSeqEmpty
<1> HIDE DEF R
<1>4. content \o R \in Seq(Chars) /\ content \o <<>> = content
  BY <1>2, ConcatProperties, ConcatEmptySeq
<1>5. QED BY <1>3, <1>4 DEF Overlaid, R

LEMMA PutStep ==
  ASSUME ToolInv, NEW t \in Threads, Put(t) PROVE ToolInv'
<1> DEFINE m == Meant(call[t])
           content == Overlaid(files[m], text[t])
<1>1. ToolTypes /\ Sound(t)
  BY DEF ToolInv
<1>2. /\ pc[t] = "put" /\ Ends(t, "ok") /\ target[t] = m /\ m \in Dirs
      /\ UNCHANGED <<target, text, shell, frame>>
  BY TargetIsMeant DEF Put
<1>3. UNCHANGED frame /\ UNCHANGED shell
  BY <1>2
<1>4. \/ Writes(t, m, content) /\ refused' = refused
      \/ refused' = [refused EXCEPT ![t] = TRUE] /\ files' = files /\ alone' = alone
  BY <1>2 DEF Put
<1>5. files[m] \in Seq(Chars) /\ text[t] \in Seq(Chars)
  BY <1>1, <1>2 DEF ToolTypes
<1>6. content \in Seq(Chars) /\ (files[m] = <<>> => content = text[t])
  BY <1>5, OverlaidIs
<1> HIDE DEF content
<1>7. /\ files' \in [Dirs -> Seq(Chars)] /\ alone' \in [Threads -> BOOLEAN]
      /\ alone'[t] = alone[t]
  <2>1. CASE Writes(t, m, content)
    BY <1>2, <1>6, <2>1, WritesTypes
  <2>2. CASE files' = files /\ alone' = alone
    BY <1>1, <2>2 DEF ToolTypes
  <2>3. QED BY <1>4, <2>1, <2>2
<1>8. refused' \in [Threads -> BOOLEAN]
  BY <1>1, <1>4, Zenon DEF ToolTypes
<1>9. ToolTypes'
  <2>1. /\ pc' \in [Threads -> Labels]
        /\ answer' \in [Threads -> {"none", "ok", "error", "cut", "exit", "timeout"}]
    BY <1>1, <1>2 DEF Ends, ToolTypes, Labels
  <2>2. QED BY <1>1, <1>2, <1>3, <1>7, <1>8, <2>1, FrameTypes, ShellTypes DEF ToolTypes
<1>10. /\ pc'[t] = "done" /\ answer'[t] = "ok" /\ target' = target /\ text' = text
       /\ call' = call /\ override' = override /\ seen' = seen /\ child' = child /\ got' = got
  BY <1>1, <1>2, <1>3 DEF Ends, ToolTypes, frame, shell
<1>11. m' = m
  BY <1>10 DEF Meant
<1>12. Sound(t)'
  <2>1. Placed(t)' /\ Watched(t)'
    BY <1>1, <1>2, <1>10, <1>11 DEF Sound, Placed, Watched, Shells
  <2>2. FileKept(t)'
    <3> SUFFICES ASSUME Undisturbed(t)', ~refused'[t] PROVE Kept(t, seen[t][m], files[m])'
      BY <1>10 DEF FileKept, Kept
    <3>1. Undisturbed(t)
      BY <1>2, <1>7, <1>10, <1>11 DEF Undisturbed
    <3>2. files[m] = <<>> /\ Carries(t, seen[t][m])
      BY <1>1, <1>2, <3>1 DEF Sound, FileKept, Kept
    <3>3. refused' # [refused EXCEPT ![t] = TRUE]
      BY <1>1, Zenon DEF ToolTypes
    <3>4. Writes(t, m, content)
      BY <1>4, <3>3
    <3>5. files'[m'] = text[t]
      BY <1>2, <1>6, <1>11, <3>2, <3>4, WritesTypes
    <3>6. \/ /\ call'[t].tool = "write_file" /\ IsText(call'[t].args)
             /\ files'[m'] = Given(call'[t].args)
          \/ call'[t].tool = "edit_file" /\ Edited(seen'[t][m'], call'[t].args, files'[m'])
      BY <1>10, <1>11, <3>2, <3>5 DEF Carries
    <3> HIDE DEF m
    <3>7. QED BY <1>10, <3>6 DEF Kept, Edited
  <2>3. QED BY <2>1, <2>2 DEF Sound
<1>13. ASSUME NEW u \in Threads \ {t} PROVE Same(u) /\ Spared(u)
  <2>1. refused'[u] = refused[u]
    BY <1>1, <1>4, Zenon DEF ToolTypes
  <2>2. Same(u)
    BY <1>1, <1>2, <1>10, <2>1 DEF Ends, ToolTypes, Same
  <2>3. CASE Writes(t, m, content)
    BY <1>1, <1>2, <1>6, <2>2, <2>3, WritesSpare
  <2>4. CASE files' = files /\ alone' = alone
    BY <2>2, <2>4, Unwritten
  <2>5. QED BY <1>4, <2>2, <2>3, <2>4
<1>14. QED BY <1>9, <1>12, <1>13, StepOf

\* A step of exec_shell_command, or of its child: what t is like behind it.
Becomes(t, label, says, dir, c, read) ==
  /\ pc' = [pc EXCEPT ![t] = label] /\ answer' = [answer EXCEPT ![t] = says]
  /\ target' = [target EXCEPT ![t] = dir]
  /\ child' = [child EXCEPT ![t] = c] /\ got' = [got EXCEPT ![t] = read]
  /\ UNCHANGED files_

\* It ends with an answer, or goes on without one; nothing else of it moves.
GoesOn(t, label, says, dir) ==
  \/ label = pc[t] /\ says = answer[t] /\ dir = target[t]
  \/ /\ pc[t] \in Shells \cup {"entered", "pclose"} /\ dir \in {None, Meant(call[t])}
     /\ \/ label \in Shells \cup {"pclose"} /\ says = "none"
        \/ label = "done" /\ says \in {"error", "cut", "exit", "timeout"}

IsTrueOf(label, says, c, read) ==
  /\ read <= c.written /\ c.last <= c.written
  /\ label \in Shells => read <= Cap
  /\ label = "drain" => c.state = "exited"
  /\ label = "pclose" => read > Cap \/ (c.state = "exited" /\ read >= c.last)
  /\ says = "exit" => c.state = "exited" /\ (read >= c.last \/ read > Cap)
  /\ says = "timeout" => c.state # "running"
  /\ says = "cut" => read > Cap

LEMMA ShellStep ==
  ASSUME ToolInv, NEW t \in Threads, NEW label \in Labels \ {"entered"}, NEW says,
         NEW dir \in Dirs \cup {None}, NEW c \in ChildType, NEW read \in 0 .. Cap + 1,
         pc[t] # "idle", due' \in [Threads -> BOOLEAN],
         Becomes(t, label, says, dir, c, read), GoesOn(t, label, says, dir),
         IsTrueOf(label, says, c, read)
  PROVE  ToolInv'
<1>1. ToolTypes /\ Sound(t)
  BY DEF ToolInv
<1>2. UNCHANGED frame /\ files' = files /\ text' = text /\ alone' = alone /\ refused' = refused
  BY DEF Becomes, files_
<1>3. says \in {"none", "ok", "error", "cut", "exit", "timeout"}
  BY <1>1 DEF GoesOn, ToolTypes
<1>4. ToolTypes'
  <2>1. pc' \in [Threads -> Labels] /\ target' \in [Threads -> Dirs \cup {None}]
    BY <1>1 DEF Becomes, ToolTypes
  <2>2. answer' \in [Threads -> {"none", "ok", "error", "cut", "exit", "timeout"}]
    BY <1>1, <1>3 DEF Becomes, ToolTypes
  <2>3. child' \in [Threads -> ChildType]
    BY <1>1 DEF Becomes, ToolTypes
  <2>4. got' \in [Threads -> 0 .. Cap + 1]
    BY <1>1 DEF Becomes, ToolTypes
  <2>5. QED BY <1>1, <1>2, <2>1, <2>2, <2>3, <2>4, FrameTypes DEF ToolTypes
<1>5. /\ pc'[t] = label /\ answer'[t] = says /\ target'[t] = dir /\ child'[t] = c /\ got'[t] = read
      /\ call' = call /\ override' = override /\ seen' = seen
  BY <1>1, <1>2 DEF Becomes, ToolTypes, frame
<1>6. Sound(t)'
  <2>1. Meant(call[t])' = Meant(call[t])
    BY <1>5 DEF Meant
  <2>2. Placed(t)'
    BY <1>1, <1>5, <2>1 DEF Sound, Placed, GoesOn, Shells
  <2>3. Watched(t)'
    BY <1>5 DEF Watched, IsTrueOf
  <2>4. FileKept(t)'
    <3> DEFINE m == Meant(call[t])
    <3> SUFFICES ASSUME Undisturbed(t)' PROVE Kept(t, seen[t][m], files[m])'
      BY DEF FileKept
    <3>1. Undisturbed(t)
      BY <1>2, <1>5, <2>1 DEF Undisturbed
    <3>2. Kept(t, seen[t][m], files[m])
      BY <1>1, <3>1 DEF Sound, FileKept
    <3> DEFINE w == seen[t][m]
               i == files[m]
    <3>3. w' = w /\ i' = i
      BY <1>2, <1>5, <2>1
    <3> HIDE DEF m, w, i
    <3>4. Kept(t, w, i) => Kept(t, w, i)'
      <4>1. CASE label = pc[t] /\ says = answer[t]
        BY <1>2, <1>5, <3>3, <4>1 DEF Kept, Carries, Edited
      <4>2. CASE /\ pc[t] \in Shells \cup {"entered", "pclose"}
                 /\ \/ label \in Shells \cup {"pclose"}
                    \/ label = "done" /\ says \in {"error", "cut", "exit", "timeout"}
        <5>1. Kept(t, w, i) => i = w
          BY <4>2 DEF Kept, Shells
        <5>2. i' = w' => Kept(t, w, i)'
          BY <1>5, <4>2 DEF Kept, Shells
        <5>3. QED BY <3>3, <5>1, <5>2
      <4>3. QED BY <4>1, <4>2 DEF GoesOn
    <3>5. QED BY <3>2, <3>4 DEF w, i
  <2>5. QED BY <2>2, <2>3, <2>4 DEF Sound
<1>7. ASSUME NEW u \in Threads \ {t} PROVE Same(u) /\ Spared(u)
  <2>1. Same(u)
    BY <1>1, <1>2, <1>5 DEF Becomes, ToolTypes, Same
  <2>2. QED BY <1>2, <2>1, Unwritten
<1>8. QED BY <1>4, <1>6, <1>7, StepOf

\* The state of a call inside exec_shell_command.
LEMMA InShell ==
  ASSUME ToolInv, NEW t \in Threads
  PROVE  /\ child[t] \in ChildType /\ got[t] \in 0 .. Cap + 1 /\ target[t] \in Dirs \cup {None}
         /\ pc[t] \in Labels /\ target[t] \in {None, Meant(call[t])}
         /\ child[t].written \in Nat /\ got[t] \in Nat /\ Cap \in Nat /\ MaxOut \in Nat
         /\ got[t] <= child[t].written /\ child[t].last \in Nat
         /\ child[t].last <= child[t].written
         /\ pc[t] \in Shells \cup {"pclose"} => answer[t] = "none"
         /\ pc[t] \in Shells => got[t] <= Cap
         /\ child[t].state # "none" => pc[t] \notin {"idle", "entered"}
         /\ pc' = pc => pc' = [pc EXCEPT ![t] = pc[t]]
         /\ answer' = answer => answer' = [answer EXCEPT ![t] = answer[t]]
         /\ target' = target => target' = [target EXCEPT ![t] = target[t]]
         /\ child' = child => child' = [child EXCEPT ![t] = child[t]]
         /\ got' = got => got' = [got EXCEPT ![t] = got[t]]
         /\ due' = due => due' \in [Threads -> BOOLEAN]
<1>1. ToolTypes /\ Sound(t)
  BY DEF ToolInv
<1>2. Cap \in Nat /\ MaxOut \in Nat
  BY CapAssumption
<1>3. child[t] \in ChildType /\ got[t] \in 0 .. Cap + 1 /\ target[t] \in Dirs \cup {None}
      /\ pc[t] \in Labels
  BY <1>1 DEF ToolTypes
<1>4. child[t].written \in Nat /\ got[t] \in Nat /\ child[t].last \in Nat
  BY <1>2, <1>3 DEF ChildType
<1>5. /\ target[t] \in {None, Meant(call[t])} /\ got[t] <= child[t].written
      /\ child[t].last <= child[t].written
      /\ pc[t] \in Shells \cup {"pclose"} => answer[t] = "none"
      /\ pc[t] \in Shells => got[t] <= Cap
      /\ child[t].state # "none" => pc[t] \notin {"idle", "entered"}
  BY <1>1 DEF Sound, Placed, Watched, NoChild, Shells
<1>6. /\ pc' = pc => pc' = [pc EXCEPT ![t] = pc[t]]
      /\ answer' = answer => answer' = [answer EXCEPT ![t] = answer[t]]
      /\ target' = target => target' = [target EXCEPT ![t] = target[t]]
      /\ child' = child => child' = [child EXCEPT ![t] = child[t]]
      /\ got' = got => got' = [got EXCEPT ![t] = got[t]]
  BY <1>1 DEF ToolTypes
<1>7. due' = due => due' \in [Threads -> BOOLEAN]
  BY <1>1 DEF ToolTypes
<1>8. QED BY <1>2, <1>3, <1>4, <1>5, <1>6, <1>7

LEMMA SpawnStep ==
  ASSUME ToolInv, NEW t \in Threads, Spawn(t) PROVE ToolInv'
<1>1. /\ pc[t] = "entered" /\ call[t].tool = "exec_shell_command" /\ got' = got /\ due' = due
      /\ UNCHANGED files_
  BY DEF Spawn, Entered
<1>2. call[t].path = None /\ child[t] = NoChild /\ got[t] = 0 /\ target[t] = None
      /\ answer[t] = "none"
  BY <1>1 DEF ToolInv, Sound, Placed
<1>3. eff_root(t) = Meant(call[t]) /\ eff_root(t) \in Dirs
  BY <1>1, <1>2, ResolvesToMeant
<1>4. 0 \in 0 .. Cap + 1 /\ 0 \in 0 .. MaxOut /\ 0 <= Cap
  BY CapAssumption
<1> DEFINE running == [child[t] EXCEPT !.state = "running"]
<1>5. running \in ChildType /\ running.written = 0 /\ running.last = 0
  <2>1. child[t] \in ChildType
    BY InShell
  <2>2. running \in ChildType /\ running.written = child[t].written /\ running.last = child[t].last
    BY <2>1 DEF ChildType
  <2>3. NoChild.written = 0 /\ NoChild.last = 0
    BY DEF NoChild
  <2>4. QED BY <1>2, <2>2, <2>3
<1>6. \A branch \in {"peek", "gets"} :
        /\ branch \in Labels \ {"entered"} /\ GoesOn(t, branch, "none", eff_root(t))
        /\ IsTrueOf(branch, "none", running, 0)
  BY <1>1, <1>3, <1>4, <1>5 DEF Labels, Shells, GoesOn, IsTrueOf
<1>7. "done" \in Labels \ {"entered"} /\ GoesOn(t, "done", "error", None)
      /\ IsTrueOf("done", "error", NoChild, 0)
  BY <1>1, <1>4 DEF Labels, Shells, GoesOn, IsTrueOf, NoChild
<1>8. CASE target' = [target EXCEPT ![t] = eff_root(t)]
           /\ child' = [child EXCEPT ![t].state = "running"]
           /\ \E branch \in {"peek", "gets"} : Goto(t, branch)
  <2>1. PICK branch \in {"peek", "gets"} : Goto(t, branch)
    BY <1>8
  <2>2. child' = [child EXCEPT ![t] = running]
    BY <1>8
  <2>3. Becomes(t, branch, "none", eff_root(t), running, 0)
    <3> HIDE DEF running
    <3>1. QED BY <1>1, <1>2, <1>8, <2>1, <2>2, InShell DEF Becomes, Goto
  <2> HIDE DEF running
  <2>4. QED BY <1>1, <1>3, <1>4, <1>5, <1>6, <2>3, InShell, ShellStep
<1>9. CASE Ends(t, "error") /\ UNCHANGED <<target, child>>
  <2>1. Becomes(t, "done", "error", None, NoChild, 0)
    BY <1>1, <1>2, <1>9, InShell DEF Becomes, Ends
  <2>2. NoChild \in ChildType
    BY <1>4 DEF NoChild, ChildType
  <2>3. QED BY <1>1, <1>4, <1>7, <2>1, <2>2, InShell, ShellStep
<1>10. QED BY <1>8, <1>9 DEF Spawn

LEMMA ChildWritesStep ==
  ASSUME ToolInv, NEW t \in Threads, ChildWrites(t) PROVE ToolInv'
<1> DEFINE c == [child[t] EXCEPT !.written = @ + 1]
<1>1. /\ pc[t] \in Shells /\ child[t].written < MaxOut
      /\ child' = [child EXCEPT ![t] = c]
      /\ UNCHANGED <<pc, answer, target, got, due, files_>>
  BY DEF ChildWrites, Shells
<1>2. /\ c \in ChildType /\ c.state = child[t].state /\ c.last = child[t].last
      /\ c.written = child[t].written + 1
  <2>1. child[t] \in ChildType /\ child[t].written \in Nat /\ MaxOut \in Nat
    BY InShell
  <2>2. child[t].written + 1 \in 0 .. MaxOut
    BY <1>1, <2>1
  <2>3. QED BY <1>1, <2>1, <2>2 DEF ChildType
<1> HIDE DEF c
<1>3. Becomes(t, pc[t], answer[t], target[t], c, got[t])
  BY <1>1, InShell DEF Becomes
<1>4. IsTrueOf(pc[t], answer[t], c, got[t])
  <2>1. Watched(t)
    BY DEF ToolInv, Sound
  <2>2. got[t] <= c.written /\ c.last <= c.written
    <3>1. /\ child[t].written \in Nat /\ got[t] \in Nat /\ got[t] <= child[t].written
          /\ child[t].last \in Nat /\ child[t].last <= child[t].written
      BY InShell
    <3>2. QED BY <1>2, <3>1
  <2>3. QED BY <1>2, <2>1, <2>2 DEF IsTrueOf, Watched
<1>5. GoesOn(t, pc[t], answer[t], target[t]) /\ pc[t] \in Labels \ {"entered"} /\ pc[t] # "idle"
  BY <1>1, InShell DEF GoesOn, Shells
<1>6. QED BY <1>1, <1>2, <1>3, <1>4, <1>5, InShell, ShellStep

LEMMA ChildExitsStep ==
  ASSUME ToolInv, NEW t \in Threads, ChildExits(t) PROVE ToolInv'
<1>1. PICK left \in BOOLEAN :
        /\ child[t].state = "running" /\ child' = [child EXCEPT ![t] = Gone(child[t], "exited", left)]
        /\ UNCHANGED <<pc, answer, target, got, due, files_>>
  BY DEF ChildExits
<1> DEFINE c == Gone(child[t], "exited", left)
<1>2. c \in ChildType /\ c.state = "exited" /\ c.written = child[t].written /\ c.last = c.written
  BY InShell DEF ChildType, Gone
<1> HIDE DEF c
<1>3. Becomes(t, pc[t], answer[t], target[t], c, got[t])
  BY <1>1, InShell DEF Becomes, c
<1>4. IsTrueOf(pc[t], answer[t], c, got[t])
  <2>1. Watched(t)
    BY DEF ToolInv, Sound
  <2>2. c.last <= c.written
    BY <1>2, InShell
  <2>3. QED BY <1>1, <1>2, <2>1, <2>2, InShell DEF IsTrueOf, Watched
<1>5. GoesOn(t, pc[t], answer[t], target[t]) /\ pc[t] \in Labels \ {"entered"} /\ pc[t] # "idle"
  BY <1>1, InShell DEF GoesOn
<1>6. QED BY <1>1, <1>2, <1>3, <1>4, <1>5, InShell, ShellStep

LEMMA CommandEndsStep ==
  ASSUME ToolInv, NEW t \in Threads, CommandEnds(t) PROVE ToolInv'
<1> DEFINE c == [child[t] EXCEPT !.behind = FALSE]
<1>1. /\ child[t].behind /\ child' = [child EXCEPT ![t] = c]
      /\ UNCHANGED <<pc, answer, target, got, due, files_>>
  BY DEF CommandEnds
<1>2. /\ c \in ChildType /\ c.state = child[t].state /\ c.last = child[t].last
      /\ c.written = child[t].written
  BY InShell DEF ChildType
<1> HIDE DEF c
<1>3. Becomes(t, pc[t], answer[t], target[t], c, got[t])
  BY <1>1, InShell DEF Becomes
<1>4. IsTrueOf(pc[t], answer[t], c, got[t])
  BY <1>2 DEF IsTrueOf, Watched, ToolInv, Sound
<1>5. GoesOn(t, pc[t], answer[t], target[t]) /\ pc[t] \in Labels \ {"entered"} /\ pc[t] # "idle"
  <2>1. child[t] # NoChild
    BY <1>1 DEF NoChild
  <2>2. pc[t] \notin {"idle", "entered"}
    BY <2>1 DEF ToolInv, Sound, Placed
  <2>3. QED BY <2>2, InShell DEF GoesOn
<1>6. QED BY <1>1, <1>2, <1>3, <1>4, <1>5, InShell, ShellStep

LEMMA DeadlinePassesStep ==
  ASSUME ToolInv, NEW t \in Threads, DeadlinePasses(t) PROVE ToolInv'
<1>1. /\ pc[t] \in Shells /\ UNCHANGED <<pc, answer, target, child, got, files_>>
      /\ due' = [due EXCEPT ![t] = TRUE]
  BY DEF DeadlinePasses, Shells
<1>2. due' \in [Threads -> BOOLEAN]
  <2>1. due \in [Threads -> BOOLEAN]
    BY DEF ToolInv, ToolTypes
  <2>2. QED BY <1>1, <2>1, Zenon
<1>3. Becomes(t, pc[t], answer[t], target[t], child[t], got[t])
  BY <1>1, InShell DEF Becomes
<1>4. IsTrueOf(pc[t], answer[t], child[t], got[t])
  BY DEF IsTrueOf, Watched, ToolInv, Sound
<1>5. GoesOn(t, pc[t], answer[t], target[t]) /\ pc[t] \in Labels \ {"entered"} /\ pc[t] # "idle"
  BY <1>1, InShell DEF GoesOn, Shells
<1>6. QED BY <1>2, <1>3, <1>4, <1>5, InShell, ShellStep

\* The steps of the thread that watch a child and leave it as it is, except that
\* the deadline may have it killed.
LEMMA WatchStep ==
  ASSUME ToolInv, NEW t \in Threads, NEW label \in Shells \cup {"pclose", "done"}, NEW says,
         NEW c \in ChildType, NEW read \in 0 .. Cap + 1,
         pc[t] \in Shells \cup {"pclose"}, UNCHANGED <<target, due, files_>>,
         pc' = [pc EXCEPT ![t] = label], answer' = [answer EXCEPT ![t] = says],
         child' = [child EXCEPT ![t] = c], got' = [got EXCEPT ![t] = read],
         IF label = "done" THEN says \in {"cut", "exit", "timeout"} ELSE says = "none",
         IsTrueOf(label, says, c, read)
  PROVE  ToolInv'
<1>1. Becomes(t, label, says, target[t], c, read)
  BY InShell DEF Becomes
<1>2. GoesOn(t, label, says, target[t])
  BY InShell DEF GoesOn
<1>3. label \in Labels \ {"entered"} /\ pc[t] # "idle"
  BY DEF Labels, Shells
<1>4. due' \in [Threads -> BOOLEAN]
  BY InShell
<1>5. QED BY <1>1, <1>2, <1>3, <1>4, InShell, ShellStep

LEMMA PeekStep ==
  ASSUME ToolInv, NEW t \in Threads, Peek(t) PROVE ToolInv'
<1>1. /\ pc[t] = "peek" /\ pc[t] \in Shells /\ UNCHANGED <<target, due, files_>> /\ child' = child
      /\ answer[t] = "none" /\ got[t] <= Cap /\ got[t] \in Nat /\ Cap \in Nat
      /\ child[t].written \in Nat /\ got[t] <= child[t].written /\ child[t] \in ChildType
      /\ child[t].last <= child[t].written
      /\ child' = [child EXCEPT ![t] = child[t]] /\ got[t] \in 0 .. Cap + 1
  BY InShell DEF Peek, Shells
<1>2. CASE Unread(t) > 0 /\ Takes(t, 1)
           /\ IF got[t] + 1 > Cap THEN Ends(t, "cut") ELSE UNCHANGED <<pc, answer>>
  <2> DEFINE g == got[t] + 1
  <2>1. g \in 0 .. Cap + 1 /\ g <= child[t].written
    BY <1>1, <1>2 DEF Unread
  <2>2. got' = [got EXCEPT ![t] = g]
    BY <1>2 DEF Takes
  <2>3. \/ g > Cap /\ pc' = [pc EXCEPT ![t] = "done"] /\ answer' = [answer EXCEPT ![t] = "cut"]
        \/ g <= Cap /\ pc' = [pc EXCEPT ![t] = "peek"] /\ answer' = [answer EXCEPT ![t] = "none"]
    BY <1>1, <1>2, InShell DEF Ends
  <2>4. /\ g > Cap => IsTrueOf("done", "cut", child[t], g)
        /\ g <= Cap => IsTrueOf("peek", "none", child[t], g)
    BY <1>1, <2>1 DEF IsTrueOf, Shells
  <2> HIDE DEF g
  <2>5. "peek" \in Shells \cup {"pclose", "done"} /\ "done" \in Shells \cup {"pclose", "done"}
    BY DEF Shells
  <2>6. QED BY <1>1, <2>1, <2>2, <2>3, <2>4, <2>5, WatchStep
<1>3. CASE Goto(t, "wait") /\ UNCHANGED got
  <2>1. IsTrueOf("wait", "none", child[t], got[t])
    BY <1>1 DEF IsTrueOf, Shells
  <2>2. got' = [got EXCEPT ![t] = got[t]] /\ answer' = [answer EXCEPT ![t] = "none"]
        /\ pc' = [pc EXCEPT ![t] = "wait"] /\ "wait" \in Shells \cup {"pclose", "done"}
    BY <1>1, <1>3, InShell DEF Goto, Shells
  <2>3. QED BY <1>1, <2>1, <2>2, WatchStep
<1>4. QED BY <1>2, <1>3 DEF Peek

LEMMA WaitStep ==
  ASSUME ToolInv, NEW t \in Threads, Wait(t) PROVE ToolInv'
<1> DEFINE l == IF child[t].state = "exited" THEN "drain" ELSE "late"
<1>1. /\ pc[t] = "wait" /\ Goto(t, l) /\ UNCHANGED <<target, child, got, due, files_>>
  BY DEF Wait
<1>2. l \in Shells \cup {"pclose", "done"} /\ l # "done" /\ pc[t] \in Shells
  BY <1>1 DEF Shells
<1>3. IsTrueOf(l, "none", child[t], got[t])
  BY <1>2, InShell DEF IsTrueOf
<1> HIDE DEF l
<1>4. /\ pc' = [pc EXCEPT ![t] = l] /\ answer' = [answer EXCEPT ![t] = "none"]
      /\ child' = [child EXCEPT ![t] = child[t]] /\ got' = [got EXCEPT ![t] = got[t]]
      /\ child[t] \in ChildType /\ got[t] \in 0 .. Cap + 1
  BY <1>1, <1>2, InShell DEF Goto
<1>5. UNCHANGED <<target, due, files_>> /\ pc[t] \in Shells \cup {"pclose"}
  BY <1>1, <1>2
<1>6. QED BY <1>2, <1>3, <1>4, <1>5, WatchStep

LEMMA LateStep ==
  ASSUME ToolInv, NEW t \in Threads, Late(t) PROVE ToolInv'
<1>1. /\ pc[t] = "late" /\ pc[t] \in Shells /\ UNCHANGED <<target, got, due, files_>>
      /\ answer[t] = "none" /\ got[t] <= Cap /\ got[t] <= child[t].written
      /\ child[t].last <= child[t].written /\ child[t].written \in Nat
      /\ child[t] \in ChildType /\ got[t] \in 0 .. Cap + 1 /\ got' = [got EXCEPT ![t] = got[t]]
  BY InShell DEF Late, Shells
<1>2. "peek" \in Shells \cup {"pclose", "done"} /\ "done" \in Shells \cup {"pclose", "done"}
  BY DEF Shells
<1>3. CASE due[t]
  <2>1. PICK c \in ChildType : /\ child' = [child EXCEPT ![t] = c] /\ c.state # "running"
                               /\ c.written = child[t].written /\ c.last <= c.written
    <3>1. CASE child[t].state # "running"
      <4>1. child' = [child EXCEPT ![t] = child[t]]
        BY <1>3, <3>1, InShell DEF Late
      <4>2. QED BY <1>1, <3>1, <4>1
    <3>2. CASE child[t].state = "running"
      <4>1. PICK left \in BOOLEAN : child' = [child EXCEPT ![t] = Gone(child[t], "killed", left)]
        BY <1>3, <3>2 DEF Late
      <4> DEFINE c == Gone(child[t], "killed", left)
      <4>2. /\ c \in ChildType /\ c.state = "killed" /\ c.written = child[t].written
            /\ c.last = c.written
        BY <1>1 DEF ChildType, Gone
      <4>3. child' = [child EXCEPT ![t] = c]
        BY <4>1
      <4> HIDE DEF c
      <4>4. c.state # "running" /\ c.last <= c.written
        BY <1>1, <4>2
      <4>5. QED BY <4>2, <4>3, <4>4
    <3>3. QED BY <3>1, <3>2
  <2>2. Ends(t, "timeout")
    BY <1>3 DEF Late
  <2>3. IsTrueOf("done", "timeout", c, got[t])
    BY <1>1, <2>1 DEF IsTrueOf, Shells
  <2>4. QED BY <1>1, <1>2, <2>1, <2>2, <2>3, WatchStep DEF Ends
<1>4. CASE ~due[t]
  <2>1. child' = [child EXCEPT ![t] = child[t]] /\ Goto(t, "peek")
    BY <1>4, InShell DEF Late
  <2>2. answer' = [answer EXCEPT ![t] = "none"] /\ pc' = [pc EXCEPT ![t] = "peek"]
    BY <1>1, <2>1, InShell DEF Goto
  <2>3. IsTrueOf("peek", "none", child[t], got[t])
    BY <1>1 DEF IsTrueOf, Shells
  <2>4. QED BY <1>1, <1>2, <2>1, <2>2, <2>3, WatchStep
<1>5. QED BY <1>3, <1>4

LEMMA DrainStep ==
  ASSUME ToolInv, NEW t \in Threads, Drain(t) PROVE ToolInv'
<1>1. /\ pc[t] = "drain" /\ pc[t] \in Shells /\ UNCHANGED <<target, due, files_>>
      /\ answer[t] = "none" /\ got[t] <= Cap /\ got[t] <= child[t].written
      /\ got[t] \in Nat /\ Cap \in Nat /\ child[t].written \in Nat
      /\ child[t].last \in Nat /\ child[t].last <= child[t].written
      /\ child[t] \in ChildType /\ child' = [child EXCEPT ![t] = child[t]]
  BY InShell DEF Drain, Shells
<1>2. child[t].state = "exited"
  BY <1>1 DEF ToolInv, Sound, Watched
<1> DEFINE g == got[t] + Min({Unread(t), Cap + 1 - got[t]})
<1>3. g \in 0 .. Cap + 1 /\ g <= child[t].written /\ (g >= child[t].last \/ g > Cap)
  <2>1. Unread(t) \in Int /\ Cap + 1 - got[t] \in Int
    BY <1>1 DEF Unread
  <2>2. Min({Unread(t), Cap + 1 - got[t]})
          = IF Unread(t) <= Cap + 1 - got[t] THEN Unread(t) ELSE Cap + 1 - got[t]
    BY <2>1, MinOfTwo
  <2>3. QED BY <1>1, <2>2 DEF Unread
<1>4. got' = [got EXCEPT ![t] = g] /\ Ends(t, "exit")
  BY DEF Drain, Takes
<1> HIDE DEF g
<1>5. IsTrueOf("done", "exit", child[t], g) /\ "done" \in Shells \cup {"pclose", "done"}
  BY <1>1, <1>2, <1>3 DEF IsTrueOf, Shells
<1>6. QED BY <1>1, <1>3, <1>4, <1>5, WatchStep DEF Ends

LEMMA GetsStep ==
  ASSUME ToolInv, NEW t \in Threads, Gets(t) PROVE ToolInv'
<1>1. /\ pc[t] = "gets" /\ pc[t] \in Shells /\ UNCHANGED <<target, due, files_>>
      /\ answer[t] = "none" /\ got[t] <= Cap /\ got[t] <= child[t].written
      /\ got[t] \in Nat /\ Cap \in Nat /\ child[t].written \in Nat /\ got[t] \in 0 .. Cap + 1
      /\ child[t].last \in Nat /\ child[t].last <= child[t].written
      /\ child[t] \in ChildType /\ child' = [child EXCEPT ![t] = child[t]]
  BY InShell DEF Gets, Shells
<1>2. "gets" \in Shells \cup {"pclose", "done"} /\ "pclose" \in Shells \cup {"pclose", "done"}
  BY DEF Shells
<1>3. CASE Unread(t) > 0 /\ Takes(t, 1)
           /\ IF got[t] + 1 > Cap THEN Goto(t, "pclose") ELSE UNCHANGED <<pc, answer>>
  <2> DEFINE g == got[t] + 1
  <2>1. g \in 0 .. Cap + 1 /\ g <= child[t].written
    BY <1>1, <1>3 DEF Unread
  <2>2. got' = [got EXCEPT ![t] = g]
    BY <1>3 DEF Takes
  <2>3. \/ g > Cap /\ pc' = [pc EXCEPT ![t] = "pclose"] /\ answer' = [answer EXCEPT ![t] = "none"]
        \/ g <= Cap /\ pc' = [pc EXCEPT ![t] = "gets"] /\ answer' = [answer EXCEPT ![t] = "none"]
    BY <1>1, <1>3, InShell DEF Goto
  <2>4. /\ g > Cap => IsTrueOf("pclose", "none", child[t], g)
        /\ g <= Cap => IsTrueOf("gets", "none", child[t], g)
    BY <1>1, <2>1 DEF IsTrueOf, Shells
  <2> HIDE DEF g
  <2>5. QED BY <1>1, <1>2, <2>1, <2>2, <2>3, <2>4, WatchStep
<1>4. CASE Unread(t) = 0 /\ child[t].state = "exited" /\ Goto(t, "pclose") /\ UNCHANGED got
  <2>1. got[t] >= child[t].last
    BY <1>1, <1>4 DEF Unread
  <2>2. IsTrueOf("pclose", "none", child[t], got[t])
    BY <1>1, <1>4, <2>1 DEF IsTrueOf, Shells
  <2>3. got' = [got EXCEPT ![t] = got[t]] /\ answer' = [answer EXCEPT ![t] = "none"]
        /\ pc' = [pc EXCEPT ![t] = "pclose"]
    BY <1>1, <1>4, InShell DEF Goto
  <2>4. QED BY <1>1, <1>2, <2>2, <2>3, WatchStep
<1>5. QED BY <1>3, <1>4 DEF Gets

LEMMA PcloseStep ==
  ASSUME ToolInv, NEW t \in Threads, pclose(t) PROVE ToolInv'
<1>1. /\ pc[t] = "pclose" /\ child[t].state = "exited" /\ Ends(t, "exit")
      /\ UNCHANGED <<target, child, got, due, files_>>
  BY DEF pclose
<1>2. got[t] > Cap \/ got[t] >= child[t].last
  BY <1>1 DEF ToolInv, Sound, Watched
<1>3. /\ child' = [child EXCEPT ![t] = child[t]] /\ got' = [got EXCEPT ![t] = got[t]]
      /\ child[t] \in ChildType /\ got[t] \in 0 .. Cap + 1 /\ got[t] <= child[t].written
      /\ child[t].last <= child[t].written
  BY <1>1, InShell
<1>4. IsTrueOf("done", "exit", child[t], got[t])
  BY <1>1, <1>2, <1>3 DEF IsTrueOf, Shells
<1>5. /\ UNCHANGED <<target, due, files_>> /\ pc[t] \in Shells \cup {"pclose"}
      /\ "done" \in Shells \cup {"pclose", "done"}
      /\ pc' = [pc EXCEPT ![t] = "done"] /\ answer' = [answer EXCEPT ![t] = "exit"]
  BY <1>1 DEF Ends
<1>6. QED BY <1>3, <1>4, <1>5, WatchStep

\* Every step of a built-in tool, of its child and of the clock.
LEMMA ToolStep ==
  ASSUME ToolInv, NEW t \in Threads,
         Tool(t) \/ ChildWrites(t) \/ ChildExits(t) \/ CommandEnds(t) \/ DeadlinePasses(t)
  PROVE  ToolInv'
BY GetDatetimeStep, CannotOpenStep, ReadFileStep, TruncateStep, LoadStep, ReopenStep, PutStep,
   SpawnStep, PeekStep, WaitStep, LateStep, DrainStep, GetsStep, PcloseStep, ChildWritesStep,
   ChildExitsStep, CommandEndsStep, DeadlinePassesStep
   DEF Tool, t_shell

LEMMA SoundIsExact == ToolInv => ToolTypeOK /\ ToolIsExact /\ ShellAnswerIsTrue
<1> SUFFICES ASSUME ToolInv PROVE ToolTypeOK /\ ToolIsExact /\ ShellAnswerIsTrue
  OBVIOUS
<1>1. ToolTypeOK
  <2>1. ASSUME NEW t \in Threads
        PROVE  call[t].tool \in Tools \cup {"none"} /\ child[t].written \in 0 .. MaxOut
    BY DEF ToolInv, ToolTypes, CallType, NoCall, ChildType
  <2>2. QED BY <2>1 DEF ToolInv, ToolTypes, ToolTypeOK
<1>2. InItsOwnRoot /\ ShellAnswerIsTrue
  BY DEF ToolInv, Sound, Placed, Watched, InItsOwnRoot, ShellAnswerIsTrue
<1>3. LoneToolIsExact
  <2> SUFFICES ASSUME NEW t \in Threads, pc[t] = "done", alone[t], ~refused[t],
                      Meant(call[t]) \in Dirs
               PROVE  LET c == call[t]  was == seen[t][Meant(c)]  is == files[Meant(c)] IN
                      CASE c.tool = "write_file" /\ answer[t] = "ok" ->
                             IsText(c.args) /\ is = Given(c.args)
                        [] c.tool = "write_file" /\ answer[t] # "ok" /\ ~IsText(c.args) ->
                             is \in {was, <<>>}
                        [] c.tool = "edit_file" /\ answer[t] = "ok" ->
                             c.args.old # <<>> /\ \E k \in 0 .. Len(was) :
                               /\ At(was, k, c.args.old)
                               /\ \A l \in 0 .. Len(was) : At(was, l, c.args.old) => l = k
                               /\ is = Split(was, k, Len(c.args.old), c.args.new)
                        [] c.tool = "read_file" /\ answer[t] = "ok" -> is = was /\ text[t] = was
                        [] OTHER -> is = was
    BY DEF LoneToolIsExact, At, Split
  <2> DEFINE was == seen[t][Meant(call[t])]
             is == files[Meant(call[t])]
  <2>1. Kept(t, was, is)
    BY DEF ToolInv, Sound, FileKept, Undisturbed
  <2>2. was \in Seq(Chars) /\ call[t].args \in Arguments
    BY DEF ToolInv, ToolTypes, Sound, Placed, CallType
  <2> HIDE DEF was, is
  <2>3. Edited(was, call[t].args, is) =>
          call[t].args.old # <<>> /\ \E k \in 0 .. Len(was) :
            /\ At(was, k, call[t].args.old)
            /\ \A l \in 0 .. Len(was) : At(was, l, call[t].args.old) => l = k
            /\ is = Split(was, k, Len(call[t].args.old), call[t].args.new)
    BY <2>2, EditIsExact DEF Edited
  <2>4. QED BY <2>1, <2>3 DEF Kept, was, is
<1>4. QED BY <1>1, <1>2, <1>3 DEF ToolIsExact

(* --------------------------------- the loop ------------------------------- *)
BlockType == [form : {"json", "compact", "xml", "hermes"}, name : STRING, args : Arguments]

CallRecord == [name : STRING, args : Arguments, block : Nat]

Message == [role : {"assistant"}, calls : Seq(CallRecord)] \cup [role : {"tool"}, call : CallRecord]

Working == {"parse", "repair", "append", "call", "tool"}

LoopTypes ==
  /\ phase \in {"idle", "render"} \cup Working
  /\ step \in 0 .. MaxSteps /\ (phase \in Working => step < MaxSteps)
  /\ cwd \in Dirs \cup {None, Missing} /\ gen \in Texts \cup {<<>>}
  /\ (phase = "parse" => gen \in Texts)
  /\ calls \in Seq(CallRecord) /\ next \in Nat /\ transcript \in Seq(Message)
  /\ reason \in {"none", "stop", "length", "error"}
  /\ lost \subseteq Nat /\ nudged \in BOOLEAN /\ direct \in 0 .. MaxCalls

Questioned ==
  phase \in {"append", "call", "tool"} =>
    \/ nudged \/ \E k \in DOMAIN calls : HasArgs(calls[k])
    \/ phase = "append" /\ calls = <<>>

\* The answers in the transcript, and the message whose calls are being executed.
Answers == {k \in DOMAIN transcript : transcript[k].role = "tool"}
Executed == phase \in {"call", "tool"}
OpenAt == Len(transcript) - next + 1

\* Message a opens the answers up to k.
Opens_(a, k) == a \in DOMAIN transcript \ Answers /\ a < k /\ (a + 1) .. k \subseteq Answers

AnswersAreAsked ==
  \A k \in Answers : \E a \in 1 .. k :
    /\ Opens_(a, k) /\ k - a \in DOMAIN transcript[a].calls
    /\ transcript[k].call = transcript[a].calls[k - a]

AllAnswered(a) ==
  LET n == Len(transcript[a].calls) IN
  a + n <= Len(transcript) /\ (a + 1) .. (a + n) \subseteq Answers

\* Every message but the one that is being executed has all its answers; that one
\* has those up to the call that is next.
Paired ==
  /\ AnswersAreAsked
  /\ \A a \in DOMAIN transcript \ Answers : AllAnswered(a) \/ (Executed /\ a = OpenAt)
  /\ Executed =>
       /\ next \in 1 .. Len(calls) + 1 /\ (phase = "tool" => next <= Len(calls))
       /\ OpenAt \in DOMAIN transcript \ Answers /\ transcript[OpenAt].calls = calls
       /\ OpenAt + 1 .. Len(transcript) \subseteq Answers

LoopInv == LoopTypes /\ Questioned /\ Paired /\ LostArgumentsComeBack

(* ------------------------------ parsed calls ------------------------------ *)
\* How many elements of ks are below k.
Below(ks, k) == Cardinality({l \in ks : l < k})

LEMMA MaxIs ==
  ASSUME NEW N \in Nat, NEW S, S \subseteq 1 .. N, S # {}
  PROVE  \E x \in S : \A y \in S : y <= x
<1> DEFINE D == {n \in 0 .. N : N - n \in S}
<1>1. D \subseteq Nat /\ D # {}
  <2>1. PICK x \in S : TRUE
    OBVIOUS
  <2>2. N - x \in 0 .. N /\ N - (N - x) = x
    BY <2>1
  <2>3. N - x \in D
    BY <2>1, <2>2
  <2>4. D \subseteq Nat
    OBVIOUS
  <2>5. QED BY <2>3, <2>4
<1> DEFINE d == Min(D)
<1>2. d \in D /\ \A n \in D : d <= n
  <2> HIDE DEF D
  <2>1. QED BY <1>1, LeastOf
<1> HIDE DEF d
<1>3. N - d \in S
  BY <1>2
<1>4. ASSUME NEW y \in S PROVE y <= N - d
  <2>1. N - y \in 0 .. N /\ N - (N - y) = y /\ y \in Int /\ d \in Int
    BY <1>1, <1>2
  <2>2. N - y \in D
    BY <2>1
  <2>3. d <= N - y
    BY <1>2, <2>2
  <2>4. QED BY <2>1, <2>3
<1>5. QED BY <1>3, <1>4

\* The blocks of a text are numbered without a gap, and so are any of them.
LEMMA NthExists ==
  ASSUME NEW N \in Nat, NEW ks, ks \subseteq 1 .. N, NEW n \in 1 .. Cardinality(ks)
  PROVE  Nth(ks, n) \in ks /\ Below(ks, Nth(ks, n)) = n - 1
<1>1. IsFiniteSet(ks) /\ Cardinality(ks) \in Nat /\ n \in Int /\ ks \subseteq Nat
  <2>1. IsFiniteSet(1 .. N)
    BY FS_Interval
  <2>2. IsFiniteSet(ks) /\ Cardinality(ks) \in Nat
    BY <2>1, FS_Subset, FS_CardinalityType
  <2>3. QED BY <2>2
<1>2. \A k \in ks : IsFiniteSet({l \in ks : l < k}) /\ Below(ks, k) \in Nat
  <2>1. ASSUME NEW k \in ks PROVE IsFiniteSet({l \in ks : l < k})
    <3>1. {l \in ks : l < k} \subseteq ks
      OBVIOUS
    <3>2. QED BY <1>1, <3>1, FS_Subset
  <2>2. QED BY <2>1, FS_CardinalityType DEF Below
\* the elements below one, and the greatest of them
<1>3. ASSUME NEW k \in ks, NEW j \in ks, j < k, \A l \in ks : l < k => l <= j
      PROVE  Below(ks, k) = Below(ks, j) + 1
  <2> DEFINE S == {l \in ks : l < j}
  <2>1. {l \in ks : l < k} = S \cup {j}
    <3>1. k \in Int /\ j \in Int
      OBVIOUS
    <3>2. ASSUME NEW l \in ks PROVE l < k <=> l < j \/ l = j
      <4>1. l \in Int
        OBVIOUS
      <4>2. l < k => l <= j
        BY <1>3
      <4>3. QED BY <1>3, <3>1, <4>1, <4>2
    <3>3. QED BY <3>2
  <2>2. j \notin S /\ IsFiniteSet(S)
    BY <1>2
  <2> HIDE DEF S
  <2>3. Cardinality(S \cup {j}) = Cardinality(S) + 1
    BY <2>2, FS_AddElement
  <2>4. QED BY <2>1, <2>3 DEF Below, S
<1> DEFINE B == {k \in ks : Below(ks, k) >= n - 1}
<1>4. B # {} /\ B \subseteq Nat
  <2>1. ks # {}
    BY FS_EmptySet
  <2>2. PICK k \in ks : \A l \in ks : l <= k
    BY <2>1, MaxIs
  <2> DEFINE S == {l \in ks : l < k}
  <2>3. ks = S \cup {k} /\ k \notin S /\ IsFiniteSet(S)
    <3>1. k \in Int /\ \A l \in ks : l \in Int /\ (l < k \/ l = k)
      <4>1. k \in Int
        OBVIOUS
      <4>2. ASSUME NEW l \in ks PROVE l \in Int /\ (l < k \/ l = k)
        <5>1. l \in Int /\ l <= k
          BY <2>2
        <5>2. QED BY <4>1, <5>1
      <4>3. QED BY <4>1, <4>2
    <3>2. ks \subseteq S \cup {k} /\ S \cup {k} \subseteq ks /\ k \notin S
      BY <3>1
    <3>3. IsFiniteSet(S)
      BY <1>2
    <3>4. QED BY <3>2, <3>3
  <2> HIDE DEF S
  <2>4. Cardinality(ks) = Cardinality(S) + 1 /\ Cardinality(S) \in Nat
    BY <2>3, FS_AddElement, FS_CardinalityType
  <2>5. Below(ks, k) >= n - 1
    BY <1>1, <2>4 DEF Below, S
  <2>6. k \in B
    BY <2>5
  <2>7. B \subseteq Nat
    BY <1>1
  <2>8. QED BY <2>6, <2>7
<1> DEFINE k == Min(B)
<1>5. k \in B /\ \A l \in B : k <= l
  <2> HIDE DEF B
  <2>1. QED BY <1>4, LeastOf
<1> HIDE DEF k
<1>6. k \in ks /\ Below(ks, k) >= n - 1 /\ k \in Nat
  BY <1>5
<1>7. Below(ks, k) = n - 1
  <2> SUFFICES ASSUME Below(ks, k) > n - 1 PROVE FALSE
    <3>1. Below(ks, k) \in Nat /\ n \in Int
      BY <1>1, <1>2, <1>6
    <3>2. QED BY <1>6, <3>1
  <2> DEFINE S == {l \in ks : l < k}
  <2>1. S # {}
    BY <1>1, FS_EmptySet DEF Below
  <2>2. S \subseteq 1 .. N
    OBVIOUS
  <2>3. PICK j \in S : \A l \in S : l <= j
    <3> HIDE DEF S
    <3>1. QED BY <2>1, <2>2, MaxIs
  <2>4. j \in ks /\ j < k /\ \A l \in ks : l < k => l <= j
    BY <2>3
  <2> HIDE DEF S
  <2>5. Below(ks, k) = Below(ks, j) + 1
    BY <1>3, <1>6, <2>4
  <2>6. Below(ks, j) >= n - 1
    <3>1. Below(ks, j) \in Nat /\ n \in Int
      BY <1>1, <1>2, <2>4
    <3>2. QED BY <2>5, <3>1
  <2>7. j \in B /\ j < k
    BY <2>4, <2>6
  <2>8. QED BY <1>5, <1>6, <2>7
<1> HIDE DEF B
<1>8. \E i \in ks : Cardinality({l \in ks : l < i}) = n - 1
  BY <1>6, <1>7 DEF Below
<1>9. QED BY <1>8 DEF Nth, Below

LEMMA CountUpTo == \A n \in Nat : Cardinality(1 .. n) = n
<1>1. \A n \in Int : Cardinality(1 .. n) = IF 1 > n THEN 0 ELSE n - 1 + 1
  BY FS_Interval
<1>2. QED BY <1>1

\* Of all the blocks the nth is block n.
LEMMA NthOfAll ==
  ASSUME NEW N \in Nat, NEW n \in 1 .. N
  PROVE  Cardinality(1 .. N) = N /\ Nth(1 .. N, n) = n
<1>1. \A b \in Nat : Cardinality(1 .. b) = b
  BY CountUpTo
<1> DEFINE k == Nth(1 .. N, n)
<1>2. k \in 1 .. N /\ Below(1 .. N, k) = n - 1
  <2>1. n \in 1 .. Cardinality(1 .. N)
    BY <1>1
  <2>2. QED BY <2>1, NthExists
<1> HIDE DEF k
<1>3. {l \in 1 .. N : l < k} = 1 .. k - 1 /\ k - 1 \in Nat
  BY <1>2
<1>4. k - 1 = n - 1
  BY <1>1, <1>2, <1>3 DEF Below
<1>5. QED BY <1>1, <1>2, <1>4 DEF k

LEMMA FoundIn ==
  ASSUME NEW t \in Seq(BlockType), NEW name, NEW from
  PROVE  Found(t, name, from) \in DOMAIN t \cup {0}
<1> DEFINE here == {l \in DOMAIN t : IsFunction(t[l]) /\ t[l].name = name}
           on   == {l \in here : l >= from}
<1>1. DOMAIN t \subseteq Nat
  <2>1. DOMAIN t = 1 .. Len(t) /\ Len(t) \in Nat
    BY LenProperties
  <2>2. QED BY <2>1
<1>2. here \subseteq DOMAIN t /\ on \subseteq here
  OBVIOUS
<1>3. Found(t, name, from) = IF here = {} THEN 0 ELSE IF on = {} THEN Min(here) ELSE Min(on)
  BY DEF Found
<1> HIDE DEF here, on
<1>4. (here # {} => Min(here) \in here) /\ (on # {} => Min(on) \in on)
  BY <1>1, <1>2, LeastOf
<1>5. QED BY <1>2, <1>3, <1>4

LEMMA CallsOfType ==
  ASSUME NEW t \in Seq(BlockType), NEW ks, ks \subseteq DOMAIN t, NEW known
  PROVE  /\ CallsOf(t, ks, known) \in Seq(CallRecord)
         /\ Len(CallsOf(t, ks, known)) = Cardinality(ks) /\ Cardinality(ks) \in Nat
<1>1. DOMAIN t = 1 .. Len(t) /\ Len(t) \in Nat
  BY LenProperties
<1>2. Cardinality(ks) \in Nat
  <2>1. IsFiniteSet(1 .. Len(t))
    BY <1>1, FS_Interval
  <2>2. IsFiniteSet(ks)
    BY <1>1, <2>1, FS_Subset
  <2>3. QED BY <2>2, FS_CardinalityType
<1> DEFINE c(n) == LET k == Nth(ks, n) IN
                   CallOf(t, k, IF k \in known THEN t[k].args ELSE None)
<1>3. ASSUME NEW n \in 1 .. Cardinality(ks) PROVE c(n) \in CallRecord
  <2> DEFINE k == Nth(ks, n)
  <2>1. k \in ks
    BY <1>1, NthExists
  <2> HIDE DEF k
  <2>2. k \in DOMAIN t /\ k \in Nat
    BY <1>1, <2>1
  <2>3. t[k] \in BlockType
    BY <2>2, ElementOfSeq, <1>1
  <2>4. CallOf(t, k, IF k \in known THEN t[k].args ELSE None) \in CallRecord
    BY <2>2, <2>3 DEF CallOf, CallRecord, BlockType, Arguments
  <2>5. QED BY <2>4 DEF k
<1>4. CallsOf(t, ks, known) = [n \in 1 .. Cardinality(ks) |-> c(n)]
  BY DEF CallsOf
<1> HIDE DEF c
<1>5. QED BY <1>2, <1>3, <1>4, IsASeq, LenProperties

LEMMA RecoveredType ==
  ASSUME NEW t \in Seq(BlockType), NEW cs \in Seq(CallRecord)
  PROVE  recover_xml_args(t, cs) \in Seq(CallRecord)
<1>1. DOMAIN cs = 1 .. Len(cs) /\ Len(cs) \in Nat
  BY LenProperties
<1> DEFINE pos == SearchStarts(t, cs)
           c(k) == [cs[k] EXCEPT !.args = RecoveredArgs(t, cs[k], pos[k - 1])]
<1> HIDE DEF pos
<1>2. ASSUME NEW k \in DOMAIN cs PROVE c(k) \in CallRecord
  <2>1. cs[k] \in CallRecord
    BY <1>1, ElementOfSeq
  <2> DEFINE f == Found(t, cs[k].name, pos[k - 1])
  <2>2. f \in DOMAIN t \cup {0}
    BY FoundIn
  <2> HIDE DEF f
  <2>3. f # 0 => t[f].args \in Arguments
    <3>1. DOMAIN t = 1 .. Len(t)
      BY LenProperties
    <3>2. f # 0 => t[f] \in BlockType
      BY <2>2, <3>1, ElementOfSeq
    <3>3. QED BY <3>2 DEF BlockType
  <2>4. RecoveredArgs(t, cs[k], pos[k - 1]) \in Arguments
    BY <2>1, <2>3 DEF RecoveredArgs, CallRecord, f
  <2>5. QED BY <2>1, <2>4 DEF CallRecord
<1>3. recover_xml_args(t, cs) = [k \in DOMAIN cs |-> c(k)]
  BY DEF recover_xml_args, pos
<1> HIDE DEF c
<1>4. QED BY <1>1, <1>2, <1>3, IsASeq

\* What the parse of a text may find before the recovery.
Heard(t) ==
  { IF native = <<>> THEN fallback_tool_calls(t) ELSE native : native \in Native(t) }

LEMMA ParsedFrom ==
  ASSUME NEW t \in Texts, NEW p \in Parses[t]
  PROVE  \E cs \in Heard(t) : /\ p.lost = {k \in DOMAIN cs : ~HasArgs(cs[k])}
                              /\ p.calls = recover_xml_args(t, cs)
<1>1. p \in parse_step_text(t)
  BY DEF Parses
<1>2. PICK native \in Native(t) :
        p = LET cs == IF native = <<>> THEN fallback_tool_calls(t) ELSE native
            IN  [lost |-> {k \in DOMAIN cs : ~HasArgs(cs[k])}, calls |-> recover_xml_args(t, cs)]
  BY <1>1 DEF parse_step_text
<1> DEFINE cs == IF native = <<>> THEN fallback_tool_calls(t) ELSE native
<1>3. cs \in Heard(t)
  BY <1>2 DEF Heard
<1> HIDE DEF cs
<1>4. p = [lost |-> {k \in DOMAIN cs : ~HasArgs(cs[k])}, calls |-> recover_xml_args(t, cs)]
  BY <1>2 DEF cs
<1>5. p.calls = recover_xml_args(t, cs)
  BY <1>4
<1>6. p.lost = {k \in DOMAIN cs : ~HasArgs(cs[k])}
  BY <1>4
<1>7. QED BY <1>3, <1>5, <1>6

LEMMA HeardType ==
  ASSUME NEW t \in Texts, NEW cs \in Heard(t)
  PROVE  t \in Seq(BlockType) /\ cs \in Seq(CallRecord)
<1>1. t \in Seq(BlockType)
  BY TextsAssumption DEF BlockType
<1>2. <<>> \in Seq(CallRecord)
  BY EmptySeq
<1>3. \A ks \in SUBSET DOMAIN t : \A known : CallsOf(t, ks, known) \in Seq(CallRecord)
  BY <1>1, CallsOfType
<1>4. fallback_tool_calls(t) \in Seq(CallRecord)
  BY <1>3 DEF fallback_tool_calls
<1>5. \A native \in Native(t) : native \in Seq(CallRecord)
  BY <1>2, <1>3 DEF Native
<1>6. QED BY <1>1, <1>4, <1>5 DEF Heard

LEMMA ParsedType ==
  ASSUME NEW t \in Texts, NEW p \in Parses[t]
  PROVE  p.calls \in Seq(CallRecord) /\ p.lost \subseteq Nat
<1>1. PICK cs \in Heard(t) : /\ p.lost = {k \in DOMAIN cs : ~HasArgs(cs[k])}
                             /\ p.calls = recover_xml_args(t, cs)
  BY ParsedFrom
<1>2. DOMAIN cs \subseteq Nat
  <2>1. DOMAIN cs = 1 .. Len(cs) /\ Len(cs) \in Nat
    BY HeardType, LenProperties
  <2>2. QED BY <2>1
<1>3. QED BY <1>1, <1>2, HeardType, RecoveredType

(* ------------------------- what the recovery finds ------------------------ *)
\* A search that starts before block k and looks for its name ends there at the latest.
LEMMA FoundByThen ==
  ASSUME NEW t \in Seq(BlockType), NEW k \in DOMAIN t, IsFunction(t[k]),
         NEW from \in Nat, from <= k
  PROVE  LET f == Found(t, t[k].name, from) IN
         f \in DOMAIN t /\ f # 0 /\ from <= f /\ f <= k /\ t[f].name = t[k].name
<1> DEFINE here == {l \in DOMAIN t : IsFunction(t[l]) /\ t[l].name = t[k].name}
           on   == {l \in here : l >= from}
<1>1. DOMAIN t = 1 .. Len(t) /\ Len(t) \in Nat
  BY LenProperties
<1>2. on \subseteq Nat /\ k \in on /\ here # {} /\ on # {}
  BY <1>1
<1>3. Found(t, t[k].name, from) = IF here = {} THEN 0 ELSE IF on = {} THEN Min(here) ELSE Min(on)
  BY DEF Found
<1> DEFINE f == Min(on)
<1>4. f \in on /\ f <= k
  <2> HIDE DEF on
  <2>1. QED BY <1>2, LeastOf
<1> HIDE DEF f
<1>5. f \in DOMAIN t /\ f >= from /\ t[f].name = t[k].name
  BY <1>4
<1>6. f # 0 /\ from <= f
  BY <1>1, <1>5
<1> HIDE DEF here, on
<1>7. Found(t, t[k].name, from) = f
  BY <1>2, <1>3 DEF f
<1>8. QED BY <1>4, <1>5, <1>6, <1>7

LEMMA SearchStartsRun ==
  ASSUME NEW t \in Seq(BlockType), NEW cs \in Seq(CallRecord)
  PROVE  \A k \in 0 .. Len(cs) :
           /\ SearchStarts(t, cs)[k] \in Nat
           /\ SearchStarts(t, cs)[k] =
                IF k = 0 THEN 1 ELSE SearchedFrom(t, cs[k], SearchStarts(t, cs)[k - 1])
<1> DEFINE N == Len(cs)
           D == 0 .. N
           done == {0}
           rank == [k \in D |-> k]
           base == [k \in D |-> 1]
           goes == [k \in D |-> IF k = 0 THEN 0 ELSE k - 1]
           makes == [x \in D \X Nat |-> IF x[1] = 0 THEN 1 ELSE SearchedFrom(t, cs[x[1]], x[2])]
           Is(g) == g = [k \in 0 .. Len(cs) |->
                           IF k = 0 THEN 1 ELSE SearchedFrom(t, cs[k], g[k - 1])]
           pos == CHOOSE g : Is(g)
<1>1. N \in Nat
  BY LenProperties
<1>2. rank \in [D -> 0 .. N] /\ base \in [D -> Nat] /\ goes \in [D -> D]
  BY <1>1
<1>3. ASSUME NEW c, NEW from \in Nat PROVE SearchedFrom(t, c, from) \in Nat
  <2> DEFINE f == Found(t, c.name, from)
  <2>1. f \in DOMAIN t \cup {0}
    BY FoundIn
  <2>2. DOMAIN t = 1 .. Len(t) /\ Len(t) \in Nat
    BY LenProperties
  <2> HIDE DEF f
  <2>3. f + 1 \in Nat
    BY <2>1, <2>2
  <2>4. QED BY <2>3 DEF SearchedFrom, f
<1>4. makes \in [D \X Nat -> Nat]
  BY <1>3
<1>5. Falls(rank, D, done, goes)
  BY <1>1 DEF Falls
<1> HIDE DEF rank, base, goes, makes
<1>6. PICK h \in [D -> Nat] : Runs(h, D, done, base, goes, makes)
  BY <1>1, <1>2, <1>4, <1>5, Recursion
<1>7. ASSUME NEW k \in D
      PROVE  h[k] = IF k = 0 THEN 1 ELSE SearchedFrom(t, cs[k], h[k - 1])
  <2>1. h[k] = IF k \in done THEN base[k] ELSE makes[<<k, h[goes[k]]>>]
    BY <1>6 DEF Runs
  <2>2. CASE k = 0
    BY <2>1, <2>2 DEF base
  <2>3. CASE k # 0
    <3>1. goes[k] = k - 1 /\ k - 1 \in D /\ k \notin done
      BY <1>1, <2>3 DEF goes
    <3>2. <<k, h[k - 1]>> \in D \X Nat
      BY <1>6, <3>1
    <3>3. makes[<<k, h[k - 1]>>] = SearchedFrom(t, cs[k], h[k - 1])
      BY <2>3, <3>2 DEF makes
    <3>4. QED BY <2>1, <2>3, <3>1, <3>3
  <2>4. QED BY <2>2, <2>3
<1>8. Is(h)
  BY <1>6, <1>7
<1>9. Is(pos)
  BY <1>8
<1>10. SearchStarts(t, cs) = pos
  BY DEF SearchStarts
<1> HIDE DEF pos
<1>11. \A k \in D : pos[k] = IF k = 0 THEN 1 ELSE SearchedFrom(t, cs[k], pos[k - 1])
  BY <1>9
<1> DEFINE G == {k \in D : pos[k] \in Nat}
<1>12. ASSUME NEW n \in 0 .. N, \A m \in 0 .. (n - 1) : m \in G PROVE n \in G
  <2>1. CASE n = 0
    BY <1>11, <2>1
  <2>2. CASE n # 0
    <3>1. n - 1 \in 0 .. (n - 1)
      BY <1>1, <2>2
    <3>2. pos[n - 1] \in Nat
      BY <1>12, <3>1
    <3>3. pos[n] = SearchedFrom(t, cs[n], pos[n - 1])
      BY <1>11, <2>2
    <3>4. pos[n] \in Nat
      BY <1>3, <3>2, <3>3
    <3>5. QED BY <3>4
  <2>3. QED BY <2>1, <2>2
<1>13. \A n \in 0 .. N : n \in G
  <2> HIDE DEF G
  <2>1. QED BY <1>1, <1>12, Climb
<1>14. QED BY <1>10, <1>11, <1>13

\* The calls cs are those of all the blocks of t, with or without their arguments.
OfAllBlocks(t, cs) ==
  /\ DOMAIN cs = 1 .. Len(t) /\ Len(cs) = Len(t)
  /\ \A k \in 1 .. Len(t) : cs[k].name = t[k].name /\ cs[k].block = k

LEMMA HeardOfFunctions ==
  ASSUME NEW t \in Texts, NEW cs \in Heard(t), \A k \in DOMAIN t : IsFunction(t[k])
  PROVE  OfAllBlocks(t, cs)
<1>1. t \in Seq(BlockType) /\ cs \in Seq(CallRecord)
  BY HeardType
<1>2. DOMAIN t = 1 .. Len(t) /\ Len(t) \in Nat /\ DOMAIN cs = 1 .. Len(cs)
  BY <1>1, LenProperties
<1>3. \E known : cs = CallsOf(t, DOMAIN t, known)
  <2>1. \E known : fallback_tool_calls(t) = CallsOf(t, DOMAIN t, known)
    <3>1. {k \in DOMAIN t : t[k].form = "json"} = {} /\ {k \in DOMAIN t : IsFunction(t[k])} = DOMAIN t
      BY DEF IsFunction
    <3>2. QED BY <3>1 DEF fallback_tool_calls
  <2>2. PICK native \in Native(t) :
          cs = IF native = <<>> THEN fallback_tool_calls(t) ELSE native
    BY DEF Heard
  <2>3. QED BY <2>1, <2>2 DEF Native
<1>4. PICK known : cs = CallsOf(t, DOMAIN t, known)
  BY <1>3
<1>5. Len(cs) = Len(t) /\ Cardinality(DOMAIN t) = Len(t)
  <2>1. Len(cs) = Cardinality(DOMAIN t)
    BY <1>1, <1>4, CallsOfType
  <2>2. Cardinality(1 .. Len(t)) = Len(t)
    <3>1. Len(t) \in Nat
      BY <1>2
    <3>2. QED BY <3>1, CountUpTo
  <2>3. QED BY <1>2, <2>1, <2>2
<1>6. ASSUME NEW k \in 1 .. Len(t) PROVE cs[k].name = t[k].name /\ cs[k].block = k
  <2>1. Nth(DOMAIN t, k) = k
    BY <1>2, NthOfAll
  <2>2. cs[k] = CallOf(t, k, IF k \in known THEN t[k].args ELSE None)
    BY <1>4, <1>5, <2>1 DEF CallsOf
  <2>3. QED BY <2>2 DEF CallOf
<1>7. QED BY <1>2, <1>5, <1>6 DEF OfAllBlocks

\* Call k has lost its arguments, and no call of its tool before it kept its own.
Lorn(cs, k) ==
  ~HasArgs(cs[k]) /\ \A l \in 1 .. (k - 1) : HasArgs(cs[l]) => cs[l].name # cs[k].name

\* The search has never gone beyond the call it is for, and is behind the block of
\* every lorn one.
SearchedWell(pos, cs, k) == pos[k] <= k + 1 /\ \A i \in 1 .. k : Lorn(cs, i) => i < pos[k]

LEMMA LornFindTheirOwn ==
  ASSUME NEW t \in Seq(BlockType), NEW cs \in Seq(CallRecord), OfAllBlocks(t, cs),
         \A k \in DOMAIN t : IsFunction(t[k]),
         NEW k \in 1 .. Len(t), NEW pos, pos[k - 1] \in Nat, SearchedWell(pos, cs, k - 1)
  PROVE  LET f == Found(t, cs[k].name, pos[k - 1]) IN
         f # 0 /\ f \in Nat /\ pos[k - 1] <= f /\ f <= k /\ (Lorn(cs, k) => f = k)
<1> DEFINE from == pos[k - 1]
           f == Found(t, cs[k].name, from)
<1>1. /\ Len(t) \in Nat /\ DOMAIN t = 1 .. Len(t) /\ k \in DOMAIN t
      /\ \A l \in 1 .. Len(t) : cs[l].name = t[l].name
  BY LenProperties DEF OfAllBlocks
<1>2. from \in Nat /\ from <= k /\ \A i \in 1 .. (k - 1) : Lorn(cs, i) => i < from
  BY <1>1 DEF SearchedWell
<1> HIDE DEF from
<1>3. f \in DOMAIN t /\ f # 0 /\ from <= f /\ f <= k /\ t[f].name = t[k].name
  <2>1. f = Found(t, t[k].name, from) /\ IsFunction(t[k])
    BY <1>1
  <2> HIDE DEF f
  <2>2. LET g == Found(t, t[k].name, from) IN
        g \in DOMAIN t /\ g # 0 /\ from <= g /\ g <= k /\ t[g].name = t[k].name
    BY <1>1, <1>2, <2>1, FoundByThen
  <2>3. QED BY <2>1, <2>2
<1> HIDE DEF f
<1>4. f \in 1 .. Len(t) /\ cs[f].name = cs[k].name
  BY <1>1, <1>3
<1>5. ASSUME Lorn(cs, k), f # k PROVE FALSE
  <2>1. f \in 1 .. (k - 1)
    BY <1>1, <1>3, <1>4, <1>5
  <2>2. ~HasArgs(cs[f])
    BY <1>4, <1>5, <2>1 DEF Lorn
  <2>3. ASSUME NEW l \in 1 .. (f - 1), HasArgs(cs[l]) PROVE cs[l].name # cs[f].name
    <3>1. l \in 1 .. (k - 1)
      BY <2>1
    <3>2. QED BY <1>4, <1>5, <2>3, <3>1 DEF Lorn
  <2>4. Lorn(cs, f)
    BY <2>2, <2>3 DEF Lorn
  <2>5. f < from
    BY <1>2, <2>1, <2>4
  <2>6. QED BY <1>2, <1>3, <2>1, <2>5
<1>6. f \in Nat
  BY <1>1, <1>3
<1>7. QED BY <1>3, <1>5, <1>6 DEF f, from

LEMMA SearchesWell ==
  ASSUME NEW t \in Seq(BlockType), NEW cs \in Seq(CallRecord), OfAllBlocks(t, cs),
         \A k \in DOMAIN t : IsFunction(t[k])
  PROVE  \A k \in 0 .. Len(t) : SearchedWell(SearchStarts(t, cs), cs, k)
<1> DEFINE N == Len(t)
           pos == SearchStarts(t, cs)
           G == {k \in 0 .. N : SearchedWell(pos, cs, k)}
<1>1. /\ N \in Nat /\ Len(cs) = N
      /\ \A k \in 0 .. N : /\ pos[k] \in Nat
                           /\ pos[k] = IF k = 0 THEN 1 ELSE SearchedFrom(t, cs[k], pos[k - 1])
  BY LenProperties, SearchStartsRun DEF OfAllBlocks
<1> HIDE DEF pos
<1>2. ASSUME NEW n \in 0 .. N, \A m \in 0 .. (n - 1) : m \in G PROVE n \in G
  <2>1. CASE n = 0
    BY <1>1, <2>1 DEF SearchedWell
  <2>2. CASE n # 0
    <3> DEFINE from == pos[n - 1]
               f == Found(t, cs[n].name, from)
    <3>1. n \in 1 .. N /\ n - 1 \in 0 .. (n - 1) /\ n - 1 \in 0 .. N
      BY <1>1, <2>2
    <3>2. n - 1 \in G
      BY <1>2, <3>1
    <3>3. SearchedWell(pos, cs, n - 1)
      BY <3>2
    <3>4. from \in Nat /\ pos[n] = SearchedFrom(t, cs[n], from)
      BY <1>1, <2>2, <3>1
    <3>5. f # 0 /\ f \in Nat /\ from <= f /\ f <= n /\ (Lorn(cs, n) => f = n)
      BY <3>1, <3>3, <3>4, LornFindTheirOwn
    <3>6. pos[n] = IF HasArgs(cs[n]) THEN from ELSE f + 1
      BY <3>4, <3>5 DEF SearchedFrom
    <3>7. from <= n /\ \A i \in 1 .. (n - 1) : Lorn(cs, i) => i < from
      BY <3>1, <3>3 DEF SearchedWell
    <3> HIDE DEF from, f
    <3>8. pos[n] <= n + 1 /\ from <= pos[n] /\ pos[n] \in Nat
      BY <3>1, <3>4, <3>5, <3>6, <3>7
    <3>9. ASSUME NEW i \in 1 .. n, Lorn(cs, i) PROVE i < pos[n]
      <4>1. CASE i = n
        <5>1. pos[n] = n + 1
          BY <3>5, <3>6, <3>9, <4>1 DEF Lorn
        <5>2. QED BY <3>1, <4>1, <5>1
      <4>2. CASE i # n
        <5>1. i \in 1 .. (n - 1)
          BY <3>1, <4>2
        <5>2. i < from
          BY <3>7, <3>9, <5>1
        <5>3. QED BY <3>4, <3>8, <5>1, <5>2
      <4>3. QED BY <4>1, <4>2
    <3>10. SearchedWell(pos, cs, n)
      BY <3>8, <3>9 DEF SearchedWell
    <3>11. QED BY <3>10
  <2>3. QED BY <2>1, <2>2
<1>3. \A n \in 0 .. N : n \in G
  <2> HIDE DEF G
  <2>1. QED BY <1>1, <1>2, Climb
<1>4. QED BY <1>3 DEF pos

\* What the parse lost of a text of <function=> blocks, the recovery brings back.
LEMMA Recovered ==
  ASSUME NEW t \in Texts, NEW p \in Parses[t], \A k \in DOMAIN t : IsFunction(t[k]),
         NEW k \in p.lost
  PROVE  LET b == p.calls[k].block IN
         \/ t[b].form = "xml" => p.calls[k].args = t[b].args
         \/ \E l \in DOMAIN p.calls \ p.lost : l < k /\ p.calls[l].name = p.calls[k].name
<1>1. PICK cs \in Heard(t) : /\ p.lost = {l \in DOMAIN cs : ~HasArgs(cs[l])}
                             /\ p.calls = recover_xml_args(t, cs)
  BY ParsedFrom
<1>2. t \in Seq(BlockType) /\ cs \in Seq(CallRecord) /\ OfAllBlocks(t, cs)
  BY HeardType, HeardOfFunctions
<1>3. DOMAIN cs = 1 .. Len(t) /\ Len(t) \in Nat /\ Len(cs) = Len(t)
  BY <1>2, LenProperties DEF OfAllBlocks
<1> DEFINE pos == SearchStarts(t, cs)
<1>4. \A l \in 0 .. Len(t) : pos[l] \in Nat /\ SearchedWell(pos, cs, l)
  BY <1>2, <1>3, SearchStartsRun, SearchesWell
<1>5. p.calls = [l \in DOMAIN cs |-> [cs[l] EXCEPT !.args = RecoveredArgs(t, cs[l], pos[l - 1])]]
  BY <1>1 DEF recover_xml_args
<1> HIDE DEF pos
<1>6. ASSUME NEW l \in DOMAIN cs
      PROVE  /\ p.calls[l].name = cs[l].name /\ p.calls[l].block = l
             /\ p.calls[l].args = RecoveredArgs(t, cs[l], pos[l - 1])
  <2>1. cs[l] \in CallRecord /\ cs[l].block = l
    BY <1>2, <1>3, ElementOfSeq DEF OfAllBlocks
  <2>2. p.calls[l] = [cs[l] EXCEPT !.args = RecoveredArgs(t, cs[l], pos[l - 1])]
    BY <1>5
  <2>3. QED BY <2>1, <2>2 DEF CallRecord
<1>7. k \in DOMAIN cs /\ ~HasArgs(cs[k]) /\ DOMAIN p.calls = DOMAIN cs
  BY <1>1, <1>5
<1>8. CASE Lorn(cs, k)
  <2>1. k \in 1 .. Len(t) /\ k - 1 \in 0 .. Len(t)
    BY <1>3, <1>7
  <2>2. Found(t, cs[k].name, pos[k - 1]) = k /\ k # 0
    <3>1. pos[k - 1] \in Nat /\ SearchedWell(pos, cs, k - 1)
      BY <1>4, <2>1
    <3>2. QED BY <1>2, <1>8, <2>1, <3>1, LornFindTheirOwn
  <2>3. t[k].form = "xml" => RecoveredArgs(t, cs[k], pos[k - 1]) = t[k].args
    BY <1>7, <2>2 DEF RecoveredArgs
  <2>4. p.calls[k].block = k /\ p.calls[k].args = RecoveredArgs(t, cs[k], pos[k - 1])
    BY <1>6, <1>7
  <2>5. QED BY <2>3, <2>4
<1>9. CASE ~Lorn(cs, k)
  <2>1. PICK l \in 1 .. (k - 1) : HasArgs(cs[l]) /\ cs[l].name = cs[k].name
    BY <1>7, <1>9 DEF Lorn
  <2>2. l \in DOMAIN cs /\ l < k
    BY <1>3, <1>7, <2>1
  <2>3. l \in DOMAIN p.calls \ p.lost
    BY <1>1, <1>7, <2>1, <2>2
  <2>4. p.calls[l].name = p.calls[k].name
    BY <1>6, <1>7, <2>1, <2>2
  <2>5. QED BY <2>2, <2>3, <2>4
<1>10. QED BY <1>8, <1>9

(* ------------------------------ the transcript ---------------------------- *)
LEMMA PairedStays ==
  ASSUME Paired, transcript' = transcript, calls' = calls, next' = next, Executed' <=> Executed,
         phase' = "tool" => phase = "tool" \/ next <= Len(calls)
  PROVE  Paired'
<1>1. AnswersAreAsked' /\ Answers' = Answers /\ OpenAt' = OpenAt
  BY DEF Paired, AnswersAreAsked, Opens_, OpenAt, Answers
<1>2. \A a \in DOMAIN transcript \ Answers : AllAnswered(a)' <=> AllAnswered(a)
  BY <1>1 DEF AllAnswered
<1>3. QED BY <1>1, <1>2 DEF Paired

LEMMA PairedWaits ==
  ASSUME Paired, transcript' = transcript, ~Executed, ~Executed' PROVE Paired'
<1>1. \A a \in DOMAIN transcript \ Answers : AllAnswered(a)
  BY DEF Paired
<1>2. QED BY <1>1 DEF Paired, AnswersAreAsked, Opens_, AllAnswered, Answers

LEMMA Appended ==
  ASSUME transcript \in Seq(Message), NEW m \in Message, transcript' = Append(transcript, m)
  PROVE  /\ Len(transcript) \in Nat /\ Len(transcript') = Len(transcript) + 1
         /\ DOMAIN transcript = 1 .. Len(transcript)
         /\ DOMAIN transcript' = 1 .. Len(transcript) + 1
         /\ \A k \in DOMAIN transcript : transcript'[k] = transcript[k]
         /\ transcript'[Len(transcript) + 1] = m /\ transcript' \in Seq(Message)
         /\ Answers' = IF m.role = "tool" THEN Answers \cup {Len(transcript) + 1} ELSE Answers
<1>1. /\ Len(transcript) \in Nat /\ Len(transcript') = Len(transcript) + 1
      /\ DOMAIN transcript = 1 .. Len(transcript)
      /\ DOMAIN transcript' = 1 .. Len(transcript) + 1 /\ transcript' \in Seq(Message)
      /\ \A k \in 1 .. Len(transcript) : transcript'[k] = transcript[k]
      /\ transcript'[Len(transcript) + 1] = m
  BY AppendProperties, LenProperties
<1>2. Answers' = IF m.role = "tool" THEN Answers \cup {Len(transcript) + 1} ELSE Answers
  BY <1>1 DEF Answers
<1>3. QED BY <1>1, <1>2

\* What was asked and answered stays so behind another message.
LEMMA AskedStays ==
  ASSUME Paired, transcript \in Seq(Message), NEW m \in Message,
         transcript' = Append(transcript, m)
  PROVE  /\ \A k \in Answers : \E a \in 1 .. k :
              /\ Opens_(a, k)' /\ k - a \in DOMAIN transcript'[a].calls
              /\ transcript'[k].call = transcript'[a].calls[k - a]
         /\ \A a \in DOMAIN transcript \ Answers : AllAnswered(a) => AllAnswered(a)'
<1> DEFINE L == Len(transcript)
<1>1. /\ L \in Nat /\ Len(transcript') = L + 1
      /\ DOMAIN transcript = 1 .. L /\ DOMAIN transcript' = 1 .. L + 1
      /\ \A k \in DOMAIN transcript : transcript'[k] = transcript[k]
      /\ Answers' = Answers \/ Answers' = Answers \cup {L + 1}
  BY Appended
<1> HIDE DEF L
<1>2. ASSUME NEW k \in Answers
      PROVE  \E a \in 1 .. k :
              /\ Opens_(a, k)' /\ k - a \in DOMAIN transcript'[a].calls
              /\ transcript'[k].call = transcript'[a].calls[k - a]
  <2>1. PICK a \in 1 .. k : /\ Opens_(a, k) /\ k - a \in DOMAIN transcript[a].calls
                            /\ transcript[k].call = transcript[a].calls[k - a]
    BY DEF Paired, AnswersAreAsked
  <2>2. k \in 1 .. L /\ a \in 1 .. L /\ a \notin Answers /\ a < k /\ (a + 1) .. k \subseteq Answers
    BY <1>1, <2>1 DEF Opens_, Answers
  <2>3. a \in 1 .. L + 1 /\ a \notin Answers' /\ (a + 1) .. k \subseteq Answers'
    BY <1>1, <2>2
  <2>4. Opens_(a, k)'
    BY <1>1, <2>2, <2>3 DEF Opens_
  <2>5. transcript'[a] = transcript[a] /\ transcript'[k] = transcript[k]
    BY <1>1, <2>2
  <2>6. QED BY <2>1, <2>4, <2>5
<1>3. ASSUME NEW a \in DOMAIN transcript \ Answers, AllAnswered(a) PROVE AllAnswered(a)'
  <2>1. a \in Int /\ transcript'[a] = transcript[a]
    BY <1>1
  <2>2. Len(transcript[a].calls) \in Nat
    <3>1. transcript[a] \in Message
      BY <1>1, ElementOfSeq DEF L
    <3>2. transcript[a].calls \in Seq(CallRecord)
      BY <1>1, <3>1 DEF Message, Answers
    <3>3. QED BY <3>2, LenProperties
  <2>3. QED BY <1>1, <1>3, <2>1, <2>2 DEF AllAnswered, L
<1>4. QED BY <1>2, <1>3

LEMMA AnsweredStep ==
  ASSUME LoopTypes, Paired, Executed, next <= Len(calls), Answered(calls[next]), calls' = calls
  PROVE  Paired' /\ transcript' \in Seq(Message) /\ next' \in Nat /\ phase' = "call"
<1> DEFINE L == Len(transcript)
           m == [role |-> "tool", call |-> calls[next]]
<1>1. /\ transcript \in Seq(Message) /\ calls \in Seq(CallRecord) /\ Len(calls) \in Nat
      /\ next \in 1 .. Len(calls) /\ DOMAIN calls = 1 .. Len(calls)
      /\ next' = next + 1 /\ phase' = "call" /\ transcript' = Append(transcript, m)
  <2>1. calls \in Seq(CallRecord)
    BY DEF LoopTypes
  <2>2. Len(calls) \in Nat /\ DOMAIN calls = 1 .. Len(calls)
    BY <2>1, LenProperties
  <2>3. QED BY <2>1, <2>2 DEF LoopTypes, Paired, Answered
<1>2. m \in Message
  <2>1. calls[next] \in CallRecord
    BY <1>1, ElementOfSeq
  <2>2. QED BY <2>1 DEF Message
<1>3. /\ L \in Nat /\ Len(transcript') = L + 1
      /\ DOMAIN transcript = 1 .. L /\ DOMAIN transcript' = 1 .. L + 1
      /\ \A k \in DOMAIN transcript : transcript'[k] = transcript[k]
      /\ transcript'[L + 1] = m /\ transcript' \in Seq(Message)
      /\ Answers' = Answers \cup {L + 1}
  BY <1>1, <1>2, Appended
<1>4. /\ \A k \in Answers : \E a \in 1 .. k :
              /\ Opens_(a, k)' /\ k - a \in DOMAIN transcript'[a].calls
              /\ transcript'[k].call = transcript'[a].calls[k - a]
      /\ \A a \in DOMAIN transcript \ Answers : AllAnswered(a) => AllAnswered(a)'
  BY <1>1, <1>2, AskedStays
<1>5. PICK b \in DOMAIN transcript \ Answers :
        /\ b = L - next + 1 /\ transcript[b].calls = calls /\ (b + 1) .. L \subseteq Answers
        /\ \A a \in DOMAIN transcript \ Answers : AllAnswered(a) \/ a = b
  BY DEF Paired, OpenAt
<1> HIDE DEF L, m
<1>6. OpenAt' = b
  BY <1>1, <1>3, <1>5 DEF OpenAt, L
<1>7. b \in 1 .. L /\ b \notin Answers' /\ (b + 1) .. L + 1 \subseteq Answers'
      /\ transcript'[b].calls = calls
  BY <1>3, <1>5
<1>8. ASSUME NEW k \in Answers'
      PROVE  \E a \in 1 .. k :
              /\ Opens_(a, k)' /\ k - a \in DOMAIN transcript'[a].calls
              /\ transcript'[k].call = transcript'[a].calls[k - a]
  <2>1. CASE k \in Answers
    BY <1>4, <2>1
  <2>2. CASE k = L + 1
    <3>1. b \in 1 .. k /\ b < k /\ b \in DOMAIN transcript' \ Answers'
          /\ (b + 1) .. k \subseteq Answers'
      BY <1>3, <1>7, <2>2
    <3>2. k - b = next
      BY <1>1, <1>3, <1>5, <2>2
    <3>3. transcript'[k].call = calls[next]
      BY <1>3, <2>2 DEF m
    <3>4. k - b \in DOMAIN transcript'[b].calls /\ transcript'[k].call = transcript'[b].calls[k - b]
      BY <1>1, <1>7, <3>2, <3>3
    <3>5. Opens_(b, k)'
      BY <3>1 DEF Opens_
    <3>6. QED BY <3>1, <3>4, <3>5
  <2>3. QED BY <1>3, <2>1, <2>2
<1>9. ASSUME NEW a \in DOMAIN transcript' \ Answers' PROVE AllAnswered(a)' \/ a = b
  <2>1. a \in DOMAIN transcript \ Answers
    BY <1>3
  <2>2. QED BY <1>4, <1>5, <2>1
<1>10. Executed' /\ phase' # "tool" /\ next' \in 1 .. Len(calls) + 1 /\ next' \in Nat
  BY <1>1 DEF Executed
<1>11. AnswersAreAsked'
  BY <1>8 DEF AnswersAreAsked
<1>12. OpenAt' \in DOMAIN transcript' \ Answers' /\ transcript'[OpenAt'].calls = calls'
       /\ OpenAt' + 1 .. Len(transcript') \subseteq Answers'
  BY <1>3, <1>6, <1>7
<1>13. Paired'
  BY <1>6, <1>9, <1>10, <1>11, <1>12 DEF Paired
<1>14. QED BY <1>1, <1>3, <1>10, <1>13

LEMMA MessageStep ==
  ASSUME LoopTypes, Paired, ~Executed, phase' = "call", next' = 1, calls' = calls,
         transcript' = Append(transcript, [role |-> "assistant", calls |-> calls])
  PROVE  Paired' /\ transcript' \in Seq(Message)
<1> DEFINE L == Len(transcript)
           m == [role |-> "assistant", calls |-> calls]
<1>1. transcript \in Seq(Message) /\ m \in Message /\ Len(calls) \in Nat
      /\ transcript' = Append(transcript, m)
  BY LenProperties DEF LoopTypes, Message
<1>2. /\ L \in Nat /\ Len(transcript') = L + 1
      /\ DOMAIN transcript = 1 .. L /\ DOMAIN transcript' = 1 .. L + 1
      /\ \A k \in DOMAIN transcript : transcript'[k] = transcript[k]
      /\ transcript'[L + 1] = m /\ transcript' \in Seq(Message) /\ Answers' = Answers
  BY <1>1, Appended
<1>3. /\ \A k \in Answers : \E a \in 1 .. k :
              /\ Opens_(a, k)' /\ k - a \in DOMAIN transcript'[a].calls
              /\ transcript'[k].call = transcript'[a].calls[k - a]
      /\ \A a \in DOMAIN transcript \ Answers : AllAnswered(a) => AllAnswered(a)'
  BY <1>1, AskedStays
<1>4. \A a \in DOMAIN transcript \ Answers : AllAnswered(a)
  BY DEF Paired
<1> HIDE DEF L, m
<1>5. OpenAt' = L + 1 /\ Executed' /\ phase' # "tool"
  BY <1>2 DEF OpenAt, Executed
<1>6. AnswersAreAsked'
  BY <1>2, <1>3 DEF AnswersAreAsked
<1>7. \A a \in DOMAIN transcript' \ Answers' : AllAnswered(a)' \/ a = OpenAt'
  BY <1>2, <1>3, <1>4, <1>5
<1>8. L + 1 \notin Answers /\ transcript'[L + 1].calls = calls
  BY <1>2 DEF Answers, m
<1>9. OpenAt' \in DOMAIN transcript' \ Answers' /\ transcript'[OpenAt'].calls = calls'
      /\ OpenAt' + 1 .. Len(transcript') \subseteq Answers'
  BY <1>2, <1>5, <1>8
<1>10. next' \in 1 .. Len(calls') + 1
  BY <1>1
<1>11. QED BY <1>2, <1>5, <1>6, <1>7, <1>9, <1>10 DEF Paired

LEMMA NextRoundStep ==
  ASSUME LoopTypes, Paired, phase = "call", next > Len(calls), phase' = "render",
         transcript' = transcript
  PROVE  Paired'
<1> DEFINE L == Len(transcript)
<1>1. L \in Nat /\ Len(calls) \in Nat
  BY LenProperties DEF LoopTypes
<1>2. next = Len(calls) + 1 /\ OpenAt = L - next + 1 /\ transcript[OpenAt].calls = calls
      /\ OpenAt + 1 .. L \subseteq Answers
  BY <1>1 DEF Paired, Executed, OpenAt
<1>3. AllAnswered(OpenAt)
  BY <1>1, <1>2 DEF AllAnswered
<1>4. \A a \in DOMAIN transcript \ Answers : AllAnswered(a)
  BY <1>3 DEF Paired
<1>5. ~Executed'
  BY DEF Executed
<1>6. QED BY <1>4, <1>5 DEF Paired, AnswersAreAsked, Opens_, AllAnswered, Answers

(* ------------------------------- the invariant ---------------------------- *)
AgentInv == ToolInv /\ LoopInv

LEMMA AgentInvInit == Init => AgentInv
<1> SUFFICES ASSUME Init PROVE AgentInv
  OBVIOUS
<1>1. ToolInv
  BY ToolInvInit DEF Init
<1>2. LoopTypes
  <2>1. <<>> \in Seq(CallRecord) /\ <<>> \in Seq(Message)
    BY EmptySeq
  <2>2. 0 \in 0 .. MaxSteps /\ 0 \in 0 .. MaxCalls
    BY BoundsAssumption
  <2>3. QED BY <2>1, <2>2 DEF Init, LoopTypes, Working
<1>3. Questioned /\ LostArgumentsComeBack
  BY DEF Init, Questioned, LostArgumentsComeBack
<1>4. Paired
  <2>1. DOMAIN transcript = {} /\ ~Executed
    BY EmptySeq DEF Init, Executed
  <2>2. QED BY <2>1 DEF Paired, AnswersAreAsked, Answers
<1>5. QED BY <1>1, <1>2, <1>3, <1>4 DEF AgentInv, LoopInv

LEMMA ToolsUntouched ==
  ASSUME ToolInv, UNCHANGED tools_ PROVE ToolInv'
<1>1. /\ files' = files /\ pc' = pc /\ call' = call /\ override' = override
      /\ target' = target /\ text' = text /\ answer' = answer /\ child' = child
      /\ got' = got /\ due' = due /\ seen' = seen /\ alone' = alone /\ refused' = refused
  BY DEF tools_, toolVars
<1>2. ToolTypes'
  BY <1>1 DEF ToolInv, ToolTypes
<1>3. ASSUME NEW t \in Threads PROVE Sound(t)'
  <2>1. Placed(t)' /\ Watched(t)'
    BY <1>1 DEF ToolInv, Sound, Placed, Watched, Meant, normalize_cwd
  <2>2. FileKept(t)'
    BY <1>1 DEF ToolInv, Sound, FileKept, Undisturbed, Kept, Carries, Meant
  <2>3. QED BY <2>1, <2>2 DEF Sound
<1>4. QED BY <1>2, <1>3 DEF ToolInv

LEMMA LoopUntouched ==
  ASSUME LoopInv, UNCHANGED loopVars PROVE LoopInv'
<1>1. /\ phase' = phase /\ step' = step /\ cwd' = cwd /\ gen' = gen /\ calls' = calls
      /\ next' = next /\ transcript' = transcript /\ reason' = reason /\ lost' = lost
      /\ nudged' = nudged /\ direct' = direct
  BY DEF loopVars
<1>2. LoopTypes' /\ Questioned' /\ LostArgumentsComeBack'
  BY <1>1 DEF LoopInv, LoopTypes, Questioned, LostArgumentsComeBack
<1>3. Paired'
  BY <1>1, PairedStays DEF LoopInv, Executed
<1>4. QED BY <1>2, <1>3 DEF LoopInv

(* ---------------------------- the steps of the loop ----------------------- *)
LEMMA BeginStep ==
  ASSUME AgentInv, Begin PROVE AgentInv'
<1>1. ToolInv'
  BY ToolsUntouched DEF AgentInv, Begin
<1>2. LoopTypes'
  BY DEF AgentInv, LoopInv, LoopTypes, Begin, End, Working
<1>3. Questioned' /\ LostArgumentsComeBack'
  BY DEF Begin, End, Questioned, LostArgumentsComeBack
<1>4. Paired'
  BY PairedWaits DEF AgentInv, LoopInv, Begin, End, Executed
<1>5. QED BY <1>1, <1>2, <1>3, <1>4 DEF AgentInv, LoopInv

LEMMA GenerateStep ==
  ASSUME AgentInv, Generate PROVE AgentInv'
<1>1. ToolInv'
  BY ToolsUntouched DEF AgentInv, Generate
<1>2. LoopTypes'
  BY DEF AgentInv, LoopInv, LoopTypes, Generate, End, StepsLeft, Working
<1>3. Questioned' /\ LostArgumentsComeBack'
  BY DEF Generate, End, Questioned, LostArgumentsComeBack
<1>4. Paired'
  BY PairedWaits DEF AgentInv, LoopInv, Generate, End, Executed
<1>5. QED BY <1>1, <1>2, <1>3, <1>4 DEF AgentInv, LoopInv

LEMMA ParseStep ==
  ASSUME AgentInv, Parse PROVE AgentInv'
<1>1. ToolInv'
  BY ToolsUntouched DEF AgentInv, Parse
<1>2. PICK p \in Parses[gen] : calls' = p.calls /\ lost' = p.lost
  BY DEF Parse
<1>3. gen \in Texts /\ gen' = gen /\ phase' = "repair"
  BY DEF AgentInv, LoopInv, LoopTypes, Parse
<1>4. p.calls \in Seq(CallRecord) /\ p.lost \subseteq Nat
  BY <1>2, <1>3, ParsedType
<1>5. LoopTypes'
  BY <1>2, <1>4 DEF AgentInv, LoopInv, LoopTypes, Parse, Working
<1>6. Questioned'
  BY DEF Parse, Questioned
<1>7. LostArgumentsComeBack'
  <2>1. SUFFICES ASSUME \A k \in DOMAIN gen : IsFunction(gen[k]), NEW k \in p.lost
                 PROVE  LET b == p.calls[k].block IN
                        \/ gen[b].form = "xml" => p.calls[k].args = gen[b].args
                        \/ \E l \in DOMAIN p.calls \ p.lost :
                             l < k /\ p.calls[l].name = p.calls[k].name
    BY <1>2, <1>3 DEF LostArgumentsComeBack
  <2>2. QED BY <1>2, <1>3, <2>1, Recovered
<1>8. Paired'
  BY PairedWaits DEF AgentInv, LoopInv, Parse, Executed
<1>9. QED BY <1>1, <1>5, <1>6, <1>7, <1>8 DEF AgentInv, LoopInv

LEMMA RepairCallsStep ==
  ASSUME AgentInv, repair_calls PROVE AgentInv'
<1>1. ToolInv'
  BY ToolsUntouched DEF AgentInv, repair_calls
<1>2. /\ LoopTypes /\ phase = "repair" /\ phase' = "append" /\ step' = step /\ cwd' = cwd
      /\ gen' = gen /\ next' = next /\ transcript' = transcript /\ reason' = reason
      /\ lost' = lost /\ direct' = direct
  BY DEF AgentInv, LoopInv, repair_calls
<1>3. ASSUME ~NeedsRepair PROVE LoopTypes' /\ Questioned'
  <2>1. calls' = calls /\ nudged' = nudged
    BY <1>3 DEF repair_calls
  <2>2. LoopTypes'
    BY <1>2, <2>1 DEF LoopTypes, Working
  <2>3. Questioned'
    BY <1>2, <1>3, <2>1 DEF Questioned, NeedsRepair
  <2>4. QED BY <2>2, <2>3
<1>4. ASSUME NeedsRepair PROVE LoopTypes' /\ Questioned'
  <2>1. nudged' = TRUE
    BY <1>4 DEF repair_calls
  <2>2. calls' \in Seq(CallRecord)
    <3>1. CASE calls' = calls
      BY <1>2, <3>1 DEF LoopTypes
    <3>2. CASE calls' # calls
      <4>1. PICK t \in Texts : \E p \in Parses[t] : calls' = p.calls
        BY <1>4, <3>2 DEF repair_calls
      <4>2. QED BY <4>1, ParsedType
    <3>3. QED BY <3>1, <3>2
  <2>3. LoopTypes'
    BY <1>2, <2>1, <2>2 DEF LoopTypes, Working
  <2>4. Questioned'
    BY <2>1 DEF Questioned
  <2>5. QED BY <2>3, <2>4
<1>5. LostArgumentsComeBack'
  BY <1>2 DEF LostArgumentsComeBack
<1>6. Paired'
  BY <1>2, PairedWaits DEF AgentInv, LoopInv, Executed
<1>7. LoopTypes' /\ Questioned'
  BY <1>3, <1>4
<1>8. QED BY <1>1, <1>5, <1>6, <1>7 DEF AgentInv, LoopInv

LEMMA AppendStep ==
  ASSUME AgentInv, Append_ PROVE AgentInv'
<1>1. ToolInv'
  BY ToolsUntouched DEF AgentInv, Append_
<1>2. LoopTypes /\ Questioned /\ Paired /\ phase = "append" /\ ~Executed
  BY DEF AgentInv, LoopInv, Append_, Executed
<1>3. LostArgumentsComeBack'
  BY DEF Append_, End, LostArgumentsComeBack
<1>4. ASSUME calls = <<>> PROVE LoopTypes' /\ Questioned' /\ Paired'
  <2>1. <<>> \in Seq(CallRecord)
    BY EmptySeq
  <2>2. /\ phase' = "idle" /\ reason' = "stop" /\ gen' = <<>> /\ calls' = <<>> /\ next' = 0
        /\ lost' = {} /\ nudged' = FALSE /\ transcript' = transcript
        /\ step' = step /\ cwd' = cwd /\ direct' = direct
    BY <1>4 DEF Append_, End, Forget
  <2>3. LoopTypes' /\ Questioned'
    BY <1>2, <2>1, <2>2 DEF LoopTypes, Questioned, Working
  <2>4. Paired'
    BY <1>2, <2>2, PairedWaits DEF Executed
  <2>5. QED BY <2>3, <2>4
<1>5. ASSUME calls # <<>> PROVE LoopTypes' /\ Questioned' /\ Paired'
  <2>1. /\ phase' = "call" /\ next' = 1 /\ gen' = <<>> /\ lost' = {} /\ calls' = calls
        /\ transcript' = Append(transcript, [role |-> "assistant", calls |-> calls])
        /\ reason' = reason /\ step' = step /\ cwd' = cwd /\ direct' = direct
    BY <1>5 DEF Append_
  <2>2. nudged' = nudged
    BY <1>5 DEF Append_
  <2>3. Paired' /\ transcript' \in Seq(Message)
    BY <1>2, <2>1, MessageStep
  <2>4. LoopTypes'
    BY <1>2, <2>1, <2>2, <2>3 DEF LoopTypes, Working
  <2>5. Questioned'
    BY <1>2, <1>5, <2>1, <2>2 DEF Questioned
  <2>6. QED BY <2>3, <2>4, <2>5
<1>6. QED BY <1>1, <1>3, <1>4, <1>5 DEF AgentInv, LoopInv

\* A call that is answered, by its tool or at once.
LEMMA AnswerKeepsLoop ==
  ASSUME LoopInv, Executed, next <= Len(calls), Answered(calls[next]),
         UNCHANGED <<step, cwd, gen, calls, reason, lost, nudged, direct>>
  PROVE  LoopInv'
<1>1. LoopTypes /\ Questioned /\ Paired /\ calls' = calls
  BY DEF LoopInv
<1>2. Paired' /\ transcript' \in Seq(Message) /\ next' \in Nat /\ phase' = "call"
  BY <1>1, AnsweredStep
<1>3. LoopTypes'
  BY <1>1, <1>2 DEF LoopTypes, Working, Executed
<1>4. Questioned'
  <2>1. nudged' = nudged
    OBVIOUS
  <2>2. QED BY <1>1, <1>2, <2>1 DEF Questioned, Executed
<1>5. LostArgumentsComeBack'
  BY <1>2 DEF LostArgumentsComeBack
<1>6. QED BY <1>2, <1>3, <1>4, <1>5 DEF LoopInv

LEMMA CallToolStep ==
  ASSUME AgentInv, CallTool PROVE AgentInv'
<1>1. /\ ToolInv /\ LoopInv /\ LoopTypes /\ Questioned /\ Paired /\ phase = "call"
      /\ next <= Len(calls) /\ Executed
      /\ UNCHANGED <<step, cwd, gen, calls, reason, lost, nudged, direct>>
  BY DEF AgentInv, LoopInv, CallTool, Executed
<1>2. calls[next] \in CallRecord
  <2>1. calls \in Seq(CallRecord) /\ next \in 1 .. Len(calls)
    BY <1>1, LenProperties DEF LoopTypes, Paired
  <2>2. QED BY <2>1, ElementOfSeq
<1> DEFINE c == calls[next]
           k == [tool |-> c.name, cwd |-> cwd, path |-> None, args |-> c.args]
<1>3. CASE c.name \in Tools
  <2>1. Enter(Runner, k) /\ phase' = "tool" /\ next' = next /\ transcript' = transcript
    BY <1>3 DEF CallTool
  <2>2. k \in CallType /\ (k.tool = "exec_shell_command" => k.path = None)
    BY <1>1, <1>2, <1>3 DEF CallType, CallRecord, LoopTypes
  <2> HIDE DEF k
  <2>3. ToolInv'
    BY <1>1, <2>1, <2>2, EnterStep, RunnerAssumption
  <2>4. LoopTypes'
    BY <1>1, <2>1 DEF LoopTypes, Working
  <2>5. Questioned'
    <3>1. nudged' = nudged
      BY <1>1
    <3>2. QED BY <1>1, <2>1, <3>1 DEF Questioned
  <2>6. LostArgumentsComeBack'
    BY <2>1 DEF LostArgumentsComeBack
  <2>7. Paired'
    BY <1>1, <2>1, PairedStays DEF Executed
  <2>8. QED BY <2>3, <2>4, <2>5, <2>6, <2>7 DEF AgentInv, LoopInv
<1>4. CASE c.name \notin Tools
  <2>1. Answered(calls[next]) /\ UNCHANGED tools_
    BY <1>4 DEF CallTool
  <2>2. QED BY <1>1, <2>1, ToolsUntouched, AnswerKeepsLoop DEF AgentInv
<1>5. QED BY <1>3, <1>4

LEMMA ToolReturnedStep ==
  ASSUME AgentInv, ToolReturned PROVE AgentInv'
<1>1. ToolInv'
  BY LeaveStep, RunnerAssumption DEF AgentInv, ToolReturned
<1>2. Executed /\ next <= Len(calls) /\ Answered(calls[next])
      /\ UNCHANGED <<step, cwd, gen, calls, reason, lost, nudged, direct>>
  BY DEF AgentInv, LoopInv, Paired, Executed, ToolReturned
<1>3. QED BY <1>1, <1>2, AnswerKeepsLoop DEF AgentInv

LEMMA NextStepStep ==
  ASSUME AgentInv, NextStep PROVE AgentInv'
<1>1. ToolInv'
  BY ToolsUntouched DEF AgentInv, NextStep
<1>2. LoopTypes /\ Paired /\ phase = "call" /\ next > Len(calls) /\ phase' = "render"
      /\ step' = step + 1 /\ gen' = <<>> /\ calls' = <<>> /\ next' = 0 /\ lost' = {}
      /\ nudged' = FALSE /\ cwd' = cwd /\ transcript' = transcript /\ reason' = reason
      /\ direct' = direct
  BY DEF AgentInv, LoopInv, NextStep, Forget
<1>3. LoopTypes'
  <2>1. <<>> \in Seq(CallRecord)
    BY EmptySeq
  <2>2. step' \in 0 .. MaxSteps
    BY <1>2, BoundsAssumption DEF LoopTypes, Working
  <2>3. QED BY <1>2, <2>1, <2>2 DEF LoopTypes, Working
<1>4. Questioned' /\ LostArgumentsComeBack'
  BY <1>2 DEF Questioned, LostArgumentsComeBack
<1>5. Paired'
  BY <1>2, NextRoundStep
<1>6. QED BY <1>1, <1>3, <1>4, <1>5 DEF AgentInv, LoopInv

(* ------------------------- direct calls and the world --------------------- *)
LEMMA CallDirectStep ==
  ASSUME AgentInv, NEW t \in Threads, CallDirect(t) PROVE AgentInv'
<1>1. PICK c \in Calls : Enter(t, c)
  BY DEF CallDirect
<1>2. c \in CallType /\ (c.tool = "exec_shell_command" => c.path = None)
  BY CallsAssumption DEF CallType
<1>3. ToolInv'
  BY <1>1, <1>2, EnterStep DEF AgentInv
<1>4. /\ phase' = phase /\ step' = step /\ cwd' = cwd /\ gen' = gen /\ calls' = calls
      /\ next' = next /\ transcript' = transcript /\ reason' = reason /\ lost' = lost
      /\ nudged' = nudged /\ direct' = direct + 1 /\ direct < MaxCalls
  BY DEF CallDirect
<1>5. LoopTypes'
  <2>1. direct' \in 0 .. MaxCalls
    BY <1>4, BoundsAssumption DEF AgentInv, LoopInv, LoopTypes
  <2>2. QED BY <1>4, <2>1 DEF AgentInv, LoopInv, LoopTypes
<1>6. Questioned' /\ LostArgumentsComeBack'
  BY <1>4 DEF AgentInv, LoopInv, Questioned, LostArgumentsComeBack
<1>7. Paired'
  BY <1>4, PairedStays DEF AgentInv, LoopInv, Executed
<1>8. QED BY <1>3, <1>5, <1>6, <1>7 DEF AgentInv, LoopInv

LEMMA DirectReturnsStep ==
  ASSUME AgentInv, NEW t \in Threads, DirectReturns(t) PROVE AgentInv'
BY LeaveStep, LoopUntouched DEF AgentInv, DirectReturns

LEMMA WorldStep ==
  ASSUME AgentInv, NEW t \in Threads, Works(t) \/ Outside(t) \/ Clock(t) PROVE AgentInv'
BY ToolStep, LoopUntouched DEF AgentInv, Works, Outside, Clock

LEMMA NextAgentInv == AgentInv /\ [Next]_vars => AgentInv'
<1> SUFFICES ASSUME AgentInv, [Next]_vars PROVE AgentInv'
  OBVIOUS
<1>1. CASE Begin
  BY <1>1, BeginStep
<1>2. CASE Run
  BY <1>2, GenerateStep, ParseStep, RepairCallsStep, AppendStep, CallToolStep,
     ToolReturnedStep, NextStepStep DEF Run
<1>3. ASSUME NEW t \in Threads,
             CallDirect(t) \/ DirectReturns(t) \/ Works(t) \/ Outside(t) \/ Clock(t)
      PROVE  AgentInv'
  BY <1>3, CallDirectStep, DirectReturnsStep, WorldStep
<1>4. CASE UNCHANGED vars
  BY <1>4, ToolsUntouched, LoopUntouched DEF AgentInv, vars, tools_
<1>5. QED BY <1>1, <1>2, <1>3, <1>4 DEF Next

\* The invariant holds in every state of the agent and its tools.
THEOREM Invariance == Spec => []AgentInv
BY AgentInvInit, NextAgentInv, PTL DEF Spec

LEMMA LoopInvIsPaired == LoopInv => TranscriptIsPaired
<1> SUFFICES ASSUME LoopInv PROVE TranscriptIsPaired
  OBVIOUS
<1>1. AnswersAreAsked
  BY DEF LoopInv, Paired
<1>2. phase = "render" => \A a \in DOMAIN transcript \ Answers : AllAnswered(a)
  BY DEF LoopInv, Paired, Executed
<1>3. QED BY <1>1, <1>2 DEF TranscriptIsPaired, AnswersAreAsked, AllAnswered, Answers, Opens_

LEMMA LoopInvIsTheModels == AgentInv => CallsAreTheModels
<1> SUFFICES ASSUME AgentInv PROVE CallsAreTheModels
  OBVIOUS
<1>1. TypeOK
  BY SoundIsExact DEF AgentInv, LoopInv, LoopTypes, Working, TypeOK
<1>2. BlankCallsWereQuestioned
  BY DEF AgentInv, LoopInv, Questioned, BlankCallsWereQuestioned
<1>3. QED BY <1>1, <1>2 DEF AgentInv, LoopInv, CallsAreTheModels

\* A tool works on the file that its caller meant, never on that of another request,
\* and if nobody else writes that file meanwhile does to it exactly what it says; after
\* an error the file is as it was, or empty where write_file was given content that is
\* no string (t_cwd_override and CwdGuard, t_read_file to t_edit_file).
THEOREM ExactTools == Spec => []ToolIsExact
<1>1. AgentInv => ToolIsExact
  BY SoundIsExact DEF AgentInv
<1>2. QED BY <1>1, Invariance, PTL

\* What the last line of a shell's answer says of the shell and its output is so, on
\* Windows and elsewhere, whatever the shell leaves running behind it (t_shell).
THEOREM TrueShellAnswers == Spec => []ShellAnswerIsTrue
<1>1. AgentInv => ShellAnswerIsTrue
  BY SoundIsExact DEF AgentInv
<1>2. QED BY <1>1, Invariance, PTL

\* Behind every assistant message there is one answer for each of its calls, in their
\* order, and no other (run, transcript.push_back).
THEOREM PairedTranscript == Spec => []TranscriptIsPaired
<1>1. AgentInv => TranscriptIsPaired
  BY LoopInvIsPaired DEF AgentInv
<1>2. QED BY <1>1, Invariance, PTL

\* Whichever arguments the parse lost of a text of <function=> blocks, an XML block's come
\* back to its own call, also when several call the same tool, unless an earlier call of it
\* kept its own; and a message of calls without any is questioned first (recover_xml_args,
\* repair_calls).
THEOREM ModelsCalls == Spec => []CallsAreTheModels
BY LoopInvIsTheModels, Invariance, PTL

(* -------------------- how long a run and a call may take ------------------ *)
\* What a run has left: steps of max_steps_, duties within this one, calls of it.
Rounds == IF phase = "idle" THEN 0 ELSE MaxSteps + 1 - step
Duties ==
  CASE phase = "render" -> 5 [] phase = "parse" -> 4 [] phase = "repair" -> 3
    [] phase = "append" -> 2 [] phase \in {"call", "tool"} -> 1 [] OTHER -> 0
CallsLeft ==
  CASE phase = "call" -> 2 * (Len(calls) + 1 - next) + 1
    [] phase = "tool" -> 2 * (Len(calls) + 1 - next)
    [] OTHER -> 0

RunNearer ==
  \/ Rounds' < Rounds
  \/ Rounds' = Rounds /\ Duties' < Duties
  \/ Rounds' = Rounds /\ Duties' = Duties /\ CallsLeft' < CallsLeft

LEMMA RunMeasure ==
  ASSUME LoopInv
  PROVE  /\ Rounds \in Nat /\ Duties \in 0 .. 5 /\ CallsLeft \in Nat
         /\ (phase # "idle" => Rounds = MaxSteps + 1 - step /\ Rounds > 0)
<1>1. /\ step \in 0 .. MaxSteps /\ MaxSteps \in Nat /\ next \in Nat /\ Len(calls) \in Nat
      /\ (phase \in {"call", "tool"} => next \in 1 .. Len(calls) + 1)
  BY BoundsAssumption, LenProperties DEF LoopInv, LoopTypes, Paired, Executed
<1>2. CallsLeft \in Nat
  <2>1. CASE phase \in {"call", "tool"}
    <3>1. Len(calls) + 1 - next \in Nat
      BY <1>1, <2>1
    <3>2. QED BY <2>1, <3>1 DEF CallsLeft
  <2>2. CASE phase \notin {"call", "tool"}
    BY <2>2 DEF CallsLeft
  <2>3. QED BY <2>1, <2>2
<1>3. QED BY <1>1, <1>2 DEF Rounds, Duties

\* Within a step of the loop a duty is done after the other, and a call after the other.
LEMMA RunStepNearer == ASSUME LoopInv, Run PROVE RunNearer
<1>1. /\ Rounds = MaxSteps + 1 - step /\ Rounds > 0 /\ MaxSteps \in Nat /\ step \in Nat
      /\ next \in Nat /\ Len(calls) \in Nat
  BY RunMeasure, BoundsAssumption, LenProperties
     DEF LoopInv, LoopTypes, Run, Generate, Parse, repair_calls, Append_, CallTool, ToolReturned,
         NextStep
<1>2. ASSUME phase' = "idle" PROVE RunNearer
  BY <1>1, <1>2 DEF RunNearer, Rounds
<1>3. ASSUME phase' # "idle", step' = step PROVE Rounds' = Rounds
  BY <1>1, <1>3 DEF Rounds
<1>4. CASE Generate
  <2>1. step' = step /\ Duties = 5 /\ (phase' = "idle" \/ phase' = "parse")
    BY <1>4 DEF Generate, End, Duties
  <2>2. phase' = "parse" => Duties' = 4
    BY DEF Duties
  <2>3. QED BY <1>2, <1>3, <2>1, <2>2 DEF RunNearer
<1>5. CASE Parse
  <2>1. step' = step /\ phase' = "repair" /\ Duties = 4 /\ Duties' = 3
    BY <1>5 DEF Parse, Duties
  <2>2. QED BY <1>3, <2>1 DEF RunNearer
<1>6. CASE repair_calls
  <2>1. step' = step /\ phase' = "append" /\ Duties = 3 /\ Duties' = 2
    BY <1>6 DEF repair_calls, Duties
  <2>2. QED BY <1>3, <2>1 DEF RunNearer
<1>7. CASE Append_
  <2>1. step' = step /\ Duties = 2 /\ (phase' = "idle" \/ phase' = "call")
    BY <1>7 DEF Append_, End, Duties
  <2>2. phase' = "call" => Duties' = 1
    BY DEF Duties
  <2>3. QED BY <1>2, <1>3, <2>1, <2>2 DEF RunNearer
<1>8. CASE CallTool \/ ToolReturned
  <2>1. step' = step /\ calls' = calls /\ phase \in {"call", "tool"} /\ phase' \in {"call", "tool"}
    BY <1>8 DEF CallTool, ToolReturned, Answered
  <2>2. Duties = 1 /\ Duties' = 1
    BY <2>1 DEF Duties
  <2>3. \/ phase = "call" /\ phase' = "tool" /\ next' = next
        \/ next' = next + 1 /\ phase' = "call"
    BY <1>8 DEF CallTool, ToolReturned, Answered
  <2>4. CallsLeft' < CallsLeft
    <3> DEFINE n == Len(calls) + 1 - next
    <3>1. n \in Int /\ Len(calls') + 1 - next = n /\ Len(calls') + 1 - (next + 1) = n - 1
      BY <1>1, <2>1
    <3>2. CASE phase = "call" /\ phase' = "tool" /\ next' = next
      <4>1. CallsLeft = 2 * n + 1 /\ CallsLeft' = 2 * n
        BY <3>1, <3>2 DEF CallsLeft
      <4>2. QED BY <3>1, <4>1
    <3>3. CASE next' = next + 1 /\ phase' = "call"
      <4>1. CallsLeft \in {2 * n, 2 * n + 1} /\ CallsLeft' = 2 * (n - 1) + 1
        BY <2>1, <3>1, <3>3 DEF CallsLeft
      <4>2. QED BY <3>1, <4>1
    <3>4. QED BY <2>3, <3>2, <3>3
  <2>5. QED BY <1>3, <2>1, <2>2, <2>4 DEF RunNearer
<1>9. CASE NextStep
  <2>1. phase' = "render" /\ step' = step + 1
    BY <1>9 DEF NextStep
  <2>2. QED BY <1>1, <2>1 DEF RunNearer, Rounds
<1>10. QED BY <1>4, <1>5, <1>6, <1>7, <1>8, <1>9 DEF Run

\* Every step of AgentRunner::run brings it nearer to its end, whatever texts the model generates,
\* however many calls it makes, and whether it is questioned again; no other thread sets it back.
\* What is left is well-founded, and the end of a run (AgentReturns) rests on it.
THEOREM RunsGetNearer ==
  Spec => /\ [](Rounds \in Nat /\ Duties \in 0 .. 5 /\ CallsLeft \in Nat)
          /\ [][phase # "idle" => RunNearer \/ UNCHANGED <<phase, step, calls, next>>]_vars
<1>1. AgentInv => Rounds \in Nat /\ Duties \in 0 .. 5 /\ CallsLeft \in Nat
  BY RunMeasure DEF AgentInv
<1>2. AgentInv /\ [Next]_vars =>
        [phase # "idle" => RunNearer \/ UNCHANGED <<phase, step, calls, next>>]_vars
  <2>1. ASSUME AgentInv, Next, phase # "idle"
        PROVE  RunNearer \/ UNCHANGED <<phase, step, calls, next>>
    <3>1. CASE Run
      BY <2>1, <3>1, RunStepNearer DEF AgentInv
    <3>2. ASSUME NEW t \in Threads,
                 CallDirect(t) \/ DirectReturns(t) \/ Works(t) \/ Outside(t) \/ Clock(t)
          PROVE  UNCHANGED <<phase, step, calls, next>>
      BY <3>2 DEF CallDirect, DirectReturns, Works, Outside, Clock, loopVars
    <3>3. QED BY <2>1, <3>1, <3>2 DEF Next, Begin
  <2>2. QED BY <2>1
<1>3. QED BY <1>1, <1>2, Invariance, PTL DEF Spec

\* Where a call of execute is, and what a shell may still read.
Stage(t) ==
  CASE pc[t] = "entered" -> 6 [] pc[t] = "peek" -> 5 [] pc[t] = "wait" -> 4
    [] pc[t] \in {"late", "gets", "reopen"} -> 3
    [] pc[t] \in {"drain", "pclose", "put"} -> 2
    [] pc[t] = "done" -> 1 [] OTHER -> 0
ToRead(t) == Cap + 1 - got[t]

ToolNearer(t) ==
  \/ Stage(t)' < Stage(t)
  \/ Stage(t)' = Stage(t) /\ ToRead(t)' < ToRead(t)

\* The branch with a deadline goes round once more as long as it has not come.
Polls(t) == /\ pc[t] = "late" /\ ~due[t]
            /\ pc'[t] = "peek" /\ ToRead(t)' = ToRead(t)

LEMMA FileToolNearer ==
  ASSUME ToolInv, NEW t \in Threads,
         get_datetime(t) \/ CannotOpen(t) \/ read_file(t) \/ Truncate(t) \/ Load(t)
           \/ Reopen(t) \/ Put(t) \/ Spawn(t)
  PROVE  ToolNearer(t)
<1>1. pc \in [Threads -> Labels]
  BY DEF ToolInv, ToolTypes
<1>2. CASE pc[t] = "entered"
  <2>1. pc'[t] \in {"done", "put", "reopen", "peek", "gets"}
    BY <1>1, <1>2 DEF get_datetime, CannotOpen, read_file, Truncate, Load, Reopen, Put, Spawn,
                      Fails, Ends, Goto
  <2>2. Stage(t) = 6 /\ Stage(t)' \in 1 .. 5
    BY <1>2, <2>1 DEF Stage
  <2>3. QED BY <2>2 DEF ToolNearer
<1>3. CASE Reopen(t)
  <2>1. pc[t] = "reopen" /\ pc'[t] \in {"put", "done"}
    BY <1>1, <1>3 DEF Reopen, Fails, Ends
  <2>2. Stage(t) = 3 /\ Stage(t)' \in 1 .. 2
    BY <2>1 DEF Stage
  <2>3. QED BY <2>2 DEF ToolNearer
<1>4. CASE Put(t)
  <2>1. pc[t] = "put" /\ pc'[t] = "done"
    BY <1>1, <1>4 DEF Put, Ends
  <2>2. Stage(t) = 2 /\ Stage(t)' = 1
    BY <2>1 DEF Stage
  <2>3. QED BY <2>2 DEF ToolNearer
<1>5. QED
  BY <1>2, <1>3, <1>4 DEF get_datetime, CannotOpen, read_file, Truncate, Load, Spawn, Opens, Entered

\* A shell reads a chunk, which it may do until its answer is full, or goes on to its end.
LEMMA ShellNearer ==
  ASSUME ToolInv, NEW t \in Threads,
         Peek(t) \/ Wait(t) \/ Late(t) \/ Drain(t) \/ Gets(t) \/ pclose(t)
  PROVE  ToolNearer(t) \/ Polls(t)
<1>1. /\ pc \in [Threads -> Labels] /\ got \in [Threads -> 0 .. Cap + 1] /\ Cap \in Nat
  BY CapAssumption DEF ToolInv, ToolTypes
<1>2. ASSUME NEW n \in Nat, NEW m \in Nat, Stage(t) = n, Stage(t)' = m, m < n PROVE ToolNearer(t)
  BY <1>2 DEF ToolNearer
<1>3. ASSUME pc[t] \in {"peek", "gets"}, pc'[t] = pc[t], got' = [got EXCEPT ![t] = @ + 1]
      PROVE  ToolNearer(t)
  <2>1. Stage(t)' = Stage(t)
    BY <1>3 DEF Stage
  <2>2. ToRead(t)' < ToRead(t)
    BY <1>1, <1>3 DEF ToRead
  <2>3. QED BY <2>1, <2>2 DEF ToolNearer
<1>4. CASE Peek(t)
  <2>1. pc[t] = "peek" /\ Stage(t) = 5
    BY <1>4 DEF Peek, Stage
  <2>2. \/ pc' = pc /\ got' = [got EXCEPT ![t] = @ + 1]
        \/ pc'[t] \in {"done", "wait"}
    BY <1>1, <1>4 DEF Peek, Takes, Ends, Goto
  <2>3. pc'[t] \in {"done", "wait"} => Stage(t)' \in {1, 4}
    BY DEF Stage
  <2>4. QED BY <1>2, <1>3, <2>1, <2>2, <2>3
<1>5. CASE Wait(t)
  <2>1. pc[t] = "wait" /\ pc'[t] \in {"drain", "late"}
    BY <1>1, <1>5 DEF Wait, Goto
  <2>2. Stage(t) = 4 /\ Stage(t)' \in {2, 3}
    BY <2>1 DEF Stage
  <2>3. QED BY <1>2, <2>2
<1>6. CASE Late(t)
  <2>1. pc[t] = "late" /\ got' = got /\ pc'[t] = IF due[t] THEN "done" ELSE "peek"
    BY <1>1, <1>6 DEF Late, Ends, Goto
  <2>2. Stage(t) = 3 /\ (due[t] => Stage(t)' = 1) /\ ToRead(t)' = ToRead(t)
    BY <2>1 DEF Stage, ToRead
  <2>3. QED BY <1>2, <2>1, <2>2 DEF Polls
<1>7. CASE Drain(t) \/ pclose(t)
  <2>1. pc[t] \in {"drain", "pclose"} /\ pc'[t] = "done"
    BY <1>1, <1>7 DEF Drain, pclose, Ends
  <2>2. Stage(t) = 2 /\ Stage(t)' = 1
    BY <2>1 DEF Stage
  <2>3. QED BY <1>2, <2>2
<1>8. CASE Gets(t)
  <2>1. pc[t] = "gets" /\ Stage(t) = 3
    BY <1>8 DEF Gets, Stage
  <2>2. \/ pc' = pc /\ got' = [got EXCEPT ![t] = @ + 1]
        \/ pc'[t] = "pclose"
    BY <1>1, <1>8 DEF Gets, Takes, Goto
  <2>3. pc'[t] = "pclose" => Stage(t)' = 2
    BY DEF Stage
  <2>4. QED BY <1>2, <1>3, <2>1, <2>2, <2>3
<1>9. QED BY <1>4, <1>5, <1>6, <1>7, <1>8

LEMMA LeaveNearer == ASSUME ToolInv, NEW t \in Threads, Leave(t) PROVE ToolNearer(t)
<1>1. pc[t] = "done" /\ pc'[t] = "idle"
  BY DEF Leave, ToolInv, ToolTypes
<1>2. Stage(t) = 1 /\ Stage(t)' = 0
  BY <1>1 DEF Stage
<1>3. QED BY <1>2 DEF ToolNearer

\* What others do leaves a thread where it is; its deadline, once it has come, stays.
Stays(t) == pc'[t] = pc[t] /\ got'[t] = got[t] /\ (due[t] => due'[t])

LEMMA OthersLeave ==
  ASSUME ToolInv, NEW u \in Threads, NEW t \in Threads, t # u,
         Tool(u) \/ Leave(u) \/ ChildWrites(u) \/ ChildExits(u) \/ CommandEnds(u)
           \/ DeadlinePasses(u) \/ \E c : Enter(u, c)
  PROVE  Stays(t)
<1> USE DEF Stays
<1>1. /\ pc \in [Threads -> Labels] /\ got \in [Threads -> 0 .. Cap + 1]
      /\ due \in [Threads -> BOOLEAN]
  BY DEF ToolInv, ToolTypes
<1>2. CASE get_datetime(u) \/ CannotOpen(u) \/ read_file(u) \/ Truncate(u) \/ Load(u)
           \/ Reopen(u) \/ Put(u)
  BY <1>1, <1>2 DEF get_datetime, CannotOpen, read_file, Truncate, Load, Reopen, Put, Fails, Ends,
                    shell
<1>3. CASE t_shell(u)
  BY <1>1, <1>3 DEF t_shell, Spawn, Peek, Wait, Late, Drain, Gets, pclose, Ends, Goto, Takes
<1>4. CASE Leave(u) \/ ChildWrites(u) \/ ChildExits(u) \/ CommandEnds(u) \/ DeadlinePasses(u)
  BY <1>1, <1>4 DEF Leave, ChildWrites, ChildExits, CommandEnds, DeadlinePasses
<1>5. CASE \E c : Enter(u, c)
  BY <1>1, <1>5 DEF Enter
<1>6. QED BY <1>2, <1>3, <1>4, <1>5 DEF Tool

\* Its own world, the child and the clock, leaves it there too.
LEMMA WorldLeaves ==
  ASSUME ToolInv, NEW t \in Threads,
         ChildWrites(t) \/ ChildExits(t) \/ CommandEnds(t) \/ DeadlinePasses(t)
  PROVE  Stays(t)
BY DEF ToolInv, ToolTypes, Stays, ChildWrites, ChildExits, CommandEnds, DeadlinePasses

\* Every step of a call of execute brings it nearer to its return, whatever the files hold, the
\* command prints and the other threads do. The one exception is a shell that polls before its
\* deadline: it has lost nothing of what it read.  AgentReturns rests on this and on a deadline that
\* comes.
THEOREM ToolsGetNearer ==
  Spec => /\ [](\A t \in Threads : Stage(t) \in 0 .. 6 /\ ToRead(t) \in Nat)
          /\ [][\A t \in Threads :
                  pc[t] # "idle" => ToolNearer(t) \/ Polls(t) \/ Stays(t)]_vars
<1>1. AgentInv => \A t \in Threads : Stage(t) \in 0 .. 6 /\ ToRead(t) \in Nat
  <2> SUFFICES ASSUME AgentInv, NEW t \in Threads PROVE Stage(t) \in 0 .. 6 /\ ToRead(t) \in Nat
    OBVIOUS
  <2>1. got[t] \in 0 .. Cap + 1 /\ Cap \in Nat
    BY CapAssumption DEF AgentInv, ToolInv, ToolTypes
  <2>2. QED BY <2>1 DEF Stage, ToRead
<1>2. AgentInv /\ [Next]_vars =>
        [\A t \in Threads : pc[t] # "idle" => ToolNearer(t) \/ Polls(t) \/ Stays(t)]_vars
  <2>1. ASSUME AgentInv, Next, NEW t \in Threads, pc[t] # "idle"
        PROVE  ToolNearer(t) \/ Polls(t) \/ Stays(t)
    <3>1. ToolInv
      BY <2>1 DEF AgentInv
    <3>2. ASSUME UNCHANGED tools_ PROVE Stays(t)
      BY <3>2 DEF tools_, toolVars, Stays
    <3>3. ASSUME Tool(t) PROVE ToolNearer(t) \/ Polls(t)
      BY <3>1, <3>3, FileToolNearer, ShellNearer DEF Tool, t_shell
    <3>4. ASSUME NEW u \in Threads, Tool(u) \/ Leave(u) \/ ChildWrites(u) \/ ChildExits(u)
                   \/ CommandEnds(u) \/ DeadlinePasses(u) \/ \E c : Enter(u, c)
          PROVE  ToolNearer(t) \/ Polls(t) \/ Stays(t)
      <4>1. CASE u # t
        BY <3>1, <3>4, <4>1, OthersLeave
      <4>2. CASE u = t
        BY <2>1, <3>1, <3>3, <3>4, <4>2, LeaveNearer, WorldLeaves DEF Enter
      <4>3. QED BY <4>1, <4>2
    <3>5. CASE Begin \/ Generate \/ Parse \/ repair_calls \/ Append_ \/ NextStep
      BY <3>2, <3>5 DEF Begin, Generate, Parse, repair_calls, Append_, NextStep
    <3>6. CASE CallTool
      <4>1. UNCHANGED tools_ \/ \E c : Enter(Runner, c)
        BY <3>6 DEF CallTool
      <4>2. QED BY <3>2, <3>4, <4>1, RunnerAssumption
    <3>7. CASE ToolReturned
      BY <3>4, <3>7, RunnerAssumption DEF ToolReturned
    <3>8. ASSUME NEW u \in Threads,
                 CallDirect(u) \/ DirectReturns(u) \/ Works(u) \/ Outside(u) \/ Clock(u)
          PROVE  ToolNearer(t) \/ Polls(t) \/ Stays(t)
      <4>1. Tool(u) \/ Leave(u) \/ ChildWrites(u) \/ ChildExits(u) \/ CommandEnds(u)
              \/ DeadlinePasses(u) \/ \E c : Enter(u, c)
        BY <3>8 DEF CallDirect, DirectReturns, Works, Outside, Clock
      <4>2. QED BY <3>4, <4>1
    <3>9. QED BY <2>1, <3>5, <3>6, <3>7, <3>8 DEF Next, Run
  <2>2. QED BY <2>1
<1>3. QED BY <1>1, <1>2, Invariance, PTL DEF Spec

(* ------------------------ the classes of a pattern ------------------------ *)
Strings == Seq(Letters)

LEMMA StringIs ==
  ASSUME NEW s \in Strings
  PROVE  Len(s) \in Nat /\ DOMAIN s = 1 .. Len(s) /\ \A k \in 1 .. Len(s) : s[k] \in Letters
BY LenProperties, ElementOfSeq DEF Strings

\* The recursive function of Members for a class that closes at last, with what it
\* takes at k and where it goes on.
Spans_(pat, last, k) == k + 2 < last /\ pat[k + 1] = "-"
Single(pat, last, k) ==
  IF Spans_(pat, last, k)
  THEN {c \in Letters : Rank[c] \in Rank[pat[k]] .. Rank[pat[k + 2]]} ELSE {pat[k]}
Width(pat, last, k) == IF Spans_(pat, last, k) THEN 3 ELSE 1

Members_(pat, last, f) == f = [k \in 1 .. (Len(pat) + 3) |->
  IF k >= last THEN {}
  ELSE IF k + 2 < last /\ pat[k + 1] = "-"
       THEN {c \in Letters : Rank[c] \in Rank[pat[k]] .. Rank[pat[k + 2]]} \cup f[k + 3]
       ELSE {pat[k]} \cup f[k + 1]]
MembersOf(pat, last) == CHOOSE f : Members_(pat, last, f)

LEMMA MembersAre ==
  ASSUME NEW pat, NEW p
  PROVE  Members(pat, p) = MembersOf(pat, Min(Closing(pat, p)))[ClassFrom(pat, p)]
BY DEF Members, MembersOf, Members_

LEMMA MembersRun ==
  ASSUME NEW pat \in Strings, NEW last \in 1 .. Len(pat)
  PROVE  \A k \in 1 .. (Len(pat) + 3) : MembersOf(pat, last)[k] =
           IF k >= last THEN {}
           ELSE Single(pat, last, k) \cup MembersOf(pat, last)[k + Width(pat, last, k)]
<1> DEFINE D == 1 .. (Len(pat) + 3)
           V == SUBSET Letters
           done == {k \in D : k >= last}
           base == [k \in D |-> {}]
           rank == [k \in D |-> IF k >= last THEN 0 ELSE last - k]
           goes == [k \in D |-> IF k >= last THEN k ELSE k + Width(pat, last, k)]
           makes == [x \in D \X V |-> IF x[1] >= last THEN {} ELSE Single(pat, last, x[1]) \cup x[2]]
           N == Len(pat)
<1>1. N \in Nat
  BY StringIs
<1>2. rank \in [D -> 0 .. N]
  BY <1>1
<1>3. base \in [D -> V]
  OBVIOUS
<1>4. goes \in [D -> D]
  BY <1>1 DEF Width, Spans_
<1>5. ASSUME NEW k \in D, ~(k >= last) PROVE Single(pat, last, k) \in V
  <2>1. k \in 1 .. Len(pat)
    BY <1>1, <1>5
  <2>2. QED BY <2>1, StringIs DEF Single
<1>6. makes \in [D \X V -> V]
  <2>1. ASSUME NEW x \in D \X V PROVE makes[x] \in V
    BY <1>5
  <2>2. QED BY <2>1
<1>7. Falls(rank, D, done, goes)
  BY <1>1 DEF Falls, Width, Spans_
<1>8. PICK f \in [D -> V] : Runs(f, D, done, base, goes, makes)
  <2> HIDE DEF D, V, done, base, rank, goes, makes, N
  <2>1. QED BY <1>1, <1>2, <1>3, <1>4, <1>6, <1>7, Recursion
<1>9. Members_(pat, last, f)
  <2>1. ASSUME NEW k \in D
        PROVE  f[k] = IF k >= last THEN {}
                      ELSE IF k + 2 < last /\ pat[k + 1] = "-"
                           THEN {c \in Letters : Rank[c] \in Rank[pat[k]] .. Rank[pat[k + 2]]} \cup f[k + 3]
                           ELSE {pat[k]} \cup f[k + 1]
    <3>1. CASE k >= last
      BY <1>8, <3>1 DEF Runs
    <3>2. CASE ~(k >= last)
      <4>1. goes[k] = k + Width(pat, last, k) /\ goes[k] \in D /\ f[goes[k]] \in V
        BY <1>4, <1>8, <3>2
      <4>2. f[k] = makes[<<k, f[goes[k]]>>]
        BY <1>8, <3>2 DEF Runs
      <4>3. makes[<<k, f[goes[k]]>>] = Single(pat, last, k) \cup f[goes[k]]
        BY <4>1, <3>2
      <4>4. QED BY <3>2, <4>1, <4>2, <4>3 DEF Single, Width, Spans_
    <3>3. QED BY <3>1, <3>2
  <2>2. QED BY <2>1 DEF Members_
<1>10. Members_(pat, last, MembersOf(pat, last))
  BY <1>9 DEF MembersOf
<1>11. QED
  <2> HIDE DEF done, base, rank, goes, makes
  <2>1. QED BY <1>10 DEF Members_, Single, Width, Spans_

\* The recursive function of glob_bracket, for the character c.
Scan(pat, c, f) == f = [q \in 1 .. (Len(pat) + 3) |->
  IF q > Len(pat) \/ pat[q] = "]" THEN [q |-> q, any |-> FALSE]
  ELSE LET rest == f[IF IsRange(pat, q) THEN q + 3 ELSE q + 1]
       IN  [q |-> rest.q, any |-> rest.any \/ Within(pat, q, c)]]
ScanOf(pat, c) == CHOOSE f : Scan(pat, c, f)

LEMMA BracketIsScan ==
  ASSUME NEW pat, NEW p, NEW c
  PROVE  glob_bracket(pat, p, c) =
           LET r == ScanOf(pat, c)[ClassFrom(pat, p)]
           IN  IF r.q > Len(pat) THEN [end |-> Unclosed, hit |-> FALSE]
               ELSE [end |-> r.q + 1, hit |-> r.any # Negated(pat, p)]
BY DEF glob_bracket, ScanOf, Scan

Over(pat, q) == q > Len(pat) \/ pat[q] = "]"
Past(pat, q) == IF IsRange(pat, q) THEN q + 3 ELSE q + 1

LEMMA ScanRuns ==
  ASSUME NEW pat \in Strings, NEW c \in Letters
  PROVE  \A q \in 1 .. (Len(pat) + 3) : ScanOf(pat, c)[q] =
           IF Over(pat, q) THEN [q |-> q, any |-> FALSE]
           ELSE [q |-> ScanOf(pat, c)[Past(pat, q)].q,
                 any |-> ScanOf(pat, c)[Past(pat, q)].any \/ Within(pat, q, c)]
<1> DEFINE D == 1 .. (Len(pat) + 3)
           V == [q : D, any : BOOLEAN]
           done == {q \in D : Over(pat, q)}
           base == [q \in D |-> [q |-> q, any |-> FALSE]]
           rank == [q \in D |-> Len(pat) + 3 - q]
           goes == [q \in D |-> IF Over(pat, q) THEN q ELSE Past(pat, q)]
           makes == [x \in D \X V |-> [q |-> x[2].q, any |-> x[2].any \/ Within(pat, x[1], c)]]
           N == Len(pat) + 3
<1>1. N \in Nat /\ Len(pat) \in Nat
  BY StringIs
<1>2. rank \in [D -> 0 .. N]
  BY <1>1
<1>3. base \in [D -> V]
  OBVIOUS
<1>4. goes \in [D -> D]
  BY <1>1 DEF Over, Past, IsRange
<1>5. makes \in [D \X V -> V]
  <2>1. ASSUME NEW x \in D \X V PROVE makes[x] \in V
    <3>1. x[2].q \in D
      OBVIOUS
    <3>2. (x[2].any \/ Within(pat, x[1], c)) \in BOOLEAN
      OBVIOUS
    <3>3. QED BY <3>1, <3>2
  <2>2. QED BY <2>1
<1>6. Falls(rank, D, done, goes)
  BY <1>1 DEF Falls, Over, Past, IsRange
<1>7. PICK f \in [D -> V] : Runs(f, D, done, base, goes, makes)
  <2> HIDE DEF D, V, done, base, rank, goes, makes, N
  <2>1. QED BY <1>1, <1>2, <1>3, <1>4, <1>5, <1>6, Recursion
<1>8. Scan(pat, c, f)
  <2>1. ASSUME NEW q \in D
        PROVE  f[q] = IF q > Len(pat) \/ pat[q] = "]" THEN [q |-> q, any |-> FALSE]
                      ELSE LET rest == f[IF IsRange(pat, q) THEN q + 3 ELSE q + 1]
                           IN  [q |-> rest.q, any |-> rest.any \/ Within(pat, q, c)]
    <3>1. CASE Over(pat, q)
      BY <1>7, <3>1 DEF Runs, Over
    <3>2. CASE ~Over(pat, q)
      <4>1. goes[q] = Past(pat, q) /\ goes[q] \in D /\ f[goes[q]] \in V
        BY <1>4, <1>7, <3>2
      <4>2. f[q] = makes[<<q, f[goes[q]]>>]
        BY <1>7, <3>2 DEF Runs
      <4>3. makes[<<q, f[goes[q]]>>] = [q |-> f[goes[q]].q, any |-> f[goes[q]].any \/ Within(pat, q, c)]
        BY <4>1
      <4>4. QED BY <3>2, <4>1, <4>2, <4>3 DEF Over, Past
    <3>3. QED BY <3>1, <3>2
  <2>2. QED BY <2>1 DEF Scan
<1>9. Scan(pat, c, ScanOf(pat, c))
  BY <1>8 DEF ScanOf
<1>10. QED
  <2> HIDE DEF done, base, rank, goes, makes
  <2>1. QED BY <1>9 DEF Scan, Over, Past

\* No bracket closes what begins at k before last, and one does at last.
ClosesAt(pat, k, last) ==
  /\ last \in 1 .. Len(pat) /\ k \in 1 .. last /\ pat[last] = "]"
  /\ \A j \in k .. (last - 1) : pat[j] # "]"

\* Before the closing bracket the scan takes the steps of Members.
LEMMA SameStep ==
  ASSUME NEW pat \in Strings, NEW k, NEW last, ClosesAt(pat, k, last), k < last, NEW c \in Letters
  PROVE  /\ ~Over(pat, k) /\ Past(pat, k) = k + Width(pat, last, k)
         /\ ClosesAt(pat, k + Width(pat, last, k), last)
         /\ Within(pat, k, c) <=> c \in Single(pat, last, k)
<1>1. Len(pat) \in Nat /\ k \in 1 .. Len(pat) /\ last \in 1 .. Len(pat) /\ pat[k] # "]"
  BY StringIs DEF ClosesAt
<1>2. IsRange(pat, k) <=> Spans_(pat, last, k)
  <2>1. ASSUME IsRange(pat, k) PROVE Spans_(pat, last, k)
    <3>1. k + 1 # last /\ k + 2 # last
      BY <2>1 DEF IsRange, ClosesAt
    <3>2. QED BY <1>1, <2>1, <3>1 DEF IsRange, Spans_
  <2>2. ASSUME Spans_(pat, last, k) PROVE IsRange(pat, k)
    <3>1. k + 2 \in k .. (last - 1)
      BY <1>1, <2>2 DEF Spans_
    <3>2. QED BY <1>1, <2>2, <3>1 DEF IsRange, Spans_, ClosesAt
  <2>3. QED BY <2>1, <2>2
<1>3. ~Over(pat, k) /\ Past(pat, k) = k + Width(pat, last, k)
  BY <1>1, <1>2 DEF Over, Past, Width
<1>4. Width(pat, last, k) \in 1 .. 3 /\ k + Width(pat, last, k) \in 1 .. last
  BY <1>1 DEF Width, Spans_
<1>5. ClosesAt(pat, k + Width(pat, last, k), last)
  BY <1>1, <1>4 DEF ClosesAt
<1>6. Within(pat, k, c) <=> c \in Single(pat, last, k)
  BY <1>2 DEF Within, Single
<1>7. QED BY <1>3, <1>5, <1>6

LEMMA ScanFinds ==
  ASSUME NEW pat \in Strings, NEW c \in Letters, NEW k, NEW last, ClosesAt(pat, k, last)
  PROVE  /\ ScanOf(pat, c)[k].q = last
         /\ ScanOf(pat, c)[k].any <=> c \in MembersOf(pat, last)[k]
<1> DEFINE N == last - 1
           Good(j) == /\ ScanOf(pat, c)[j].q = last
                      /\ ScanOf(pat, c)[j].any <=> c \in MembersOf(pat, last)[j]
           G == {n \in 0 .. N : ClosesAt(pat, last - n, last) => Good(last - n)}
<1>1. Len(pat) \in Nat /\ last \in 1 .. Len(pat) /\ N \in Nat /\ k \in 1 .. last
  BY StringIs DEF ClosesAt
<1>m. \A j \in 1 .. (Len(pat) + 3) : MembersOf(pat, last)[j] =
        IF j >= last THEN {}
        ELSE Single(pat, last, j) \cup MembersOf(pat, last)[j + Width(pat, last, j)]
  BY <1>1, MembersRun
<1>2. ASSUME NEW n \in 0 .. N, \A m \in 0 .. (n - 1) : m \in G PROVE n \in G
  <2> DEFINE j == last - n
  <2>1. SUFFICES ASSUME ClosesAt(pat, j, last) PROVE Good(j)
    OBVIOUS
  <2>2. j \in 1 .. last /\ n = last - j /\ j \in 1 .. (Len(pat) + 3)
    BY <1>1
  <2> HIDE DEF j
  <2>3. CASE j = last
    <3>1. Over(pat, j)
      BY <2>1, <2>3 DEF Over, ClosesAt
    <3>2. ScanOf(pat, c)[j] = [q |-> j, any |-> FALSE]
      BY <2>2, <3>1, ScanRuns
    <3>3. MembersOf(pat, last)[j] = {}
      <4>1. j >= last
        BY <1>1, <2>3
      <4>2. QED BY <1>m, <2>2, <4>1
    <3>4. QED BY <2>3, <3>2, <3>3
  <2>4. CASE j # last
    <3> DEFINE w == j + Width(pat, last, j)
    <3>1. j < last
      BY <1>1, <2>2, <2>4
    <3>2. /\ ~Over(pat, j) /\ Past(pat, j) = w /\ ClosesAt(pat, w, last)
          /\ Within(pat, j, c) <=> c \in Single(pat, last, j)
      BY <2>1, <3>1, SameStep
    <3>3. w > j /\ w \in 1 .. last
      BY <1>1, <2>2, <3>2 DEF Width, ClosesAt
    <3>4. last - w \in 0 .. (n - 1) /\ last - (last - w) = w
      BY <1>1, <2>2, <3>3
    <3>5. Good(w)
      BY <1>2, <3>2, <3>4
    <3>6. ScanOf(pat, c)[j] = [q |-> ScanOf(pat, c)[w].q, any |-> ScanOf(pat, c)[w].any \/ Within(pat, j, c)]
      BY <2>2, <3>2, ScanRuns
    <3>7. MembersOf(pat, last)[j] = Single(pat, last, j) \cup MembersOf(pat, last)[w]
      <4>1. ~(j >= last)
        BY <1>1, <2>2, <3>1
      <4>2. QED BY <1>m, <2>2, <4>1
    <3>8. ScanOf(pat, c)[j].q = ScanOf(pat, c)[w].q
      BY <3>6
    <3>9. ScanOf(pat, c)[j].any = (ScanOf(pat, c)[w].any \/ Within(pat, j, c))
      BY <3>6
    <3> HIDE DEF w
    <3>10. QED BY <3>2, <3>5, <3>7, <3>8, <3>9
  <2>5. QED BY <2>3, <2>4
<1>3. \A n \in 0 .. N : n \in G
  <2> HIDE DEF G, N
  <2>1. QED BY <1>1, <1>2, Climb
<1>4. last - k \in 0 .. N /\ last - (last - k) = k
  BY <1>1
<1>5. last - k \in G
  <2> HIDE DEF G
  <2>1. QED BY <1>3, <1>4
<1>6. QED BY <1>4, <1>5

\* A class that does not close: the scan runs over the end.
LEMMA ScanRunsOver ==
  ASSUME NEW pat \in Strings, NEW c \in Letters, NEW k \in 1 .. (Len(pat) + 3),
         \A j \in k .. Len(pat) : pat[j] # "]"
  PROVE  ScanOf(pat, c)[k].q > Len(pat)
<1> DEFINE N == Len(pat) + 3
           G == {n \in 0 .. N : N - n >= k => ScanOf(pat, c)[N - n].q > Len(pat)}
<1>1. Len(pat) \in Nat /\ N \in Nat
  BY StringIs
<1>2. ASSUME NEW n \in 0 .. N, \A m \in 0 .. (n - 1) : m \in G PROVE n \in G
  <2> DEFINE j == N - n
  <2>1. SUFFICES ASSUME j >= k PROVE ScanOf(pat, c)[j].q > Len(pat)
    OBVIOUS
  <2>2. j \in k .. (Len(pat) + 3) /\ n = N - j /\ j \in 1 .. (Len(pat) + 3)
    BY <1>1, <2>1
  <2> HIDE DEF j
  <2>3. CASE j > Len(pat)
    <3>1. Over(pat, j)
      BY <2>3 DEF Over
    <3>2. ScanOf(pat, c)[j] = IF Over(pat, j) THEN [q |-> j, any |-> FALSE]
            ELSE [q |-> ScanOf(pat, c)[Past(pat, j)].q,
                  any |-> ScanOf(pat, c)[Past(pat, j)].any \/ Within(pat, j, c)]
      BY <2>2, ScanRuns
    <3>3. ScanOf(pat, c)[j] = [q |-> j, any |-> FALSE]
      BY <3>1, <3>2
    <3>4. QED BY <2>3, <3>3
  <2>4. CASE ~(j > Len(pat))
    <3> DEFINE w == Past(pat, j)
    <3>1. ~Over(pat, j) /\ w \in (j + 1) .. (Len(pat) + 3)
      BY <1>1, <2>2, <2>4 DEF Over, Past, IsRange
    <3>2. ScanOf(pat, c)[j].q = ScanOf(pat, c)[w].q
      <4>1. ScanOf(pat, c)[j] = IF Over(pat, j) THEN [q |-> j, any |-> FALSE]
              ELSE [q |-> ScanOf(pat, c)[Past(pat, j)].q,
                    any |-> ScanOf(pat, c)[Past(pat, j)].any \/ Within(pat, j, c)]
        BY <2>2, ScanRuns
      <4>2. QED BY <3>1, <4>1
    <3> HIDE DEF w
    <3>3. N - w \in 0 .. (n - 1) /\ N - (N - w) = w /\ w >= k
      BY <1>1, <2>2, <3>1
    <3>4. ScanOf(pat, c)[w].q > Len(pat)
      BY <1>2, <3>3
    <3>5. QED BY <3>2, <3>4
  <2>5. QED BY <2>3, <2>4
<1>3. \A n \in 0 .. N : n \in G
  <2> HIDE DEF G, N
  <2>1. QED BY <1>1, <1>2, Climb
<1>4. N - k \in 0 .. N /\ N - (N - k) = k
  BY <1>1
<1>5. N - k \in G
  <2> HIDE DEF G
  <2>1. QED BY <1>3, <1>4
<1>6. QED BY <1>4, <1>5

\* glob_bracket and Taken say what the part of the pattern at p means.
LEMMA TakenIs ==
  ASSUME NEW pat \in Strings, NEW p \in 1 .. Len(pat), NEW c \in Letters
  PROVE  /\ Behind(pat, p) \in (p + 1) .. (Len(pat) + 1)
         /\ Taken(pat, p, c) = IF c \in Matched(pat, p) THEN Behind(pat, p) ELSE 0
<1> DEFINE at == ClassFrom(pat, p)
           C == Closing(pat, p)
           last == Min(C)
<1>1. Len(pat) \in Nat /\ p \in Nat /\ at \in (p + 1) .. (Len(pat) + 1) /\ at \in 1 .. (Len(pat) + 3)
  BY StringIs DEF ClassFrom, Negated
<1>2. CASE pat[p] = "["
  <2>1. C = {k \in at .. Len(pat) : pat[k] = "]"} /\ pat[p] # "?"
    BY <1>2 DEF Closing
  <2>2. CASE C = {}
    <3>1. \A j \in at .. Len(pat) : pat[j] # "]"
      BY <2>1, <2>2
    <3>2. ScanOf(pat, c)[at].q > Len(pat)
      <4> HIDE DEF at
      <4>1. QED BY <1>1, <3>1, ScanRunsOver
    <3>3. glob_bracket(pat, p, c).end = Unclosed
      BY <3>2, BracketIsScan
    <3>4. Matched(pat, p) = {pat[p]} /\ Behind(pat, p) = p + 1
      BY <2>1, <2>2 DEF Matched, Behind
    <3>5. Taken(pat, p, c) = IF pat[p] = c THEN p + 1 ELSE 0
      BY <2>1, <3>3 DEF Taken
    <3>6. QED BY <1>1, <3>4, <3>5
  <2>3. CASE C # {}
    <3>1. last \in C /\ \A y \in C : last <= y
      <4>1. C \subseteq Nat
        BY <1>1, <2>1
      <4> HIDE DEF C
      <4>2. QED BY <2>3, <4>1, LeastOf
    <3> HIDE DEF last
    <3>2. last \in at .. Len(pat) /\ pat[last] = "]"
      BY <2>1, <3>1
    <3>3. ClosesAt(pat, at, last)
      <4>1. ASSUME NEW j \in at .. (last - 1) PROVE pat[j] # "]"
        BY <1>1, <2>1, <3>1, <3>2
      <4>2. QED BY <1>1, <3>2, <4>1 DEF ClosesAt
    <3>4. /\ ScanOf(pat, c)[at].q = last
          /\ ScanOf(pat, c)[at].any <=> c \in MembersOf(pat, last)[at]
      <4> HIDE DEF at
      <4>1. QED BY <3>3, ScanFinds
    <3>5. Members(pat, p) = MembersOf(pat, last)[at]
      BY MembersAre DEF last
    <3>6. /\ glob_bracket(pat, p, c).end = last + 1
          /\ glob_bracket(pat, p, c).hit = (ScanOf(pat, c)[at].any # Negated(pat, p))
      BY <1>1, <3>2, <3>4, BracketIsScan
    <3>7. ScanOf(pat, c)[at].any \in BOOLEAN
      <4>1. ScanOf(pat, c)[at] = IF Over(pat, at) THEN [q |-> at, any |-> FALSE]
              ELSE [q |-> ScanOf(pat, c)[Past(pat, at)].q,
                    any |-> ScanOf(pat, c)[Past(pat, at)].any \/ Within(pat, at, c)]
        <5> HIDE DEF at
        <5>1. QED BY <1>1, ScanRuns
      <4>2. CASE Over(pat, at)
        BY <4>1, <4>2
      <4>3. CASE ~Over(pat, at)
        <5> DEFINE v == (ScanOf(pat, c)[Past(pat, at)].any \/ Within(pat, at, c))
        <5>1. v \in BOOLEAN
          OBVIOUS
        <5>2. ScanOf(pat, c)[at] = [q |-> ScanOf(pat, c)[Past(pat, at)].q, any |-> v]
          BY <4>1, <4>3
        <5> HIDE DEF v
        <5>3. QED BY <5>1, <5>2
      <4>4. QED BY <4>2, <4>3
    <3>8. Matched(pat, p) = {d \in Letters : (d \in Members(pat, p)) # Negated(pat, p)}
      BY <2>1, <2>3 DEF Matched
    <3>9. Behind(pat, p) = last + 1
      BY <2>3 DEF Behind, last
    <3>10. Taken(pat, p, c) = IF glob_bracket(pat, p, c).hit THEN last + 1 ELSE 0
      BY <1>1, <1>2, <2>1, <3>2, <3>6 DEF Taken, Unclosed
    <3>11. glob_bracket(pat, p, c).hit <=> c \in Matched(pat, p)
      <4>1. (c \in Members(pat, p)) = ScanOf(pat, c)[at].any
        BY <3>4, <3>5, <3>7
      <4>2. QED BY <3>6, <3>8, <4>1
    <3>12. QED BY <1>1, <3>2, <3>9, <3>10, <3>11
  <2>4. QED BY <2>2, <2>3
<1>3. CASE pat[p] # "["
  <2>1. C = {}
    BY <1>3 DEF Closing
  <2>2. Behind(pat, p) = p + 1
    BY <2>1 DEF Behind
  <2>3. Taken(pat, p, c) = IF pat[p] = "?" THEN p + 1 ELSE IF pat[p] = c THEN p + 1 ELSE 0
    BY <1>3 DEF Taken
  <2>4. Matched(pat, p) = IF pat[p] = "?" THEN Letters ELSE {pat[p]}
    BY <2>1 DEF Matched
  <2>5. QED BY <1>1, <2>2, <2>3, <2>4
<1>4. QED BY <1>2, <1>3

(* -------------------------- what a pattern means -------------------------- *)
\* The recursive function of Fits: the positions of s from which the rest of s fits
\* the pattern from p on.
Onto(pat, p) == IF pat[p] = "*" THEN p + 1 ELSE Behind(pat, p)
Before(pat, s, p, rest) ==
  IF pat[p] = "*" THEN {i \in 1 .. (Len(s) + 1) : \E k \in rest : i <= k}
  ELSE {i \in 1 .. Len(s) : s[i] \in Matched(pat, p) /\ i + 1 \in rest}

From(pat, s, f) == f = [p \in 1 .. (Len(pat) + 1) |->
  IF p > Len(pat) THEN {Len(s) + 1}
  ELSE LET rest == f[IF pat[p] = "*" THEN p + 1 ELSE Behind(pat, p)]
       IN  IF pat[p] = "*" THEN {i \in 1 .. (Len(s) + 1) : \E k \in rest : i <= k}
           ELSE {i \in 1 .. Len(s) : s[i] \in Matched(pat, p) /\ i + 1 \in rest}]
FromOf(pat, s) == CHOOSE f : From(pat, s, f)

LEMMA FitsIsFrom == ASSUME NEW pat, NEW s PROVE Fits(pat, s) <=> 1 \in FromOf(pat, s)[1]
BY DEF Fits, FromOf, From

LEMMA OntoIs ==
  ASSUME NEW pat \in Strings, NEW p \in 1 .. Len(pat)
  PROVE  Onto(pat, p) \in (p + 1) .. (Len(pat) + 1)
<1>1. Len(pat) \in Nat /\ pat[p] \in Letters
  BY StringIs
<1>2. Behind(pat, p) \in (p + 1) .. (Len(pat) + 1)
  BY <1>1, TakenIs
<1>3. QED BY <1>1, <1>2 DEF Onto

LEMMA FromRuns ==
  ASSUME NEW pat \in Strings, NEW s \in Strings
  PROVE  \A p \in 1 .. (Len(pat) + 1) : FromOf(pat, s)[p] =
           IF p > Len(pat) THEN {Len(s) + 1}
           ELSE Before(pat, s, p, FromOf(pat, s)[Onto(pat, p)])
<1> DEFINE D == 1 .. (Len(pat) + 1)
           V == SUBSET (1 .. (Len(s) + 1))
           done == {p \in D : p > Len(pat)}
           base == [p \in D |-> {Len(s) + 1}]
           rank == [p \in D |-> Len(pat) + 1 - p]
           goes == [p \in D |-> IF p > Len(pat) THEN p ELSE Onto(pat, p)]
           makes == [x \in D \X V |-> Before(pat, s, x[1], x[2])]
           N == Len(pat) + 1
<1>1. N \in Nat /\ Len(pat) \in Nat /\ Len(s) \in Nat
  BY StringIs
<1>2. rank \in [D -> 0 .. N]
  BY <1>1
<1>3. base \in [D -> V]
  BY <1>1
<1>4. ASSUME NEW p \in D, ~(p > Len(pat)) PROVE Onto(pat, p) \in (p + 1) .. (Len(pat) + 1)
  <2>1. p \in 1 .. Len(pat)
    BY <1>1, <1>4
  <2>2. QED BY <2>1, OntoIs
<1>5. goes \in [D -> D]
  BY <1>1, <1>4
<1>6. makes \in [D \X V -> V]
  <2>1. ASSUME NEW x \in D \X V PROVE makes[x] \in V
    BY <1>1 DEF Before
  <2>2. QED BY <2>1
<1>7. Falls(rank, D, done, goes)
  BY <1>1, <1>4 DEF Falls
<1>8. PICK f \in [D -> V] : Runs(f, D, done, base, goes, makes)
  <2> HIDE DEF D, V, done, base, rank, goes, makes, N
  <2>1. QED BY <1>1, <1>2, <1>3, <1>5, <1>6, <1>7, Recursion
<1>9. From(pat, s, f)
  <2>1. ASSUME NEW p \in D
        PROVE  f[p] = IF p > Len(pat) THEN {Len(s) + 1} ELSE Before(pat, s, p, f[Onto(pat, p)])
    <3>1. CASE p > Len(pat)
      BY <1>8, <3>1 DEF Runs
    <3>2. CASE ~(p > Len(pat))
      <4>1. goes[p] = Onto(pat, p) /\ goes[p] \in D /\ f[goes[p]] \in V
        BY <1>5, <1>8, <3>2
      <4>2. f[p] = makes[<<p, f[goes[p]]>>]
        BY <1>8, <3>2 DEF Runs
      <4>3. makes[<<p, f[goes[p]]>>] = Before(pat, s, p, f[goes[p]])
        BY <4>1
      <4>4. QED BY <3>2, <4>1, <4>2, <4>3
    <3>3. QED BY <3>1, <3>2
  <2> HIDE DEF done, base, rank, goes, makes
  <2>2. QED BY <2>1 DEF From, Before, Onto
<1>10. From(pat, s, FromOf(pat, s))
  BY <1>9 DEF FromOf
<1>11. QED
  <2> HIDE DEF done, base, rank, goes, makes
  <2>1. QED BY <1>10 DEF From, Before, Onto

\* What follows of the positions F from which the pattern fits behind p: at its end,
\* at a star, at another part.
Fitting(pat, s, F) ==
  /\ F[Len(pat) + 1] = {Len(s) + 1}
  /\ \A p \in 1 .. Len(pat) : pat[p] = "*" =>
       \A i \in 1 .. (Len(s) + 1) : i \in F[p] <=> \E k \in i .. (Len(s) + 1) : k \in F[p + 1]
  /\ \A p \in 1 .. Len(pat) : pat[p] # "*" =>
       \A i \in 1 .. (Len(s) + 1) :
         i \in F[p] <=> i <= Len(s) /\ s[i] \in Matched(pat, p) /\ i + 1 \in F[Behind(pat, p)]
  /\ \A p \in 1 .. (Len(pat) + 1) : F[p] \subseteq 1 .. (Len(s) + 1)

LEMMA FromFits ==
  ASSUME NEW pat \in Strings, NEW s \in Strings
  PROVE  Fitting(pat, s, FromOf(pat, s))
<1> DEFINE F == FromOf(pat, s)
<1>1. Len(pat) \in Nat /\ Len(s) \in Nat
  BY StringIs
<1>2. \A p \in 1 .. (Len(pat) + 1) : F[p] =
        IF p > Len(pat) THEN {Len(s) + 1} ELSE Before(pat, s, p, F[Onto(pat, p)])
  BY FromRuns
<1> HIDE DEF F
<1>3. \A p \in 1 .. (Len(pat) + 1) : F[p] \subseteq 1 .. (Len(s) + 1)
  <2>1. ASSUME NEW p \in 1 .. (Len(pat) + 1) PROVE F[p] \subseteq 1 .. (Len(s) + 1)
    <3>1. F[p] = {Len(s) + 1} \/ F[p] = Before(pat, s, p, F[Onto(pat, p)])
      BY <1>2
    <3>2. Before(pat, s, p, F[Onto(pat, p)]) \subseteq 1 .. (Len(s) + 1)
      BY <1>1 DEF Before
    <3>3. QED BY <1>1, <3>1, <3>2
  <2>2. QED BY <2>1
<1>4. F[Len(pat) + 1] = {Len(s) + 1}
  BY <1>1, <1>2
<1>5. ASSUME NEW p \in 1 .. Len(pat), pat[p] = "*", NEW i \in 1 .. (Len(s) + 1)
      PROVE  i \in F[p] <=> \E k \in i .. (Len(s) + 1) : k \in F[p + 1]
  <2>1. F[p] = {j \in 1 .. (Len(s) + 1) : \E k \in F[p + 1] : j <= k}
    <3>1. F[p] = Before(pat, s, p, F[Onto(pat, p)])
      <4>1. p \in 1 .. (Len(pat) + 1) /\ ~(p > Len(pat))
        BY <1>1
      <4>2. QED BY <1>2, <4>1
    <3>2. QED BY <1>5, <3>1 DEF Before, Onto
  <2>2. F[p + 1] \subseteq 1 .. (Len(s) + 1)
    BY <1>1, <1>3
  <2>3. QED BY <1>1, <2>1, <2>2
<1>6. ASSUME NEW p \in 1 .. Len(pat), pat[p] # "*", NEW i \in 1 .. (Len(s) + 1)
      PROVE  i \in F[p] <=> i <= Len(s) /\ s[i] \in Matched(pat, p) /\ i + 1 \in F[Behind(pat, p)]
  <2>1. F[p] = {j \in 1 .. Len(s) : s[j] \in Matched(pat, p) /\ j + 1 \in F[Behind(pat, p)]}
    <3>1. F[p] = Before(pat, s, p, F[Onto(pat, p)])
      <4>1. p \in 1 .. (Len(pat) + 1) /\ ~(p > Len(pat))
        BY <1>1
      <4>2. QED BY <1>2, <4>1
    <3>2. QED BY <1>6, <3>1 DEF Before, Onto
  <2>2. QED BY <1>1, <2>1
<1>7. QED BY <1>3, <1>4, <1>5, <1>6 DEF Fitting, F

\* Only stars left is what fits the end of the name.
LEMMA StarsFit ==
  ASSUME NEW pat \in Strings, NEW s \in Strings, NEW F, Fitting(pat, s, F),
         NEW p \in 1 .. (Len(pat) + 1)
  PROVE  OnlyStars(pat, p) <=> Len(s) + 1 \in F[p]
<1> DEFINE N == Len(pat) + 1
           G == {n \in 0 .. N : N - n >= 1 => (OnlyStars(pat, N - n) <=> Len(s) + 1 \in F[N - n])}
<1>1. Len(pat) \in Nat /\ Len(s) \in Nat /\ N \in Nat
  BY StringIs
<1>2. ASSUME NEW n \in 0 .. N, \A m \in 0 .. (n - 1) : m \in G PROVE n \in G
  <2> DEFINE j == N - n
  <2>1. SUFFICES ASSUME j >= 1 PROVE OnlyStars(pat, j) <=> Len(s) + 1 \in F[j]
    OBVIOUS
  <2>2. j \in 1 .. (Len(pat) + 1) /\ n = N - j
    BY <1>1, <2>1
  <2> HIDE DEF j
  <2>3. CASE j = Len(pat) + 1
    <3>1. OnlyStars(pat, j)
      BY <1>1, <2>3 DEF OnlyStars
    <3>2. QED BY <2>3, <3>1 DEF Fitting
  <2>4. CASE j # Len(pat) + 1
    <3>1. j \in 1 .. Len(pat) /\ n - 1 \in 0 .. (n - 1) /\ N - (n - 1) = j + 1
      BY <1>1, <2>2, <2>4
    <3>2. OnlyStars(pat, j + 1) <=> Len(s) + 1 \in F[j + 1]
      <4>1. n - 1 \in G
        BY <1>2, <3>1
      <4>2. N - (n - 1) >= 1
        BY <1>1, <3>1
      <4>3. OnlyStars(pat, N - (n - 1)) <=> Len(s) + 1 \in F[N - (n - 1)]
        BY <4>1, <4>2
      <4> HIDE DEF N
      <4>4. QED BY <3>1, <4>3
    <3>3. OnlyStars(pat, j) <=> pat[j] = "*" /\ OnlyStars(pat, j + 1)
      BY <1>1, <3>1 DEF OnlyStars
    <3>4. Len(s) + 1 \in F[j] <=> pat[j] = "*" /\ Len(s) + 1 \in F[j + 1]
      BY <1>1, <3>1 DEF Fitting
    <3>5. QED BY <3>2, <3>3, <3>4
  <2>5. QED BY <2>3, <2>4
<1>3. \A n \in 0 .. N : n \in G
  <2> HIDE DEF G, N
  <2>1. QED BY <1>1, <1>2, Climb
<1>4. N - p \in 0 .. N /\ N - (N - p) = p
  BY <1>1
<1>5. N - p \in G
  <2> HIDE DEF G
  <2>1. QED BY <1>3, <1>4
<1>6. QED BY <1>4, <1>5

(* ----------------------------- the loop of glob_match --------------------- *)
Loop(pat, s, f) == f = [x \in States(pat, s) |->
  IF Decided(pat, s, x) THEN Accepts(pat, s, x) ELSE f[Onward(pat, s, x)]]
LoopOf(pat, s) == CHOOSE f : Loop(pat, s, f)

LEMMA MatchIsLoop == ASSUME NEW pat, NEW s PROVE glob_match(pat, s) = LoopOf(pat, s)[Start]
BY DEF glob_match, LoopOf, Loop

LEMMA StateIs ==
  ASSUME NEW pat \in Strings, NEW s \in Strings, NEW x \in States(pat, s)
  PROVE  /\ x = [p |-> x.p, i |-> x.i, star_p |-> x.star_p, star_i |-> x.star_i]
         /\ x.p \in 1 .. (Len(pat) + 1) /\ x.i \in 1 .. (Len(s) + 1)
         /\ x.star_p \in 0 .. Len(pat) /\ x.star_i \in 0 .. (Len(s) + 1) /\ x.star_i <= x.i
BY DEF States

LEMMA StateMade ==
  ASSUME NEW pat \in Strings, NEW s \in Strings, NEW p \in 1 .. (Len(pat) + 1),
         NEW i \in 1 .. (Len(s) + 1), NEW star_p \in 0 .. Len(pat),
         NEW star_i \in 0 .. (Len(s) + 1), star_i <= i,
         NEW y, y = [p |-> p, i |-> i, star_p |-> star_p, star_i |-> star_i]
  PROVE  /\ y \in States(pat, s) /\ y.p = p /\ y.star_i = star_i
BY DEF States

LEMMA MovesAre ==
  ASSUME NEW pat \in Strings, NEW s \in Strings, NEW x \in States(pat, s)
  PROVE  LET takes == x.p <= Len(pat) /\ x.i <= Len(s) /\ s[x.i] \in Matched(pat, x.p)
         IN  /\ takes => /\ Moves(pat, s, x) = Behind(pat, x.p)
                         /\ Behind(pat, x.p) \in (x.p + 1) .. (Len(pat) + 1)
             /\ ~takes => Moves(pat, s, x) = 0
<1>1. Len(pat) \in Nat /\ Len(s) \in Nat /\ x.p \in 1 .. (Len(pat) + 1) /\ x.i \in 1 .. (Len(s) + 1)
  BY StringIs, StateIs
<1>2. CASE x.p <= Len(pat) /\ x.i <= Len(s)
  <2>1. x.p \in 1 .. Len(pat) /\ s[x.i] \in Letters
    BY <1>1, <1>2, StringIs
  <2>2. /\ Behind(pat, x.p) \in (x.p + 1) .. (Len(pat) + 1)
        /\ Taken(pat, x.p, s[x.i]) = IF s[x.i] \in Matched(pat, x.p) THEN Behind(pat, x.p) ELSE 0
    BY <2>1, TakenIs
  <2>3. Moves(pat, s, x) = Taken(pat, x.p, s[x.i])
    BY <1>2 DEF Moves
  <2>4. QED BY <1>2, <2>2, <2>3
<1>3. CASE ~(x.p <= Len(pat) /\ x.i <= Len(s))
  BY <1>3 DEF Moves
<1>4. QED BY <1>2, <1>3

\* The three ways on.
AfterStar(x, y) == y = [p |-> x.p + 1, i |-> x.i, star_p |-> x.p, star_i |-> x.i]
AfterPart(pat, s, x, y) ==
  /\ x.p <= Len(pat) /\ x.i <= Len(s) /\ s[x.i] \in Matched(pat, x.p)
  /\ y = [p |-> Behind(pat, x.p), i |-> x.i + 1, star_p |-> x.star_p, star_i |-> x.star_i]
AfterFail(x, y) ==
  y = [p |-> x.star_p + 1, i |-> x.star_i + 1, star_p |-> x.star_p, star_i |-> x.star_i + 1]

LEMMA OnwardIs ==
  ASSUME NEW pat \in Strings, NEW s \in Strings, NEW x \in States(pat, s), ~Decided(pat, s, x)
  PROVE  \/ AtStar(pat, x) /\ AfterStar(x, Onward(pat, s, x))
         \/ ~AtStar(pat, x) /\ AfterPart(pat, s, x, Onward(pat, s, x))
         \/ /\ ~AtStar(pat, x) /\ ~Accepts(pat, s, x) /\ Moves(pat, s, x) = 0
            /\ CanRestart(x, s) /\ AfterFail(x, Onward(pat, s, x))
<1> DEFINE at == Moves(pat, s, x)
<1>1. x = [p |-> x.p, i |-> x.i, star_p |-> x.star_p, star_i |-> x.star_i]
  BY StateIs
<1>2. CASE AtStar(pat, x)
  <2>1. Onward(pat, s, x) = [x EXCEPT !.p = x.p + 1, !.star_p = x.p, !.star_i = x.i]
    BY <1>2 DEF Onward
  <2>2. QED BY <1>1, <1>2, <2>1 DEF AfterStar
<1>3. CASE ~AtStar(pat, x) /\ at # 0
  <2>1. Onward(pat, s, x) = [x EXCEPT !.p = at, !.i = x.i + 1]
    BY <1>3 DEF Onward
  <2>2. /\ x.p <= Len(pat) /\ x.i <= Len(s) /\ s[x.i] \in Matched(pat, x.p)
        /\ at = Behind(pat, x.p)
    BY <1>3, MovesAre
  <2> HIDE DEF at
  <2>3. QED BY <1>1, <1>3, <2>1, <2>2 DEF AfterPart
<1>4. CASE ~AtStar(pat, x) /\ at = 0
  <2>1. Onward(pat, s, x) = Restart(x) /\ ~Accepts(pat, s, x) /\ CanRestart(x, s)
    BY <1>4 DEF Onward, Decided
  <2>2. AfterFail(x, Onward(pat, s, x))
    BY <1>1, <2>1 DEF Restart, AfterFail
  <2>3. QED BY <1>4, <2>1, <2>2
<1>5. QED BY <1>2, <1>3, <1>4

\* Every step ends a shorter search, or moves the saved star.
Left(pat, s, x) == (Len(s) + 1 - x.star_i) * (Len(pat) + 2) + (Len(pat) + 1 - x.p)

LEMMA Lexicographic ==
  ASSUME NEW a \in Nat, NEW d \in Nat, NEW b \in Nat, NEW e \in Nat, NEW w \in Nat,
         (d < a /\ e < w) \/ (d = a /\ e < b)
  PROVE  d * w + e < a * w + b
<1>1. CASE d < a /\ e < w
  <2> DEFINE g == a - d - 1
  <2>1. g \in Nat /\ a = d + 1 + g
    BY <1>1
  <2> HIDE DEF g
  <2>2. a * w = d * w + w + g * w /\ g * w \in Nat /\ d * w \in Nat
    BY <2>1
  <2>3. QED BY <1>1, <2>2
<1>2. CASE d = a /\ e < b
  <2>1. d * w \in Nat
    OBVIOUS
  <2>2. QED BY <1>2, <2>1
<1>3. QED BY <1>1, <1>2

LEMMA LeftIs ==
  ASSUME NEW pat \in Strings, NEW s \in Strings, NEW x \in States(pat, s)
  PROVE  Left(pat, s, x) \in 0 .. ((Len(s) + 2) * (Len(pat) + 2))
<1> DEFINE a == Len(s) + 1 - x.star_i
           b == Len(pat) + 1 - x.p
           w == Len(pat) + 2
           m == Len(s) + 2
<1>1. a \in Nat /\ b \in Nat /\ w \in Nat /\ m \in Nat /\ a < m /\ b < w
  <2>1. /\ Len(pat) \in Nat /\ Len(s) \in Nat /\ x.p \in 1 .. (Len(pat) + 1)
        /\ x.star_i \in 0 .. (Len(s) + 1)
    BY StringIs, StateIs
  <2>2. a \in Nat /\ m \in Nat /\ a < m
    BY <2>1
  <2>3. b \in Nat /\ w \in Nat /\ b < w
    BY <2>1
  <2>4. QED BY <2>2, <2>3
<1>2. Left(pat, s, x) = a * w + b
  BY DEF Left
<1> HIDE DEF a, b, w
<1>3. a * w \in Nat
  BY <1>1
<1>4. a * w + b < m * w + 0
  <2> HIDE DEF m
  <2>1. QED BY <1>1, Lexicographic
<1>5. m * w \in Nat
  BY <1>1
<1>6. Left(pat, s, x) \in 0 .. (m * w)
  <2> HIDE DEF m
  <2>1. QED BY <1>1, <1>2, <1>3, <1>4, <1>5
<1>7. QED BY <1>6 DEF w

LEMMA LeftFalls ==
  ASSUME NEW pat \in Strings, NEW s \in Strings, NEW x \in States(pat, s), ~Decided(pat, s, x)
  PROVE  /\ Onward(pat, s, x) \in States(pat, s)
         /\ Left(pat, s, Onward(pat, s, x)) < Left(pat, s, x)
<1> DEFINE y == Onward(pat, s, x)
           w == Len(pat) + 2
<1>1. /\ Len(pat) \in Nat /\ Len(s) \in Nat /\ x.p \in 1 .. (Len(pat) + 1) /\ x.i \in 1 .. (Len(s) + 1)
      /\ x.star_p \in 0 .. Len(pat) /\ x.star_i \in 0 .. (Len(s) + 1) /\ x.star_i <= x.i
  BY StringIs, StateIs
<1>2. \/ AtStar(pat, x) /\ AfterStar(x, y)
      \/ ~AtStar(pat, x) /\ AfterPart(pat, s, x, y)
      \/ CanRestart(x, s) /\ AfterFail(x, y)
  BY OnwardIs
<1> HIDE DEF y
<1>3. /\ y \in States(pat, s)
      /\ \/ Len(s) + 1 - y.star_i < Len(s) + 1 - x.star_i
         \/ y.star_i = x.star_i /\ y.p > x.p
  <2>1. CASE AtStar(pat, x) /\ AfterStar(x, y)
    <3>1. x.p <= Len(pat)
      BY <2>1 DEF AtStar
    <3>2. x.p + 1 \in 1 .. (Len(pat) + 1) /\ x.p \in 0 .. Len(pat) /\ x.i \in 0 .. (Len(s) + 1)
      BY <1>1, <3>1
    <3>3. y = [p |-> x.p + 1, i |-> x.i, star_p |-> x.p, star_i |-> x.i] /\ x.i <= x.i
      BY <1>1, <2>1 DEF AfterStar
    <3>4. y \in States(pat, s) /\ y.p = x.p + 1 /\ y.star_i = x.i
      BY <1>1, <3>2, <3>3, StateMade
    <3>5. QED BY <1>1, <3>4
  <2>2. CASE ~AtStar(pat, x) /\ AfterPart(pat, s, x, y)
    <3>1. Behind(pat, x.p) \in (x.p + 1) .. (Len(pat) + 1) /\ x.i <= Len(s)
      BY <2>2, MovesAre DEF AfterPart
    <3> DEFINE q == Behind(pat, x.p)
    <3>2. q \in 1 .. (Len(pat) + 1) /\ q > x.p /\ x.i + 1 \in 1 .. (Len(s) + 1) /\ x.star_i <= x.i + 1
      <4>1. q \in (x.p + 1) .. (Len(pat) + 1)
        BY <3>1
      <4> HIDE DEF q
      <4>2. q \in 1 .. (Len(pat) + 1) /\ q > x.p
        BY <1>1, <4>1
      <4>3. x.i + 1 \in 1 .. (Len(s) + 1) /\ x.star_i <= x.i + 1
        BY <1>1, <3>1
      <4>4. QED BY <4>2, <4>3
    <3>3. y = [p |-> q, i |-> x.i + 1, star_p |-> x.star_p, star_i |-> x.star_i]
      BY <2>2 DEF AfterPart
    <3> HIDE DEF q
    <3>4. y \in States(pat, s) /\ y.p = q /\ y.star_i = x.star_i
      BY <1>1, <3>2, <3>3, StateMade
    <3>5. QED BY <3>2, <3>4
  <2>3. CASE CanRestart(x, s) /\ AfterFail(x, y)
    <3>1. x.star_p \in 1 .. Len(pat) /\ x.star_i <= Len(s)
      BY <1>1, <2>3 DEF CanRestart
    <3> DEFINE q == x.star_p + 1
               k == x.star_i + 1
    <3>2. q \in 1 .. (Len(pat) + 1) /\ k \in 1 .. (Len(s) + 1) /\ k \in 0 .. (Len(s) + 1) /\ k <= k
      BY <1>1, <3>1
    <3>3. y = [p |-> q, i |-> k, star_p |-> x.star_p, star_i |-> k]
      BY <2>3 DEF AfterFail
    <3> HIDE DEF q, k
    <3>4. y \in States(pat, s) /\ y.star_i = k
      BY <1>1, <3>2, <3>3, StateMade
    <3>5. QED BY <1>1, <3>2, <3>4 DEF k
  <2>4. QED BY <1>2, <2>1, <2>2, <2>3
<1> DEFINE a == Len(s) + 1 - x.star_i
           d == Len(s) + 1 - y.star_i
           b == Len(pat) + 1 - x.p
           e == Len(pat) + 1 - y.p
<1>4. y.p \in 1 .. (Len(pat) + 1) /\ y.star_i \in 0 .. (Len(s) + 1)
  BY <1>3, StateIs
<1>5. /\ a \in Nat /\ d \in Nat /\ b \in Nat /\ e \in Nat /\ w \in Nat
      /\ (d < a /\ e < w) \/ (d = a /\ e < b)
  <2>1. a \in Nat /\ d \in Nat /\ b \in Nat /\ e \in Nat /\ w \in Nat /\ e < w
    <3>1. a \in Nat
      BY <1>1
    <3>2. b \in Nat
      BY <1>1
    <3>3. d \in Nat
      BY <1>1, <1>4
    <3>4. e \in Nat
      BY <1>1, <1>4
    <3>5. e < w
      BY <1>1, <1>4
    <3>6. w \in Nat
      BY <1>1
    <3>7. QED BY <3>1, <3>2, <3>3, <3>4, <3>5, <3>6
  <2>2. CASE d < a
    BY <2>1, <2>2
  <2>3. CASE y.star_i = x.star_i /\ y.p > x.p
    <3>1. d = a /\ e < b
      BY <1>1, <1>4, <2>3
    <3>2. QED BY <2>1, <3>1
  <2>4. QED BY <1>3, <2>2, <2>3
<1>6. d * w + e < a * w + b
  <2> HIDE DEF a, b, d, e, w
  <2>1. QED BY <1>5, Lexicographic
<1>7. QED BY <1>3, <1>6 DEF Left, y

LEMMA LoopRuns ==
  ASSUME NEW pat \in Strings, NEW s \in Strings
  PROVE  \A x \in States(pat, s) : LoopOf(pat, s)[x] =
           IF Decided(pat, s, x) THEN Accepts(pat, s, x) ELSE LoopOf(pat, s)[Onward(pat, s, x)]
<1> DEFINE D == States(pat, s)
           V == BOOLEAN
           done == {x \in D : Decided(pat, s, x)}
           base == [x \in D |-> Accepts(pat, s, x)]
           rank == [x \in D |-> Left(pat, s, x)]
           goes == [x \in D |-> IF Decided(pat, s, x) THEN x ELSE Onward(pat, s, x)]
           makes == [x \in D \X V |-> x[2]]
           N == (Len(s) + 2) * (Len(pat) + 2)
<1>1. N \in Nat
  BY StringIs
<1>2. rank \in [D -> 0 .. N]
  BY LeftIs
<1>3. base \in [D -> V]
  BY DEF Accepts
<1>4. goes \in [D -> D]
  BY LeftFalls
<1>5. makes \in [D \X V -> V]
  OBVIOUS
<1>6. Falls(rank, D, done, goes)
  <2>1. ASSUME NEW x \in D, x \notin done PROVE rank[goes[x]] < rank[x]
    <3>1. ~Decided(pat, s, x)
      BY <2>1
    <3>2. goes[x] = Onward(pat, s, x) /\ goes[x] \in D
      BY <1>4, <3>1
    <3>3. Left(pat, s, Onward(pat, s, x)) < Left(pat, s, x)
      BY <3>1, LeftFalls
    <3>4. rank[goes[x]] = Left(pat, s, goes[x]) /\ rank[x] = Left(pat, s, x)
      BY <3>2
    <3> HIDE DEF rank, goes
    <3>5. QED BY <3>2, <3>3, <3>4
  <2>2. QED BY <2>1 DEF Falls
<1>7. PICK f \in [D -> V] : Runs(f, D, done, base, goes, makes)
  <2> HIDE DEF D, V, done, base, rank, goes, makes, N
  <2>1. QED BY <1>1, <1>2, <1>3, <1>4, <1>5, <1>6, Recursion
<1>8. Loop(pat, s, f)
  <2>1. ASSUME NEW x \in D
        PROVE  f[x] = IF Decided(pat, s, x) THEN Accepts(pat, s, x) ELSE f[Onward(pat, s, x)]
    <3>1. CASE Decided(pat, s, x)
      BY <1>7, <3>1 DEF Runs
    <3>2. CASE ~Decided(pat, s, x)
      <4>1. goes[x] = Onward(pat, s, x) /\ goes[x] \in D /\ f[goes[x]] \in V
        BY <1>4, <1>7, <3>2
      <4>2. f[x] = makes[<<x, f[goes[x]]>>]
        BY <1>7, <3>2 DEF Runs
      <4>3. makes[<<x, f[goes[x]]>>] = f[goes[x]]
        BY <4>1
      <4>4. QED BY <3>2, <4>1, <4>2, <4>3
    <3>3. QED BY <3>1, <3>2
  <2>2. QED BY <2>1 DEF Loop
<1>9. Loop(pat, s, LoopOf(pat, s))
  BY <1>8 DEF LoopOf
<1>10. QED
  <2> HIDE DEF done, base, rank, goes, makes
  <2>1. QED BY <1>9 DEF Loop

\* What the loop knows of the last star: whatever fits behind it from a later
\* position on has been followed to where the loop is now.
Followed(pat, s, F, x) ==
  x.star_p # 0 =>
    /\ pat[x.star_p] = "*"
    /\ \A j \in x.star_i .. (Len(s) + 1) : j \in F[x.star_p + 1] =>
         j + (x.i - x.star_i) <= Len(s) + 1 /\ j + (x.i - x.star_i) \in F[x.p]

\* The rest fits from here, or from a later position behind the last star.
Later(s, F, x) ==
  x.star_p # 0 /\ \E j \in (x.star_i + 1) .. (Len(s) + 1) : j \in F[x.star_p + 1]
Fitting_(s, F, x) == x.i \in F[x.p] \/ Later(s, F, x)

LEMMA StarStep ==
  ASSUME NEW pat \in Strings, NEW s \in Strings, NEW F, Fitting(pat, s, F),
         NEW x \in States(pat, s), Followed(pat, s, F, x), AtStar(pat, x),
         NEW y, AfterStar(x, y)
  PROVE  Followed(pat, s, F, y) /\ (Fitting_(s, F, y) <=> Fitting_(s, F, x))
<1>1. /\ Len(pat) \in Nat /\ Len(s) \in Nat /\ x.p \in 1 .. Len(pat) /\ x.i \in 1 .. (Len(s) + 1)
      /\ x.star_p \in 0 .. Len(pat) /\ x.star_i \in 0 .. (Len(s) + 1) /\ x.star_i <= x.i
      /\ pat[x.p] = "*"
  BY StringIs, StateIs DEF AtStar
<1>2. y.p = x.p + 1 /\ y.i = x.i /\ y.star_p = x.p /\ y.star_i = x.i
  BY DEF AfterStar
<1>3. Followed(pat, s, F, y)
  BY <1>1, <1>2 DEF Followed
<1>4. ASSUME NEW i \in 1 .. (Len(s) + 1)
      PROVE  i \in F[x.p] <=> \E k \in i .. (Len(s) + 1) : k \in F[x.p + 1]
  BY <1>1 DEF Fitting
<1>5. Fitting_(s, F, y) <=> x.i \in F[x.p]
  <2>1. Fitting_(s, F, y) <=> \E k \in x.i .. (Len(s) + 1) : k \in F[x.p + 1]
    BY <1>1, <1>2 DEF Fitting_, Later
  <2>2. QED BY <1>1, <1>4, <2>1
<1>6. ASSUME Later(s, F, x) PROVE x.i \in F[x.p]
  <2>1. PICK j \in (x.star_i + 1) .. (Len(s) + 1) : j \in F[x.star_p + 1]
    BY <1>6 DEF Later
  <2> DEFINE k == j + (x.i - x.star_i)
  <2>2. k <= Len(s) + 1 /\ k \in F[x.p]
    BY <1>1, <1>6, <2>1 DEF Followed, Later
  <2>3. k \in Int /\ k >= x.i
    BY <1>1, <2>1
  <2> HIDE DEF k
  <2>4. k \in x.i .. (Len(s) + 1) /\ k \in 1 .. (Len(s) + 1)
    BY <1>1, <2>2, <2>3
  <2>5. PICK l \in k .. (Len(s) + 1) : l \in F[x.p + 1]
    BY <1>4, <2>2, <2>4
  <2>6. l \in x.i .. (Len(s) + 1)
    BY <1>1, <2>4, <2>5
  <2>7. QED BY <1>1, <1>4, <2>5, <2>6
<1>7. QED BY <1>3, <1>5, <1>6 DEF Fitting_

LEMMA PartStep ==
  ASSUME NEW pat \in Strings, NEW s \in Strings, NEW F, Fitting(pat, s, F),
         NEW x \in States(pat, s), Followed(pat, s, F, x), ~AtStar(pat, x),
         NEW y, AfterPart(pat, s, x, y)
  PROVE  Followed(pat, s, F, y) /\ (Fitting_(s, F, y) <=> Fitting_(s, F, x))
<1>1. /\ Len(pat) \in Nat /\ Len(s) \in Nat /\ x.p \in 1 .. Len(pat) /\ x.i \in 1 .. Len(s)
      /\ x.star_p \in 0 .. Len(pat) /\ x.star_i \in 0 .. (Len(s) + 1) /\ x.star_i <= x.i
      /\ pat[x.p] # "*" /\ s[x.i] \in Matched(pat, x.p)
  BY StringIs, StateIs DEF AtStar, AfterPart
<1>2. y.p = Behind(pat, x.p) /\ y.i = x.i + 1 /\ y.star_p = x.star_p /\ y.star_i = x.star_i
  BY DEF AfterPart
<1>3. ASSUME NEW i \in 1 .. (Len(s) + 1)
      PROVE  i \in F[x.p] <=> i <= Len(s) /\ s[i] \in Matched(pat, x.p) /\ i + 1 \in F[Behind(pat, x.p)]
  BY <1>1 DEF Fitting
<1>4. y.i \in F[y.p] <=> x.i \in F[x.p]
  BY <1>1, <1>2, <1>3
<1>5. Later(s, F, y) <=> Later(s, F, x)
  BY <1>2 DEF Later
<1>6. ASSUME x.star_p # 0, NEW j \in x.star_i .. (Len(s) + 1), j \in F[x.star_p + 1]
      PROVE  j + (y.i - y.star_i) <= Len(s) + 1 /\ j + (y.i - y.star_i) \in F[y.p]
  <2> DEFINE k == j + (x.i - x.star_i)
  <2>1. k <= Len(s) + 1 /\ k \in F[x.p]
    BY <1>6 DEF Followed
  <2>2. k \in 1 .. (Len(s) + 1) /\ j + (y.i - y.star_i) = k + 1
    <3>1. j \in Int /\ j >= x.star_i /\ x.i \in Int /\ x.star_i \in Int /\ x.i >= 1
      BY <1>1, <1>6
    <3>2. k \in Int /\ k >= x.i
      BY <1>1, <3>1
    <3>3. j + (y.i - y.star_i) = k + 1
      BY <1>2, <3>1
    <3>4. QED BY <1>1, <2>1, <3>1, <3>2, <3>3
  <2> HIDE DEF k
  <2>3. k <= Len(s) /\ k + 1 \in F[y.p]
    BY <1>2, <1>3, <2>1, <2>2
  <2>4. QED BY <1>1, <2>2, <2>3
<1>7. Followed(pat, s, F, y)
  BY <1>2, <1>6 DEF Followed
<1>8. QED BY <1>4, <1>5, <1>7 DEF Fitting_

\* Where nothing is taken and the end is not accepted, the rest does not fit.
LEMMA NothingFits ==
  ASSUME NEW pat \in Strings, NEW s \in Strings, NEW F, Fitting(pat, s, F),
         NEW x \in States(pat, s), ~AtStar(pat, x), ~Accepts(pat, s, x), Moves(pat, s, x) = 0
  PROVE  x.i \notin F[x.p]
<1>1. /\ Len(pat) \in Nat /\ Len(s) \in Nat /\ x.p \in 1 .. (Len(pat) + 1) /\ x.i \in 1 .. (Len(s) + 1)
  BY StringIs, StateIs
<1>2. CASE x.p = Len(pat) + 1
  <2>1. OnlyStars(pat, x.p)
    BY <1>1, <1>2 DEF OnlyStars
  <2>2. x.i <= Len(s)
    BY <1>1, <2>1 DEF Accepts
  <2>3. F[x.p] = {Len(s) + 1}
    BY <1>2 DEF Fitting
  <2>4. QED BY <1>1, <2>2, <2>3
<1>3. CASE x.p # Len(pat) + 1
  <2>1. x.p \in 1 .. Len(pat) /\ pat[x.p] # "*"
    BY <1>1, <1>3 DEF AtStar
  <2>2. ~(x.i <= Len(s) /\ s[x.i] \in Matched(pat, x.p))
    <3>1. SUFFICES ASSUME x.i <= Len(s), s[x.i] \in Matched(pat, x.p) PROVE FALSE
      OBVIOUS
    <3>2. Behind(pat, x.p) \in (x.p + 1) .. (Len(pat) + 1) /\ Moves(pat, s, x) = Behind(pat, x.p)
      BY <1>1, <2>1, <3>1, MovesAre
    <3>3. QED BY <1>1, <3>2
  <2>3. QED BY <1>1, <2>1, <2>2 DEF Fitting
<1>4. QED BY <1>2, <1>3

LEMMA FailStep ==
  ASSUME NEW pat \in Strings, NEW s \in Strings, NEW F, Fitting(pat, s, F),
         NEW x \in States(pat, s), Followed(pat, s, F, x), x.i \notin F[x.p], CanRestart(x, s),
         NEW y, AfterFail(x, y)
  PROVE  Followed(pat, s, F, y) /\ (Fitting_(s, F, y) <=> Fitting_(s, F, x))
<1>1. /\ Len(s) \in Nat /\ x.star_p # 0 /\ x.star_i \in 0 .. Len(s) /\ pat[x.star_p] = "*"
      /\ x.star_p \in 0 .. Len(pat)
  BY StringIs, StateIs DEF CanRestart, Followed
<1>2. y.p = x.star_p + 1 /\ y.i = x.star_i + 1 /\ y.star_p = x.star_p /\ y.star_i = x.star_i + 1
  BY DEF AfterFail
<1>3. Followed(pat, s, F, y)
  BY <1>1, <1>2 DEF Followed
<1>4. Later(s, F, x) <=> (x.star_i + 1 \in F[x.star_p + 1] \/ Later(s, F, y))
  <2> DEFINE from == x.star_i + 1
             Fits_(j) == j \in F[x.star_p + 1]
  <2>1. Later(s, F, x) <=> \E j \in from .. (Len(s) + 1) : Fits_(j)
    BY <1>1 DEF Later
  <2>2. Later(s, F, y) <=> \E j \in (from + 1) .. (Len(s) + 1) : Fits_(j)
    BY <1>1, <1>2 DEF Later
  <2>3. from \in 1 .. (Len(s) + 1)
    BY <1>1
  <2> HIDE DEF Fits_, from
  <2>4. (\E j \in from .. (Len(s) + 1) : Fits_(j))
          <=> (Fits_(from) \/ \E j \in (from + 1) .. (Len(s) + 1) : Fits_(j))
    BY <1>1, <2>3
  <2>5. QED BY <2>1, <2>2, <2>4 DEF Fits_, from
<1>5. QED BY <1>2, <1>3, <1>4 DEF Fitting_

\* From every state the loop returns whether the rest fits, from there or behind the
\* last star.
LEMMA LoopIs ==
  ASSUME NEW pat \in Strings, NEW s \in Strings, NEW x \in States(pat, s),
         Followed(pat, s, FromOf(pat, s), x)
  PROVE  LoopOf(pat, s)[x] <=> Fitting_(s, FromOf(pat, s), x)
<1> DEFINE F == FromOf(pat, s)
           f == LoopOf(pat, s)
           N == (Len(s) + 2) * (Len(pat) + 2)
           G == {n \in 0 .. N : \A z \in States(pat, s) :
                   Left(pat, s, z) = n /\ Followed(pat, s, F, z) => (f[z] <=> Fitting_(s, F, z))}
<1>1. Len(pat) \in Nat /\ Len(s) \in Nat /\ N \in Nat /\ Fitting(pat, s, F)
  BY StringIs, FromFits
<1>2. \A z \in States(pat, s) : f[z] = IF Decided(pat, s, z) THEN Accepts(pat, s, z)
                                        ELSE f[Onward(pat, s, z)]
  BY LoopRuns
<1> HIDE DEF F, f
<1>3. ASSUME NEW n \in 0 .. N, \A m \in 0 .. (n - 1) : m \in G PROVE n \in G
  <2>1. SUFFICES ASSUME NEW z \in States(pat, s), Left(pat, s, z) = n, Followed(pat, s, F, z)
                 PROVE  f[z] <=> Fitting_(s, F, z)
    OBVIOUS
  <2>2. CASE Decided(pat, s, z)
    <3>1. f[z] = Accepts(pat, s, z) /\ ~AtStar(pat, z)
      BY <1>2, <2>2 DEF Decided
    <3>2. CASE Accepts(pat, s, z)
      <4>1. z.i = Len(s) + 1 /\ z.p \in 1 .. (Len(pat) + 1) /\ OnlyStars(pat, z.p)
        BY <1>1, <3>2, StateIs DEF Accepts
      <4>2. z.i \in F[z.p]
        BY <1>1, <4>1, StarsFit
      <4>3. QED BY <3>1, <3>2, <4>2 DEF Fitting_
    <3>3. CASE ~Accepts(pat, s, z)
      <4>1. Moves(pat, s, z) = 0 /\ ~CanRestart(z, s)
        BY <2>2, <3>3 DEF Decided
      <4>2. z.i \notin F[z.p]
        BY <1>1, <3>1, <3>3, <4>1, NothingFits
      <4>3. ~Later(s, F, z)
        BY <1>1, <4>1, StateIs DEF Later, CanRestart
      <4>4. QED BY <3>1, <3>3, <4>2, <4>3 DEF Fitting_
    <3>4. QED BY <3>2, <3>3
  <2>3. CASE ~Decided(pat, s, z)
    <3> DEFINE y == Onward(pat, s, z)
    <3>1. y \in States(pat, s) /\ Left(pat, s, y) < n
      BY <2>1, <2>3, LeftFalls
    <3>2. f[z] = f[y]
      BY <1>2, <2>3
    <3>3. \/ AtStar(pat, z) /\ AfterStar(z, y)
          \/ ~AtStar(pat, z) /\ AfterPart(pat, s, z, y)
          \/ /\ ~AtStar(pat, z) /\ ~Accepts(pat, s, z) /\ Moves(pat, s, z) = 0
             /\ CanRestart(z, s) /\ AfterFail(z, y)
      BY <2>3, OnwardIs
    <3> HIDE DEF y
    <3>4. Followed(pat, s, F, y) /\ (Fitting_(s, F, y) <=> Fitting_(s, F, z))
      <4>1. CASE AtStar(pat, z) /\ AfterStar(z, y)
        BY <1>1, <2>1, <4>1, StarStep
      <4>2. CASE ~AtStar(pat, z) /\ AfterPart(pat, s, z, y)
        BY <1>1, <2>1, <4>2, PartStep
      <4>3. CASE /\ ~AtStar(pat, z) /\ ~Accepts(pat, s, z) /\ Moves(pat, s, z) = 0
                 /\ CanRestart(z, s) /\ AfterFail(z, y)
        <5>1. z.i \notin F[z.p]
          BY <1>1, <4>3, NothingFits
        <5>2. QED BY <1>1, <2>1, <4>3, <5>1, FailStep
      <4>4. QED BY <3>3, <4>1, <4>2, <4>3
    <3>5. Left(pat, s, y) \in 0 .. N
      BY <3>1, LeftIs
    <3>6. Left(pat, s, y) \in 0 .. (n - 1)
      BY <1>1, <3>1, <3>5
    <3>7. f[y] <=> Fitting_(s, F, y)
      BY <1>3, <3>1, <3>4, <3>6
    <3>8. QED BY <3>2, <3>4, <3>7
  <2>4. QED BY <2>2, <2>3
<1>4. \A n \in 0 .. N : n \in G
  <2> HIDE DEF G, N
  <2>1. QED BY <1>1, <1>3, Climb
<1>5. Left(pat, s, x) \in 0 .. N
  BY LeftIs
<1>6. QED BY <1>4, <1>5 DEF F, f

\* For every pattern and name, the loop with its one saved star accepts what the
\* pattern means.
THEOREM GlobIsExact ==
  \A pat \in Seq(Letters), s \in Seq(Letters) : glob_match(pat, s) <=> Fits(pat, s)
<1> SUFFICES ASSUME NEW pat \in Strings, NEW s \in Strings PROVE glob_match(pat, s) <=> Fits(pat, s)
  BY DEF Strings
<1> DEFINE F == FromOf(pat, s)
<1>1. Len(pat) \in Nat /\ Len(s) \in Nat
  BY StringIs
<1>2. Start \in States(pat, s)
  BY <1>1 DEF Start, States
<1>3. Followed(pat, s, F, Start)
  BY DEF Followed, Start
<1>4. LoopOf(pat, s)[Start] <=> Fitting_(s, F, Start)
  BY <1>2, <1>3, LoopIs
<1>5. Fitting_(s, F, Start) <=> 1 \in F[1]
  BY DEF Fitting_, Later, Start
<1>6. QED BY <1>4, <1>5, MatchIsLoop, FitsIsFrom

\* Each iteration of the matcher moves its saved star on, or keeps it and goes on in the
\* pattern: it stops for every pattern and name, after at most (Len(s) + 2) times
\* (Len(pat) + 2) iterations (the while loop of glob_match).
THEOREM GlobEnds ==
  \A pat \in Seq(Letters), s \in Seq(Letters) : \A x \in States(pat, s) :
    /\ Left(pat, s, x) \in 0 .. ((Len(s) + 2) * (Len(pat) + 2))
    /\ ~Decided(pat, s, x) => /\ Onward(pat, s, x) \in States(pat, s)
                              /\ Left(pat, s, Onward(pat, s, x)) < Left(pat, s, x)
BY LeftIs, LeftFalls DEF Strings

\* Whatever the patterns and the names, the file searches accept exactly the names that
\* the pattern means (glob_match, glob_bracket).
THEOREM ExactGlobs == Spec => []GlobMeansIt
<1>1. GlobMeansIt
  BY GlobIsExact, GlobAssumption DEF GlobMeansIt
<1>2. QED BY <1>1, PTL
=============================================================================
