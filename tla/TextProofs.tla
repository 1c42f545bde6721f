----------------------------- MODULE TextProofs -----------------------------
(* Theorems about TextGeneration, for every set of answers, every limit, every  *)
(* number of proposals and every size of context: what is emitted is what the   *)
(* target's sampler returns, and what the loops sample from is what they        *)
(* emitted, with the exceptions that CachesHoldTheAnswer names.                 *)
(* A cache with the prompt and n tokens is Cached(n): position j holds j - 1,   *)
(* so all that the rounds do with caches is arithmetic on positions.            *)
(* RequestsGetNearer says how long a request may take.                          *)
(*                                                                              *)
(* Theorems about TextStream, for every set of pieces, every stop string and    *)
(* every size of the held head, whatever bounds the answer's length and the     *)
(* number of polls: what the pieces, the assembler, the held head, the splitter *)
(* and the queue do to the text loses no letter and cuts none.                  *)
(* The functions of the model that recur over a text (assembling, sifting,      *)
(* splitting) are shown to exist by Recursion; then strong induction on the     *)
(* length of the text, Climb, gives what they compute. StreamInv is inductive.  *)
EXTENDS TextGeneration, TextStream, SequenceTheorems, FiniteSetTheorems,
        WellFoundedInduction, TLAPS

Cached(n) == <<PROMPT>> \o Count(n)

Early == {"compact", "compacted", "choose", "prefill"}

\* Before the prefill: nothing is emitted, and the cache is empty or was a summary's.
EarlyInv ==
  /\ pc \in Early \cup {"idle"} => out = <<>> /\ i = 0 /\ ext_total = 0
  /\ pc \in Early => request \in Requests /\ ctx["target"]
  /\ pc \in Early => kv["target"] = <<>> \/ kv["target"] = <<STRAY>>
  /\ pc \in {"choose", "prefill"} /\ rounds > 0 => kv["target"] = <<>>
  /\ pc = "prefill" /\ Speculates => ctx["draft"]
  /\ pc \in Early \cup {"idle", "propose", "verify"} => trouble = "none"

\* Between a proposal and its verification only the draft has decoded the proposals.
VerifyInv ==
  pc = "verify" => /\ ctx["target"] /\ ctx["draft"]
                   /\ kv["target"] = Cached(Len(out))
                   /\ kv["draft"] = Cached(Len(out)) \o proposals

IInv ==
  /\ TypeOK /\ EmitsTheTargetsTokens /\ CachesHoldTheAnswer /\ AppliedIsLoaded
  /\ EarlyInv /\ VerifyInv
  /\ pc = "plain" => i = Len(out)
  /\ applied => pc \in {"plain", "propose", "verify"}
  /\ pc = "plain" => ~Speculates

---------------------------------------------------------------------------
(* Numbers.                                                                 *)

\* A bounded, nonempty set of numbers has a greatest element.
LEMMA MaxOfBounded ==
  ASSUME NEW b \in Nat, NEW S, S \subseteq 0..b, S # {}
  PROVE  Max(S) \in S
<1> DEFINE D == {n \in 0..b : b - n \in S}
           R == {ss \in Nat \X Nat : ss[1] < ss[2]}
<1>1. D \subseteq Nat /\ D # {}
  <2>1. PICK x \in S : TRUE
    OBVIOUS
  <2>2. b - x \in 0..b /\ b - (b - x) = x
    BY <2>1
  <2>3. QED BY <2>1, <2>2
<1>2. PICK d \in D : \A y \in D : ~(<<y, d>> \in R)
  <2>1. IsWellFoundedOn(R, Nat)
    BY NatLessThanWellFounded DEF OpToRel
  <2> HIDE DEF D, R
  <2>2. QED BY <1>1, <2>1, WFMin
<1>3. ASSUME NEW y \in S PROVE y <= b - d
  <2>1. b - y \in D
    BY <1>3
  <2>2. ~(b - y < d)
    BY <1>1, <1>2, <2>1
  <2>3. QED BY <2>2, <1>2
<1>4. \E x \in S : \A y \in S : x >= y
  BY <1>2, <1>3
<1>5. QED BY <1>4 DEF Max

LEMMA MaxOfTwo ==
  ASSUME NEW m \in Nat, NEW n \in Nat
  PROVE  Max({m, n}) \in Nat /\ Max({m, n}) >= m /\ Max({m, n}) >= n
<1>1. \E x \in {m, n} : \A y \in {m, n} : x >= y
  OBVIOUS
<1>2. QED BY <1>1 DEF Max

LEMMA MinOfThree ==
  ASSUME NEW a \in Int, NEW b \in Int, NEW c \in Int
  PROVE  Min({a, b, c}) \in {a, b, c} /\ Min({a, b, c}) <= b
<1>1. \E x \in {a, b, c} : \A y \in {a, b, c} : x <= y
  OBVIOUS
<1>2. QED BY <1>1 DEF Min

\* The limit grows by no more than is left of the extension.
LEMMA GrowthBound ==
  ASSUME TypeOK, NEW n \in Nat
  PROVE  Growth(n) \in 0..(ExtCap - ext_total)
<1>1. /\ Extra \in Int /\ ExtCap - ext_total \in Nat /\ Room(n) \in Int
      /\ MinExtra \in Nat /\ MinExtra > 0
  BY LimitsAssumption, RoomAssumption DEF TypeOK, Room
<1> DEFINE extra == Min({Extra, ExtCap - ext_total, Room(n)})
<1>2. extra \in Int /\ extra <= ExtCap - ext_total
  BY <1>1, MinOfThree
<1>3. Growth(n) = IF Room(n) < MinRoom \/ extra < MinExtra THEN 0 ELSE extra
  BY DEF Growth
<1> HIDE DEF extra
<1>4. QED BY <1>1, <1>2, <1>3

LEMMA RequestTypes ==
  ASSUME TypeOK
  PROVE  request.max_tokens \in Nat /\ script.len \in Nat
<1>1. request.max_tokens \in Nat
  <2>1. CASE request \in Requests
    BY <2>1, LimitsAssumption DEF Requests
  <2>2. CASE request = NoRequest
    BY <2>2 DEF NoRequest
  <2>3. QED BY <2>1, <2>2 DEF TypeOK
<1>2. script.len \in Nat
  <2>1. CASE script \in Scripts
    BY <2>1, ScriptsAssumption
  <2>2. CASE script = NoScript
    BY <2>2 DEF NoScript
  <2>3. QED BY <2>1, <2>2 DEF TypeOK
<1>3. QED BY <1>1, <1>2

---------------------------------------------------------------------------
(* Sequences of positions.                                                  *)

LEMMA CountProperties ==
  ASSUME NEW n \in Nat
  PROVE  /\ Count(n) \in Seq(Nat) /\ Count(n) \in Seq(Int) /\ Len(Count(n)) = n
         /\ \A j \in 1..n : Count(n)[j] = j
BY DEF Count

LEMMA IsCount ==
  ASSUME NEW n \in Nat, NEW s \in Seq(Int), Len(s) = n, \A j \in 1..n : s[j] = j
  PROVE  s = Count(n)
BY CountProperties, SeqEqual

LEMMA CachedProperties ==
  ASSUME NEW n \in Nat
  PROVE  /\ Cached(n) \in Seq(Int) /\ Len(Cached(n)) = n + 1
         /\ \A j \in 1..(n + 1) : Cached(n)[j] = j - 1
<1>1. <<PROMPT>> \in Seq(Int) /\ Len(<<PROMPT>>) = 1 /\ <<PROMPT>>[1] = 0
  BY DEF PROMPT
<1>2. Count(n) \in Seq(Int) /\ Len(Count(n)) = n /\ \A j \in 1..n : Count(n)[j] = j
  BY CountProperties
<1>3. /\ Cached(n) \in Seq(Int) /\ Len(Cached(n)) = 1 + n
      /\ \A j \in 1..(1 + n) : Cached(n)[j] = IF j <= 1 THEN <<PROMPT>>[j] ELSE Count(n)[j - 1]
  BY <1>1, <1>2, ConcatProperties DEF Cached
<1>4. ASSUME NEW j \in 1..(n + 1) PROVE Cached(n)[j] = j - 1
  <2>1. CASE j = 1
    BY <1>1, <1>3, <2>1
  <2>2. CASE j # 1
    BY <1>2, <1>3, <2>2
  <2>3. QED BY <2>1, <2>2
<1>5. QED BY <1>3, <1>4

LEMMA IsCached ==
  ASSUME NEW n \in Nat, NEW s \in Seq(Int), Len(s) = n + 1, \A j \in 1..(n + 1) : s[j] = j - 1
  PROVE  s = Cached(n)
BY CachedProperties, SeqEqual

LEMMA CachedNone == Cached(0) = <<PROMPT>>
<1>1. <<PROMPT>> \in Seq(Int) /\ Len(<<PROMPT>>) = 1 /\ <<PROMPT>>[1] = 0
  BY DEF PROMPT
<1>2. \A j \in 1..(0 + 1) : <<PROMPT>>[j] = j - 1
  BY <1>1
<1> DEFINE s == <<PROMPT>>
<1> HIDE DEF s
<1>3. s \in Seq(Int) /\ Len(s) = 0 + 1 /\ \A j \in 1..(0 + 1) : s[j] = j - 1
  BY <1>1, <1>2 DEF s
<1>4. s = Cached(0)
  BY <1>3, IsCached
<1>5. QED BY <1>4 DEF s

LEMMA CountNone == Count(0) = <<>>
<1>1. <<>> \in Seq(Int) /\ Len(<<>>) = 0
  BY EmptySeq
<1>2. Count(0) \in Seq(Int) /\ Len(Count(0)) = 0
  BY CountProperties
<1>3. QED BY <1>2, EmptySeq

LEMMA CountNext ==
  ASSUME NEW n \in Nat PROVE Append(Count(n), n + 1) = Count(n + 1)
<1> DEFINE c == Count(n)
           s == Append(c, n + 1)
<1>1. c \in Seq(Int) /\ Len(c) = n /\ \A j \in 1..n : c[j] = j
  BY CountProperties
<1> HIDE DEF c
<1>2. s \in Seq(Int) /\ Len(s) = n + 1 /\ \A j \in 1..(n + 1) : s[j] = j
  BY <1>1, AppendProperties
<1> HIDE DEF s
<1>3. s = Count(n + 1)
  BY <1>2, IsCount
<1>4. QED BY <1>3 DEF s, c

LEMMA CachedNext ==
  ASSUME NEW n \in Nat PROVE Append(Cached(n), n + 1) = Cached(n + 1)
<1> DEFINE c == Cached(n)
           s == Append(c, n + 1)
<1>1. c \in Seq(Int) /\ Len(c) = n + 1 /\ \A j \in 1..(n + 1) : c[j] = j - 1
  BY CachedProperties
<1> HIDE DEF c
<1>2. s \in Seq(Int) /\ Len(s) = (n + 1) + 1 /\ \A j \in 1..((n + 1) + 1) : s[j] = j - 1
  BY <1>1, AppendProperties
<1> HIDE DEF s
<1>3. s = Cached(n + 1)
  BY <1>2, IsCached
<1>4. QED BY <1>3 DEF s, c

\* What a chat request holds after a summary that failed.
LEMMA StrayNext ==
  ASSUME NEW n \in Nat
  PROVE  Append(<<STRAY>> \o <<PROMPT>> \o Count(n), n + 1) = <<STRAY>> \o <<PROMPT>> \o Count(n + 1)
<1>1. <<STRAY>> \o <<PROMPT>> \in Seq(Int) /\ Count(n) \in Seq(Int) /\ n + 1 \in Int
  BY CountProperties DEF STRAY, PROMPT
<1> DEFINE s == <<STRAY>> \o <<PROMPT>>
<1>2. s \o Count(n) \in Seq(Int)
  BY <1>1, ConcatProperties
<1> HIDE DEF s
<1>3. Append(s \o Count(n), n + 1) = (s \o Count(n)) \o <<n + 1>>
  BY <1>1, <1>2, AppendIsConcat
<1>4. (s \o Count(n)) \o <<n + 1>> = s \o (Count(n) \o <<n + 1>>)
  BY <1>1, ConcatAssociative DEF s
<1>5. Count(n) \o <<n + 1>> = Count(n + 1)
  BY <1>1, CountNext, AppendIsConcat
<1>6. Append(s \o Count(n), n + 1) = s \o Count(n + 1)
  BY <1>3, <1>4, <1>5
<1>7. QED BY <1>6 DEF s

---------------------------------------------------------------------------
(* The round.                                                               *)

\* The accepted proposals are the next tokens of the answer.
LEMMA AcceptedProperties ==
  ASSUME TypeOK
  PROVE  /\ Accepted \in 0..Len(proposals)
         /\ \A j \in 1..Accepted : proposals[j] = Len(out) + j
<1> DEFINE S == {n \in 0..Len(proposals) : \A j \in 1..n : proposals[j] = Base + j}
<1>1. Len(proposals) \in Nat
  BY LenProperties DEF TypeOK
<1>2. 0 \in S
  BY <1>1
<1>3. S \subseteq 0..Len(proposals) /\ S # {}
  BY <1>2
<1>4. Max(S) \in S
  <2> HIDE DEF S
  <2>1. QED BY <1>1, <1>3, MaxOfBounded
<1>5. Accepted = Max(S)
  BY DEF Accepted
<1>6. QED BY <1>4, <1>5 DEF Base

\* A cache with n tokens and proposals of which the first a are right, cut to those.
LEMMA CutAfterAccepted ==
  ASSUME NEW n \in Nat, NEW s \in Seq(Int), NEW a \in 0..Len(s), \A j \in 1..a : s[j] = n + j
  PROVE  SubSeq(Cached(n) \o s, 1, 1 + (n + a)) = Cached(n + a)
<1> DEFINE h == Cached(n)
           c == h \o s
           t == SubSeq(c, 1, 1 + (n + a))
<1>1. Len(s) \in Nat /\ a \in Nat /\ n + a \in Nat
  BY LenProperties
<1>2. h \in Seq(Int) /\ Len(h) = n + 1 /\ \A j \in 1..(n + 1) : h[j] = j - 1
  BY CachedProperties
<1> HIDE DEF h
<1>3. /\ c \in Seq(Int) /\ Len(c) = Len(h) + Len(s)
      /\ \A j \in 1..(Len(h) + Len(s)) : c[j] = IF j <= Len(h) THEN h[j] ELSE s[j - Len(h)]
  BY <1>2, ConcatProperties
<1> HIDE DEF c
<1>4. ASSUME NEW j \in 1..(1 + (n + a)) PROVE c[j] = j - 1
  <2>1. CASE j <= n + 1
    BY <1>1, <1>2, <1>3, <2>1
  <2>2. CASE ~(j <= n + 1)
    <3>1. j - (n + 1) \in 1..a /\ j \in 1..(Len(h) + Len(s))
      BY <1>1, <1>2, <2>2
    <3>2. c[j] = s[j - (n + 1)] /\ s[j - (n + 1)] = n + (j - (n + 1))
      BY <1>2, <1>3, <2>2, <3>1
    <3>3. QED BY <3>2
  <2>3. QED BY <2>1, <2>2
<1>5. /\ t \in Seq(Int) /\ Len(t) = 1 + (n + a)
      /\ \A j \in 1..(1 + (n + a)) : t[j] = c[j]
  <2>1. \A j \in 1..(1 + (n + a)) : c[j] \in Int
    BY <1>1, <1>4
  <2>2. QED BY <1>1, <2>1, SubSeqProperties
<1> HIDE DEF t
<1>6. Len(t) = (n + a) + 1 /\ \A j \in 1..((n + a) + 1) : t[j] = j - 1
  <2>1. 1 + (n + a) = (n + a) + 1
    BY <1>1
  <2>2. \A j \in 1..(1 + (n + a)) : t[j] = j - 1
    BY <1>4, <1>5
  <2>3. QED BY <2>1, <2>2, <1>5
<1>7. t = Cached(n + a)
  BY <1>1, <1>5, <1>6, IsCached
<1>8. QED BY <1>7 DEF t, c, h

\* n tokens and the right ones among the proposals after them.
LEMMA JoinAccepted ==
  ASSUME NEW n \in Nat, NEW s \in Seq(Int), NEW a \in 0..Len(s), \A j \in 1..a : s[j] = n + j
  PROVE  Count(n) \o SubSeq(s, 1, a) = Count(n + a)
<1> DEFINE h == Count(n)
           p == SubSeq(s, 1, a)
           t == h \o p
<1>1. Len(s) \in Nat /\ a \in Nat /\ n + a \in Nat
  BY LenProperties
<1>2. h \in Seq(Int) /\ Len(h) = n /\ \A j \in 1..n : h[j] = j
  BY CountProperties
<1>3. p \in Seq(Int) /\ Len(p) = a /\ \A j \in 1..a : p[j] = n + j
  <2>1. \A j \in 1..a : s[j] \in Int
    OBVIOUS
  <2>2. QED BY <1>1, <2>1, SubSeqProperties
<1> HIDE DEF h, p
<1>4. /\ t \in Seq(Int) /\ Len(t) = n + a
      /\ \A j \in 1..(n + a) : t[j] = IF j <= n THEN h[j] ELSE p[j - n]
  BY <1>2, <1>3, ConcatProperties
<1> HIDE DEF t
<1>5. \A j \in 1..(n + a) : t[j] = j
  <2>1. ASSUME NEW j \in 1..(n + a), ~(j <= n) PROVE t[j] = j
    <3>1. j - n \in 1..a
      BY <1>1, <2>1
    <3>2. t[j] = p[j - n] /\ p[j - n] = n + (j - n)
      BY <1>3, <1>4, <2>1, <3>1
    <3>3. QED BY <3>2
  <2>2. ASSUME NEW j \in 1..(n + a), j <= n PROVE t[j] = j
    BY <1>1, <1>2, <1>4, <2>2
  <2>3. QED BY <2>1, <2>2
<1>6. t = Count(n + a)
  BY <1>1, <1>4, <1>5, IsCount
<1>7. QED BY <1>6 DEF t, p, h

\* Both caches after the trim: the prompt, what was emitted and what was accepted.
LEMMA TrimmedProperties ==
  ASSUME IInv, pc = "verify", NEW m \in Models
  PROVE  Trimmed(m, Base + Accepted) = Cached(Len(out) + Accepted)
<1>1. /\ Len(out) \in Nat /\ proposals \in Seq(Int)
      /\ Accepted \in 0..Len(proposals) /\ \A j \in 1..Accepted : proposals[j] = Len(out) + j
  BY AcceptedProperties, LenProperties DEF IInv, TypeOK
<1>2. Trimmed(m, Base + Accepted)
        = SubSeq(Cached(Len(out)) \o proposals, 1, 1 + (Len(out) + Accepted))
  BY DEF Trimmed, Models, IInv, VerifyInv, Base
<1>3. QED BY <1>1, <1>2, CutAfterAccepted

\* The output with the accepted proposals, and with the target's own token after them.
LEMMA OutputProperties ==
  ASSUME IInv, pc = "verify"
  PROVE  /\ Len(out) \in Nat /\ Accepted \in Nat
         /\ Accepted = Len(proposals) => out \o proposals = Count(Len(out) + Accepted)
         /\ Emitted(Accepted) = Count(Len(out) + Accepted + 1)
<1>1. /\ Len(out) \in Nat /\ proposals \in Seq(Int) /\ Len(proposals) \in Nat
      /\ Accepted \in 0..Len(proposals) /\ \A j \in 1..Accepted : proposals[j] = Len(out) + j
  BY AcceptedProperties, LenProperties DEF IInv, TypeOK
<1>2. out = Count(Len(out))
  BY DEF IInv, EmitsTheTargetsTokens, EarlyInv
<1>3. out \o SubSeq(proposals, 1, Accepted) = Count(Len(out) + Accepted)
  BY <1>1, <1>2, JoinAccepted
<1>4. Accepted = Len(proposals) => SubSeq(proposals, 1, Accepted) = proposals
  BY <1>1, SubSeqFull
<1>5. Emitted(Accepted) = Count(Len(out) + Accepted + 1)
  <2>1. Emitted(Accepted) = Count(Len(out) + Accepted) \o <<Len(out) + Accepted + 1>>
    BY <1>3 DEF Emitted, Base
  <2>2. Len(out) + Accepted \in Nat
    BY <1>1
  <2>3. Append(Count(Len(out) + Accepted), Len(out) + Accepted + 1) = Count(Len(out) + Accepted + 1)
    BY <2>2, CountNext
  <2>4. Count(Len(out) + Accepted) \in Seq(Int) /\ Len(out) + Accepted + 1 \in Int
    BY <2>2, CountProperties
  <2>5. QED BY <2>1, <2>3, <2>4, AppendIsConcat
<1>6. QED BY <1>1, <1>3, <1>4, <1>5

---------------------------------------------------------------------------
(* The invariant.                                                           *)

LEMMA InitIInv == Init => IInv
<1> SUFFICES ASSUME Init PROVE IInv
  OBVIOUS
<1>1. <<>> \in Seq(Int) /\ <<>> \in Seq(Nat) /\ Len(<<>>) = 0
  BY EmptySeq
<1>2. TypeOK
  <2>1. kv \in [Models -> Seq(Int)] /\ ctx \in [Models -> BOOLEAN]
    BY <1>1 DEF Init
  <2>2. ext_total \in 0..ExtCap
    BY RoomAssumption DEF Init
  <2>3. rounds \in 0..3 /\ i \in Nat /\ lim \in Nat
    BY DEF Init
  <2>4. proposals \in Seq(Int) /\ out \in Seq(Int) /\ trouble = "none"
    BY <1>1 DEF Init
  <2>5. /\ request \in Requests \cup {NoRequest} /\ script \in Scripts \cup {NoScript}
        /\ pc = "idle" /\ finish = "none"
    BY DEF Init
  <2>6. applied \in BOOLEAN /\ adapter \in BOOLEAN
    BY Zenon DEF Init
  <2>7. QED BY <2>1, <2>2, <2>3, <2>4, <2>5, <2>6 DEF TypeOK
<1>3. EmitsTheTargetsTokens
  BY <1>1, CountNone, SMT DEF Init, EmitsTheTargetsTokens, NoScript
<1>4. CachesHoldTheAnswer /\ AppliedIsLoaded /\ EarlyInv /\ VerifyInv
  BY DEF Init, CachesHoldTheAnswer, AppliedIsLoaded, EarlyInv, VerifyInv, Early
<1>5. QED BY <1>2, <1>3, <1>4 DEF Init, IInv

\* An answered request keeps only its types and its output.
LEMMA AnsweredKeeps ==
  ASSUME TypeOK', EmitsTheTargetsTokens', pc' = "answered", applied' = FALSE
  PROVE  IInv'
BY DEF IInv, CachesHoldTheAnswer, AppliedIsLoaded, EarlyInv, VerifyInv, Early

\* Outside of a request there is no output and no adapter applied.
LEMMA IdleKeeps ==
  ASSUME TypeOK', EmitsTheTargetsTokens', pc' = "idle", applied' = FALSE,
         out' = <<>>, i' = 0, ext_total' = 0, trouble' = "none"
  PROVE  IInv'
BY DEF IInv, CachesHoldTheAnswer, AppliedIsLoaded, EarlyInv, VerifyInv, Early

\* Before the prefill there is no output, no adapter applied and a cache without a prompt.
LEMMA EarlyKeeps ==
  ASSUME TypeOK', EmitsTheTargetsTokens', EarlyInv', pc' \in Early, applied' = FALSE
  PROVE  IInv'
BY DEF IInv, CachesHoldTheAnswer, AppliedIsLoaded, VerifyInv, Early

LEMMA BeginStep == ASSUME IInv, NEW r \in Requests, Begin(r) PROVE IInv'
<1>1. /\ out' = <<>> /\ out = <<>> /\ script' = script /\ i' = 0 /\ ext_total' = 0
      /\ applied' = FALSE /\ request' = r /\ trouble = "none"
      /\ UNCHANGED <<script, rounds, adapter, loop, proposals, out, trouble>>
  BY DEF Begin, IInv, EarlyInv, loop
<1>2. EmitsTheTargetsTokens'
  BY <1>1 DEF IInv, EmitsTheTargetsTokens
<1>3. CASE Fresh("target") /\ UNCHANGED finish /\ pc' = IF r.kind = "raw" THEN "prefill" ELSE "compact"
  <2>1. TypeOK'
    BY <1>1, <1>3, EmptySeq DEF IInv, TypeOK, Fresh, Models, loop
  <2>2. kv'["target"] = <<>> /\ ctx'["target"]
    BY <1>3 DEF IInv, TypeOK, Fresh, Models
  <2>3. pc' = "prefill" => ~Speculates'
    BY <1>1, <1>3 DEF Speculates
  <2>4. EarlyInv'
    BY <1>1, <1>3, <2>2, <2>3 DEF EarlyInv, Early
  <2>5. QED BY <1>1, <1>2, <1>3, <2>1, <2>4, EarlyKeeps DEF Early
<1>4. CASE NoContext("target") /\ finish' = "error" /\ pc' = "answered"
  <2>1. TypeOK'
    BY <1>1, <1>4, EmptySeq DEF IInv, TypeOK, NoContext, Models, loop
  <2>2. QED BY <1>1, <1>2, <1>4, <2>1, AnsweredKeeps
<1>5. QED BY <1>3, <1>4 DEF Begin

LEMMA ReturnStep == ASSUME IInv, Return PROVE IInv'
<1>1. <<>> \in Seq(Int) /\ <<>> \in Seq(Nat) /\ Len(<<>>) = 0 /\ <<STRAY>> \in Seq(Int)
  BY EmptySeq DEF STRAY
<1>2. kv' \in [Models -> Seq(Int)]
  BY <1>1 DEF Return
<1>3. TypeOK'
  BY <1>1, <1>2, RoomAssumption DEF IInv, TypeOK, Return
<1>4. EmitsTheTargetsTokens'
  BY <1>1, CountNone DEF Return, EmitsTheTargetsTokens, NoScript
<1>5. applied' = FALSE
  BY DEF Return, IInv, TypeOK
<1>6. QED BY <1>3, <1>4, <1>5, IdleKeeps DEF Return

LEMMA AdapterStep == ASSUME IInv, LoadAdapter \/ UnloadAdapter PROVE IInv'
<1>1. /\ pc = "idle" /\ adapter' \in BOOLEAN
      /\ UNCHANGED <<pc, request, script, ctx, kv, rounds, applied, loop, proposals, out, trouble,
                     finish>>
  BY DEF LoadAdapter, UnloadAdapter
<1>2. TypeOK'
  BY <1>1 DEF IInv, TypeOK, loop
<1>3. EmitsTheTargetsTokens'
  BY <1>1 DEF IInv, EmitsTheTargetsTokens, Speculates
<1>4. applied' = FALSE /\ out' = <<>> /\ i' = 0 /\ ext_total' = 0 /\ trouble' = "none"
  BY <1>1 DEF IInv, TypeOK, EarlyInv, loop
<1>5. QED BY <1>1, <1>2, <1>3, <1>4, IdleKeeps

LEMMA SummariseStep == ASSUME IInv, Summarise PROVE IInv'
<1>1. /\ pc = "compact" /\ pc' \in {"compact", "compacted"} /\ rounds' \in 0..3
      /\ kv' = [kv EXCEPT !["target"] = <<STRAY>>]
      /\ UNCHANGED <<request, script, ctx, adapter, applied, loop, proposals, out, trouble, finish>>
  BY DEF Summarise, IInv, TypeOK
<1>2. <<STRAY>> \in Seq(Int)
  BY DEF STRAY
<1>3. TypeOK' /\ EmitsTheTargetsTokens' /\ applied' = FALSE
  BY <1>1, <1>2 DEF IInv, TypeOK, EmitsTheTargetsTokens, Speculates, loop
<1>4. kv'["target"] = <<STRAY>>
  BY <1>1 DEF IInv, TypeOK, Models
<1>5. EarlyInv'
  BY <1>1, <1>4 DEF IInv, EarlyInv, Early, loop
<1>6. QED BY <1>1, <1>3, <1>5, EarlyKeeps DEF Early

LEMMA FitsStep == ASSUME IInv, Fits PROVE IInv'
<1>1. TypeOK' /\ EmitsTheTargetsTokens' /\ applied' = FALSE
  BY DEF Fits, IInv, TypeOK, EmitsTheTargetsTokens, Speculates, loop
<1>2. EarlyInv'
  BY DEF Fits, IInv, EarlyInv, Early, loop
<1>3. QED BY <1>1, <1>2, EarlyKeeps DEF Fits, Early

LEMMA CompactedStep == ASSUME IInv, Compacted PROVE IInv'
<1>1. pc = "compacted" /\ UNCHANGED <<script, adapter, proposals, out, trouble>> /\ trouble = "none"
  BY DEF Compacted, IInv, EarlyInv, Early
<1>2. EmitsTheTargetsTokens'
  BY <1>1 DEF IInv, EmitsTheTargetsTokens
<1>3. CASE /\ rounds > 0 => Fresh("target")
           /\ rounds = 0 => UNCHANGED <<ctx, kv>>
           /\ pc' = AfterCompact
           /\ UNCHANGED <<request, applied, loop, finish, rounds>>
  <2>1. rounds \in 0..3 /\ ctx["target"] /\ (kv["target"] = <<>> \/ kv["target"] = <<STRAY>>)
    BY <1>1 DEF IInv, TypeOK, EarlyInv, Early
  <2>2. /\ ctx' \in [Models -> BOOLEAN] /\ kv' \in [Models -> Seq(Int)] /\ ctx'["target"]
        /\ rounds > 0 => kv'["target"] = <<>>
        /\ rounds = 0 => kv'["target"] = kv["target"]
    <3>1. CASE rounds > 0
      <4>1. Fresh("target")
        BY <1>3, <3>1
      <4>2. ctx \in [Models -> BOOLEAN] /\ kv \in [Models -> Seq(Int)] /\ "target" \in Models
            /\ <<>> \in Seq(Int)
        BY EmptySeq DEF IInv, TypeOK, Models
      <4>3. QED BY <3>1, <4>1, <4>2 DEF Fresh
    <3>2. CASE rounds = 0
      BY <1>3, <2>1, <3>2 DEF IInv, TypeOK
    <3>3. QED BY <2>1, <3>1, <3>2
  <2>3. pc' \in {"choose", "prefill"} /\ (pc' = "prefill" => ~Speculates')
    BY <1>3 DEF AfterCompact, Speculates
  <2>4. TypeOK'
    BY <1>1, <1>3, <2>2, <2>3 DEF IInv, TypeOK, loop
  <2>5. EarlyInv'
    BY <1>1, <1>3, <2>1, <2>2, <2>3 DEF IInv, EarlyInv, Early, loop
  <2>6. applied' = FALSE
    BY <1>1, <1>3 DEF IInv, TypeOK
  <2>7. QED BY <1>2, <2>3, <2>4, <2>5, <2>6, EarlyKeeps DEF Early
<1>4. CASE NoContext("target") /\ End("error")
  <2>1. TypeOK'
    BY <1>1, <1>4, EmptySeq DEF IInv, TypeOK, NoContext, End, Models, loop
  <2>2. QED BY <1>2, <1>4, <2>1, AnsweredKeeps DEF End
<1>5. QED BY <1>3, <1>4 DEF Compacted

LEMMA ChooseStep == ASSUME IInv, Choose PROVE IInv'
<1>1. /\ pc = "choose" /\ UNCHANGED <<script, adapter, applied, loop, proposals, out, trouble, finish>>
      /\ request \in Requests /\ trouble = "none"
  BY DEF Choose, IInv, EarlyInv, Early
<1> DEFINE alone == [request EXCEPT !.speculative = FALSE]
<1>2. alone \in Requests /\ alone.speculative = FALSE
  BY <1>1 DEF Requests
<1>3. /\ pc' \in {"compact", "prefill"} /\ rounds' \in 0..3
      /\ request' \in {request, alone}
      /\ pc' = "prefill" => rounds' = rounds
      /\ ctx' \in [Models -> BOOLEAN] /\ kv' \in [Models -> Seq(Int)]
      /\ ctx'["target"] = ctx["target"] /\ kv'["target"] = kv["target"]
      /\ pc' = "prefill" => request' = alone \/ ctx'["draft"]
  <2>1. ctx \in [Models -> BOOLEAN] /\ kv \in [Models -> Seq(Int)] /\ rounds \in 0..3
        /\ "target" \in Models /\ "draft" \in Models /\ <<>> \in Seq(Int)
    BY EmptySeq DEF IInv, TypeOK, Models
  <2>2. CASE Fresh("draft") /\ IF request.grammar
                               THEN pc' = "compact" /\ rounds' = 0 /\ request' = alone
                               ELSE pc' = "prefill" /\ UNCHANGED <<rounds, request>>
    BY <2>1, <2>2 DEF Fresh
  <2>3. CASE NoContext("draft") /\ pc' = "prefill" /\ request' = alone /\ UNCHANGED rounds
    BY <2>1, <2>3 DEF NoContext
  <2>4. CASE pc' = "prefill" /\ request' = alone /\ UNCHANGED <<ctx, kv, rounds>>
    BY <2>1, <2>4
  <2>5. QED BY <2>2, <2>3, <2>4 DEF Choose
<1>4. TypeOK' /\ EmitsTheTargetsTokens' /\ applied' = FALSE
  BY <1>1, <1>2, <1>3 DEF IInv, TypeOK, EmitsTheTargetsTokens, loop
<1>5. pc' = "prefill" /\ Speculates' => ctx'["draft"]
  BY <1>2, <1>3 DEF Speculates
<1>6. EarlyInv'
  BY <1>1, <1>2, <1>3, <1>5 DEF IInv, EarlyInv, Early, loop
<1>7. QED BY <1>3, <1>4, <1>6, EarlyKeeps DEF Early

\* The prompt goes into an empty cache, or behind a summary that failed.
LEMMA PrefillStep == ASSUME IInv, Prefill PROVE IInv'
<1>1. /\ pc = "prefill" /\ script' \in Scripts /\ UNCHANGED <<ctx, adapter, proposals, out, trouble>>
      /\ trouble = "none" /\ out = <<>> /\ i = 0 /\ ext_total = 0 /\ request \in Requests /\ ctx["target"]
      /\ kv["target"] = <<>> \/ (kv["target"] = <<STRAY>> /\ rounds = 0)
      /\ Speculates => ctx["draft"]
  BY DEF Prefill, IInv, TypeOK, EarlyInv, Early
<1>2. <<PROMPT>> \in Seq(Int) /\ <<STRAY>> \in Seq(Int) /\ Len(<<>>) = 0 /\ Count(0) = <<>>
  BY EmptySeq, CountNone DEF PROMPT, STRAY
<1>3. script'.len \in Nat
  BY <1>1, ScriptsAssumption
<1>4. EmitsTheTargetsTokens'
  BY <1>1, <1>2, <1>3 DEF EmitsTheTargetsTokens
<1>5. CASE /\ kv' = [m \in Models |->
                IF m = "draft" THEN IF Speculates THEN <<PROMPT>> ELSE kv[m]
                ELSE IF ClearsFirst THEN <<PROMPT>> ELSE Append(kv[m], PROMPT)]
           /\ applied' = (request.lora /\ adapter)
           /\ pc' = IF Speculates THEN "propose" ELSE "plain"
           /\ lim' = request.max_tokens /\ UNCHANGED <<request, rounds, i, ext_total, finish>>
  <2>1. kv' \in [Models -> Seq(Int)]
    <3>1. \A m \in Models : kv[m] \in Seq(Int) /\ Append(kv[m], PROMPT) \in Seq(Int)
      BY AppendProperties DEF IInv, TypeOK, PROMPT
    <3>2. QED BY <1>2, <1>5, <3>1
  <2>2. TypeOK'
    <3>1. request.max_tokens \in Nat
      BY RequestTypes DEF IInv
    <3>2. applied' \in BOOLEAN
      BY <1>5, <1>1 DEF Requests, IInv, TypeOK
    <3>3. QED BY <1>1, <1>5, <2>1, <3>1, <3>2 DEF IInv, TypeOK
  <2>3. applied' => adapter'
    BY <1>1, <1>5
  <2>4. CASE Speculates
    <3>1. ClearsFirst
      BY <2>4 DEF ClearsFirst
    <3>2. pc' = "propose" /\ kv'["target"] = <<PROMPT>> /\ kv'["draft"] = <<PROMPT>>
      BY <1>5, <2>4, <3>1 DEF Models
    <3>3. Cached(0) = <<PROMPT>> /\ <<>> \o Cached(0) = Cached(0)
      BY <1>2, CachedNone, ConcatEmptySeq
    <3>4. <<>> \o <<PROMPT>> \o Count(0) = <<PROMPT>>
      BY <1>2, ConcatEmptySeq
    <3>5. CachesHoldTheAnswer'
      BY <1>1, <1>2, <2>4, <3>2, <3>4 DEF CachesHoldTheAnswer, Holds
    <3>6. QED BY <1>1, <1>4, <2>2, <2>3, <3>2, <3>5 DEF IInv, EarlyInv, VerifyInv, Early, AppliedIsLoaded
  <2>5. CASE ~Speculates
    <3>1. pc' = "plain" /\ kv'["target"] = IF ClearsFirst THEN <<PROMPT>> ELSE Append(kv["target"], PROMPT)
      BY <1>5, <2>5 DEF Models
    <3>2. <<>> \o <<PROMPT>> \o Count(0) = <<PROMPT>>
      BY <1>2, ConcatEmptySeq
    <3>3. Append(<<>>, PROMPT) = <<PROMPT>>
      BY <1>2, AppendIsConcat, ConcatEmptySeq, EmptySeq DEF PROMPT
    <3>4. <<STRAY>> \o <<PROMPT>> \o Count(0) = Append(<<STRAY>>, PROMPT)
      <4>1. <<STRAY>> \o <<PROMPT>> = Append(<<STRAY>>, PROMPT)
        BY <1>2, AppendIsConcat DEF PROMPT
      <4>2. Append(<<STRAY>>, PROMPT) \in Seq(Int)
        BY <1>2, AppendProperties DEF PROMPT
      <4>3. QED BY <1>2, <4>1, <4>2, ConcatEmptySeq
    <3>5. \/ kv'["target"] = <<PROMPT>>
          \/ kv'["target"] = Append(<<STRAY>>, PROMPT) /\ rounds = 0 /\ request.kind = "chat"
      BY <1>1, <3>1, <3>3 DEF ClearsFirst
    <3>6. CachesHoldTheAnswer'
      BY <1>1, <1>2, <1>5, <3>1, <3>2, <3>4, <3>5 DEF CachesHoldTheAnswer, Holds
    <3>7. i' = Len(out')
      BY <1>1, <1>2, <1>5
    <3>8. ~Speculates'
      BY <1>5, <2>5 DEF Speculates
    <3>9. QED BY <1>4, <2>2, <2>3, <3>1, <3>6, <3>7, <3>8 DEF IInv, EarlyInv, VerifyInv, Early, AppliedIsLoaded
  <2>6. QED BY <2>4, <2>5
<1>6. CASE kv' = [kv EXCEPT !["target"] = <<STRAY>>] /\ End("error")
  <2>1. TypeOK'
    BY <1>1, <1>2, <1>6 DEF IInv, TypeOK, End, Models, loop
  <2>2. QED BY <1>4, <1>6, <2>1, AnsweredKeeps DEF End
<1>7. QED BY <1>5, <1>6 DEF Prefill

\* The plain loop ends with or without a last token.
LEMMA PlainEndStep == ASSUME IInv, PlainEnd PROVE IInv'
<1>1. /\ UNCHANGED <<script, ctx, kv, adapter, proposals, out, trouble>>
      /\ End("stop") \/ End("length")
  BY DEF PlainEnd
<1>2. TypeOK' /\ EmitsTheTargetsTokens'
  BY <1>1 DEF IInv, TypeOK, End, EmitsTheTargetsTokens, Speculates, loop
<1>3. QED BY <1>1, <1>2, AnsweredKeeps DEF End

\* Behind a decode whose failure was ignored the tokens are no more the target's.
LEMMA NextToken ==
  ASSUME IInv, pc = "plain", i < script.len,
         NEW n \in Nat, n = i + 1, out' = Append(out, Token(n)),
         script' = script, request' = request, trouble' = trouble \/ trouble' = "ignored"
                                               \/ (trouble = "none" /\ trouble' = "ended")
  PROVE  /\ EmitsTheTargetsTokens' /\ out' \in Seq(Int) /\ Len(out') = n
         /\ trouble # "ignored" => Token(n) = n
<1>1. i = Len(out) /\ i \in Nat /\ ~Speculates /\ ~Speculates' /\ out \in Seq(Int) /\ Token(n) \in Int
  BY DEF IInv, TypeOK, Speculates, Token, WRONG
<1>2. out' \in Seq(Int) /\ Len(out') = n
  BY <1>1, AppendProperties
<1>3. n <= script.len
  BY <1>1, RequestTypes DEF IInv
<1>4. CASE trouble = "ignored"
  <2>1. trouble' = "ignored"
    BY <1>4
  <2>2. QED BY <1>1, <1>2, <1>3, <1>4, <2>1 DEF EmitsTheTargetsTokens
<1>5. CASE trouble # "ignored"
  <2>1. out = Count(i) /\ Token(n) = n
    BY <1>1, <1>5 DEF IInv, EmitsTheTargetsTokens, Token
  <2>2. out' = Count(n)
    BY <1>1, <2>1, CountNext
  <2>3. QED BY <1>2, <1>3, <2>1, <2>2 DEF EmitsTheTargetsTokens
<1>6. QED BY <1>4, <1>5

LEMMA PlainStepStep == ASSUME IInv, PlainStep PROVE IInv'
<1> DEFINE n == i + 1
<1>1. /\ pc = "plain" /\ i < script.len /\ i = Len(out) /\ i \in Nat /\ n \in Nat
      /\ ctx["target"] /\ ~Speculates /\ Token(n) \in Int
      /\ trouble \in {"none", "ended", "ignored"}
  BY DEF PlainStep, IInv, TypeOK, CachesHoldTheAnswer, Token, WRONG
<1>2. kv["target"] \in Seq(Int) /\ Append(kv["target"], Token(n)) \in Seq(Int)
  BY <1>1, AppendProperties DEF IInv, TypeOK, Models
<1>3. ASSUME NEW d \in BOOLEAN, Goes(n, d) PROVE IInv'
  <2> DEFINE g == IF LimitReached(n) THEN Growth(n) ELSE 0
  <2>1. /\ kv' = IF d THEN [kv EXCEPT !["target"] = Append(@, Token(n))] ELSE kv
        /\ out' = Append(out, Token(n)) /\ i' = n
        /\ trouble' = IF d THEN trouble ELSE "ignored"
        /\ ext_total' = ext_total + g /\ lim' = Shrunk(n, lim + g, ext_total + g)
        /\ UNCHANGED <<pc, request, script, ctx, rounds, adapter, applied, proposals, finish>>
    BY <1>3 DEF Goes
  <2>2. /\ g \in Nat /\ ext_total + g \in 0..ExtCap /\ lim + g \in Nat
    <3>1. g \in 0..(ExtCap - ext_total)
      <4>1. ext_total \in 0..ExtCap /\ ExtCap \in Nat
        BY RoomAssumption DEF IInv, TypeOK
      <4>2. Growth(n) \in 0..(ExtCap - ext_total)
        BY <1>1, GrowthBound DEF IInv
      <4>3. g = 0 \/ g = Growth(n)
        OBVIOUS
      <4> HIDE DEF g
      <4>4. QED BY <4>1, <4>2, <4>3
    <3>2. QED BY <3>1, RoomAssumption DEF IInv, TypeOK
  <2> HIDE DEF g
  <2>3. Shrunk(n, lim + g, ext_total + g) \in Nat
    <3>1. Max({request.max_tokens, AnswerRoom}) \in Nat
      BY RequestTypes, RoomAssumption, MaxOfTwo DEF IInv
    <3>2. n - 1 + Max({request.max_tokens, AnswerRoom}) \in Nat
      BY <1>1, <3>1
    <3>3. QED BY <2>2, <3>2 DEF Shrunk
  <2>4. kv' \in [Models -> Seq(Int)]
    BY <1>2, <2>1 DEF IInv, TypeOK
  <2>5. /\ EmitsTheTargetsTokens' /\ out' \in Seq(Int) /\ Len(out') = n
        /\ trouble # "ignored" => Token(n) = n
    <3> HIDE DEF n
    <3>1. n = i + 1 /\ n \in Nat
      BY <1>1 DEF n
    <3>2. trouble' = trouble \/ trouble' = "ignored"
      BY <2>1
    <3>3. QED BY <1>1, <2>1, <3>1, <3>2, NextToken
  <2>6. TypeOK'
    <3>1. trouble' \in {"none", "ended", "ignored"}
      BY <1>1, <2>1
    <3>2. QED BY <1>1, <2>1, <2>2, <2>3, <2>4, <2>5, <3>1 DEF IInv, TypeOK
  <2>7. CachesHoldTheAnswer'
    <3>1. SUFFICES ASSUME trouble' = "none"
                   PROVE  \/ Holds("target", <<>>)'
                          \/ request.kind = "chat" /\ rounds = 0 /\ Holds("target", <<STRAY>>)'
      BY <1>1, <2>1 DEF CachesHoldTheAnswer
    <3>2. d /\ trouble = "none" /\ Token(n) = n
      BY <2>1, <2>5, <3>1
    <3>3. kv'["target"] = Append(kv["target"], n)
      BY <2>1, <3>2 DEF IInv, TypeOK, Models
    <3>4. \/ kv["target"] = <<>> \o <<PROMPT>> \o Count(i)
          \/ /\ request.kind = "chat" /\ rounds = 0
             /\ kv["target"] = <<STRAY>> \o <<PROMPT>> \o Count(i)
      BY <1>1, <3>2 DEF IInv, CachesHoldTheAnswer, Holds
    <3>5. <<>> \o <<PROMPT>> = <<PROMPT>>
      BY ConcatEmptySeq DEF PROMPT
    <3>6. Append(<<>> \o <<PROMPT>> \o Count(i), n) = <<>> \o <<PROMPT>> \o Count(n)
      BY <1>1, <3>5, CachedNext DEF Cached
    <3>7. Append(<<STRAY>> \o <<PROMPT>> \o Count(i), n) = <<STRAY>> \o <<PROMPT>> \o Count(n)
      BY <1>1, StrayNext
    <3>8. QED BY <2>5, <3>3, <3>4, <3>6, <3>7 DEF Holds
  <2>8. pc' = "plain" /\ i' = Len(out') /\ (applied' => adapter') /\ ~Speculates'
    BY <1>1, <2>1, <2>5 DEF IInv, AppliedIsLoaded, Speculates
  <2>9. QED
    BY <2>5, <2>6, <2>7, <2>8 DEF IInv, AppliedIsLoaded, EarlyInv, VerifyInv, Early
<1>4. ASSUME NEW reason \in {"stop", "length"}, NEW d \in BOOLEAN, EndsAt(n, reason, d),
             trouble' = trouble \/ (trouble = "none" /\ trouble' = "ended")
      PROVE IInv'
  <2>1. /\ out' = Append(out, Token(n)) /\ End(reason) /\ UNCHANGED <<script, ctx, adapter, proposals>>
        /\ kv' = IF d THEN [kv EXCEPT !["target"] = Append(@, Token(n))] ELSE kv
    BY <1>4 DEF EndsAt
  <2>2. kv' \in [Models -> Seq(Int)]
    BY <1>2, <2>1 DEF IInv, TypeOK
  <2>3. EmitsTheTargetsTokens' /\ out' \in Seq(Int)
    <3> HIDE DEF n
    <3>1. n = i + 1 /\ n \in Nat /\ request' = request
      BY <1>1, <2>1 DEF n, End
    <3>2. QED BY <1>1, <1>4, <2>1, <3>1, NextToken
  <2>4. TypeOK'
    <3>1. trouble' \in {"none", "ended", "ignored"}
      BY <1>1, <1>4
    <3>2. QED BY <2>1, <2>2, <2>3, <3>1 DEF IInv, TypeOK, End, loop
  <2>5. QED BY <2>1, <2>3, <2>4, AnsweredKeeps DEF End
<1>5. \/ \E d \in BOOLEAN : Goes(n, d)
      \/ \E reason \in {"stop", "length"}, d \in BOOLEAN :
           EndsAt(n, reason, d) /\ (trouble' = trouble \/ (trouble = "none" /\ trouble' = "ended"))
  <2>1. Troubled(TRUE) = trouble \/ (trouble = "none" /\ Troubled(TRUE) = "ended")
    BY DEF Troubled
  <2>2. Troubled(Used("target") < NCtx) = trouble
        \/ (trouble = "none" /\ Troubled(Used("target") < NCtx) = "ended")
    BY DEF Troubled
  <2>3. QED BY <2>2 DEF PlainStep
<1>6. QED BY <1>3, <1>4, <1>5

LEMMA SpeculationEndsStep == ASSUME IInv, SpeculationEnds PROVE IInv'
<1>1. TypeOK' /\ EmitsTheTargetsTokens'
  BY DEF SpeculationEnds, IInv, TypeOK, End, EmitsTheTargetsTokens, Speculates, loop
<1>2. QED BY <1>1, AnsweredKeeps DEF SpeculationEnds, End

LEMMA ProposeStep == ASSUME IInv, Propose PROVE IInv'
<1>0. PICK p \in 1..K : \E n \in 0..p :
        /\ proposals' = Proposal(p, n)
        /\ kv' = [kv EXCEPT !["draft"] = @ \o Proposal(p, n)]
  BY DEF Propose
<1>1. PICK n \in 0..p :
        /\ proposals' = Proposal(p, n)
        /\ kv' = [kv EXCEPT !["draft"] = @ \o Proposal(p, n)]
  BY <1>0
<1>2. /\ pc = "propose" /\ pc' = "verify"
      /\ UNCHANGED <<request, script, ctx, rounds, adapter, applied, loop, out, trouble, finish>>
      /\ trouble = "none"
  BY DEF Propose, IInv, EarlyInv
<1>3. Proposal(p, n) \in Seq(Int)
  <2>1. Len(out) \in Int /\ p \in Nat
    BY LenProperties, LimitsAssumption DEF IInv, TypeOK
  <2>2. \A j \in 1..p : (IF j <= n THEN Base + j ELSE WRONG) \in Int
    BY <2>1 DEF Base, WRONG
  <2>3. QED BY <2>1, <2>2 DEF Proposal
<1>4. kv["draft"] \in Seq(Int) /\ kv["draft"] \o Proposal(p, n) \in Seq(Int)
  BY <1>3, ConcatProperties DEF IInv, TypeOK, Models
<1>5. TypeOK'
  <2>1. kv' \in [Models -> Seq(Int)]
    BY <1>1, <1>4 DEF IInv, TypeOK
  <2>2. QED BY <1>1, <1>2, <1>3, <2>1 DEF IInv, TypeOK, loop
<1>6. <<>> \o <<PROMPT>> = <<PROMPT>>
  BY ConcatEmptySeq DEF PROMPT
<1>7. /\ ctx["target"] /\ ctx["draft"]
      /\ kv["target"] = Cached(Len(out)) /\ kv["draft"] = Cached(Len(out))
  BY <1>2, <1>6 DEF IInv, CachesHoldTheAnswer, Holds, Cached
<1>8. kv'["target"] = kv["target"] /\ kv'["draft"] = kv["draft"] \o proposals'
  BY <1>1 DEF IInv, TypeOK, Models
<1>9. VerifyInv'
  BY <1>2, <1>7, <1>8 DEF VerifyInv
<1>10. EmitsTheTargetsTokens' /\ AppliedIsLoaded'
  BY <1>2 DEF IInv, EmitsTheTargetsTokens, AppliedIsLoaded
<1>11. QED
  BY <1>2, <1>5, <1>9, <1>10 DEF IInv, CachesHoldTheAnswer, EarlyInv, Early

\* The caches after the trim are caches.
LEMMA TrimmedTypes ==
  ASSUME IInv, pc = "verify", NEW m \in Models
  PROVE  /\ Trimmed(m, Base + Accepted) = Cached(Len(out) + Accepted)
         /\ Cached(Len(out) + Accepted) \in Seq(Int)
         /\ Append(Cached(Len(out) + Accepted), Len(out) + Accepted + 1)
              = Cached(Len(out) + Accepted + 1)
         /\ Cached(Len(out) + Accepted + 1) \in Seq(Int)
<1>1. Len(out) + Accepted \in Nat /\ Len(out) + Accepted + 1 \in Nat
  BY OutputProperties
<1>2. QED BY <1>1, TrimmedProperties, CachedProperties, CachedNext

\* The answer ends with the target's own token; what was accepted is the answer's end.
LEMMA RoundEndsStep == ASSUME IInv, RoundEnds PROVE IInv'
<1>1. /\ pc = "verify" /\ Base + Accepted = script.len /\ End("stop")
      /\ kv' = [m \in Models |-> Trimmed(m, Base + Accepted)]
      /\ out' = IF Accepted = Len(proposals) THEN out \o proposals ELSE out
      /\ proposals' = <<>> /\ UNCHANGED <<script, ctx, adapter, trouble>> /\ trouble = "none"
  BY DEF RoundEnds, IInv, EarlyInv
<1>2. kv' \in [Models -> Seq(Int)]
  BY <1>1, TrimmedTypes
<1>3. out' = Count(Len(out')) /\ Len(out') <= script'.len /\ out' \in Seq(Int)
  <2>1. CASE Accepted = Len(proposals)
    <3>1. out' = Count(Len(out) + Accepted) /\ Len(out) + Accepted \in Nat
      BY <1>1, <2>1, OutputProperties
    <3>2. out' \in Seq(Int) /\ Len(out') = Len(out) + Accepted
      BY <3>1, CountProperties
    <3>3. Len(out) + Accepted = script'.len
      BY <1>1 DEF Base
    <3>4. QED BY <3>1, <3>2, <3>3
  <2>2. CASE Accepted # Len(proposals)
    BY <1>1, <2>2 DEF IInv, TypeOK, EmitsTheTargetsTokens
  <2>3. QED BY <2>1, <2>2
<1>4. TypeOK'
  BY <1>1, <1>2, <1>3, EmptySeq DEF IInv, TypeOK, End, loop
<1>5. EmitsTheTargetsTokens'
  BY <1>3 DEF EmitsTheTargetsTokens
<1>6. QED BY <1>1, <1>4, <1>5, AnsweredKeeps DEF End

\* The answer goes on: both caches hold it again.
LEMMA RoundGoesOnStep == ASSUME IInv, RoundGoesOn PROVE IInv'
<1> DEFINE t == Len(out) + Accepted + 1
<1>1. /\ pc = "verify" /\ Base + Accepted < script.len /\ out' = Emitted(Accepted)
      /\ kv' = [m \in Models |-> Append(Trimmed(m, Base + Accepted), Base + Accepted + 1)]
      /\ proposals' = <<>> /\ UNCHANGED <<script, ctx, adapter, trouble>> /\ trouble = "none"
      /\ \/ pc' = "propose" /\ UNCHANGED <<request, applied, rounds, loop, finish>>
         \/ End("length")
  BY DEF RoundGoesOn, IInv, EarlyInv
<1>2. kv' = [m \in Models |-> Cached(t)] /\ Cached(t) \in Seq(Int)
  BY <1>1, TrimmedTypes DEF Base, Models
<1>3. out' = Count(t) /\ t \in Nat /\ Len(out) \in Nat /\ Accepted \in Nat
  BY <1>1, OutputProperties
<1>4. out' \in Seq(Int) /\ Len(out') = t
  BY <1>3, CountProperties
<1>5. EmitsTheTargetsTokens'
  <2>1. t <= script.len
    BY <1>1, <1>3, RequestTypes DEF Base, IInv
  <2>2. QED BY <1>1, <1>3, <1>4, <2>1 DEF EmitsTheTargetsTokens
<1> HIDE DEF t
<1>6. kv' \in [Models -> Seq(Int)]
  BY <1>2
<1>7. CASE End("length")
  <2>1. TypeOK'
    BY <1>1, <1>4, <1>6, <1>7, EmptySeq DEF IInv, TypeOK, End, loop
  <2>2. QED BY <1>5, <1>7, <2>1, AnsweredKeeps DEF End
<1>8. CASE pc' = "propose" /\ UNCHANGED <<request, applied, rounds, loop, finish>>
  <2>1. TypeOK'
    BY <1>1, <1>4, <1>6, <1>8, EmptySeq DEF IInv, TypeOK, loop
  <2>2. <<>> \o <<PROMPT>> = <<PROMPT>>
    BY ConcatEmptySeq DEF PROMPT
  <2>3. kv'["target"] = Cached(t) /\ kv'["draft"] = Cached(t) /\ ctx'["target"] /\ ctx'["draft"]
    BY <1>1, <1>2 DEF Models, IInv, VerifyInv
  <2>4. CachesHoldTheAnswer'
    BY <1>4, <1>8, <2>2, <2>3 DEF CachesHoldTheAnswer, Holds, Cached
  <2>5. AppliedIsLoaded'
    BY <1>1, <1>8 DEF IInv, AppliedIsLoaded
  <2>6. QED
    BY <1>1, <1>5, <1>8, <2>1, <2>4, <2>5 DEF IInv, EarlyInv, VerifyInv, Early
<1>9. QED BY <1>1, <1>7, <1>8

LEMMA RoundFailsStep == ASSUME IInv, RoundFails PROVE IInv'
<1>1. TypeOK' /\ EmitsTheTargetsTokens'
  BY EmptySeq DEF RoundFails, IInv, TypeOK, End, EmitsTheTargetsTokens, Speculates, loop
<1>2. QED BY <1>1, AnsweredKeeps DEF RoundFails, End

LEMMA StutterStep == ASSUME IInv, UNCHANGED vars PROVE IInv'
<1>1. TypeOK' /\ EmitsTheTargetsTokens' /\ AppliedIsLoaded'
  BY DEF IInv, TypeOK, EmitsTheTargetsTokens, AppliedIsLoaded, Speculates, vars, loop
<1>2. CachesHoldTheAnswer'
  BY DEF IInv, CachesHoldTheAnswer, Holds, vars, loop
<1>3. EarlyInv' /\ VerifyInv'
  BY DEF IInv, EarlyInv, VerifyInv, Speculates, vars, loop
<1>4. Speculates' = Speculates
  BY DEF Speculates, vars
<1>5. QED BY <1>1, <1>2, <1>3, <1>4 DEF IInv, vars, loop

LEMMA NextIInv == IInv /\ [Next]_vars => IInv'
<1> SUFFICES ASSUME IInv, [Next]_vars PROVE IInv'
  OBVIOUS
<1>1. ASSUME NEW r \in Requests, Begin(r) PROVE IInv'
  BY <1>1, BeginStep
<1>2. CASE LoadAdapter \/ UnloadAdapter
  BY <1>2, AdapterStep
<1>3. CASE Step
  BY <1>3, ReturnStep, SummariseStep, FitsStep, CompactedStep, ChooseStep, PrefillStep,
     PlainStepStep, PlainEndStep, SpeculationEndsStep, ProposeStep, RoundEndsStep,
     RoundGoesOnStep, RoundFailsStep DEF Step
<1>4. CASE UNCHANGED vars
  BY <1>4, StutterStep
<1>5. QED BY <1>1, <1>2, <1>3, <1>4 DEF Next

LEMMA Invariance == Spec => []IInv
<1>1. QED BY InitIInv, NextIInv, PTL DEF Spec

---------------------------------------------------------------------------
\* What is emitted is the target's: for any answer, any number of proposals, any limit and
\* context, whatever the draft proposes and wherever a round is rejected, the output is the tokens
\* that the target's sampler returns for what was emitted before, without a gap
\* (llama_complete_speculative, llama_complete, llama_complete_raw, llama_stream) - except behind
\* a decode whose failure the plain loop ignores (text_engine.cpp:1389-1392).
THEOREM TargetsTokens == Spec => []EmitsTheTargetsTokens
<1>1. IInv => EmitsTheTargetsTokens
  BY DEF IInv
<1>2. QED BY <1>1, Invariance, PTL

\* Whenever a loop samples, the caches hold the prompt and exactly what was emitted, but for a
\* summary that failed and a failed decode that was ignored, and no context refers to an adapter
\* that was freed (llama_complete_speculative, llama_complete, llama_stream, apply_loras).
THEOREM SoundContexts == Spec => []ContextsAreSound
<1>1. IInv => ContextsAreSound
  BY DEF IInv, ContextsAreSound
<1>2. QED BY <1>1, Invariance, PTL
---------------------------------------------------------------------------
(* How long an answer may be.                                               *)

\* The plain loop stands below its limit, or has spent the extension.
LoopInv ==
  /\ ~Speculates
  /\ lim <= request.max_tokens + ext_total
  /\ i >= lim /\ Unclosed(i) /\ request.max_tokens > 0 => ext_total = ExtCap

\* A round starts below the limit and proposes at most K tokens.
RoundInv == Speculates /\ Len(out) < request.max_tokens /\ Len(proposals) \in 1..K

BoundsInv ==
  /\ EndsInBounds
  /\ pc = "plain" => LoopInv
  /\ pc = "propose" => Speculates
  /\ pc = "verify" => RoundInv

\* Growth is refused only when the extension is spent or the context is full.
LEMMA NoGrowth ==
  ASSUME TypeOK, NEW n \in Nat, Growth(n) = 0
  PROVE  ExtCap - ext_total < MinExtra \/ Room(n) < Max({MinRoom, MinExtra})
<1> DEFINE extra == Min({Extra, ExtCap - ext_total, Room(n)})
<1>1. /\ Extra \in Int /\ ExtCap - ext_total \in Int /\ Room(n) \in Int
      /\ MinExtra \in Nat /\ MinExtra > 0 /\ MinExtra <= Extra /\ MinRoom \in Nat
  BY LimitsAssumption, RoomAssumption DEF TypeOK, Room
<1>2. extra \in {Extra, ExtCap - ext_total, Room(n)}
  BY <1>1, MinOfThree
<1>3. Growth(n) = IF Room(n) < MinRoom \/ extra < MinExtra THEN 0 ELSE extra
  BY DEF Growth
<1>4. /\ Max({MinRoom, MinExtra}) \in Nat
      /\ Max({MinRoom, MinExtra}) >= MinRoom /\ Max({MinRoom, MinExtra}) >= MinExtra
  BY <1>1, MaxOfTwo
<1> HIDE DEF extra
<1>5. Room(n) < MinRoom \/ extra < MinExtra
  BY <1>1, <1>2, <1>3
<1>6. QED BY <1>1, <1>2, <1>4, <1>5

LEMMA RequestValues == \A r \in Requests \cup {NoRequest} : r.max_tokens \in Nat
<1>1. \A r \in Requests : r.max_tokens \in Nat
  BY LimitsAssumption DEF Requests
<1>2. NoRequest.max_tokens \in Nat
  BY DEF NoRequest
<1>3. QED BY <1>1, <1>2

LEMMA LengthTypes ==
  ASSUME TypeOK
  PROVE  /\ Len(out) \in Nat /\ Len(proposals) \in Nat /\ request.max_tokens \in Nat
         /\ script.len \in Nat /\ K \in Nat /\ K > 0 /\ ExtCap \in Nat /\ ext_total \in 0..ExtCap
         /\ lim \in Nat /\ i \in Nat
<1>1. Len(out) \in Nat /\ Len(proposals) \in Nat
  BY LenProperties DEF TypeOK
<1>2. request.max_tokens \in Nat /\ script.len \in Nat
  BY RequestTypes
<1>3. QED BY <1>1, <1>2, LimitsAssumption, RoomAssumption DEF TypeOK

\* Nothing is bounded that has not been sampled.
LEMMA UnsampledInBounds ==
  ASSUME TypeOK, Len(out) = 0, pc \notin {"plain", "propose", "verify"},
         pc = "answered" => finish = "error"
  PROVE  BoundsInv
<1>1. LengthBounded
  BY LengthTypes DEF LengthBounded
<1>2. StopLosesLessThanADraft /\ ThinkingCutForRoomOnly
  BY Zenon DEF StopLosesLessThanADraft, ThinkingCutForRoomOnly
<1>3. QED BY <1>1, <1>2 DEF BoundsInv, EndsInBounds

LEMMA InitBounds == Init => BoundsInv
<1> SUFFICES ASSUME Init PROVE BoundsInv
  OBVIOUS
<1>1. TypeOK
  BY InitIInv DEF IInv
<1>2. Len(out) = 0 /\ pc = "idle"
  BY EmptySeq DEF Init
<1>3. QED BY <1>1, <1>2, UnsampledInBounds

\* Before the first token: Begin, the summaries, the choice and the adapters.
LEMMA EarlyBounds ==
  ASSUME IInv, IInv', BoundsInv,
         (\E r \in Requests : Begin(r)) \/ LoadAdapter \/ UnloadAdapter
           \/ Return \/ Summarise \/ Fits \/ Compacted \/ Choose
  PROVE  BoundsInv'
<1>1. Len(out') = 0
  <2>1. \/ out' = <<>>
        \/ out' = out /\ pc \in Early \cup {"idle"}
    BY DEF Begin, LoadAdapter, UnloadAdapter, Return, Summarise, Fits, Compacted, Choose, Early
  <2>2. QED BY <2>1, EmptySeq DEF IInv, EarlyInv
<1>2. pc' \notin {"plain", "propose", "verify"} /\ (pc' = "answered" => finish' = "error")
  BY DEF Begin, LoadAdapter, UnloadAdapter, Return, Summarise, Fits, Compacted, Choose,
     AfterCompact, End
<1>3. TypeOK'
  BY DEF IInv
<1>4. QED
  <2>1. LengthBounded'
    <3>1. request'.max_tokens \in Nat
      BY <1>3, RequestValues DEF TypeOK
    <3>2. QED BY <1>1, <3>1, LimitsAssumption, RoomAssumption DEF LengthBounded, Speculates
  <2>2. StopLosesLessThanADraft' /\ ThinkingCutForRoomOnly'
    BY <1>2, Zenon DEF StopLosesLessThanADraft, ThinkingCutForRoomOnly
  <2>3. QED BY <1>2, <2>1, <2>2 DEF BoundsInv, EndsInBounds

\* The first token is yet to come: the limits are those of the request.
LEMMA PrefillBounds == ASSUME IInv, IInv', BoundsInv, Prefill PROVE BoundsInv'
<1>1. pc = "prefill" /\ out = <<>> /\ i = 0 /\ ext_total = 0 /\ UNCHANGED out
  BY DEF Prefill, IInv, EarlyInv, Early
<1>2. Len(out') = 0
  BY <1>1, EmptySeq
<1>3. LengthBounded'
  <2>1. request'.max_tokens \in Nat
    BY RequestValues DEF IInv, TypeOK
  <2>2. QED BY <1>2, <2>1, LimitsAssumption, RoomAssumption DEF LengthBounded, Speculates
<1>4. CASE /\ pc' = IF Speculates THEN "propose" ELSE "plain"
           /\ lim' = request.max_tokens /\ UNCHANGED <<request, rounds, i, ext_total, finish>>
  <2>1. Speculates' = Speculates
    BY <1>4 DEF Speculates
  <2>2. StopLosesLessThanADraft' /\ ThinkingCutForRoomOnly'
    BY <1>4 DEF StopLosesLessThanADraft, ThinkingCutForRoomOnly
  <2>3. CASE Speculates
    BY <1>3, <1>4, <2>1, <2>2, <2>3 DEF BoundsInv, EndsInBounds
  <2>4. CASE ~Speculates
    <3>1. LoopInv'
      <4>1. request.max_tokens \in Nat
        BY RequestTypes DEF IInv
      <4>2. QED BY <1>1, <1>4, <2>1, <2>4, <4>1 DEF LoopInv
    <3>2. QED BY <1>3, <1>4, <2>2, <2>4, <3>1 DEF BoundsInv, EndsInBounds
  <2>5. QED BY <2>3, <2>4
<1>5. CASE End("error")
  <2>1. StopLosesLessThanADraft' /\ ThinkingCutForRoomOnly'
    BY <1>5 DEF End, StopLosesLessThanADraft, ThinkingCutForRoomOnly
  <2>2. QED BY <1>3, <1>5, <2>1 DEF End, BoundsInv, EndsInBounds
<1>6. QED BY <1>4, <1>5 DEF Prefill

\* The plain loop ends without a token: the answer is whole, or its limit is reached.
LEMMA PlainEndBounds == ASSUME IInv, BoundsInv, PlainEnd PROVE BoundsInv'
<1>1. pc = "plain" /\ LoopInv /\ i = Len(out)
  BY DEF PlainEnd, BoundsInv, IInv
<1>2. /\ pc' = "answered" /\ UNCHANGED <<request, loop, script, kv, out>>
      /\ i >= lim \/ finish' = "stop"
  BY DEF PlainEnd, End
<1>3. LengthBounded' /\ StopLosesLessThanADraft'
  BY <1>1, <1>2 DEF BoundsInv, EndsInBounds, LengthBounded, StopLosesLessThanADraft, LoopInv, Speculates
<1>4. ThinkingCutForRoomOnly'
  <2>1. /\ Unclosed(Len(out))' = Unclosed(Len(out)) /\ ext_total' = ext_total
        /\ request' = request /\ i = Len(out)
    BY <1>1, <1>2 DEF Unclosed, loop
  <2>2. SUFFICES ASSUME finish' = "length", Unclosed(Len(out)), request.max_tokens > 0
                 PROVE  ExtCap - ext_total < MinExtra
    BY <2>1 DEF ThinkingCutForRoomOnly
  <2>3. ext_total = ExtCap
    BY <1>1, <1>2, <2>1, <2>2 DEF LoopInv
  <2>4. QED BY <2>3, RoomAssumption
<1>5. QED BY <1>2, <1>3, <1>4 DEF BoundsInv, EndsInBounds

\* One more token of the plain loop.
LEMMA PlainStepBounds == ASSUME IInv, IInv', BoundsInv, PlainStep PROVE BoundsInv'
<1> DEFINE n == i + 1
<1>1. /\ pc = "plain" /\ LoopInv /\ i = Len(out) /\ i < lim /\ i < script.len
      /\ i \in Nat /\ n \in Nat /\ lim \in Nat /\ ext_total \in 0..ExtCap /\ ExtCap \in Nat
      /\ request.max_tokens \in Nat /\ script.close \in Nat
  <2>1. script.close \in Nat
    BY ScriptsAssumption DEF IInv, TypeOK, NoScript
  <2>2. QED BY <2>1, LengthTypes DEF PlainStep, BoundsInv, IInv
<1>2. n <= lim /\ n <= request.max_tokens + ext_total
  BY <1>1 DEF LoopInv
<1>3. ASSUME out' = Append(out, Token(n)) PROVE Len(out') = n
  <2>1. Token(n) \in Int /\ out \in Seq(Int)
    BY <1>1 DEF IInv, TypeOK, Token, WRONG
  <2>2. QED BY <1>1, <1>3, <2>1, AppendProperties
<1>4. ASSUME NEW d \in BOOLEAN, Goes(n, d) PROVE BoundsInv'
  <2> DEFINE g == IF LimitReached(n) THEN Growth(n) ELSE 0
  <2>1. /\ out' = Append(out, Token(n)) /\ i' = n /\ ~(LimitReached(n) /\ g = 0)
        /\ ext_total' = ext_total + g /\ lim' = Shrunk(n, lim + g, ext_total + g)
        /\ UNCHANGED <<pc, request, script>>
    BY <1>4 DEF Goes
  <2>2. g \in 0..(ExtCap - ext_total)
    <3>1. Growth(n) \in 0..(ExtCap - ext_total)
      BY <1>1, GrowthBound DEF IInv
    <3>2. QED BY <1>1, <3>1
  <2>3. LimitReached(n) <=> n >= lim /\ Unclosed(n) /\ ext_total < ExtCap
    BY DEF LimitReached
  <2>4. LimitReached(n) => g # 0
    BY <2>1
  <2> HIDE DEF g
  <2>5. /\ Shrunk(n, lim + g, ext_total + g) <= lim + g
        /\ Unclosed(n) => Shrunk(n, lim + g, ext_total + g) = lim + g
        /\ Shrunk(n, lim + g, ext_total + g) \in Nat
    <3>1. Max({request.max_tokens, AnswerRoom}) \in Nat
      BY <1>1, RoomAssumption, MaxOfTwo
    <3>2. n - 1 + Max({request.max_tokens, AnswerRoom}) \in Nat
      BY <1>1, <3>1
    <3>3. QED BY <1>1, <2>2, <3>2 DEF Shrunk
  <2>6. LoopInv'
    <3>1. ~Speculates'
      BY <1>1, <2>1 DEF LoopInv, Speculates
    <3>2. lim' <= request'.max_tokens + ext_total'
      BY <1>1, <2>1, <2>2, <2>5 DEF LoopInv
    <3>3. Unclosed(i)' <=> Unclosed(n)
      BY <2>1 DEF Unclosed
    <3>4. ASSUME i' >= lim', Unclosed(n) PROVE ext_total' = ExtCap
      <4>1. lim' = lim + g
        BY <2>1, <2>5, <3>4
      <4>2. g = 0 /\ n >= lim
        BY <1>1, <1>2, <2>1, <2>2, <3>4, <4>1
      <4>3. ~LimitReached(n)
        BY <2>4, <4>2
      <4>4. QED BY <1>1, <2>1, <2>3, <3>4, <4>2, <4>3
    <3>5. QED BY <3>1, <3>2, <3>3, <3>4 DEF LoopInv
  <2>7. LengthBounded'
    BY <1>1, <1>2, <1>3, <2>1 DEF LengthBounded, LoopInv, Speculates
  <2>8. StopLosesLessThanADraft' /\ ThinkingCutForRoomOnly'
    BY <1>1, <2>1 DEF StopLosesLessThanADraft, ThinkingCutForRoomOnly
  <2>9. QED BY <1>1, <2>1, <2>6, <2>7, <2>8 DEF BoundsInv, EndsInBounds
<1>5. ASSUME NEW reason \in {"stop", "length"}, NEW c \in BOOLEAN, EndsAt(n, reason, c),
             reason = "length" => \/ Growth(n) = 0
                                  \/ ~c /\ Used("target") >= NCtx
                                  \/ trouble' # "none"
      PROVE  BoundsInv'
  <2>1. /\ out' = Append(out, Token(n)) /\ pc' = "answered" /\ finish' = reason
        /\ UNCHANGED <<request, loop, script>> /\ (~c => kv' = kv)
    BY <1>5 DEF EndsAt, End
  <2>2. ~Speculates' /\ Len(out') = n
    BY <1>1, <1>3, <2>1 DEF LoopInv, Speculates
  <2>3. LengthBounded' /\ StopLosesLessThanADraft'
    BY <1>1, <1>2, <2>1, <2>2 DEF LengthBounded, StopLosesLessThanADraft, Speculates
  <2>4. ThinkingCutForRoomOnly'
    <3>1. CASE reason = "stop"
      BY <2>1, <3>1 DEF ThinkingCutForRoomOnly
    <3>2. CASE Growth(n) = 0
      <4>1. ExtCap - ext_total < MinExtra \/ Room(n) < Max({MinRoom, MinExtra})
        BY <1>1, <3>2, NoGrowth DEF IInv
      <4>2. ext_total' = ext_total /\ Room(Len(out))' = Room(n)
        BY <2>1, <2>2 DEF loop, Room
      <4>3. QED BY <4>1, <4>2 DEF ThinkingCutForRoomOnly
    <3>3. CASE ~c /\ Used("target") >= NCtx
      <4>1. Used("target")' >= NCtx
        BY <2>1, <3>3 DEF Used
      <4>2. QED BY <4>1 DEF ThinkingCutForRoomOnly
    <3>4. CASE trouble' # "none"
      BY <3>4 DEF ThinkingCutForRoomOnly
    <3>5. QED BY <1>5, <3>1, <3>2, <3>3, <3>4
  <2>5. QED BY <2>1, <2>3, <2>4 DEF BoundsInv, EndsInBounds
<1>6. Used("target") \in Int
  BY LenProperties, LimitsAssumption DEF Used, IInv, TypeOK, Models
<1>7. NCtx \in Nat
  BY RoomAssumption
<1>8. ~(Used("target") < NCtx) => Used("target") >= NCtx
  BY <1>6, <1>7
<1>9. \/ Goes(n, TRUE) \/ Goes(n, FALSE)
      \/ EndsAt(n, "stop", FALSE)
      \/ Used("target") >= NCtx /\ EndsAt(n, "length", FALSE)
      \/ trouble' # "none" /\ EndsAt(n, "length", FALSE)
      \/ Growth(n) = 0 /\ EndsAt(n, "length", TRUE)
  <2>1. Used("target") < NCtx => Troubled(Used("target") < NCtx) # "none"
    BY DEF Troubled
  <2>2. QED BY <1>8, <2>1 DEF PlainStep
<1>10. QED BY <1>4, <1>5, <1>9

\* A speculative answer that did not report its end is bounded by its length only.
LEMMA CutRound ==
  ASSUME LengthBounded', Speculates', pc' = "answered", finish' # "stop" PROVE BoundsInv'
BY DEF BoundsInv, EndsInBounds, StopLosesLessThanADraft, ThinkingCutForRoomOnly

LEMMA ProposeBounds == ASSUME IInv, IInv', BoundsInv, SpeculationEnds \/ Propose PROVE BoundsInv'
<1>1. pc = "propose" /\ Speculates /\ LengthBounded
  BY DEF SpeculationEnds, Propose, BoundsInv, EndsInBounds
<1>2. UNCHANGED <<request, out, script>>
  BY DEF SpeculationEnds, Propose, End
<1>3. LengthBounded' /\ Speculates'
  BY <1>1, <1>2 DEF LengthBounded, Speculates
<1>4. CASE SpeculationEnds
  BY <1>3, <1>4, CutRound DEF SpeculationEnds, End
<1>5. CASE Propose
  <2>1. pc' = "verify" /\ Len(out) < request.max_tokens
    BY <1>5 DEF Propose, Base
  <2>2. PICK p \in 1..K : \E n \in 0..p : proposals' = Proposal(p, n)
    BY <1>5 DEF Propose
  <2>3. PICK n \in 0..p : proposals' = Proposal(p, n)
    BY <2>2
  <2>4. Len(proposals') = p
    BY <2>3, LimitsAssumption DEF Proposal
  <2>5. RoundInv'
    BY <1>2, <1>3, <2>1, <2>4 DEF RoundInv
  <2>6. QED
    BY <1>3, <2>1, <2>5 DEF BoundsInv, EndsInBounds, StopLosesLessThanADraft, ThinkingCutForRoomOnly
<1>6. QED BY <1>4, <1>5

\* A round emits what was accepted, and one token of the target's own.
LEMMA RoundBounds ==
  ASSUME IInv, IInv', BoundsInv, RoundEnds \/ RoundGoesOn \/ RoundFails PROVE BoundsInv'
<1> DEFINE a == Accepted
<1>1. /\ pc = "verify" /\ Speculates /\ Len(out) < request.max_tokens
      /\ Len(proposals) <= K /\ LengthBounded
  BY DEF RoundEnds, RoundGoesOn, RoundFails, BoundsInv, EndsInBounds, RoundInv
<1>2. request' = request /\ script' = script /\ Speculates'
  BY <1>1 DEF RoundEnds, RoundGoesOn, RoundFails, End, Speculates
<1>3. /\ Len(out) \in Nat /\ Len(proposals) \in Nat /\ request.max_tokens \in Nat
      /\ script.len \in Nat /\ K \in Nat /\ K > 0
  BY LengthTypes DEF IInv
<1>4. a \in Nat /\ a <= Len(proposals)
  BY <1>3, AcceptedProperties DEF IInv
<1> HIDE DEF a
<1>5. CASE RoundFails
  <2>1. LengthBounded'
    BY <1>1, <1>2, <1>5 DEF RoundFails, LengthBounded
  <2>2. QED BY <1>2, <1>5, <2>1, CutRound DEF RoundFails, End
<1>6. CASE RoundEnds
  <2>1. /\ Len(out) + a = script.len /\ pc' = "answered"
        /\ out' = IF a = Len(proposals) THEN out \o proposals ELSE out
    BY <1>6 DEF RoundEnds, End, Base, a
  <2>2. a = Len(proposals) => Len(out') = Len(out) + a
    BY <2>1, ConcatProperties DEF IInv, TypeOK
  <2>3. a # Len(proposals) => out' = out
    BY <2>1
  <2>4. LengthBounded'
    BY <1>1, <1>2, <1>3, <1>4, <2>2, <2>3 DEF LengthBounded
  <2>5. script'.len - Len(out') < K
    BY <1>1, <1>2, <1>3, <1>4, <2>1, <2>2, <2>3
  <2>6. QED
    BY <1>2, <2>1, <2>4, <2>5 DEF BoundsInv, EndsInBounds, StopLosesLessThanADraft, ThinkingCutForRoomOnly
<1>7. CASE RoundGoesOn
  <2>1. /\ out' = Emitted(a)
        /\ \/ pc' = "propose" /\ UNCHANGED finish
           \/ End("length")
    BY <1>7 DEF RoundGoesOn, a
  <2>2. Len(out') = Len(out) + a + 1
    <3>1. Emitted(Accepted) = Count(Len(out) + Accepted + 1) /\ Accepted \in Nat
      BY <1>1, OutputProperties
    <3>2. Len(out) + Accepted + 1 \in Nat
      BY <1>3, <3>1
    <3>3. Len(Count(Len(out) + Accepted + 1)) = Len(out) + Accepted + 1
      BY <3>2, CountProperties
    <3>4. QED BY <2>1, <3>1, <3>3 DEF a
  <2>3. LengthBounded'
    BY <1>1, <1>2, <1>3, <1>4, <2>2 DEF LengthBounded
  <2>4. CASE End("length")
    BY <1>2, <2>3, <2>4, CutRound DEF End
  <2>5. CASE pc' = "propose"
    BY <1>2, <2>3, <2>5 DEF BoundsInv, EndsInBounds, StopLosesLessThanADraft, ThinkingCutForRoomOnly
  <2>6. QED BY <2>1, <2>4, <2>5
<1>8. QED BY <1>5, <1>6, <1>7

LEMMA StutterBounds == ASSUME BoundsInv, UNCHANGED vars PROVE BoundsInv'
<1>1. LengthBounded' /\ StopLosesLessThanADraft'
  BY DEF BoundsInv, EndsInBounds, LengthBounded, StopLosesLessThanADraft, Speculates, vars, loop
<1>2. ThinkingCutForRoomOnly'
  BY DEF BoundsInv, EndsInBounds, ThinkingCutForRoomOnly, Speculates, Unclosed, Room, Used, vars, loop
<1>3. LoopInv' = LoopInv /\ RoundInv' = RoundInv /\ Speculates' = Speculates
  BY DEF LoopInv, RoundInv, Speculates, Unclosed, vars, loop
<1>4. QED BY <1>1, <1>2, <1>3 DEF BoundsInv, EndsInBounds, vars

LEMMA NextBounds == IInv /\ IInv' /\ BoundsInv /\ [Next]_vars => BoundsInv'
<1> SUFFICES ASSUME IInv, IInv', BoundsInv, [Next]_vars PROVE BoundsInv'
  OBVIOUS
<1>1. CASE (\E r \in Requests : Begin(r)) \/ LoadAdapter \/ UnloadAdapter
  BY <1>1, EarlyBounds
<1>2. CASE Step
  BY <1>2, EarlyBounds, PrefillBounds, PlainStepBounds, PlainEndBounds, ProposeBounds, RoundBounds
  DEF Step
<1>3. CASE UNCHANGED vars
  BY <1>3, StutterBounds
<1>4. QED BY <1>1, <1>2, <1>3 DEF Next

\* An answer is as long as it may be: an answer that reports its end misses less than one round
\* of it, max_tokens is passed by at most a round or the extension for thinking, and an answer is
\* cut while the model thinks only for want of room (llama_complete, llama_complete_raw,
\* llama_stream, llama_complete_speculative; BUG-047).
THEOREM BoundedAnswer == Spec => []EndsInBounds
<1>1. BoundsInv => EndsInBounds
  BY DEF BoundsInv
<1>2. QED BY <1>1, InitBounds, NextBounds, Invariance, PTL DEF Spec

---------------------------------------------------------------------------
(* How long a request may take.                                             *)

\* The leg of its way a request is on, and the steps it has left there at most: summaries before
\* a choice or after it, then tokens of the answer, two steps for a round of the draft.
Leg ==
  CASE pc = "idle" -> 0
    [] pc = "answered" -> 1
    [] pc \in {"plain", "propose", "verify"} -> 2
    [] OTHER -> 3

Ahead ==
  CASE pc = "plain" -> script.len - i
    [] pc = "propose" -> 2 * (script.len - Len(out)) + 1
    [] pc = "verify" -> 2 * (script.len - Len(out))
    [] pc = "choose" -> 6
    [] pc = "compacted" -> IF request.speculative THEN 7 ELSE 1
    [] pc = "compact" -> (IF request.speculative THEN 11 ELSE 5) - rounds
    [] OTHER -> 0

Nearer == Leg' < Leg \/ (Leg' = Leg /\ Ahead' < Ahead)

LEMMA LegIs ==
  /\ Leg \in 0..3 /\ (pc = "idle" => Leg = 0) /\ (pc = "answered" => Leg = 1)
  /\ pc \in {"plain", "propose", "verify"} => Leg = 2
  /\ pc \in Early => Leg = 3
BY DEF Leg, Early

LEMMA LegBecomes ==
  /\ pc' = "idle" => Leg' = 0
  /\ pc' = "answered" => Leg' = 1
  /\ pc' \in {"plain", "propose", "verify"} => Leg' = 2
  /\ pc' \in Early => Leg' = 3
BY DEF Leg, Early

LEMMA AheadIs == IInv => Ahead \in Nat
<1> SUFFICES ASSUME IInv PROVE Ahead \in Nat
  OBVIOUS
<1>1. /\ Len(out) \in Nat /\ script.len \in Nat /\ Len(out) <= script.len
      /\ pc = "plain" => i = Len(out)
      /\ rounds \in 0..3
  BY LengthTypes DEF IInv, TypeOK, EmitsTheTargetsTokens
<1>2. script.len - Len(out) \in Nat
  BY <1>1
<1>3. pc = "plain" => Ahead = script.len - Len(out)
  BY <1>1 DEF Ahead
<1>4. pc = "propose" => Ahead = 2 * (script.len - Len(out)) + 1
  BY DEF Ahead
<1>5. pc = "verify" => Ahead = 2 * (script.len - Len(out))
  BY DEF Ahead
<1>6. pc \notin {"plain", "propose", "verify"} => Ahead \in Nat
  BY <1>1 DEF Ahead
<1>7. QED BY <1>2, <1>3, <1>4, <1>5, <1>6

\* Towards the prefill: three summaries at most, and no draft behind a grammar's second start.
LEMMA EarlyNearer ==
  ASSUME IInv, IInv', Summarise \/ Fits \/ Compacted \/ Choose PROVE Nearer
<1>1. rounds \in 0..3 /\ rounds' \in 0..3 /\ pc \in Early /\ request \in Requests /\ Leg = 3
  BY LegIs DEF IInv, TypeOK, EarlyInv, Early, Summarise, Fits, Compacted, Choose
<1>2. request.speculative \in BOOLEAN
  BY <1>1 DEF Requests
<1>3. CASE pc' \in Early
  <2>1. Leg' = 3
    BY <1>3, LegBecomes
  <2>2. ASSUME Summarise \/ Fits PROVE Ahead' < Ahead
    BY <1>1, <1>2, <2>2 DEF Ahead, Summarise, Fits
  <2>3. ASSUME Compacted PROVE Ahead' < Ahead
    <3>1. pc = "compacted" /\ request' = request /\ pc' = AfterCompact
      BY <1>3, <2>3 DEF Compacted, End, Early
    <3>2. QED BY <1>2, <3>1 DEF Ahead, AfterCompact
  <2>4. ASSUME Choose PROVE Ahead' < Ahead
    <3>1. pc = "choose" /\ Ahead = 6
      BY <2>4 DEF Choose, Ahead
    <3>2. CASE pc' = "prefill"
      BY <3>1, <3>2 DEF Ahead
    <3>3. CASE pc' = "compact"
      <4>1. rounds' = 0 /\ request' = [request EXCEPT !.speculative = FALSE]
        BY <2>4, <3>3 DEF Choose
      <4>2. request'.speculative = FALSE
        BY <1>1, <4>1 DEF Requests
      <4>3. Ahead' = 5
        BY <3>3, <4>1, <4>2 DEF Ahead
      <4>4. QED BY <3>1, <4>3
    <3>4. QED BY <2>4, <3>2, <3>3 DEF Choose
  <2>5. QED BY <1>1, <2>1, <2>2, <2>3, <2>4 DEF Nearer
<1>4. CASE pc' \notin Early
  <2>1. pc' = "answered"
    BY <1>4 DEF Early, Summarise, Fits, Compacted, AfterCompact, Choose, End
  <2>2. Leg' = 1
    BY <2>1, LegBecomes
  <2>3. QED BY <1>1, <2>2 DEF Nearer
<1>5. QED BY <1>3, <1>4

\* Through the answer: a plain step adds a token, a round at least one.
LEMMA LoopNearer ==
  ASSUME IInv, IInv', PlainStep \/ Propose \/ RoundGoesOn PROVE Nearer
<1>1. /\ Len(out) \in Nat /\ script.len \in Nat /\ i \in Nat /\ Len(out') \in Nat
  BY LengthTypes DEF IInv
<1>2. pc \in {"plain", "propose", "verify"} /\ Leg = 2 /\ script' = script
  BY LegIs DEF PlainStep, Propose, RoundGoesOn, Goes, EndsAt
<1>3. CASE pc' = "answered"
  <2>1. Leg' = 1
    BY <1>3, LegBecomes
  <2>2. QED BY <1>2, <2>1 DEF Nearer
<1>4. CASE pc' # "answered"
  <2>1. pc' \in {"plain", "propose", "verify"}
    BY <1>4 DEF PlainStep, Propose, RoundGoesOn, Goes, EndsAt, End
  <2>2. Leg' = 2
    BY <2>1, LegBecomes
  <2>3. CASE PlainStep
    <3>1. pc = "plain" /\ pc' = "plain" /\ i' = i + 1
      BY <1>4, <2>3 DEF PlainStep, Goes, EndsAt, End
    <3>2. QED BY <1>1, <1>2, <2>2, <3>1 DEF Nearer, Ahead
  <2>4. CASE Propose
    <3>1. pc = "propose" /\ pc' = "verify" /\ out' = out
      BY <2>4 DEF Propose
    <3>2. QED BY <1>1, <1>2, <2>2, <3>1 DEF Nearer, Ahead
  <2>5. CASE RoundGoesOn
    <3>1. pc = "verify" /\ pc' = "propose" /\ out' = Emitted(Accepted)
      BY <1>4, <2>5 DEF RoundGoesOn, End
    <3>2. Emitted(Accepted) = Count(Len(out) + Accepted + 1) /\ Accepted \in Nat
      BY <3>1, OutputProperties
    <3>3. Len(out) + Accepted + 1 \in Nat
      BY <1>1, <3>2
    <3>4. Len(out') = Len(out) + Accepted + 1
      BY <3>1, <3>2, <3>3, CountProperties
    <3>5. Len(out') > Len(out)
      BY <1>1, <3>2, <3>4
    <3>6. Ahead = 2 * (script.len - Len(out)) /\ Ahead' = 2 * (script.len - Len(out')) + 1
      BY <1>2, <3>1 DEF Ahead
    <3>7. Ahead' < Ahead
      BY <1>1, <3>5, <3>6
    <3>8. QED BY <1>2, <2>2, <3>7 DEF Nearer
  <2>6. QED BY <2>3, <2>4, <2>5
<1>5. QED BY <1>3, <1>4

LEMMA StepNearer == ASSUME IInv, IInv', Step PROVE Nearer
<1>1. CASE Return
  <2>1. Leg = 1 /\ Leg' = 0
    BY <1>1, LegIs, LegBecomes DEF Return
  <2>2. QED BY <2>1 DEF Nearer
<1>2. CASE Summarise \/ Fits \/ Compacted \/ Choose
  BY <1>2, EarlyNearer
<1>3. CASE Prefill
  <2>1. Leg = 3 /\ pc' \in {"plain", "propose", "answered"}
    BY <1>3, LegIs DEF Prefill, End, Early
  <2>2. Leg' \in {1, 2}
    BY <2>1, LegBecomes
  <2>3. QED BY <2>1, <2>2 DEF Nearer
<1>4. CASE PlainStep \/ Propose \/ RoundGoesOn
  BY <1>4, LoopNearer
<1>5. CASE PlainEnd \/ SpeculationEnds \/ RoundEnds \/ RoundFails
  <2>1. Leg = 2 /\ pc' = "answered"
    BY <1>5, LegIs DEF PlainEnd, SpeculationEnds, RoundEnds, RoundFails, End
  <2>2. Leg' = 1
    BY <2>1, LegBecomes
  <2>3. QED BY <2>1, <2>2 DEF Nearer
<1>6. QED BY <1>1, <1>2, <1>3, <1>4, <1>5 DEF Step

\* Every step of a request brings it nearer to its end, by a leg or by a step of what is left of
\* the leg, and what is left is a natural number: neither a draft that is always wrong, nor the
\* extension for thinking, nor the second start under a grammar keeps a request going for ever.
\* With a thread that runs (FairSpec) that is what RequestEnds rests on.
THEOREM RequestsGetNearer ==
  Spec => [](Leg \in 0..3 /\ Ahead \in Nat) /\ [][pc # "idle" => Nearer]_vars
<1>1. IInv => Leg \in 0..3 /\ Ahead \in Nat
  BY LegIs, AheadIs
<1>2. IInv /\ IInv' /\ [Next]_vars => [pc # "idle" => Nearer]_vars
  <2>1. ASSUME IInv, IInv', Next, pc # "idle" PROVE Nearer
    <3>1. Step
      BY <2>1 DEF Next, Begin, LoadAdapter, UnloadAdapter
    <3>2. QED BY <2>1, <3>1, StepNearer
  <2>2. QED BY <2>1
<1>3. QED BY <1>1, <1>2, Invariance, PTL DEF Spec

---------------------------------------------------------------------------
(* The streamed answer.                                                    *)

(* Numbers. *)
LEMMA LeastOf ==
  ASSUME NEW S, S \subseteq Nat, S # {}
  PROVE  Min(S) \in S /\ \A y \in S : Min(S) <= y
<1> DEFINE R == {ss \in Nat \X Nat : ss[1] < ss[2]}
<1>1. PICK d \in S : \A y \in S : ~(<<y, d>> \in R)
  <2>1. IsWellFoundedOn(R, Nat)
    BY NatLessThanWellFounded DEF OpToRel
  <2> HIDE DEF R
  <2>2. QED BY <2>1, WFMin
<1>2. ASSUME NEW y \in S PROVE d <= y
  <2>1. y \in Nat /\ d \in Nat /\ ~(<<y, d>> \in R)
    BY <1>1
  <2>2. QED BY <2>1
<1> HIDE DEF R
<1>3. \E x \in S : \A y \in S : x <= y
  BY <1>2
<1>4. QED BY <1>3 DEF Min

\* Strong induction up to a bound, for a set.
LEMMA Climb ==
  ASSUME NEW N \in Nat, NEW G,
         \A n \in 0 .. N : (\A m \in 0 .. (n - 1) : m \in G) => n \in G
  PROVE  \A n \in 0 .. N : n \in G
<1> DEFINE B == {n \in 0 .. N : n \notin G}
<1>1. B = {}
  <2> SUFFICES ASSUME B # {} PROVE FALSE
    OBVIOUS
  <2>1. B \subseteq Nat
    OBVIOUS
  <2> DEFINE b == Min(B)
  <2>2. b \in B /\ \A y \in B : b <= y
    <3> HIDE DEF B
    <3>1. QED BY <2>1, LeastOf
  <2> HIDE DEF b
  <2>3. \A m \in 0 .. (b - 1) : m \in G
    BY <2>2
  <2>4. QED BY <2>2, <2>3
<1>2. QED BY <1>1

\* A definition by descent: from each place to one of lower rank, until done.
Falls(rank, D, done, next) == \A x \in D : x \notin done => rank[next[x]] < rank[x]
Runs(f, D, done, base, next, step) ==
  \A x \in D : f[x] = IF x \in done THEN base[x] ELSE step[<<x, f[next[x]]>>]

LEMMA Recursion ==
  ASSUME NEW D, NEW V, NEW N \in Nat, NEW rank \in [D -> 0 .. N],
         NEW done, NEW base \in [D -> V], NEW next \in [D -> D],
         NEW step \in [D \X V -> V],
         Falls(rank, D, done, next)
  PROVE  \E f \in [D -> V] : Runs(f, D, done, base, next, step)
<1> DEFINE Low(n) == {x \in D : rank[x] <= n}
           Body(f, x) == IF x \in done THEN base[x] ELSE step[<<x, f[next[x]]>>]
           Solves(n, f) == f \in [Low(n) -> V] /\ \A x \in Low(n) : f[x] = Body(f, x)
           G == {n \in 0 .. N : \E f : Solves(n, f)}
<1>1. ASSUME NEW n \in 0 .. N, \A m \in 0 .. (n - 1) : m \in G PROVE n \in G
  <2>1. \E f \in [Low(n - 1) -> V] : \A x \in Low(n - 1) : f[x] = Body(f, x)
    <3>1. CASE n = 0
      <4>1. Low(n - 1) = {}
        BY <3>1
      <4>2. [x \in Low(n - 1) |-> base[x]] \in [Low(n - 1) -> V]
        BY <4>1
      <4>3. QED BY <4>1, <4>2
    <3>2. CASE n # 0
      <4>1. n - 1 \in 0 .. (n - 1)
        BY <3>2
      <4>2. n - 1 \in G
        BY <4>1, <1>1
      <4>3. QED BY <4>2
    <3>3. QED BY <3>1, <3>2
  <2>2. PICK f \in [Low(n - 1) -> V] : \A x \in Low(n - 1) : f[x] = Body(f, x)
    BY <2>1
  <2> DEFINE g == [x \in Low(n) |-> IF x \in Low(n - 1) THEN f[x] ELSE Body(f, x)]
  <2>3. ASSUME NEW x \in Low(n), x \notin done
        PROVE  next[x] \in Low(n - 1) /\ next[x] \in Low(n) /\ g[next[x]] = f[next[x]] /\ f[next[x]] \in V
    BY <2>2, <2>3 DEF Falls
  <2>4. ASSUME NEW x \in Low(n) PROVE g[x] = Body(f, x) /\ g[x] \in V
    <3>1. g[x] = Body(f, x)
      BY <2>2
    <3>2. CASE x \in done
      BY <3>1, <3>2
    <3>3. CASE x \notin done
      BY <3>1, <3>3, <2>3
    <3>4. QED BY <3>1, <3>2, <3>3
  <2>5. ASSUME NEW x \in Low(n) PROVE Body(f, x) = Body(g, x)
    BY <2>3
  <2>6. g \in [Low(n) -> V]
    BY <2>4
  <2> HIDE DEF g
  <2>7. Solves(n, g)
    BY <2>4, <2>5, <2>6
  <2>8. QED BY <2>7
<1>2. N \in G
  <2> HIDE DEF G
  <2>1. \A n \in 0 .. N : n \in G
    BY <1>1, Climb
  <2>2. QED BY <2>1
<1>3. Low(N) = D
  OBVIOUS
<1>4. QED BY <1>2, <1>3 DEF Runs

---------------------------------------------------------------------------
(* Texts. *)

Behind(s, n) == SubSeq(s, n + 1, Len(s))

LEMMA TextIs ==
  ASSUME NEW s \in Texts
  PROVE  /\ Len(s) \in Nat /\ DOMAIN s = 1 .. Len(s) /\ s \in [1 .. Len(s) -> Bytes]
         /\ \A k \in 1 .. Len(s) : s[k] \in Bytes
         /\ s \o <<>> = s /\ <<>> \o s = s /\ <<>> \in Texts
         /\ s = <<>> <=> Len(s) = 0
BY LenProperties, ConcatEmptySeq, EmptySeq DEF Texts

LEMMA SameText ==
  ASSUME NEW s \in Texts, NEW t \in Texts, Len(s) = Len(t),
         \A k \in 1 .. Len(s) : s[k] = t[k]
  PROVE  s = t
BY SeqEqual DEF Texts

LEMMA PieceOf ==
  ASSUME NEW s \in Texts, NEW m \in 1 .. (Len(s) + 1), NEW n \in (m - 1) .. Len(s)
  PROVE  /\ SubSeq(s, m, n) \in Texts /\ Len(SubSeq(s, m, n)) = n - m + 1
         /\ \A k \in 1 .. (n - m + 1) : SubSeq(s, m, n)[k] = s[m + k - 1]
<1>1. \A k \in m .. n : s[k] \in Bytes
  BY TextIs
<1>2. m \in Int /\ n \in Int
  BY TextIs
<1>3. SubSeq(s, m, n) \in Seq(Bytes) /\ Len(SubSeq(s, m, n)) = IF m <= n THEN n - m + 1 ELSE 0
  BY <1>1, <1>2, SubSeqProperties
<1>4. \A k \in 1 .. (n - m + 1) : SubSeq(s, m, n)[k] = s[m + k - 1]
  BY <1>1, <1>2, SubSeqProperties
<1>5. QED BY <1>2, <1>3, <1>4 DEF Texts

LEMMA Joined ==
  ASSUME NEW s \in Texts, NEW t \in Texts
  PROVE  /\ s \o t \in Texts /\ Len(s \o t) = Len(s) + Len(t)
         /\ \A k \in 1 .. Len(s) : (s \o t)[k] = s[k]
         /\ \A k \in 1 .. Len(t) : (s \o t)[Len(s) + k] = t[k]
<1>1. Len(s) \in Nat /\ Len(t) \in Nat
  BY TextIs
<1>2. s \o t \in Seq(Bytes) /\ Len(s \o t) = Len(s) + Len(t)
  BY ConcatProperties DEF Texts
<1>3. \A k \in 1 .. Len(s) + Len(t) : (s \o t)[k] = IF k <= Len(s) THEN s[k] ELSE t[k - Len(s)]
  BY ConcatProperties DEF Texts
<1>4. QED BY <1>1, <1>2, <1>3 DEF Texts

LEMMA JoinedTwice ==
  ASSUME NEW s \in Texts, NEW t \in Texts, NEW u \in Texts
  PROVE  (s \o t) \o u = s \o (t \o u)
BY ConcatAssociative DEF Texts

LEMMA PieceOfPiece ==
  ASSUME NEW s \in Texts, NEW a \in 1 .. (Len(s) + 1), NEW b \in (a - 1) .. Len(s),
         NEW m \in 1 .. (b - a + 2), NEW n \in (m - 1) .. (b - a + 1)
  PROVE  SubSeq(SubSeq(s, a, b), m, n) = SubSeq(s, a + m - 1, a + n - 1)
<1> DEFINE t == SubSeq(s, a, b)
<1>1. Len(s) \in Nat /\ a \in Nat /\ b \in Nat /\ m \in Nat /\ n \in Nat
  BY TextIs
<1>2. t \in Texts /\ Len(t) = b - a + 1 /\ \A k \in 1 .. (b - a + 1) : t[k] = s[a + k - 1]
  BY PieceOf
<1> HIDE DEF t
<1>3. m \in 1 .. (Len(t) + 1) /\ n \in (m - 1) .. Len(t)
  BY <1>1, <1>2
<1>4. /\ SubSeq(t, m, n) \in Texts /\ Len(SubSeq(t, m, n)) = n - m + 1
      /\ \A k \in 1 .. (n - m + 1) : SubSeq(t, m, n)[k] = t[m + k - 1]
  BY <1>2, <1>3, PieceOf
<1> DEFINE p == a + m - 1
           q == a + n - 1
<1>5. p \in 1 .. (Len(s) + 1) /\ q \in (p - 1) .. Len(s) /\ q - p = n - m
  BY <1>1
<1> HIDE DEF p, q
<1>6. /\ SubSeq(s, p, q) \in Texts /\ Len(SubSeq(s, p, q)) = n - m + 1
      /\ \A k \in 1 .. (n - m + 1) : SubSeq(s, p, q)[k] = s[p + k - 1]
  BY <1>5, PieceOf
<1>7. \A k \in 1 .. (n - m + 1) : SubSeq(t, m, n)[k] = SubSeq(s, p, q)[k]
  <2>1. SUFFICES ASSUME NEW k \in 1 .. (n - m + 1) PROVE t[m + k - 1] = s[p + k - 1]
    BY <1>4, <1>6
  <2>2. m + k - 1 \in 1 .. (b - a + 1) /\ a + (m + k - 1) - 1 = p + k - 1
    BY <1>1 DEF p
  <2>3. QED BY <1>2, <2>2
<1>8. SubSeq(t, m, n) = SubSeq(s, p, q)
  BY <1>4, <1>6, <1>7, SameText
<1>9. QED BY <1>8 DEF t, p, q

LEMMA PiecesJoin ==
  ASSUME NEW s \in Texts, NEW m \in 1 .. (Len(s) + 1), NEW k \in (m - 1) .. Len(s),
         NEW n \in k .. Len(s)
  PROVE  SubSeq(s, m, k) \o SubSeq(s, k + 1, n) = SubSeq(s, m, n)
BY ConcatAdjacentSubSeq DEF Texts

LEMMA WholePiece ==
  ASSUME NEW s \in Texts
  PROVE  SubSeq(s, 1, Len(s)) = s /\ Behind(s, 0) = s
BY SubSeqFull DEF Texts, Behind

\* What is behind n bytes.
LEMMA BehindIs ==
  ASSUME NEW s \in Texts, NEW n \in 0 .. Len(s)
  PROVE  /\ Behind(s, n) \in Texts /\ Len(Behind(s, n)) = Len(s) - n
         /\ \A k \in 1 .. (Len(s) - n) : Behind(s, n)[k] = s[n + k]
         /\ SubSeq(s, 1, n) \in Texts /\ SubSeq(s, 1, n) \o Behind(s, n) = s
<1>1. Len(s) \in Nat /\ n \in Nat /\ n + 1 \in 1 .. (Len(s) + 1) /\ 1 \in 1 .. (Len(s) + 1)
  BY TextIs
<1>2. Len(s) \in (n + 1) - 1 .. Len(s) /\ n \in (1 - 1) .. Len(s) /\ Len(s) \in n .. Len(s)
  BY <1>1
<1>3. /\ Behind(s, n) \in Texts /\ Len(Behind(s, n)) = Len(s) - (n + 1) + 1
      /\ \A k \in 1 .. (Len(s) - (n + 1) + 1) : Behind(s, n)[k] = s[(n + 1) + k - 1]
  BY <1>1, <1>2, PieceOf DEF Behind
<1>4. SubSeq(s, 1, n) \in Texts
  BY <1>1, <1>2, PieceOf
<1>5. SubSeq(s, 1, n) \o Behind(s, n) = s
  BY <1>1, <1>2, PiecesJoin, WholePiece DEF Behind
<1>6. QED BY <1>1, <1>3, <1>4, <1>5

LEMMA PieceOfJoined ==
  ASSUME NEW s \in Texts, NEW t \in Texts, NEW n \in 0 .. Len(s)
  PROVE  SubSeq(s \o t, 1, n) = SubSeq(s, 1, n) /\ Behind(s \o t, n) = Behind(s, n) \o t
<1>1. Len(s) \in Nat /\ Len(t) \in Nat /\ n \in Nat
  BY TextIs
<1>2. /\ s \o t \in Texts /\ Len(s \o t) = Len(s) + Len(t)
      /\ \A k \in 1 .. Len(s) : (s \o t)[k] = s[k]
      /\ \A k \in 1 .. Len(t) : (s \o t)[Len(s) + k] = t[k]
  BY Joined
<1>3. SubSeq(s \o t, 1, n) = SubSeq(s, 1, n)
  <2> DEFINE w == s \o t
  <2>0. w \in Texts /\ Len(w) = Len(s) + Len(t) /\ \A k \in 1 .. Len(s) : w[k] = s[k]
    BY <1>2
  <2> HIDE DEF w
  <2>1. 1 \in 1 .. (Len(w) + 1) /\ n \in (1 - 1) .. Len(w) /\ 1 \in 1 .. (Len(s) + 1) /\ n \in (1 - 1) .. Len(s)
    BY <1>1, <2>0
  <2>2. /\ SubSeq(w, 1, n) \in Texts /\ Len(SubSeq(w, 1, n)) = n - 1 + 1
        /\ \A k \in 1 .. (n - 1 + 1) : SubSeq(w, 1, n)[k] = w[1 + k - 1]
    BY <2>0, <2>1, PieceOf
  <2>3. /\ SubSeq(s, 1, n) \in Texts /\ Len(SubSeq(s, 1, n)) = n - 1 + 1
        /\ \A k \in 1 .. (n - 1 + 1) : SubSeq(s, 1, n)[k] = s[1 + k - 1]
    BY <2>1, PieceOf
  <2>4. \A k \in 1 .. Len(SubSeq(w, 1, n)) : SubSeq(w, 1, n)[k] = SubSeq(s, 1, n)[k]
    BY <1>1, <2>0, <2>2, <2>3
  <2>5. SubSeq(w, 1, n) = SubSeq(s, 1, n)
    BY <2>2, <2>3, <2>4, SameText
  <2>6. QED BY <2>5 DEF w
<1>4. Behind(s \o t, n) = Behind(s, n) \o t
  <2> DEFINE w == s \o t
             r == Behind(s, n)
  <2>1. n \in 0 .. Len(w)
    BY <1>1, <1>2
  <2>2. /\ Behind(w, n) \in Texts /\ Len(Behind(w, n)) = Len(w) - n
        /\ \A k \in 1 .. (Len(w) - n) : Behind(w, n)[k] = w[n + k]
    BY <1>2, <2>1, BehindIs
  <2>3. /\ r \in Texts /\ Len(r) = Len(s) - n
        /\ \A k \in 1 .. (Len(s) - n) : r[k] = s[n + k]
    BY BehindIs
  <2>4. /\ r \o t \in Texts /\ Len(r \o t) = Len(r) + Len(t)
        /\ \A k \in 1 .. Len(r) : (r \o t)[k] = r[k]
        /\ \A k \in 1 .. Len(t) : (r \o t)[Len(r) + k] = t[k]
    BY <2>3, Joined
  <2>5. ASSUME NEW k \in 1 .. (Len(w) - n) PROVE Behind(w, n)[k] = (r \o t)[k]
    <3>1. CASE k <= Len(s) - n
      <4>1. k \in 1 .. Len(r) /\ n + k \in 1 .. Len(s) /\ k \in 1 .. (Len(s) - n)
        BY <1>1, <1>2, <2>3, <3>1
      <4>2. QED BY <1>2, <2>2, <2>3, <2>4, <4>1
    <3>2. CASE k > Len(s) - n
      <4> DEFINE j == k - (Len(s) - n)
      <4>1. j \in 1 .. Len(t) /\ n + k = Len(s) + j /\ k = Len(r) + j
        <5>1. Len(w) = Len(s) + Len(t) /\ Len(r) = Len(s) - n
          BY <1>2, <2>3
        <5> HIDE DEF w, r
        <5>2. k \in 1 .. (Len(s) + Len(t) - n) /\ n \in Nat
          BY <1>1, <5>1
        <5>3. QED BY <1>1, <3>2, <5>1, <5>2
      <4> HIDE DEF j, w, r
      <4>2. Behind(w, n)[k] = w[Len(s) + j] /\ (r \o t)[k] = (r \o t)[Len(r) + j]
        BY <2>2, <4>1
      <4>3. w[Len(s) + j] = t[j]
        BY <1>2, <4>1 DEF w
      <4>4. (r \o t)[Len(r) + j] = t[j]
        BY <2>4, <4>1
      <4>5. QED BY <4>2, <4>3, <4>4
    <3>3. k \in Int /\ Len(s) - n \in Int
      BY <1>1
    <3>4. k <= Len(s) - n \/ k > Len(s) - n
      BY <3>3
    <3>5. QED BY <3>1, <3>2, <3>4
  <2>6. Len(Behind(w, n)) = Len(r \o t)
    BY <1>1, <1>2, <2>2, <2>3, <2>4
  <2> HIDE DEF w, r
  <2>7. Behind(w, n) = r \o t
    BY <2>2, <2>4, <2>5, <2>6, SameText
  <2>8. QED BY <2>7 DEF w, r
<1>5. QED BY <1>3, <1>4

---------------------------------------------------------------------------
(* The assembler. *)

Assembled == [out : Texts, tail : Texts]

LEMMA NeedIs ==
  \A b \in Bytes : Need(b) \in {0, 1, 3} /\ (Need(b) = 0 <=> b = "c") /\ (Need(b) = 3 <=> b = "3")
BY DEF Bytes, Need

LEMMA CharacterIs ==
  ASSUME NEW s \in Texts, NEW k \in 1 .. Len(s), ~Incomplete(s, k)
  PROVE  /\ Width(s, k) \in 1 .. 3 /\ k + Width(s, k) \in 1 .. (Len(s) + 1)
         /\ Character(s, k) \in Texts
<1>1. Len(s) \in Nat /\ k \in Nat /\ s[k] \in Bytes
  BY TextIs
<1>2. Need(s[k]) \in {0, 1, 3} /\ k + Need(s[k]) - 1 <= Len(s)
  BY <1>1, NeedIs DEF Incomplete
<1>3. CASE Broken(s, k)
  <2>1. Width(s, k) = 1 /\ Character(s, k) = <<"?">>
    BY <1>3 DEF Width, Character
  <2>2. "?" \in Bytes
    BY DEF Bytes
  <2>3. <<"?">> \in Texts
    BY <2>2 DEF Texts
  <2>4. QED BY <1>1, <2>1, <2>3
<1>4. CASE ~Broken(s, k)
  <2>1. Need(s[k]) \in {1, 3} /\ Width(s, k) = Need(s[k])
    BY <1>2, <1>4 DEF Broken, Width
  <2>2. Character(s, k) = SubSeq(s, k, k + Need(s[k]) - 1)
    BY <1>4 DEF Character
  <2>3. k \in 1 .. (Len(s) + 1) /\ k + Need(s[k]) - 1 \in (k - 1) .. Len(s)
    BY <1>1, <1>2, <2>1
  <2>4. QED BY <1>1, <1>2, <2>1, <2>2, <2>3, PieceOf, SMTT(30)
<1>5. QED BY <1>3, <1>4

Prepend(text, r) == [r EXCEPT !.out = text \o @]
AtEnd(s, k) == k > Len(s) \/ Incomplete(s, k)
Held(s, k) == [out |-> <<>>, tail |-> SubSeq(s, k, Len(s))]
Scan(s, f) == f = [k \in 1 .. (Len(s) + 1) |->
                     IF AtEnd(s, k) THEN Held(s, k) ELSE Prepend(Character(s, k), f[k + Width(s, k)])]
ScanOf(s) == CHOOSE f : Scan(s, f)

LEMMA AssembleIsScan ==
  ASSUME NEW s
  PROVE  Assemble(s) = ScanOf(s)[1]
BY DEF Assemble, ScanOf, Scan, AtEnd, Held, Prepend

LEMMA PrependIs ==
  ASSUME NEW t \in Texts, NEW r \in Assembled
  PROVE  Prepend(t, r) \in Assembled /\ Prepend(t, r).out = t \o r.out /\ Prepend(t, r).tail = r.tail
BY Joined DEF Prepend, Assembled

LEMMA HeldIs ==
  ASSUME NEW s \in Texts, NEW k \in 1 .. (Len(s) + 1)
  PROVE  Held(s, k) \in Assembled
<1>1. Len(s) \in Nat /\ Len(s) \in (k - 1) .. Len(s) /\ <<>> \in Texts
  BY TextIs
<1>2. SubSeq(s, k, Len(s)) \in Texts
  BY <1>1, PieceOf
<1>3. QED BY <1>1, <1>2 DEF Held, Assembled

LEMMA ScanExists ==
  ASSUME NEW s \in Texts
  PROVE  Scan(s, ScanOf(s)) /\ \A k \in 1 .. (Len(s) + 1) : ScanOf(s)[k] \in Assembled
<1> DEFINE D == 1 .. (Len(s) + 1)
           done == {k \in D : AtEnd(s, k)}
           base == [k \in D |-> Held(s, k)]
           rank == [k \in D |-> Len(s) + 1 - k]
           next == [k \in D |-> IF k \in done THEN k ELSE k + Width(s, k)]
           step == [x \in D \X Assembled |->
                      IF x[1] \in done THEN x[2] ELSE Prepend(Character(s, x[1]), x[2])]
           N == Len(s)
<1>1. N \in Nat
  BY TextIs
<1>2. rank \in [D -> 0 .. N]
  BY <1>1
<1>3. base \in [D -> Assembled]
  BY HeldIs
<1>4. ASSUME NEW k \in D, k \notin done
      PROVE  Width(s, k) \in 1 .. 3 /\ k + Width(s, k) \in D /\ Character(s, k) \in Texts
  <2>1. k \in 1 .. Len(s) /\ ~Incomplete(s, k)
    BY <1>1, <1>4 DEF AtEnd
  <2>2. QED BY <2>1, CharacterIs
<1>5. next \in [D -> D]
  BY <1>4
<1>6. step \in [D \X Assembled -> Assembled]
  <2>1. ASSUME NEW x \in D \X Assembled PROVE step[x] \in Assembled
    <3>1. x[1] \in D /\ x[2] \in Assembled
      OBVIOUS
    <3>2. CASE x[1] \in done
      BY <3>1, <3>2
    <3>3. CASE x[1] \notin done
      <4>1. Character(s, x[1]) \in Texts
        BY <1>4, <3>1, <3>3
      <4>2. Prepend(Character(s, x[1]), x[2]) \in Assembled
        BY <3>1, <4>1, PrependIs
      <4>3. QED BY <3>3, <4>2
    <3>4. QED BY <3>2, <3>3
  <2>2. QED BY <2>1
<1>7. Falls(rank, D, done, next)
  <2>1. ASSUME NEW k \in D, k \notin done PROVE rank[next[k]] < rank[k]
    <3>1. next[k] = k + Width(s, k) /\ next[k] \in D /\ Width(s, k) \in 1 .. 3
      BY <1>4, <2>1
    <3>2. rank[next[k]] = Len(s) + 1 - next[k] /\ rank[k] = Len(s) + 1 - k
      BY <3>1
    <3> HIDE DEF rank, next
    <3>3. QED BY <1>1, <3>1, <3>2
  <2>2. QED BY <2>1 DEF Falls
<1>8. PICK f \in [D -> Assembled] : Runs(f, D, done, base, next, step)
  <2> HIDE DEF D, done, base, rank, next, step, N
  <2>1. QED BY <1>1, <1>2, <1>3, <1>5, <1>6, <1>7, Recursion
<1>9. ASSUME NEW g, Scan(s, g)
      PROVE  \A k \in D : g[k] \in Assembled
  <2> DEFINE G == {n \in 0 .. N : g[N + 1 - n] \in Assembled}
  <2>1. ASSUME NEW n \in 0 .. N, \A m \in 0 .. (n - 1) : m \in G PROVE n \in G
    <3> DEFINE k == N + 1 - n
    <3>1. k \in D /\ n = N + 1 - k
      BY <1>1
    <3> HIDE DEF k
    <3>2. g[k] = IF AtEnd(s, k) THEN Held(s, k) ELSE Prepend(Character(s, k), g[k + Width(s, k)])
      BY <1>9, <3>1 DEF Scan
    <3>3. CASE AtEnd(s, k)
      BY <3>1, <3>2, <3>3, HeldIs DEF k
    <3>4. CASE ~AtEnd(s, k)
      <4>1. Width(s, k) \in 1 .. 3 /\ k + Width(s, k) \in D /\ Character(s, k) \in Texts
        BY <1>4, <3>1, <3>4
      <4>2. n - Width(s, k) \in 0 .. (n - 1) /\ N + 1 - (n - Width(s, k)) = k + Width(s, k)
        BY <1>1, <3>1, <4>1
      <4>3. g[k + Width(s, k)] \in Assembled
        BY <2>1, <4>2
      <4>4. g[k] \in Assembled
        BY <3>2, <3>4, <4>1, <4>3, PrependIs
      <4>5. QED BY <4>4 DEF k
    <3>5. QED BY <3>3, <3>4
  <2>2. \A n \in 0 .. N : n \in G
    <3> HIDE DEF G, N
    <3>1. QED BY <1>1, <2>1, Climb
  <2>3. ASSUME NEW k \in D PROVE g[k] \in Assembled
    <3>1. N + 1 - k \in 0 .. N /\ N + 1 - (N + 1 - k) = k
      BY <1>1
    <3>2. QED BY <2>2, <3>1
  <2>4. QED BY <2>3
<1>10. Scan(s, f)
  <2>1. ASSUME NEW k \in D
        PROVE f[k] = IF AtEnd(s, k) THEN Held(s, k) ELSE Prepend(Character(s, k), f[k + Width(s, k)])
    <3>1. CASE AtEnd(s, k)
      BY <1>8, <3>1 DEF Runs
    <3>2. CASE ~AtEnd(s, k)
      <4>1. k \notin done /\ next[k] = k + Width(s, k) /\ next[k] \in D
        BY <3>2, <1>4
      <4>2. f[k] = step[<<k, f[next[k]]>>]
        BY <1>8, <4>1 DEF Runs
      <4>3. <<k, f[next[k]]>> \in D \X Assembled
        BY <4>1
      <4>4. step[<<k, f[next[k]]>>] = Prepend(Character(s, k), f[next[k]])
        BY <4>1, <4>3
      <4>5. QED BY <3>2, <4>1, <4>2, <4>4
    <3>3. QED BY <3>1, <3>2
  <2>2. QED BY <2>1 DEF Scan
<1>11. Scan(s, ScanOf(s))
  BY <1>10 DEF ScanOf
<1>12. QED BY <1>9, <1>11


\* A character further on is the character at the beginning of what is left.
LEMMA CharacterBehind ==
  ASSUME NEW s \in Texts, NEW j \in 0 .. Len(s), NEW k \in 1 .. (Len(s) - j)
  PROVE  /\ Incomplete(s, j + k) <=> Incomplete(Behind(s, j), k)
         /\ ~Incomplete(s, j + k) => /\ Width(s, j + k) = Width(Behind(s, j), k)
                                     /\ Character(s, j + k) = Character(Behind(s, j), k)
<1> DEFINE d == Behind(s, j)
<1>1. Len(s) \in Nat /\ j \in Nat /\ k \in Nat /\ j + k \in 1 .. Len(s)
  BY TextIs
<1>2. d \in Texts /\ Len(d) = Len(s) - j /\ \A n \in 1 .. (Len(s) - j) : d[n] = s[j + n]
  BY BehindIs
<1>3. d[k] = s[j + k] /\ s[j + k] \in Bytes
  BY <1>1, <1>2, TextIs
<1>4. Need(s[j + k]) \in {0, 1, 3}
  BY <1>3, NeedIs
<1>5. Incomplete(s, j + k) <=> Incomplete(d, k)
  BY <1>1, <1>2, <1>3, <1>4 DEF Incomplete
<1>6. ASSUME ~Incomplete(s, j + k)
      PROVE  Width(s, j + k) = Width(d, k) /\ Character(s, j + k) = Character(d, k)
  <2>1. k + Need(s[j + k]) - 1 <= Len(s) - j
    BY <1>1, <1>2, <1>4, <1>6 DEF Incomplete
  <2>2. \A x \in 1 .. (Need(s[j + k]) - 1) : s[j + k + x] = d[k + x]
    <3>1. SUFFICES ASSUME NEW x \in 1 .. (Need(s[j + k]) - 1) PROVE s[j + k + x] = d[k + x]
      OBVIOUS
    <3>2. k + x \in 1 .. (Len(s) - j) /\ j + (k + x) = j + k + x
      BY <1>1, <1>4, <2>1
    <3>3. QED BY <1>2, <3>2
  <2>3. Broken(s, j + k) <=> Broken(d, k)
    BY <1>3, <2>2 DEF Broken
  <2>4. ASSUME ~Broken(s, j + k)
        PROVE  SubSeq(s, j + k, j + k + Need(s[j + k]) - 1) = SubSeq(d, k, k + Need(d[k]) - 1)
    <3> DEFINE n == k + Need(s[j + k]) - 1
    <3>1. Need(s[j + k]) \in {1, 3}
      BY <1>4, <2>4 DEF Broken
    <3>2. /\ j + 1 \in 1 .. (Len(s) + 1) /\ Len(s) \in ((j + 1) - 1) .. Len(s)
          /\ k \in 1 .. (Len(s) - (j + 1) + 2) /\ n \in (k - 1) .. (Len(s) - (j + 1) + 1)
          /\ (j + 1) + k - 1 = j + k /\ (j + 1) + n - 1 = j + k + Need(s[j + k]) - 1
      <4>1. n \in Nat /\ k <= n /\ n <= Len(s) - j /\ n = k + Need(s[j + k]) - 1
        BY <1>1, <2>1, <3>1
      <4> HIDE DEF n
      <4>2. (j + 1) + n - 1 = j + k + Need(s[j + k]) - 1
        BY <1>1, <3>1, <4>1, SMTT(30)
      <4>3. QED BY <1>1, <4>1, <4>2
    <3>3. SubSeq(d, k, n) = SubSeq(s, j + 1 + k - 1, j + 1 + n - 1)
      <4> HIDE DEF n
      <4>1. QED BY <3>2, PieceOfPiece DEF Behind
    <3>4. QED BY <1>3, <3>2, <3>3
  <2>5. QED BY <1>3, <2>3, <2>4 DEF Width, Character
<1>7. QED BY <1>5, <1>6

LEMMA ScanBehind ==
  ASSUME NEW s \in Texts, NEW j \in 0 .. Len(s)
  PROVE  \A k \in 1 .. (Len(s) - j + 1) : ScanOf(s)[j + k] = ScanOf(Behind(s, j))[k]
<1> DEFINE d == Behind(s, j)
           N == Len(s) - j
           f == ScanOf(s)
           g == ScanOf(d)
           G == {n \in 0 .. N : f[j + (N + 1 - n)] = g[N + 1 - n]}
<1>1. Len(s) \in Nat /\ j \in Nat /\ N \in Nat
  BY TextIs
<1>2. d \in Texts /\ Len(d) = N /\ \A n \in 1 .. N : d[n] = s[j + n]
  BY BehindIs
<1>3. Scan(s, f) /\ Scan(d, g)
  BY <1>2, ScanExists
<1> HIDE DEF f, g
<1>4. ASSUME NEW k \in 1 .. (N + 1)
      PROVE  /\ f[j + k] = IF AtEnd(s, j + k) THEN Held(s, j + k)
                           ELSE Prepend(Character(s, j + k), f[j + k + Width(s, j + k)])
             /\ g[k] = IF AtEnd(d, k) THEN Held(d, k)
                       ELSE Prepend(Character(d, k), g[k + Width(d, k)])
  <2>1. j + k \in 1 .. (Len(s) + 1) /\ k \in 1 .. (Len(d) + 1)
    BY <1>1, <1>2
  <2>2. QED BY <1>3, <2>1 DEF Scan
<1>5. ASSUME NEW k \in 1 .. (N + 1) PROVE Held(s, j + k) = Held(d, k)
  <2>1. /\ j + 1 \in 1 .. (Len(s) + 1) /\ Len(s) \in ((j + 1) - 1) .. Len(s)
        /\ k \in 1 .. (Len(s) - (j + 1) + 2) /\ N \in (k - 1) .. (Len(s) - (j + 1) + 1)
        /\ (j + 1) + k - 1 = j + k /\ (j + 1) + N - 1 = Len(s)
    BY <1>1
  <2>2. SubSeq(d, k, N) = SubSeq(s, j + 1 + k - 1, j + 1 + N - 1)
    <3> HIDE DEF N
    <3>1. QED BY <2>1, PieceOfPiece DEF Behind
  <2>3. QED BY <1>2, <2>1, <2>2 DEF Held
<1>6. ASSUME NEW n \in 0 .. N, \A m \in 0 .. (n - 1) : m \in G PROVE n \in G
  <2> DEFINE k == N + 1 - n
  <2>1. k \in 1 .. (N + 1) /\ n = N + 1 - k
    BY <1>1
  <2> HIDE DEF k
  <2>2. CASE k = N + 1
    <3>1. AtEnd(s, j + k) /\ AtEnd(d, k)
      BY <1>1, <1>2, <2>2 DEF AtEnd
    <3>2. QED BY <1>4, <1>5, <2>1, <3>1 DEF k
  <2>3. CASE k \in 1 .. N
    <3>1. Incomplete(s, j + k) <=> Incomplete(d, k)
      BY <2>3, CharacterBehind
    <3>2. AtEnd(s, j + k) <=> AtEnd(d, k)
      BY <1>1, <1>2, <2>3, <3>1 DEF AtEnd
    <3>3. CASE AtEnd(s, j + k)
      BY <1>4, <1>5, <2>1, <3>2, <3>3 DEF k
    <3>4. CASE ~AtEnd(s, j + k)
      <4> DEFINE w == Width(d, k)
      <4>1. Width(s, j + k) = w /\ Character(s, j + k) = Character(d, k) /\ ~Incomplete(d, k)
        BY <2>3, <3>1, <3>4, CharacterBehind DEF AtEnd
      <4>2. w \in 1 .. 3 /\ k + w \in 1 .. (N + 1)
        BY <1>2, <2>3, <4>1, CharacterIs
      <4> HIDE DEF w
      <4>3. n - w \in 0 .. (n - 1) /\ N + 1 - (n - w) = k + w
        BY <1>1, <2>1, <4>2
      <4>4. f[j + (k + w)] = g[k + w]
        BY <1>6, <4>3
      <4>5. j + k + w = j + (k + w)
        BY <1>1, <2>1, <4>2
      <4>6. f[j + k] = Prepend(Character(s, j + k), f[j + k + Width(s, j + k)])
        BY <1>4, <2>1, <3>4
      <4>7. g[k] = Prepend(Character(d, k), g[k + Width(d, k)])
        BY <1>4, <2>1, <3>2, <3>4
      <4>8. f[j + k] = g[k]
        BY <4>1, <4>4, <4>5, <4>6, <4>7 DEF w
      <4>9. QED BY <4>8 DEF k
    <3>5. QED BY <3>3, <3>4
  <2>4. QED BY <1>1, <2>1, <2>2, <2>3
<1>7. \A n \in 0 .. N : n \in G
  <2> HIDE DEF G, N
  <2>1. QED BY <1>1, <1>6, Climb
<1>8. ASSUME NEW k \in 1 .. (N + 1) PROVE f[j + k] = g[k]
  <2>1. N + 1 - k \in 0 .. N /\ N + 1 - (N + 1 - k) = k
    BY <1>1
  <2>2. QED BY <1>7, <2>1
<1>9. QED BY <1>8 DEF f, g

\* The assembler takes one character after the other.
LEMMA AssembleIs ==
  ASSUME NEW s \in Texts
  PROVE  /\ Assemble(s) \in Assembled
         /\ s = <<>> \/ Incomplete(s, 1) => Assemble(s) = [out |-> <<>>, tail |-> s]
         /\ s # <<>> /\ ~Incomplete(s, 1) =>
              /\ 1 \in 1 .. Len(s) /\ Width(s, 1) \in 1 .. Len(s)
              /\ Assemble(s) = Prepend(Character(s, 1), Assemble(Behind(s, Width(s, 1))))
<1> DEFINE f == ScanOf(s)
<1>1. Len(s) \in Nat /\ 1 \in 1 .. (Len(s) + 1) /\ (s = <<>> <=> Len(s) = 0)
  BY TextIs
<1>2. Scan(s, f) /\ \A k \in 1 .. (Len(s) + 1) : f[k] \in Assembled
  BY ScanExists
<1>3. Assemble(s) = f[1]
  BY AssembleIsScan
<1> HIDE DEF f
<1>4. f[1] = IF AtEnd(s, 1) THEN Held(s, 1) ELSE Prepend(Character(s, 1), f[1 + Width(s, 1)])
  BY <1>1, <1>2 DEF Scan
<1>5. AtEnd(s, 1) <=> s = <<>> \/ Incomplete(s, 1)
  BY <1>1 DEF AtEnd
<1>6. Held(s, 1) = [out |-> <<>>, tail |-> s]
  BY WholePiece DEF Held
<1>7. ASSUME s # <<>>, ~Incomplete(s, 1)
      PROVE /\ 1 \in 1 .. Len(s) /\ Width(s, 1) \in 1 .. Len(s)
            /\ Assemble(s) = Prepend(Character(s, 1), Assemble(Behind(s, Width(s, 1))))
  <2> DEFINE w == Width(s, 1)
  <2>1. 1 \in 1 .. Len(s)
    BY <1>1, <1>7
  <2>2. w \in 1 .. 3 /\ 1 + w \in 1 .. (Len(s) + 1)
    BY <1>7, <2>1, CharacterIs
  <2>3. w \in 1 .. Len(s) /\ w \in 0 .. Len(s) /\ 1 \in 1 .. (Len(s) - w + 1)
    BY <1>1, <2>2
  <2> HIDE DEF w
  <2>4. f[w + 1] = ScanOf(Behind(s, w))[1]
    BY <2>3, ScanBehind DEF f
  <2>5. ScanOf(Behind(s, w))[1] = Assemble(Behind(s, w))
    BY AssembleIsScan
  <2>6. w + 1 = 1 + w
    BY <2>2
  <2>7. QED BY <1>3, <1>4, <1>5, <1>7, <2>1, <2>3, <2>4, <2>5, <2>6 DEF w
<1>8. QED BY <1>1, <1>2, <1>3, <1>4, <1>5, <1>6, <1>7


LEMMA CharacterOfJoined ==
  ASSUME NEW s \in Texts, NEW t \in Texts, s # <<>>, ~Incomplete(s, 1)
  PROVE  /\ s \o t # <<>> /\ ~Incomplete(s \o t, 1) /\ Width(s \o t, 1) = Width(s, 1)
         /\ Character(s \o t, 1) = Character(s, 1)
<1>1. Len(s) \in Nat /\ Len(t) \in Nat /\ 1 \in 1 .. Len(s)
  BY TextIs
<1> DEFINE w == s \o t
<1>2. w \in Texts /\ Len(w) = Len(s) + Len(t) /\ \A k \in 1 .. Len(s) : w[k] = s[k]
  BY Joined
<1>3. w[1] = s[1] /\ s[1] \in Bytes
  BY <1>1, <1>2, TextIs
<1>4. Need(s[1]) \in {0, 1, 3} /\ 1 + Need(s[1]) - 1 <= Len(s)
  BY <1>1, <1>3, NeedIs DEF Incomplete
<1>5. SubSeq(w, 1, 1 + Need(s[1]) - 1) = SubSeq(s, 1, 1 + Need(s[1]) - 1)
  <2> DEFINE n == 1 + Need(s[1]) - 1
  <2>1. n \in 0 .. Len(s)
    BY <1>1, <1>4
  <2> HIDE DEF n
  <2>2. QED BY <2>1, PieceOfJoined DEF n
<1> HIDE DEF w
<1>6. w # <<>> /\ ~Incomplete(w, 1)
  BY <1>1, <1>2, <1>3, <1>4, TextIs DEF Incomplete
<1>7. \A k \in 1 .. (Need(s[1]) - 1) : w[1 + k] = s[1 + k]
  BY <1>1, <1>2, <1>4
<1>8. Broken(w, 1) <=> Broken(s, 1)
  BY <1>3, <1>7 DEF Broken
<1>9. Width(w, 1) = Width(s, 1) /\ Character(w, 1) = Character(s, 1)
  BY <1>3, <1>5, <1>8 DEF Width, Character
<1>10. QED BY <1>6, <1>9 DEF w

LEMMA PrependTwice ==
  ASSUME NEW s \in Texts, NEW t \in Texts, NEW r \in Assembled
  PROVE  /\ Prepend(s, Prepend(t, r)) = Prepend(s \o t, r)
         /\ Prepend(<<>>, r) = r
<1> DEFINE q == Prepend(t, r)
<1>1. r.out \in Texts /\ <<>> \in Texts /\ s \o t \in Texts
  BY TextIs, Joined DEF Assembled
<1>2. <<>> \o r.out = r.out /\ (s \o t) \o r.out = s \o (t \o r.out)
  <2>1. <<>> \o r.out = r.out
    BY <1>1, TextIs
  <2>2. (s \o t) \o r.out = s \o (t \o r.out)
    BY <1>1, JoinedTwice
  <2>3. QED BY <2>1, <2>2
<1>3. q \in Assembled /\ q.out = t \o r.out /\ q.tail = r.tail
  BY PrependIs
<1> HIDE DEF q
<1>4. Prepend(s, q) \in Assembled /\ Prepend(s, q).out = s \o (t \o r.out) /\ Prepend(s, q).tail = r.tail
  BY <1>3, PrependIs
<1>5. /\ Prepend(s \o t, r) \in Assembled /\ Prepend(s \o t, r).out = (s \o t) \o r.out
      /\ Prepend(s \o t, r).tail = r.tail
  BY <1>1, PrependIs
<1>6. Prepend(<<>>, r) \in Assembled /\ Prepend(<<>>, r).out = <<>> \o r.out /\ Prepend(<<>>, r).tail = r.tail
  BY <1>1, PrependIs
<1>7. \A x, y \in Assembled : x.out = y.out /\ x.tail = y.tail => x = y
  BY DEF Assembled
<1>8. QED BY <1>2, <1>4, <1>5, <1>6, <1>7 DEF q

\* Assembling goes on where it stopped: the tail it holds is all it has to know.
GoesOn(s, t) == Assemble(s \o t) = Prepend(Assemble(s).out, Assemble(Assemble(s).tail \o t))

LEMMA AssembleGoesOn ==
  ASSUME NEW s \in Texts, NEW t \in Texts
  PROVE  GoesOn(s, t)
<1> DEFINE N == Len(s)
           G == {n \in 0 .. N : \A r \in Texts : Len(r) = n => GoesOn(r, t)}
<1>1. N \in Nat
  BY TextIs
<1>2. ASSUME NEW n \in 0 .. N, \A m \in 0 .. (n - 1) : m \in G PROVE n \in G
  <2> SUFFICES ASSUME NEW r \in Texts, Len(r) = n PROVE GoesOn(r, t)
    OBVIOUS
  <2>0. r \o t \in Texts
    BY Joined
  <2>1. CASE r = <<>> \/ Incomplete(r, 1)
    <3>1. Assemble(r) = [out |-> <<>>, tail |-> r]
      BY <2>1, AssembleIs
    <3>2. Assemble(r \o t) \in Assembled
      BY <2>0, AssembleIs
    <3>3. Prepend(<<>>, Assemble(r \o t)) = Assemble(r \o t)
      BY <3>2, PrependTwice
    <3>4. QED BY <3>1, <3>3 DEF GoesOn
  <2>2. CASE ~(r = <<>> \/ Incomplete(r, 1))
    <3> DEFINE w == Width(r, 1)
               c == Character(r, 1)
               b == Behind(r, w)
               B == Assemble(b)
               X == Assemble(B.tail \o t)
    <3>1. w \in 1 .. Len(r) /\ 1 \in 1 .. Len(r) /\ Assemble(r) = Prepend(c, B)
      BY <2>2, AssembleIs
    <3>2. c \in Texts
      BY <2>2, <3>1, CharacterIs
    <3>3. w \in 0 .. Len(r) /\ n - w \in 0 .. (n - 1)
      BY <3>1
    <3> HIDE DEF w, c
    <3>4. b \in Texts /\ Len(b) = n - w
      BY <3>3, BehindIs
    <3>5. GoesOn(b, t)
      BY <1>2, <3>3, <3>4
    <3>6. B \in Assembled /\ B.out \in Texts /\ B.tail \in Texts
      BY <3>4, AssembleIs DEF Assembled
    <3>7. X \in Assembled
      BY <3>6, AssembleIs, Joined
    <3>8. /\ r \o t # <<>> /\ ~Incomplete(r \o t, 1) /\ Width(r \o t, 1) = w
          /\ Character(r \o t, 1) = c
      BY <2>2, CharacterOfJoined DEF w, c
    <3>9. Behind(r \o t, w) = b \o t
      BY <3>3, PieceOfJoined
    <3>10. Assemble(r \o t) = Prepend(c, Assemble(b \o t))
      BY <2>0, <3>8, <3>9, AssembleIs
    <3>11. Assemble(b \o t) = Prepend(B.out, X)
      BY <3>5 DEF GoesOn
    <3>12. Assemble(r).out = c \o B.out /\ Assemble(r).tail = B.tail
      BY <3>1, <3>2, <3>6, PrependIs
    <3> HIDE DEF B, b
    <3>13. Prepend(c, Prepend(B.out, X)) = Prepend(c \o B.out, X)
      BY <3>2, <3>6, <3>7, PrependTwice
    <3>14. Assemble(Assemble(r).tail \o t) = X
      BY <3>12
    <3> HIDE DEF X
    <3>15. QED BY <3>10, <3>11, <3>12, <3>13, <3>14 DEF GoesOn
  <2>3. QED BY <2>1, <2>2
<1>3. \A n \in 0 .. N : n \in G
  <2> HIDE DEF G, N
  <2>1. QED BY <1>1, <1>2, Climb
<1>4. N \in G
  BY <1>1, <1>3
<1>5. QED BY <1>4
---------------------------------------------------------------------------
(* Whole characters. *)

LEMMA WholeIs ==
  ASSUME NEW s \in Texts
  PROVE  Whole(s) <=> \A k \in 1 .. Len(s) :
           /\ s[k] = "3" => k + 2 <= Len(s) /\ s[k + 1] = "c" /\ s[k + 2] = "c"
           /\ s[k] = "c" => (k > 1 /\ s[k - 1] = "3") \/ (k > 2 /\ s[k - 2] = "3")
<1>1. DOMAIN s = 1 .. Len(s)
  BY TextIs
<1>2. \A k \in 1 .. Len(s) :
        (\E j \in {1, 2} : k > j /\ s[k - j] = "3") <=> (k > 1 /\ s[k - 1] = "3") \/ (k > 2 /\ s[k - 2] = "3")
  OBVIOUS
<1>3. QED BY <1>1, <1>2 DEF Whole

LEMMA WholeJoined ==
  ASSUME NEW s \in Texts, NEW t \in Texts, Whole(s), Whole(t)
  PROVE  Whole(s \o t)
<1> DEFINE w == s \o t
<1>1. Len(s) \in Nat /\ Len(t) \in Nat
  BY TextIs
<1>2. /\ w \in Texts /\ Len(w) = Len(s) + Len(t) /\ \A k \in 1 .. Len(s) : w[k] = s[k]
      /\ \A k \in 1 .. Len(t) : w[Len(s) + k] = t[k]
  BY Joined
<1> HIDE DEF w
<1>3. ASSUME NEW k \in 1 .. Len(w)
      PROVE  /\ w[k] = "3" => k + 2 <= Len(w) /\ w[k + 1] = "c" /\ w[k + 2] = "c"
             /\ w[k] = "c" => (k > 1 /\ w[k - 1] = "3") \/ (k > 2 /\ w[k - 2] = "3")
  <2>1. CASE k <= Len(s)
    <3>1. k \in 1 .. Len(s) /\ w[k] = s[k]
      BY <1>1, <1>2, <2>1
    <3>2. CASE s[k] = "3"
      <4>1. k + 2 <= Len(s) /\ s[k + 1] = "c" /\ s[k + 2] = "c"
        BY <3>1, <3>2, WholeIs
      <4>2. QED BY <1>1, <1>2, <3>1, <3>2, <4>1
    <3>3. CASE s[k] = "c"
      <4>1. (k > 1 /\ s[k - 1] = "3") \/ (k > 2 /\ s[k - 2] = "3")
        BY <3>1, <3>3, WholeIs
      <4>2. k > 1 => w[k - 1] = s[k - 1]
        BY <1>1, <1>2, <3>1
      <4>3. k > 2 => w[k - 2] = s[k - 2]
        BY <1>1, <1>2, <3>1
      <4>4. QED BY <3>1, <3>3, <4>1, <4>2, <4>3
    <3>4. QED BY <3>1, <3>2, <3>3
  <2>2. CASE k > Len(s)
    <3> DEFINE j == k - Len(s)
    <3>1. j \in 1 .. Len(t) /\ k = Len(s) + j
      BY <1>1, <1>2, <2>2
    <3> HIDE DEF j
    <3>2. w[k] = t[j]
      BY <1>2, <3>1
    <3>3. CASE t[j] = "3"
      <4>1. j + 2 <= Len(t) /\ t[j + 1] = "c" /\ t[j + 2] = "c"
        BY <3>1, <3>3, WholeIs
      <4>2. j + 1 \in 1 .. Len(t) /\ j + 2 \in 1 .. Len(t) /\ k + 1 = Len(s) + (j + 1) /\ k + 2 = Len(s) + (j + 2)
        BY <1>1, <3>1, <4>1
      <4>3. w[k + 1] = "c" /\ w[k + 2] = "c"
        BY <1>2, <4>1, <4>2
      <4>4. QED BY <1>1, <1>2, <3>1, <3>2, <3>3, <4>1, <4>3
    <3>4. CASE t[j] = "c"
      <4>1. (j > 1 /\ t[j - 1] = "3") \/ (j > 2 /\ t[j - 2] = "3")
        BY <3>1, <3>4, WholeIs
      <4>2. CASE j > 1 /\ t[j - 1] = "3"
        <5>1. j - 1 \in 1 .. Len(t) /\ k - 1 = Len(s) + (j - 1) /\ k > 1
          BY <1>1, <3>1, <4>2
        <5>2. w[k - 1] = t[j - 1]
          BY <1>2, <5>1
        <5>3. QED BY <3>2, <3>4, <4>2, <5>1, <5>2
      <4>3. CASE j > 2 /\ t[j - 2] = "3"
        <5>1. j - 2 \in 1 .. Len(t) /\ k - 2 = Len(s) + (j - 2) /\ k > 2
          BY <1>1, <3>1, <4>3
        <5>2. w[k - 2] = t[j - 2]
          BY <1>2, <5>1
        <5>3. QED BY <3>2, <3>4, <4>3, <5>1, <5>2
      <4>4. QED BY <4>1, <4>2, <4>3
    <3>5. QED BY <3>2, <3>3, <3>4
  <2>3. k <= Len(s) \/ k > Len(s)
    BY <1>1
  <2>4. QED BY <2>1, <2>2, <2>3
<1>4. Whole(w)
  BY <1>2, <1>3, WholeIs
<1>5. QED BY <1>4 DEF w

\* A text may be cut where no continuation byte follows.
LEMMA WholeCut ==
  ASSUME NEW s \in Texts, NEW n \in 0 .. Len(s), Whole(s), n < Len(s) => s[n + 1] # "c"
  PROVE  Whole(SubSeq(s, 1, n)) /\ Whole(Behind(s, n))
<1> DEFINE a == SubSeq(s, 1, n)
           b == Behind(s, n)
<1>1. Len(s) \in Nat /\ n \in Nat
  BY TextIs
<1>2. b \in Texts /\ Len(b) = Len(s) - n /\ \A k \in 1 .. (Len(s) - n) : b[k] = s[n + k]
  BY BehindIs
<1>3. a \in Texts /\ Len(a) = n /\ \A k \in 1 .. n : a[k] = s[k]
  <2>1. 1 \in 1 .. (Len(s) + 1) /\ n \in (1 - 1) .. Len(s)
    BY <1>1
  <2>2. a \in Texts /\ Len(a) = n - 1 + 1 /\ \A k \in 1 .. (n - 1 + 1) : a[k] = s[1 + k - 1]
    BY <2>1, PieceOf
  <2>3. QED BY <1>1, <2>2
<1> HIDE DEF a, b
<1>4. \A k \in 1 .. Len(s) :
        /\ s[k] = "3" => k + 2 <= Len(s) /\ s[k + 1] = "c" /\ s[k + 2] = "c"
        /\ s[k] = "c" => (k > 1 /\ s[k - 1] = "3") \/ (k > 2 /\ s[k - 2] = "3")
  BY WholeIs
<1>5. ASSUME NEW k \in 1 .. n, s[k] = "3" PROVE k + 2 <= n
  <2>1. k \in 1 .. Len(s) /\ k + 2 <= Len(s) /\ s[k + 1] = "c" /\ s[k + 2] = "c"
    BY <1>1, <1>4, <1>5
  <2>2. CASE k = n
    BY <1>1, <2>1, <2>2
  <2>3. CASE k + 1 = n
    BY <1>1, <2>1, <2>3
  <2>4. QED BY <1>1, <2>1, <2>2, <2>3
<1>6. Whole(a)
  <2>1. ASSUME NEW k \in 1 .. n
        PROVE  /\ a[k] = "3" => k + 2 <= n /\ a[k + 1] = "c" /\ a[k + 2] = "c"
               /\ a[k] = "c" => (k > 1 /\ a[k - 1] = "3") \/ (k > 2 /\ a[k - 2] = "3")
    <3>1. k \in 1 .. Len(s) /\ a[k] = s[k]
      BY <1>1, <1>3
    <3>2. a[k] = "3" => k + 2 <= n /\ a[k + 1] = "c" /\ a[k + 2] = "c"
      BY <1>1, <1>3, <1>4, <1>5, <3>1
    <3>3. a[k] = "c" => (k > 1 /\ a[k - 1] = "3") \/ (k > 2 /\ a[k - 2] = "3")
      <4>1. (k > 1 => a[k - 1] = s[k - 1]) /\ (k > 2 => a[k - 2] = s[k - 2])
        BY <1>1, <1>3
      <4>2. s[k] = "c" => (k > 1 /\ s[k - 1] = "3") \/ (k > 2 /\ s[k - 2] = "3")
        BY <1>4, <3>1
      <4>3. QED BY <3>1, <4>1, <4>2
    <3>4. QED BY <3>2, <3>3
  <2>2. QED BY <1>3, <2>1, WholeIs
<1>7. Whole(b)
  <2>1. ASSUME NEW k \in 1 .. (Len(s) - n)
        PROVE  /\ b[k] = "3" => k + 2 <= Len(b) /\ b[k + 1] = "c" /\ b[k + 2] = "c"
               /\ b[k] = "c" => (k > 1 /\ b[k - 1] = "3") \/ (k > 2 /\ b[k - 2] = "3")
    <3>1. n + k \in 1 .. Len(s) /\ b[k] = s[n + k] /\ n + k + 1 = n + (k + 1) /\ n + k + 2 = n + (k + 2)
      BY <1>1, <1>2
    <3>2. b[k] = "3" => k + 2 <= Len(b) /\ b[k + 1] = "c" /\ b[k + 2] = "c"
      <4>1. SUFFICES ASSUME s[n + k] = "3" PROVE k + 2 <= Len(b) /\ b[k + 1] = "c" /\ b[k + 2] = "c"
        BY <3>1
      <4>2. n + k + 2 <= Len(s) /\ s[n + k + 1] = "c" /\ s[n + k + 2] = "c"
        BY <1>4, <3>1, <4>1
      <4>3. k + 1 \in 1 .. (Len(s) - n) /\ k + 2 \in 1 .. (Len(s) - n)
        BY <1>1, <4>2
      <4>4. QED BY <1>1, <1>2, <3>1, <4>2, <4>3
    <3>3. b[k] = "c" => (k > 1 /\ b[k - 1] = "3") \/ (k > 2 /\ b[k - 2] = "3")
      <4>1. SUFFICES ASSUME s[n + k] = "c" PROVE (k > 1 /\ b[k - 1] = "3") \/ (k > 2 /\ b[k - 2] = "3")
        BY <3>1
      <4>2. k # 1
        BY <1>1, <4>1
      <4>3. (n + k > 1 /\ s[n + k - 1] = "3") \/ (n + k > 2 /\ s[n + k - 2] = "3")
        BY <1>4, <3>1, <4>1
      <4>4. CASE s[n + k - 1] = "3"
        <5>1. k - 1 \in 1 .. (Len(s) - n) /\ n + (k - 1) = n + k - 1 /\ k > 1
          BY <1>1, <4>2
        <5>2. b[k - 1] = s[n + (k - 1)]
          BY <1>2, <5>1
        <5>3. QED BY <4>4, <5>1, <5>2
      <4>5. CASE n + k > 2 /\ s[n + k - 2] = "3"
        <5>1. k # 2
          <6>1. SUFFICES ASSUME k = 2 PROVE FALSE
            OBVIOUS
          <6>2. n + k - 2 = n /\ n \in 1 .. n
            BY <1>1, <4>5, <6>1
          <6>3. n + 2 <= n
            BY <1>5, <4>5, <6>2
          <6>4. QED BY <1>1, <6>3
        <5>2. k - 2 \in 1 .. (Len(s) - n) /\ n + (k - 2) = n + k - 2 /\ k > 2
          BY <1>1, <4>2, <5>1
        <5>3. b[k - 2] = s[n + (k - 2)]
          BY <1>2, <5>2
        <5>4. QED BY <4>5, <5>2, <5>3
      <4>6. QED BY <4>3, <4>4, <4>5
    <3>4. QED BY <3>2, <3>3
  <2>2. QED BY <1>2, <2>1, WholeIs
<1>8. QED BY <1>6, <1>7 DEF a, b

\* ... as it may behind a byte of its own.
LEMMA CutBehindPlain ==
  ASSUME NEW s \in Texts, NEW n \in 1 .. Len(s), Whole(s), s[n] \notin {"3", "c"}
  PROVE  n < Len(s) => s[n + 1] # "c"
<1>1. Len(s) \in Nat
  BY TextIs
<1>2. SUFFICES ASSUME n < Len(s), s[n + 1] = "c" PROVE FALSE
  OBVIOUS
<1>3. n + 1 \in 1 .. Len(s) /\ (n + 1) - 1 = n /\ (n + 1) - 2 = n - 1
  BY <1>1, <1>2
<1>4. (n + 1 > 1 /\ s[(n + 1) - 1] = "3") \/ (n + 1 > 2 /\ s[(n + 1) - 2] = "3")
  BY <1>2, <1>3, WholeIs
<1>5. n > 1 /\ s[n - 1] = "3"
  BY <1>3, <1>4
<1>6. n - 1 \in 1 .. Len(s) /\ (n - 1) + 1 = n
  BY <1>1, <1>5
<1>7. s[(n - 1) + 1] = "c"
  BY <1>5, <1>6, WholeIs
<1>8. QED BY <1>6, <1>7


LEMMA OneByte ==
  ASSUME NEW b \in Bytes
  PROVE  <<b>> \in Texts /\ Len(<<b>>) = 1 /\ <<b>>[1] = b
BY DEF Texts

LEMMA WholeByte ==
  ASSUME NEW b \in Bytes, b \notin {"3", "c"}
  PROVE  Whole(<<b>>)
BY OneByte, WholeIs

LEMMA WholeNothing == Whole(<<>>)
<1>1. <<>> \in Texts /\ Len(<<>>) = 0
  BY EmptySeq DEF Texts
<1>2. QED BY <1>1, WholeIs

LEMMA CharacterIsWhole ==
  ASSUME NEW s \in Texts, NEW k \in 1 .. Len(s), ~Incomplete(s, k)
  PROVE  Whole(Character(s, k))
<1>1. CASE Broken(s, k)
  <2>1. "?" \in Bytes
    BY DEF Bytes
  <2>2. QED BY <1>1, <2>1, WholeByte DEF Character
<1>2. CASE ~Broken(s, k)
  <2>1. Len(s) \in Nat /\ k \in Nat /\ s[k] \in Bytes
    BY TextIs
  <2>2. Need(s[k]) \in {1, 3} /\ k + Need(s[k]) - 1 <= Len(s) /\ (Need(s[k]) = 3 <=> s[k] = "3") /\ s[k] # "c"
    BY <1>2, <2>1, NeedIs DEF Incomplete, Broken
  <2> DEFINE n == k + Need(s[k]) - 1
             t == SubSeq(s, k, n)
  <2>3. n \in Nat /\ n <= Len(s) /\ n \in {k, k + 2} /\ (n = k + 2 <=> s[k] = "3")
    BY <2>1, <2>2
  <2>4. \A j \in 1 .. (Need(s[k]) - 1) : s[k + j] = "c"
    BY <1>2 DEF Broken
  <2>5. n = k + 2 => s[k + 1] = "c" /\ s[k + 2] = "c"
    BY <2>1, <2>2, <2>4
  <2>6. Character(s, k) = t
    BY <1>2 DEF Character
  <2> HIDE DEF n
  <2>7. k \in 1 .. (Len(s) + 1) /\ n \in (k - 1) .. Len(s)
    BY <2>1, <2>3
  <2>8. t \in Texts /\ Len(t) = n - k + 1 /\ \A j \in 1 .. (n - k + 1) : t[j] = s[k + j - 1]
    BY <2>7, PieceOf
  <2> HIDE DEF t
  <2>9. CASE n = k
    <3>1. Len(t) = 1 /\ t[1] = s[k]
      BY <2>1, <2>8, <2>9
    <3>2. s[k] # "3"
      BY <2>1, <2>3, <2>9
    <3>3. \A j \in 1 .. Len(t) : t[j] # "3" /\ t[j] # "c"
      BY <3>1, <3>2, <2>2
    <3>4. QED BY <2>6, <2>8, <3>3, WholeIs
  <2>10. CASE n = k + 2
    <3>1. Len(t) = 3 /\ t[1] = s[k] /\ t[2] = s[k + 1] /\ t[3] = s[k + 2]
      BY <2>1, <2>8, <2>10
    <3>2. t[1] = "3" /\ t[2] = "c" /\ t[3] = "c"
      BY <2>3, <2>5, <2>10, <3>1
    <3>3. ASSUME NEW j \in 1 .. Len(t)
          PROVE /\ t[j] = "3" => j + 2 <= Len(t) /\ t[j + 1] = "c" /\ t[j + 2] = "c"
                /\ t[j] = "c" => (j > 1 /\ t[j - 1] = "3") \/ (j > 2 /\ t[j - 2] = "3")
      <4>1. j = 1 \/ j = 2 \/ j = 3
        BY <3>1
      <4>2. CASE j = 1
        BY <3>1, <3>2, <4>2
      <4>3. CASE j = 2
        BY <3>1, <3>2, <4>3
      <4>4. CASE j = 3
        BY <3>1, <3>2, <4>4
      <4>5. QED BY <4>1, <4>2, <4>3, <4>4
    <3>4. QED BY <2>6, <2>8, <3>3, WholeIs
  <2>11. QED BY <2>3, <2>9, <2>10
<1>3. QED BY <1>1, <1>2

LEMMA AssembledIsWhole ==
  ASSUME NEW s \in Texts
  PROVE  Whole(Assemble(s).out)
<1> DEFINE N == Len(s)
           G == {n \in 0 .. N : \A r \in Texts : Len(r) = n => Whole(Assemble(r).out)}
<1>1. N \in Nat
  BY TextIs
<1>2. ASSUME NEW n \in 0 .. N, \A m \in 0 .. (n - 1) : m \in G PROVE n \in G
  <2> SUFFICES ASSUME NEW r \in Texts, Len(r) = n PROVE Whole(Assemble(r).out)
    OBVIOUS
  <2>1. CASE r = <<>> \/ Incomplete(r, 1)
    <3>1. Assemble(r).out = <<>>
      BY <2>1, AssembleIs
    <3>2. QED BY <3>1, WholeNothing
  <2>2. CASE ~(r = <<>> \/ Incomplete(r, 1))
    <3> DEFINE w == Width(r, 1)
               c == Character(r, 1)
               b == Behind(r, w)
               B == Assemble(b)
    <3>1. w \in 1 .. Len(r) /\ 1 \in 1 .. Len(r) /\ Assemble(r) = Prepend(c, B)
      BY <2>2, AssembleIs
    <3>2. c \in Texts /\ Whole(c)
      BY <2>2, <3>1, CharacterIs, CharacterIsWhole
    <3>3. w \in 0 .. Len(r) /\ n - w \in 0 .. (n - 1)
      BY <3>1
    <3> HIDE DEF w, c
    <3>4. b \in Texts /\ Len(b) = n - w
      BY <3>3, BehindIs
    <3>5. Whole(B.out)
      BY <1>2, <3>3, <3>4
    <3>6. B \in Assembled /\ B.out \in Texts
      BY <3>4, AssembleIs DEF Assembled
    <3> HIDE DEF B
    <3>7. Assemble(r).out = c \o B.out
      BY <3>1, <3>2, <3>6, PrependIs
    <3>8. QED BY <3>2, <3>5, <3>6, <3>7, WholeJoined
  <2>3. QED BY <2>1, <2>2
<1>3. \A n \in 0 .. N : n \in G
  <2> HIDE DEF G, N
  <2>1. QED BY <1>1, <1>2, Climb
<1>4. N \in G
  BY <1>1, <1>3
<1>5. QED BY <1>4
---------------------------------------------------------------------------
(* Letters. *)

Ink3 == {"x", "s", "3", "c", "?"}

LEMMA PrintedIs ==
  ASSUME NEW s \in Texts
  PROVE  /\ Printed(s) = {k \in 1 .. Len(s) : s[k] \in Ink3}
         /\ IsFiniteSet(Printed(s)) /\ Letters(s) \in Nat
<1>1. Printed(s) = {k \in 1 .. Len(s) : s[k] \in Ink3}
  BY TextIs DEF Printed, Ink3
<1>2. Len(s) \in Nat
  BY TextIs
<1>3. Printed(s) \in SUBSET Nat /\ \A k \in Printed(s) : k <= Len(s)
  BY <1>1, <1>2
<1>4. IsFiniteSet(Printed(s))
  BY <1>2, <1>3, FS_BoundedSetOfNaturals
<1>5. QED BY <1>1, <1>4, FS_CardinalityType DEF Letters

LEMMA NoLetters ==
  ASSUME NEW s \in Texts, \A k \in 1 .. Len(s) : s[k] \notin Ink3
  PROVE  Letters(s) = 0
<1>1. Printed(s) = {}
  BY PrintedIs
<1>2. QED BY <1>1, FS_EmptySet DEF Letters

LEMMA SameSize ==
  ASSUME NEW S, NEW T, IsFiniteSet(S), NEW f \in [S -> T],
         \A x, y \in S : f[x] = f[y] => x = y, \A y \in T : \E x \in S : f[x] = y
  PROVE  IsFiniteSet(T) /\ Cardinality(T) = Cardinality(S)
<1>1. f \in Bijection(S, T)
  BY DEF Bijection, Injection, Surjection, IsInjective
<1>2. ExistsBijection(S, T)
  BY <1>1 DEF ExistsBijection
<1>3. QED BY <1>2, FS_Bijection

LEMMA DisjointSize ==
  ASSUME NEW S, NEW T, IsFiniteSet(S), IsFiniteSet(T), S \cap T = {}
  PROVE  /\ IsFiniteSet(S \cup T) /\ Cardinality(S \cup T) = Cardinality(S) + Cardinality(T)
         /\ Cardinality(S) \in Nat /\ Cardinality(T) \in Nat
<1>1. IsFiniteSet(S \cup T) /\ Cardinality(S \cup T) = Cardinality(S) + Cardinality(T) - Cardinality(S \cap T)
  BY FS_Union
<1>2. Cardinality(S \cap T) = 0
  BY FS_EmptySet
<1>3. Cardinality(S) \in Nat /\ Cardinality(T) \in Nat
  BY FS_CardinalityType
<1>4. QED BY <1>1, <1>2, <1>3

LEMMA LettersJoined ==
  ASSUME NEW s \in Texts, NEW t \in Texts
  PROVE  Letters(s \o t) = Letters(s) + Letters(t)
<1> DEFINE w == s \o t
           Q == {k \in 1 .. Len(w) : k > Len(s) /\ w[k] \in Ink3}
           f == [k \in Printed(t) |-> Len(s) + k]
<1>1. Len(s) \in Nat /\ Len(t) \in Nat
  BY TextIs
<1>2. /\ w \in Texts /\ Len(w) = Len(s) + Len(t) /\ \A k \in 1 .. Len(s) : w[k] = s[k]
      /\ \A k \in 1 .. Len(t) : w[Len(s) + k] = t[k]
  BY Joined
<1> HIDE DEF w
<1>3. /\ Printed(s) = {k \in 1 .. Len(s) : s[k] \in Ink3}
      /\ Printed(t) = {k \in 1 .. Len(t) : t[k] \in Ink3}
      /\ Printed(w) = {k \in 1 .. Len(w) : w[k] \in Ink3}
      /\ IsFiniteSet(Printed(s)) /\ IsFiniteSet(Printed(t))
  BY <1>2, PrintedIs
<1>4. Printed(w) = Printed(s) \cup Q
  <2>1. ASSUME NEW k \in 1 .. Len(w), w[k] \in Ink3, ~(k > Len(s)) PROVE k \in Printed(s)
    BY <1>1, <1>2, <1>3, <2>1
  <2>2. ASSUME NEW k \in Printed(s) PROVE k \in Printed(w)
    BY <1>1, <1>2, <1>3
  <2>3. QED BY <1>3, <2>1, <2>2
<1>5. Printed(s) \cap Q = {}
  BY <1>1, <1>3
<1>6. ASSUME NEW k \in Printed(t) PROVE Len(s) + k \in Q
  BY <1>1, <1>2, <1>3
<1>7. ASSUME NEW k \in Q PROVE k - Len(s) \in Printed(t) /\ Len(s) + (k - Len(s)) = k
  <2>1. k - Len(s) \in 1 .. Len(t) /\ Len(s) + (k - Len(s)) = k
    BY <1>1, <1>2
  <2>2. w[k] = t[k - Len(s)]
    BY <1>2, <2>1
  <2>3. QED BY <1>3, <2>1, <2>2
<1>8. IsFiniteSet(Q) /\ Cardinality(Q) = Cardinality(Printed(t))
  <2>1. f \in [Printed(t) -> Q]
    BY <1>6
  <2>2. \A x, y \in Printed(t) : f[x] = f[y] => x = y
    BY <1>1, <1>3
  <2>3. \A y \in Q : \E x \in Printed(t) : f[x] = y
    BY <1>7
  <2> HIDE DEF Q, f
  <2>4. QED BY <1>3, <2>1, <2>2, <2>3, SameSize
<1> HIDE DEF Q
<1>9. Cardinality(Printed(w)) = Cardinality(Printed(s)) + Cardinality(Printed(t))
  <2> DEFINE P == Printed(s)
  <2> HIDE DEF P
  <2>1. IsFiniteSet(P) /\ IsFiniteSet(Q) /\ P \cap Q = {} /\ Printed(w) = P \cup Q
    BY <1>3, <1>4, <1>5, <1>8 DEF P
  <2>2. Cardinality(P \cup Q) = Cardinality(P) + Cardinality(Q)
    BY <2>1, DisjointSize
  <2>3. QED BY <1>8, <2>1, <2>2 DEF P
<1>10. QED BY <1>9 DEF Letters, w

---------------------------------------------------------------------------
(* Leaving bytes out. *)

Sift(s, off, f) == f = [n \in 0 .. Len(s) |->
                          IF n = 0 THEN <<>> ELSE IF s[n] \in off THEN f[n - 1]
                          ELSE Append(f[n - 1], s[n])]
SiftOf(s, off) == CHOOSE f : Sift(s, off, f)

LEMMA WithoutIsSift ==
  ASSUME NEW s, NEW off
  PROVE  Without(s, off) = SiftOf(s, off)[Len(s)]
BY DEF Without, SiftOf, Sift

LEMMA AppendIs ==
  ASSUME NEW S, NEW s \in Seq(S), NEW b \in S
  PROVE  Append(s, b) \in Seq(S) /\ Append(s, b) = s \o <<b>>
BY AppendProperties, AppendIsConcat

LEMMA SiftExists ==
  ASSUME NEW s \in Texts, NEW off
  PROVE  Sift(s, off, SiftOf(s, off)) /\ \A n \in 0 .. Len(s) : SiftOf(s, off)[n] \in Seq(Bytes \ off)
<1> DEFINE D == 0 .. Len(s)
           V == Seq(Bytes \ off)
           done == {0}
           base == [n \in D |-> <<>>]
           rank == [n \in D |-> n]
           next == [n \in D |-> IF n = 0 THEN n ELSE n - 1]
           step == [x \in D \X V |->
                      IF x[1] = 0 \/ s[x[1]] \in off THEN x[2] ELSE Append(x[2], s[x[1]])]
           N == Len(s)
<1>1. N \in Nat
  BY TextIs
<1>2. rank \in [D -> 0 .. N]
  BY <1>1
<1>3. <<>> \in V
  BY EmptySeq
<1>4. base \in [D -> V]
  BY <1>3
<1>5. next \in [D -> D]
  BY <1>1
<1>6. ASSUME NEW n \in D, n # 0, s[n] \notin off, NEW v \in V PROVE Append(v, s[n]) \in V
  <2>1. s[n] \in Bytes \ off
    BY <1>1, <1>6, TextIs
  <2>2. QED BY <2>1, AppendIs
<1>7. step \in [D \X V -> V]
  <2> HIDE DEF V
  <2>1. ASSUME NEW x \in D \X V PROVE step[x] \in V
    BY <1>6
  <2>2. QED BY <2>1
<1>8. Falls(rank, D, done, next)
  BY <1>1 DEF Falls
<1>9. PICK f \in [D -> V] : Runs(f, D, done, base, next, step)
  <2> HIDE DEF D, V, done, base, rank, next, step, N
  <2>1. QED BY <1>1, <1>2, <1>4, <1>5, <1>7, <1>8, Recursion
<1> HIDE DEF V
<1>10. Sift(s, off, f)
  <2>1. ASSUME NEW n \in D
        PROVE f[n] = IF n = 0 THEN <<>> ELSE IF s[n] \in off THEN f[n - 1] ELSE Append(f[n - 1], s[n])
    <3>1. CASE n = 0
      BY <1>9, <3>1 DEF Runs
    <3>2. CASE n # 0
      <4>1. n - 1 \in D /\ next[n] = n - 1 /\ f[n - 1] \in V
        BY <1>1, <3>2
      <4>2. f[n] = step[<<n, f[n - 1]>>]
        BY <1>9, <3>2, <4>1 DEF Runs
      <4>3. step[<<n, f[n - 1]>>] = IF n = 0 \/ s[n] \in off THEN f[n - 1] ELSE Append(f[n - 1], s[n])
        BY <4>1
      <4>4. QED BY <3>2, <4>2, <4>3
    <3>3. QED BY <3>1, <3>2
  <2>2. QED BY <2>1 DEF Sift
<1>11. ASSUME NEW g, Sift(s, off, g) PROVE \A n \in D : g[n] \in V
  <2> DEFINE G == {n \in 0 .. N : g[n] \in V}
  <2>1. ASSUME NEW n \in 0 .. N, \A m \in 0 .. (n - 1) : m \in G PROVE n \in G
    <3>1. g[n] = IF n = 0 THEN <<>> ELSE IF s[n] \in off THEN g[n - 1] ELSE Append(g[n - 1], s[n])
      BY <1>11 DEF Sift
    <3>2. CASE n = 0
      BY <1>3, <3>1, <3>2
    <3>3. CASE n # 0
      <4>1. n - 1 \in 0 .. (n - 1)
        BY <1>1, <3>3
      <4>2. g[n - 1] \in V
        BY <2>1, <4>1
      <4>3. QED BY <1>6, <3>1, <3>3, <4>2
    <3>4. QED BY <3>2, <3>3
  <2>2. \A n \in 0 .. N : n \in G
    <3> HIDE DEF G, N
    <3>1. QED BY <1>1, <2>1, Climb
  <2>3. QED BY <2>2
<1>12. Sift(s, off, SiftOf(s, off))
  BY <1>10 DEF SiftOf
<1>13. QED BY <1>11, <1>12 DEF V

LEMMA SiftIs ==
  ASSUME NEW s \in Texts, NEW off
  PROVE  /\ SiftOf(s, off)[0] = <<>>
         /\ \A n \in 1 .. Len(s) :
              SiftOf(s, off)[n] = IF s[n] \in off THEN SiftOf(s, off)[n - 1]
                                  ELSE SiftOf(s, off)[n - 1] \o <<s[n]>>
         /\ \A n \in 0 .. Len(s) : SiftOf(s, off)[n] \in Texts
<1> DEFINE f == SiftOf(s, off)
<1>1. Len(s) \in Nat
  BY TextIs
<1>2. Sift(s, off, f) /\ \A m \in 0 .. Len(s) : f[m] \in Seq(Bytes \ off)
  BY SiftExists
<1> HIDE DEF f
<1>3. \A t \in Seq(Bytes \ off) : t \in Texts
  BY SeqMonotonic DEF Texts
<1>4. \A n \in 0 .. Len(s) : f[n] \in Texts
  BY <1>2, <1>3
<1>5. f[0] = <<>>
  BY <1>1, <1>2 DEF Sift
<1>6. ASSUME NEW n \in 1 .. Len(s)
      PROVE  f[n] = IF s[n] \in off THEN f[n - 1] ELSE f[n - 1] \o <<s[n]>>
  <2>1. n - 1 \in 0 .. Len(s) /\ n \in 0 .. Len(s) /\ n # 0
    BY <1>1
  <2>2. f[n - 1] \in Seq(Bytes) /\ s[n] \in Bytes
    BY <1>4, <2>1, TextIs DEF Texts
  <2>3. Append(f[n - 1], s[n]) = f[n - 1] \o <<s[n]>>
    BY <2>2, AppendIs
  <2>4. f[n] = IF s[n] \in off THEN f[n - 1] ELSE Append(f[n - 1], s[n])
    BY <1>2, <2>1 DEF Sift
  <2>5. QED BY <2>3, <2>4
<1>7. QED BY <1>4, <1>5, <1>6 DEF f

LEMMA WithoutIs ==
  ASSUME NEW s \in Texts, NEW off
  PROVE  /\ Without(s, off) \in Texts
         /\ \A k \in 1 .. Len(Without(s, off)) : Without(s, off)[k] \notin off
<1>1. Len(s) \in 0 .. Len(s)
  BY TextIs
<1>2. Without(s, off) \in Seq(Bytes \ off)
  BY <1>1, WithoutIsSift, SiftExists
<1>3. Without(s, off) \in Texts
  BY <1>2, SeqMonotonic DEF Texts
<1>4. \A k \in 1 .. Len(Without(s, off)) : Without(s, off)[k] \in Bytes \ off
  BY <1>2, ElementOfSeq
<1>5. QED BY <1>3, <1>4

LEMMA WithoutJoined ==
  ASSUME NEW s \in Texts, NEW t \in Texts, NEW off
  PROVE  Without(s \o t, off) = Without(s, off) \o Without(t, off)
<1> DEFINE w == s \o t
           f == SiftOf(s, off)
           g == SiftOf(t, off)
           h == SiftOf(w, off)
           M == Len(s)
           N == Len(t)
           a == f[M]
<1>1. M \in Nat /\ N \in Nat
  BY TextIs
<1>2. /\ w \in Texts /\ Len(w) = M + N /\ \A k \in 1 .. M : w[k] = s[k]
      /\ \A k \in 1 .. N : w[M + k] = t[k]
  BY Joined
<1> HIDE DEF w
<1>3. /\ f[0] = <<>> /\ \A n \in 0 .. M : f[n] \in Texts
      /\ \A n \in 1 .. M : f[n] = IF s[n] \in off THEN f[n - 1] ELSE f[n - 1] \o <<s[n]>>
  BY SiftIs
<1>4. /\ g[0] = <<>> /\ \A n \in 0 .. N : g[n] \in Texts
      /\ \A n \in 1 .. N : g[n] = IF t[n] \in off THEN g[n - 1] ELSE g[n - 1] \o <<t[n]>>
  BY SiftIs
<1>5. /\ h[0] = <<>>
      /\ \A n \in 1 .. (M + N) : h[n] = IF w[n] \in off THEN h[n - 1] ELSE h[n - 1] \o <<w[n]>>
  <2> HIDE DEF M, N
  <2>1. /\ SiftOf(w, off)[0] = <<>>
        /\ \A n \in 1 .. Len(w) :
             SiftOf(w, off)[n] = IF w[n] \in off THEN SiftOf(w, off)[n - 1]
                                 ELSE SiftOf(w, off)[n - 1] \o <<w[n]>>
    BY <1>2, SiftIs
  <2>2. Len(w) = M + N
    BY <1>2
  <2>3. QED BY <2>1, <2>2
<1>6. Without(s, off) = f[M] /\ Without(t, off) = g[N] /\ Without(w, off) = h[M + N]
  BY <1>2, WithoutIsSift
<1>7. \A n \in 1 .. N : <<t[n]>> \in Texts
  BY TextIs, OneByte
<1> HIDE DEF f, g, h, M, N
<1> DEFINE G == {n \in 0 .. M : h[n] = f[n]}
<1>8. ASSUME NEW n \in 0 .. M, \A m \in 0 .. (n - 1) : m \in G PROVE n \in G
  <2>1. CASE n = 0
    BY <1>3, <1>5, <2>1
  <2>2. CASE n # 0
    <3>1. n - 1 \in 0 .. (n - 1) /\ n \in 1 .. M /\ n \in 1 .. (M + N)
      BY <1>1, <2>2
    <3>2. h[n - 1] = f[n - 1] /\ w[n] = s[n]
      BY <1>2, <1>8, <3>1
    <3>3. h[n] = f[n]
      BY <1>3, <1>5, <3>1, <3>2
    <3>4. QED BY <3>3
  <2>3. QED BY <2>1, <2>2
<1>9. \A n \in 0 .. M : n \in G
  <2> HIDE DEF G
  <2>1. QED BY <1>1, <1>8, Climb
<1>10. h[M] = a /\ a \in Texts
  <2>1. M \in 0 .. M
    BY <1>1
  <2>2. QED BY <1>3, <1>9, <2>1
<1> HIDE DEF a
<1> DEFINE H == {n \in 0 .. N : h[M + n] = a \o g[n]}
<1>11. ASSUME NEW n \in 0 .. N, \A m \in 0 .. (n - 1) : m \in H PROVE n \in H
  <2>1. CASE n = 0
    <3>1. M + n = M /\ g[n] = <<>> /\ a \o <<>> = a
      BY <1>1, <1>4, <1>10, <2>1, TextIs
    <3>2. h[M + n] = a \o g[n]
      BY <1>10, <3>1
    <3>3. QED BY <3>2
  <2>2. CASE n # 0
    <3> DEFINE p == M + n
    <3>1. n - 1 \in 0 .. (n - 1) /\ n \in 1 .. N /\ p - 1 = M + (n - 1) /\ n - 1 \in 0 .. N
          /\ p \in 1 .. (M + N)
      BY <1>1, <2>2
    <3>2. h[p - 1] = a \o g[n - 1]
      BY <1>11, <3>1
    <3>3. w[p] = t[n] /\ g[n - 1] \in Texts /\ <<t[n]>> \in Texts
      BY <1>2, <1>4, <1>7, <3>1
    <3> HIDE DEF p
    <3>4. h[p] = IF w[p] \in off THEN h[p - 1] ELSE h[p - 1] \o <<w[p]>>
      BY <1>5, <3>1
    <3>5. h[p] = IF t[n] \in off THEN a \o g[n - 1] ELSE (a \o g[n - 1]) \o <<t[n]>>
      BY <3>2, <3>3, <3>4
    <3>6. g[n] = IF t[n] \in off THEN g[n - 1] ELSE g[n - 1] \o <<t[n]>>
      BY <1>4, <3>1
    <3>7. (a \o g[n - 1]) \o <<t[n]>> = a \o (g[n - 1] \o <<t[n]>>)
      BY <1>10, <3>3, JoinedTwice
    <3>8. h[p] = a \o g[n]
      <4>1. CASE t[n] \in off
        BY <3>5, <3>6, <4>1
      <4>2. CASE t[n] \notin off
        BY <3>5, <3>6, <3>7, <4>2
      <4>3. QED BY <4>1, <4>2
    <3>9. QED BY <3>8 DEF p
  <2>3. QED BY <2>1, <2>2
<1>12. \A n \in 0 .. N : n \in H
  <2> HIDE DEF H
  <2>1. QED BY <1>1, <1>11, Climb
<1>13. h[M + N] = a \o g[N]
  <2>1. N \in 0 .. N
    BY <1>1
  <2>2. QED BY <1>12, <2>1
<1>14. QED BY <1>6, <1>13 DEF a, w

LEMMA WithoutByte ==
  ASSUME NEW b \in Bytes, NEW off
  PROVE  Without(<<b>>, off) = IF b \in off THEN <<>> ELSE <<b>>
<1> DEFINE t == <<b>>
<1>1. t \in Texts /\ Len(t) = 1 /\ t[1] = b /\ <<>> \o t = t
  BY OneByte, TextIs
<1> HIDE DEF t
<1>2. SiftOf(t, off)[0] = <<>>
  BY <1>1, SiftIs
<1>3. 1 \in 1 .. Len(t) /\ 1 - 1 = 0
  BY <1>1
<1>4. SiftOf(t, off)[1] = IF t[1] \in off THEN SiftOf(t, off)[1 - 1] ELSE SiftOf(t, off)[1 - 1] \o <<t[1]>>
  BY <1>1, <1>3, SiftIs
<1>5. <<t[1]>> = t
  BY <1>1 DEF t
<1>6. Without(t, off) = IF b \in off THEN <<>> ELSE t
  BY <1>1, <1>2, <1>3, <1>4, <1>5, WithoutIsSift
<1>7. QED BY <1>6 DEF t

LEMMA WithoutNothing ==
  ASSUME NEW off
  PROVE  Without(<<>>, off) = <<>>
<1>1. <<>> \in Texts /\ Len(<<>>) = 0
  BY EmptySeq DEF Texts
<1>2. SiftOf(<<>>, off)[0] = <<>>
  BY <1>1, SiftIs
<1>3. QED BY <1>1, <1>2, WithoutIsSift


LEMMA GreatestOf ==
  ASSUME NEW N \in Nat, NEW S, S \subseteq 0 .. N, S # {}
  PROVE  Max(S) \in S /\ \A y \in S : y <= Max(S)
<1> DEFINE R == {N - y : y \in S}
<1>1. R \subseteq Nat /\ R # {}
  <2>1. \A y \in S : N - y \in Nat
    OBVIOUS
  <2>2. QED BY <2>1
<1>2. PICK r \in R : \A y \in R : r <= y
  <2> HIDE DEF R
  <2>1. QED BY <1>1, LeastOf
<1>3. PICK x \in S : r = N - x
  BY <1>2
<1>4. \A y \in S : x >= y
  <2>1. SUFFICES ASSUME NEW y \in S PROVE x >= y
    OBVIOUS
  <2>2. N - y \in R
    OBVIOUS
  <2>3. r <= N - y /\ x \in Int /\ y \in Int
    BY <1>2, <2>2
  <2>4. QED BY <1>3, <2>3
<1> HIDE DEF R
<1>5. Max(S) \in S /\ \A y \in S : Max(S) >= y
  BY <1>4 DEF Max
<1>6. \A y \in S : y \in Int
  OBVIOUS
<1>7. QED BY <1>5, <1>6

LEMMA SplitAround ==
  ASSUME NEW s \in Texts, NEW k \in 1 .. Len(s)
  PROVE  /\ s = (SubSeq(s, 1, k - 1) \o <<s[k]>>) \o Behind(s, k)
         /\ SubSeq(s, 1, k - 1) \in Texts /\ Behind(s, k) \in Texts /\ s[k] \in Bytes
         /\ <<s[k]>> \in Texts /\ SubSeq(s, 1, k - 1) \o <<s[k]>> = SubSeq(s, 1, k)
         /\ Len(SubSeq(s, 1, k - 1)) = k - 1 /\ Len(Behind(s, k)) = Len(s) - k
         /\ \A j \in 1 .. (k - 1) : SubSeq(s, 1, k - 1)[j] = s[j]
<1>1. Len(s) \in Nat /\ s[k] \in Bytes
  BY TextIs
<1>2. /\ k \in 0 .. Len(s) /\ k - 1 \in 0 .. Len(s) /\ k \in 1 .. (Len(s) + 1)
      /\ 1 \in 1 .. (Len(s) + 1) /\ k - 1 \in (1 - 1) .. Len(s) /\ k \in (k - 1) .. Len(s)
  BY <1>1
<1>3. /\ SubSeq(s, 1, k) \o Behind(s, k) = s /\ Behind(s, k) \in Texts
      /\ Len(Behind(s, k)) = Len(s) - k
  BY <1>2, BehindIs
<1>4. <<s[k]>> \in Texts /\ Len(<<s[k]>>) = 1 /\ <<s[k]>>[1] = s[k]
  BY <1>1, OneByte
<1>5. /\ SubSeq(s, k, k) \in Texts /\ Len(SubSeq(s, k, k)) = k - k + 1
      /\ \A j \in 1 .. (k - k + 1) : SubSeq(s, k, k)[j] = s[k + j - 1]
  BY <1>2, PieceOf
<1>6. SubSeq(s, k, k) = <<s[k]>>
  <2> DEFINE t == SubSeq(s, k, k)
             u == <<s[k]>>
  <2>1. t \in Texts /\ Len(t) = 1 /\ t[1] = s[k]
    BY <1>2, <1>5
  <2>2. u \in Texts /\ Len(u) = 1 /\ u[1] = s[k]
    BY <1>4
  <2> HIDE DEF t, u
  <2>3. \A j \in 1 .. Len(t) : t[j] = u[j]
    BY <2>1, <2>2
  <2>4. t = u
    BY <2>1, <2>2, <2>3, SameText
  <2>5. QED BY <2>4 DEF t, u
<1>7. SubSeq(s, 1, k - 1) \o SubSeq(s, (k - 1) + 1, k) = SubSeq(s, 1, k)
  BY <1>2, PiecesJoin
<1>8. /\ SubSeq(s, 1, k - 1) \in Texts /\ Len(SubSeq(s, 1, k - 1)) = (k - 1) - 1 + 1
      /\ \A j \in 1 .. ((k - 1) - 1 + 1) : SubSeq(s, 1, k - 1)[j] = s[1 + j - 1]
  BY <1>2, PieceOf
<1>9. (k - 1) + 1 = k /\ (k - 1) - 1 + 1 = k - 1 /\ \A j \in 1 .. (k - 1) : 1 + j - 1 = j
  BY <1>2
<1>10. QED BY <1>1, <1>3, <1>4, <1>6, <1>7, <1>8, <1>9

\* Only the bytes of the text tell which are left out.
LEMMA SameWithout ==
  ASSUME NEW s \in Texts, NEW off, NEW else, \A k \in 1 .. Len(s) : s[k] \in off <=> s[k] \in else
  PROVE  Without(s, off) = Without(s, else)
<1> DEFINE N == Len(s)
           f == SiftOf(s, off)
           g == SiftOf(s, else)
           G == {n \in 0 .. N : f[n] = g[n]}
<1>1. N \in Nat
  BY TextIs
<1>2. f[0] = g[0]
  BY SiftIs
<1>3. ASSUME NEW n \in 1 .. N, f[n - 1] = g[n - 1] PROVE f[n] = g[n]
  <2>1. /\ f[n] = IF s[n] \in off THEN f[n - 1] ELSE f[n - 1] \o <<s[n]>>
        /\ g[n] = IF s[n] \in else THEN g[n - 1] ELSE g[n - 1] \o <<s[n]>>
    BY SiftIs
  <2> HIDE DEF f, g
  <2>2. QED BY <1>3, <2>1
<1> HIDE DEF f, g, N
<1>4. ASSUME NEW n \in 0 .. N, \A m \in 0 .. (n - 1) : m \in G PROVE n \in G
  <2>1. CASE n = 0
    BY <1>2, <2>1
  <2>2. CASE n # 0
    <3>1. n \in 1 .. N /\ n - 1 \in 0 .. (n - 1)
      BY <1>1, <2>2
    <3>2. QED BY <1>3, <1>4, <3>1
  <2>3. QED BY <2>1, <2>2
<1>5. \A n \in 0 .. N : n \in G
  <2> HIDE DEF G
  <2>1. QED BY <1>1, <1>4, Climb
<1>6. f[N] = g[N]
  BY <1>1, <1>5
<1>7. QED BY <1>6, WithoutIsSift DEF f, g, N

\* Nothing to leave off, nothing to leave in.
Clear(s, off) == \A k \in 1 .. Len(s) : s[k] \notin off
Bare(s, off) == \A k \in 1 .. Len(s) : s[k] \in off
AllOrNone(s, off) == /\ Clear(s, off) => Without(s, off) = s
                     /\ Bare(s, off) => Without(s, off) = <<>>

LEMMA WithoutAllOrNone ==
  ASSUME NEW s \in Texts, NEW off
  PROVE  AllOrNone(s, off)
<1> DEFINE N == Len(s)
           G == {n \in 0 .. N : \A r \in Texts : Len(r) = n => AllOrNone(r, off)}
<1>1. N \in Nat
  BY TextIs
<1>2. ASSUME NEW n \in 0 .. N, \A m \in 0 .. (n - 1) : m \in G PROVE n \in G
  <2> SUFFICES ASSUME NEW r \in Texts, Len(r) = n PROVE AllOrNone(r, off)
    OBVIOUS
  <2>1. CASE n = 0
    <3>1. r = <<>>
      BY <2>1, TextIs
    <3>2. QED BY <3>1, WithoutNothing DEF AllOrNone
  <2>2. CASE n # 0
    <3> DEFINE a == SubSeq(r, 1, n - 1)
               b == <<r[n]>>
    <3>1. n \in 1 .. Len(r) /\ n - 1 \in 0 .. (n - 1)
      BY <2>2
    <3>2. /\ r = (a \o b) \o Behind(r, n) /\ a \in Texts /\ b \in Texts /\ r[n] \in Bytes
          /\ a \o b = SubSeq(r, 1, n) /\ Len(a) = n - 1 /\ \A j \in 1 .. (n - 1) : a[j] = r[j]
      BY <3>1, SplitAround
    <3>3. r = a \o b
      BY <3>2, WholePiece
    <3>4. AllOrNone(a, off)
      BY <1>2, <3>1, <3>2
    <3>5. Without(b, off) = IF r[n] \in off THEN <<>> ELSE b
      BY <3>2, WithoutByte
    <3> HIDE DEF a, b
    <3>6. Without(r, off) = Without(a, off) \o Without(b, off)
      BY <3>2, <3>3, WithoutJoined
    <3>7. n - 1 \in 0 .. n /\ \A j \in 1 .. (n - 1) : j \in 1 .. n
      BY <3>1
    <3>8. ASSUME Clear(r, off) PROVE Without(r, off) = r
      <4>1. Clear(a, off) /\ r[n] \notin off
        BY <3>1, <3>2, <3>7, <3>8 DEF Clear
      <4>2. Without(a, off) = a /\ Without(b, off) = b
        BY <3>4, <3>5, <4>1 DEF AllOrNone
      <4>3. QED BY <3>3, <3>6, <4>2
    <3>9. ASSUME Bare(r, off) PROVE Without(r, off) = <<>>
      <4>1. Bare(a, off) /\ r[n] \in off
        BY <3>1, <3>2, <3>7, <3>9 DEF Bare
      <4>2. <<>> \o <<>> = <<>>
        BY TextIs, EmptySeq DEF Texts
      <4>3. Without(a, off) = <<>> /\ Without(b, off) = <<>>
        BY <3>4, <3>5, <4>1 DEF AllOrNone
      <4>4. QED BY <3>6, <4>2, <4>3
    <3>10. QED BY <3>8, <3>9 DEF AllOrNone
  <2>3. QED BY <2>1, <2>2
<1>3. \A n \in 0 .. N : n \in G
  <2> HIDE DEF G, N
  <2>1. QED BY <1>1, <1>2, Climb
<1>4. N \in G
  BY <1>1, <1>3
<1>5. QED BY <1>4

\* Taking the call blocks off loses no letter and breaks no character.
Intact(s) == /\ Letters(Without(s, {"T"})) = Letters(s)
             /\ Whole(s) => Whole(Without(s, {"T"}))

LEMMA WithoutCalls ==
  ASSUME NEW s \in Texts
  PROVE  Intact(s)
<1> DEFINE N == Len(s)
           G == {n \in 0 .. N : \A r \in Texts : Len(r) = n => Intact(r)}
           off == {"T"}
<1>0. \A x : x \in off <=> x = "T"
  OBVIOUS
<1> HIDE DEF off
<1>1. N \in Nat
  BY TextIs
<1>2. ASSUME NEW n \in 0 .. N, \A m \in 0 .. (n - 1) : m \in G PROVE n \in G
  <2> SUFFICES ASSUME NEW r \in Texts, Len(r) = n PROVE Intact(r)
    OBVIOUS
  <2>1. CASE Clear(r, off)
    <3>1. AllOrNone(r, off)
      BY WithoutAllOrNone
    <3>2. Without(r, off) = r
      BY <2>1, <3>1 DEF AllOrNone
    <3>3. QED BY <3>2 DEF Intact, off
  <2>2. CASE ~Clear(r, off)
    <3>1. PICK k \in 1 .. Len(r) : r[k] = "T"
      BY <1>0, <2>2 DEF Clear
    <3> DEFINE a == SubSeq(r, 1, k - 1)
               b == <<r[k]>>
               c == Behind(r, k)
    <3>2. /\ r = (a \o b) \o c /\ a \in Texts /\ b \in Texts /\ c \in Texts /\ r[k] \in Bytes
          /\ a \o b = SubSeq(r, 1, k) /\ Len(a) = k - 1 /\ Len(c) = Len(r) - k
      BY SplitAround
    <3>3. k - 1 \in 0 .. (n - 1) /\ n - k \in 0 .. (n - 1)
      BY <1>1, <3>1
    <3>4. Without(b, off) = <<>> /\ Len(b) = 1 /\ b[1] = "T"
      BY <1>0, <3>1, <3>2, WithoutByte, OneByte
    <3>5. ASSUME Whole(r) PROVE Whole(a) /\ Whole(c)
      <4>1. k - 1 \in 0 .. Len(r) /\ k \in 0 .. Len(r) /\ (k - 1) + 1 = k
        BY <3>1
      <4>2. Whole(a)
        BY <3>1, <3>5, <4>1, WholeCut
      <4>3. k < Len(r) => r[k + 1] # "c"
        BY <3>1, <3>5, CutBehindPlain
      <4>4. Whole(c)
        BY <3>5, <4>1, <4>3, WholeCut
      <4>5. QED BY <4>2, <4>4
    <3> HIDE DEF a, b, c
    <3>6. Intact(a) /\ Intact(c)
      BY <1>2, <3>2, <3>3
    <3> DEFINE aw == Without(a, off)
               cw == Without(c, off)
    <3>7. aw \in Texts /\ cw \in Texts /\ aw \o <<>> = aw
      BY <3>2, WithoutIs, TextIs
    <3>8. Without(r, off) = aw \o cw
      <4>0. a \in Texts /\ b \in Texts
        BY <3>2
      <4>1. Without(a \o b, off) = aw \o Without(b, off)
        BY <4>0, WithoutJoined
      <4>5. a \o b \in Texts
        BY <4>0, Joined
      <4> HIDE DEF aw, cw
      <4>2. Without(r, off) = Without(a \o b, off) \o cw
        BY <3>2, <4>5, WithoutJoined DEF cw
      <4>3. QED BY <3>4, <3>7, <4>1, <4>2
    <3>9. Letters(b) = 0
      BY <3>2, <3>4, NoLetters DEF Ink3
    <3>10. Letters(r) = Letters(a) + Letters(b) + Letters(c)
      <4>1. Letters(a \o b) = Letters(a) + Letters(b) /\ a \o b \in Texts
        BY <3>2, LettersJoined, Joined
      <4>2. QED BY <3>2, <4>1, LettersJoined
    <3>11. Letters(aw) = Letters(a) /\ Letters(cw) = Letters(c) /\ Letters(a) \in Nat /\ Letters(c) \in Nat
      BY <3>2, <3>6, PrintedIs DEF Intact, off
    <3> HIDE DEF aw, cw
    <3>12. Letters(aw \o cw) = Letters(aw) + Letters(cw)
      BY <3>7, LettersJoined
    <3>13. Letters(Without(r, off)) = Letters(r)
      BY <3>8, <3>9, <3>10, <3>11, <3>12
    <3>14. ASSUME Whole(r) PROVE Whole(Without(r, off))
      <4>1. Whole(aw) /\ Whole(cw)
        BY <3>5, <3>6, <3>14 DEF Intact, aw, cw, off
      <4>2. QED BY <3>7, <3>8, <4>1, WholeJoined
    <3>15. QED BY <3>13, <3>14 DEF Intact, off
  <2>3. QED BY <2>1, <2>2
<1>3. \A n \in 0 .. N : n \in G
  <2> HIDE DEF G, N
  <2>1. QED BY <1>1, <1>2, Climb
<1>4. N \in G
  BY <1>1, <1>3
<1>5. QED BY <1>4
---------------------------------------------------------------------------
(* The head and the end of an answer. *)

LEMMA SkipBlankIs ==
  ASSUME NEW s \in Texts
  PROVE  \E n \in 0 .. Len(s) : /\ SkipBlank(s) = Behind(s, n)
                                /\ \A k \in 1 .. n : s[k] = "n"
<1> DEFINE ink == {k \in 1 .. Len(s) : s[k] # "n"}
<1>1. Len(s) \in Nat /\ DOMAIN s = 1 .. Len(s)
  BY TextIs
<1>2. SkipBlank(s) = IF ink = {} THEN <<>> ELSE SubSeq(s, Min(ink), Len(s))
  BY <1>1 DEF SkipBlank
<1>3. CASE ink = {}
  <2>1. Len(s) \in 0 .. Len(s)
    BY <1>1
  <2>2. Behind(s, Len(s)) = <<>>
    <3>1. Behind(s, Len(s)) \in Texts /\ Len(Behind(s, Len(s))) = Len(s) - Len(s)
      BY <2>1, BehindIs
    <3>2. QED BY <1>1, <3>1, TextIs
  <2>3. QED BY <1>2, <1>3, <2>1, <2>2
<1>4. CASE ink # {}
  <2> DEFINE m == Min(ink)
  <2>1. ink \subseteq Nat
    BY <1>1
  <2>2. m \in ink /\ \A y \in ink : m <= y
    <3> HIDE DEF ink
    <3>1. QED BY <1>4, <2>1, LeastOf
  <2> HIDE DEF m
  <2>3. m - 1 \in 0 .. Len(s) /\ (m - 1) + 1 = m
    BY <1>1, <2>2
  <2>4. \A k \in 1 .. (m - 1) : s[k] = "n"
    BY <1>1, <2>2
  <2>5. SkipBlank(s) = Behind(s, m - 1)
    BY <1>2, <1>4, <2>3 DEF Behind, m
  <2>6. QED BY <2>3, <2>4, <2>5
<1>5. QED BY <1>3, <1>4

Fore(s, n) == n \in 0 .. Len(s) /\ \A k \in 1 .. n : s[k] \in {"n", "H"}

LEMMA clean_prefixIs ==
  ASSUME NEW s \in Texts
  PROVE  \E n \in 0 .. Len(s) : clean_prefix(s) = Behind(s, n) /\ Fore(s, n)
<1>1. PICK n \in 0 .. Len(s) : SkipBlank(s) = Behind(s, n) /\ \A k \in 1 .. n : s[k] = "n"
  BY SkipBlankIs
<1> DEFINE t == Behind(s, n)
<1>2. Len(s) \in Nat
  BY TextIs
<1>3. t \in Texts /\ Len(t) = Len(s) - n /\ \A k \in 1 .. (Len(s) - n) : t[k] = s[n + k]
  BY BehindIs
<1> HIDE DEF t
<1>4. clean_prefix(s) = IF t # <<>> /\ t[1] = "H" THEN SkipBlank(Tail(t)) ELSE t
  BY <1>1 DEF clean_prefix, t
<1>5. CASE ~(t # <<>> /\ t[1] = "H")
  <2>1. Fore(s, n)
    BY <1>1 DEF Fore
  <2>2. clean_prefix(s) = Behind(s, n)
    BY <1>4, <1>5 DEF t
  <2>3. QED BY <2>1, <2>2
<1>6. CASE t # <<>> /\ t[1] = "H"
  <2> DEFINE r == Behind(s, n + 1)
  <2>1. 1 \in 1 .. Len(t) /\ n + 1 \in 0 .. Len(s)
    BY <1>2, <1>3, <1>6, TextIs
  <2>2. Tail(t) = SubSeq(t, 2, Len(t))
    BY <1>3, <1>6, TailIsSubSeq DEF Texts
  <2>3. SubSeq(t, 2, Len(t)) = r
    <3> DEFINE a == n + 1
               b == Len(s)
               m == 2
               l == Len(t)
    <3>1. /\ a \in 1 .. (Len(s) + 1) /\ b \in (a - 1) .. Len(s) /\ m \in 1 .. (b - a + 2)
          /\ l \in (m - 1) .. (b - a + 1) /\ a + m - 1 = (n + 1) + 1 /\ a + l - 1 = Len(s)
      BY <1>2, <1>3, <2>1
    <3> HIDE DEF a, b, m, l
    <3>2. SubSeq(SubSeq(s, a, b), m, l) = SubSeq(s, a + m - 1, a + l - 1)
      BY <3>1, PieceOfPiece
    <3>3. QED BY <3>1, <3>2 DEF a, b, m, l, t, Behind
  <2>4. r \in Texts /\ Len(r) = Len(s) - (n + 1) /\ \A k \in 1 .. (Len(s) - (n + 1)) : r[k] = s[(n + 1) + k]
    BY <2>1, BehindIs
  <2> HIDE DEF r
  <2>5. PICK j \in 0 .. Len(r) : SkipBlank(r) = Behind(r, j) /\ \A k \in 1 .. j : r[k] = "n"
    BY <2>4, SkipBlankIs
  <2> DEFINE p == n + 1 + j
  <2>6. p \in 0 .. Len(s)
    BY <1>2, <2>1, <2>4, <2>5
  <2>7. Behind(r, j) = Behind(s, p)
    <3> DEFINE a == (n + 1) + 1
               b == Len(s)
               m == j + 1
               l == Len(r)
    <3>1. /\ a \in 1 .. (Len(s) + 1) /\ b \in (a - 1) .. Len(s) /\ m \in 1 .. (b - a + 2)
          /\ l \in (m - 1) .. (b - a + 1) /\ a + m - 1 = p + 1 /\ a + l - 1 = Len(s)
      BY <1>2, <2>1, <2>4, <2>5
    <3> HIDE DEF a, b, m, l, p
    <3>2. SubSeq(SubSeq(s, a, b), m, l) = SubSeq(s, a + m - 1, a + l - 1)
      BY <3>1, PieceOfPiece
    <3>3. QED BY <3>1, <3>2 DEF a, b, m, l, r, Behind
  <2>8. ASSUME NEW k \in 1 .. p PROVE s[k] \in {"n", "H"}
    <3>1. k \in Int /\ (k <= n \/ k = n + 1 \/ k > n + 1)
      BY <1>2, <2>1
    <3>2. CASE k <= n
      BY <1>1, <3>2
    <3>3. CASE k = n + 1
      BY <1>2, <1>3, <1>6, <2>1, <3>3
    <3>4. CASE k > n + 1
      <4>1. k - (n + 1) \in 1 .. j /\ k - (n + 1) \in 1 .. (Len(s) - (n + 1)) /\ (n + 1) + (k - (n + 1)) = k
        BY <1>2, <2>1, <2>4, <2>5, <3>1, <3>4
      <4>2. QED BY <2>4, <2>5, <4>1
    <3>5. QED BY <3>1, <3>2, <3>3, <3>4
  <2>9. clean_prefix(s) = Behind(s, p)
    BY <1>4, <1>6, <2>2, <2>3, <2>5, <2>7
  <2>10. Fore(s, p)
    BY <2>6, <2>8 DEF Fore
  <2> HIDE DEF p
  <2>11. QED BY <2>6, <2>9, <2>10
<1>7. QED BY <1>5, <1>6


Ending(t, s) == \E n \in 0 .. Len(s) : t = Behind(s, n)

LEMMA ForeIs ==
  ASSUME NEW s \in Texts, NEW n \in 0 .. Len(s), Fore(s, n)
  PROVE  LET t == Behind(s, n)
             h == SubSeq(s, 1, n)
         IN /\ t \in Texts /\ h \in Texts /\ s = h \o t
            /\ Letters(t) = Letters(s) /\ Ink(t) = Ink(s) /\ (Whole(s) => Whole(t))
<1> DEFINE t == Behind(s, n)
           h == SubSeq(s, 1, n)
<1>1. Len(s) \in Nat /\ n \in Nat
  BY TextIs
<1>2. t \in Texts /\ h \in Texts /\ h \o t = s
  BY BehindIs
<1>3. Len(h) = n /\ \A k \in 1 .. n : h[k] \in {"n", "H"}
  <2>1. 1 \in 1 .. (Len(s) + 1) /\ n \in (1 - 1) .. Len(s)
    BY <1>1
  <2>2. Len(h) = n - 1 + 1 /\ \A k \in 1 .. (n - 1 + 1) : h[k] = s[1 + k - 1]
    BY <2>1, PieceOf
  <2>3. QED BY <1>1, <2>2 DEF Fore
<1>4. Whole(s) => Whole(t)
  <2>1. SUFFICES ASSUME Whole(s) PROVE Whole(t)
    OBVIOUS
  <2>2. CASE n = 0
    BY <2>1, <2>2, WholePiece
  <2>3. CASE n # 0
    <3>1. n \in 1 .. Len(s) /\ s[n] \notin {"3", "c"}
      BY <1>1, <2>3 DEF Fore
    <3>2. n < Len(s) => s[n + 1] # "c"
      BY <2>1, <3>1, CutBehindPlain
    <3>3. QED BY <2>1, <3>2, WholeCut
  <2>4. QED BY <2>2, <2>3
<1> HIDE DEF t, h
<1>5. Letters(t) = Letters(s)
  <2>1. Letters(h) = 0
    BY <1>2, <1>3, NoLetters DEF Ink3
  <2>2. Letters(s) = Letters(h) + Letters(t)
    BY <1>2, LettersJoined
  <2>3. QED BY <1>2, <2>1, <2>2, PrintedIs
<1>6. Ink(t) = Ink(s)
  <2> DEFINE off == {"n", "H"}
  <2>1. Bare(h, off)
    BY <1>3 DEF Bare
  <2> HIDE DEF off
  <2>2. Without(h, off) = <<>>
    <3>1. AllOrNone(h, off)
      BY <1>2, WithoutAllOrNone
    <3>2. QED BY <2>1, <3>1 DEF AllOrNone
  <2>3. Without(s, off) = Without(h, off) \o Without(t, off)
    <3>1. Without(h \o t, off) = Without(h, off) \o Without(t, off)
      BY <1>2, WithoutJoined, ZenonT(30)
    <3>2. QED BY <1>2, <3>1
  <2>4. <<>> \o Without(t, off) = Without(t, off)
    BY <1>2, WithoutIs, TextIs
  <2>5. QED BY <2>2, <2>3, <2>4 DEF Ink, off
<1>7. QED BY <1>2, <1>4, <1>5, <1>6 DEF t, h

LEMMA Cleaned ==
  ASSUME NEW s \in Texts
  PROVE  /\ clean_prefix(s) \in Texts /\ Ending(clean_prefix(s), s)
         /\ Letters(clean_prefix(s)) = Letters(s) /\ Ink(clean_prefix(s)) = Ink(s)
         /\ Whole(s) => Whole(clean_prefix(s))
<1>1. PICK n \in 0 .. Len(s) : clean_prefix(s) = Behind(s, n) /\ Fore(s, n)
  BY clean_prefixIs
<1>2. LET t == Behind(s, n)
          h == SubSeq(s, 1, n)
      IN /\ t \in Texts /\ h \in Texts /\ s = h \o t
         /\ Letters(t) = Letters(s) /\ Ink(t) = Ink(s) /\ (Whole(s) => Whole(t))
  BY <1>1, ForeIs
<1>3. QED BY <1>1, <1>2 DEF Ending

\* Cutting white space off the end.
LEMMA CutBack ==
  ASSUME NEW t \in Texts, NEW m \in 0 .. Len(t), \A k \in (m + 1) .. Len(t) : t[k] = "n"
  PROVE  LET r == SubSeq(t, 1, m)
         IN /\ r \in Texts /\ Len(r) = m /\ (\A k \in 1 .. m : r[k] = t[k])
            /\ Letters(r) = Letters(t) /\ (Whole(t) => Whole(r))
<1> DEFINE r == SubSeq(t, 1, m)
           e == Behind(t, m)
<1>1. Len(t) \in Nat /\ m \in Nat
  BY TextIs
<1>2. e \in Texts /\ Len(e) = Len(t) - m /\ r \in Texts /\ r \o e = t
      /\ \A k \in 1 .. (Len(t) - m) : e[k] = t[m + k]
  BY BehindIs
<1>3. Len(r) = m /\ \A k \in 1 .. m : r[k] = t[k]
  <2>1. 1 \in 1 .. (Len(t) + 1) /\ m \in (1 - 1) .. Len(t)
    BY <1>1
  <2>2. Len(r) = m - 1 + 1 /\ \A k \in 1 .. (m - 1 + 1) : r[k] = t[1 + k - 1]
    BY <2>1, PieceOf
  <2>3. QED BY <1>1, <2>2
<1>4. Whole(t) => Whole(r)
  <2>1. m < Len(t) => t[m + 1] # "c"
    BY <1>1
  <2>2. QED BY <2>1, WholeCut
<1>5. \A k \in 1 .. Len(e) : e[k] = "n"
  BY <1>1, <1>2
<1> HIDE DEF r, e
<1>6. Letters(r) = Letters(t)
  <2>1. Letters(e) = 0
    BY <1>2, <1>5, NoLetters DEF Ink3
  <2>2. Letters(t) = Letters(r) + Letters(e)
    BY <1>2, LettersJoined
  <2>3. QED BY <1>2, <2>1, <2>2, PrintedIs
<1>7. QED BY <1>2, <1>3, <1>4, <1>6 DEF r

\* What stands before a block that nothing closes.
LEMMA BeforeUnclosed ==
  ASSUME NEW w \in Texts, NEW open, open = {k \in 1 .. Len(w) : w[k] = "U"}
  PROVE  LET u == IF open = {} THEN w ELSE SubSeq(w, 1, Min(open) - 1)
         IN /\ u \in Texts /\ (Whole(w) => Whole(u)) /\ (open = {} => u = w)
            /\ \A k \in 1 .. Len(u) : u[k] # "U"
<1>1. Len(w) \in Nat
  BY TextIs
<1>2. CASE open = {}
  BY <1>2
<1>3. CASE open # {}
  <2> DEFINE m == Min(open)
  <2>1. m \in open /\ \A y \in open : m <= y
    <3>1. open \subseteq Nat
      OBVIOUS
    <3>2. QED BY <1>3, <3>1, LeastOf
  <2> HIDE DEF m
  <2>2. m \in 1 .. Len(w) /\ m - 1 \in 0 .. Len(w) /\ w[m] = "U" /\ (m - 1) + 1 = m
    BY <1>1, <2>1
  <2> DEFINE u == SubSeq(w, 1, m - 1)
  <2>3. u \in Texts /\ Len(u) = m - 1 /\ \A k \in 1 .. (m - 1) : u[k] = w[k]
    BY <2>2, SplitAround
  <2>4. Whole(w) => Whole(u)
    BY <2>2, WholeCut
  <2> HIDE DEF u
  <2>5. ASSUME NEW k \in 1 .. Len(u) PROVE u[k] # "U"
    <3>1. k \in 1 .. (m - 1) /\ k \in 1 .. Len(w) /\ ~(m <= k) /\ u[k] = w[k]
      BY <1>1, <2>2, <2>3
    <3>2. k \notin open
      BY <2>1, <3>1
    <3>3. QED BY <3>1, <3>2
  <2>6. QED BY <1>3, <2>3, <2>4, <2>5 DEF u, m
<1>4. QED BY <1>2, <1>3

LEMMA Stripped ==
  ASSUME NEW s \in Texts
  PROVE  /\ strip_tool_markup(s) \in Texts
         /\ Openings(s) = {} => Letters(strip_tool_markup(s)) = Letters(s)
         /\ Whole(s) => Whole(strip_tool_markup(s))
         /\ \A k \in 1 .. Len(strip_tool_markup(s)) : strip_tool_markup(s)[k] \notin {"T", "U"}
<1> DEFINE open == Openings(s)
           u == IF open = {} THEN s ELSE SubSeq(s, 1, Min(open) - 1)
           w == Without(u, {"T"})
           t == clean_prefix(w)
           ink == {k \in 1 .. Len(t) : t[k] # "n"}
           r == strip_tool_markup(s)
<1>0. /\ u \in Texts /\ (Whole(s) => Whole(u)) /\ (open = {} => u = s)
      /\ \A k \in 1 .. Len(u) : u[k] # "U"
  <2>1. open = {k \in 1 .. Len(s) : s[k] = "U"}
    BY TextIs DEF Openings
  <2> HIDE DEF open
  <2>2. QED BY <2>1, BeforeUnclosed
<1> HIDE DEF open, u
<1>1. w \in Texts /\ \A k \in 1 .. Len(w) : w[k] \notin {"T", "U"}
  <2>1. w = Without(u, {"T", "U"})
    BY <1>0, SameWithout
  <2>2. QED BY <1>0, <2>1, WithoutIs
<1>2. Letters(w) = Letters(u) /\ (Whole(u) => Whole(w))
  BY <1>0, WithoutCalls DEF Intact
<1> HIDE DEF w
<1>3. PICK n \in 0 .. Len(w) : t = Behind(w, n) /\ Fore(w, n)
  BY <1>1, clean_prefixIs
<1>4. t \in Texts /\ Letters(t) = Letters(w) /\ (Whole(w) => Whole(t))
  BY <1>1, Cleaned
<1>5. \A k \in 1 .. Len(t) : t[k] \notin {"T", "U"}
  <2>1. Len(w) \in Nat
    BY <1>1, TextIs
  <2>2. Len(t) = Len(w) - n /\ \A k \in 1 .. (Len(w) - n) : t[k] = w[n + k]
    BY <1>1, <1>3, BehindIs
  <2>3. QED BY <1>1, <2>1, <2>2
<1> HIDE DEF t
<1>6. Len(t) \in Nat /\ DOMAIN t = 1 .. Len(t)
  BY <1>4, TextIs
<1>7. r = IF ink = {} THEN <<>> ELSE SubSeq(t, 1, Max(ink))
  BY <1>6 DEF strip_tool_markup, t, w, u, open
<1> HIDE DEF r
<1>8. \E m \in 0 .. Len(t) : r = SubSeq(t, 1, m) /\ \A k \in (m + 1) .. Len(t) : t[k] = "n"
  <2>1. CASE ink = {}
    <3>1. SubSeq(t, 1, 0) = <<>>
      BY SubSeqEmpty
    <3>2. \A k \in (0 + 1) .. Len(t) : t[k] = "n"
      BY <1>6, <2>1
    <3>3. 0 \in 0 .. Len(t)
      BY <1>6
    <3>4. QED BY <1>7, <2>1, <3>1, <3>2, <3>3
  <2>2. CASE ink # {}
    <3> DEFINE m == Max(ink)
    <3>1. ink \subseteq 0 .. Len(t)
      BY <1>6
    <3>2. m \in ink /\ \A y \in ink : y <= m
      <4> HIDE DEF ink
      <4>1. QED BY <1>6, <2>2, <3>1, GreatestOf
    <3> HIDE DEF m
    <3>3. \A k \in (m + 1) .. Len(t) : t[k] = "n"
      BY <1>6, <3>2
    <3>4. m \in 0 .. Len(t)
      BY <1>6, <3>2
    <3>5. QED BY <1>7, <2>2, <3>3, <3>4 DEF m
  <2>3. QED BY <2>1, <2>2
<1>9. PICK m \in 0 .. Len(t) : r = SubSeq(t, 1, m) /\ \A k \in (m + 1) .. Len(t) : t[k] = "n"
  BY <1>8
<1>10. /\ r \in Texts /\ Len(r) = m /\ (\A k \in 1 .. m : r[k] = t[k])
       /\ Letters(r) = Letters(t) /\ (Whole(t) => Whole(r))
  BY <1>4, <1>9, CutBack
<1>11. \A k \in 1 .. Len(r) : r[k] \notin {"T", "U"}
  BY <1>5, <1>6, <1>10
<1>12. QED BY <1>0, <1>2, <1>4, <1>10, <1>11 DEF r, open

---------------------------------------------------------------------------
(* The splitter. *)

Parted == [content : Texts, reasoning : Texts, think : BOOLEAN, buf : Texts]
Weight(p) == Letters(p.content) + Letters(p.reasoning) + Letters(p.buf)
AllWhole(p) == Whole(p.content) /\ Whole(p.reasoning) /\ Whole(p.buf)

LEMMA TagIs ==
  ASSUME NEW think \in BOOLEAN
  PROVE  LET tag == Tag(think)
         IN /\ tag \in Texts /\ Len(tag) = 3 /\ tag[1] = "<" /\ tag[3] = ">"
            /\ tag[2] \in {"t", "/"}
<1>1. \A x \in {"t", "/"} : <<"<", x, ">">> \in Texts
  BY DEF Texts, Bytes
<1>2. QED BY <1>1 DEF Tag, Open, Close

LEMMA AddIs ==
  ASSUME NEW think \in BOOLEAN, NEW s \in Texts, NEW p \in Parted
  PROVE  /\ Add(think, s, p) \in Parted
         /\ Weight(Add(think, s, p)) = Letters(s) + Weight(p)
         /\ Whole(s) /\ AllWhole(p) => AllWhole(Add(think, s, p))
<1> DEFINE q == Add(think, s, p)
<1>1. p.content \in Texts /\ p.reasoning \in Texts /\ p.buf \in Texts
  BY DEF Parted
<1>2. s \o p.content \in Texts /\ s \o p.reasoning \in Texts
  BY <1>1, Joined
<1>3. /\ q \in Parted /\ q.buf = p.buf
      /\ think => q.content = p.content /\ q.reasoning = s \o p.reasoning
      /\ ~think => q.content = s \o p.content /\ q.reasoning = p.reasoning
  <2>1. CASE think
    BY <1>2, <2>1 DEF Add, Parted
  <2>2. CASE ~think
    BY <1>2, <2>2 DEF Add, Parted
  <2>3. QED BY <2>1, <2>2
<1> HIDE DEF q
<1>4. /\ Letters(s \o p.content) = Letters(s) + Letters(p.content)
      /\ Letters(s \o p.reasoning) = Letters(s) + Letters(p.reasoning)
  BY <1>1, LettersJoined
<1>5. Letters(s) \in Nat /\ Letters(p.content) \in Nat /\ Letters(p.reasoning) \in Nat /\ Letters(p.buf) \in Nat
  BY <1>1, PrintedIs
<1>6. Weight(q) = Letters(s) + Weight(p)
  <2>1. CASE think
    <3>1. /\ Letters(q.content) = Letters(p.content) /\ Letters(q.reasoning) = Letters(s) + Letters(p.reasoning)
          /\ Letters(q.buf) = Letters(p.buf)
      BY <1>3, <1>4, <2>1
    <3>2. Weight(q) = (Letters(p.content)) + (Letters(s) + Letters(p.reasoning)) + Letters(p.buf)
      BY <3>1 DEF Weight
    <3>3. Weight(p) = Letters(p.content) + Letters(p.reasoning) + Letters(p.buf)
      BY DEF Weight
    <3>4. QED BY <1>5, <3>2, <3>3
  <2>2. CASE ~think
    <3>1. /\ Letters(q.content) = Letters(s) + Letters(p.content) /\ Letters(q.reasoning) = Letters(p.reasoning)
          /\ Letters(q.buf) = Letters(p.buf)
      BY <1>3, <1>4, <2>2
    <3>2. Weight(q) = (Letters(s) + Letters(p.content)) + (Letters(p.reasoning)) + Letters(p.buf)
      BY <3>1 DEF Weight
    <3>3. Weight(p) = Letters(p.content) + Letters(p.reasoning) + Letters(p.buf)
      BY DEF Weight
    <3>4. QED BY <1>5, <3>2, <3>3
  <2>3. QED BY <2>1, <2>2
<1>7. ASSUME Whole(s), AllWhole(p) PROVE AllWhole(q)
  <2>1. Whole(s \o p.content) /\ Whole(s \o p.reasoning)
    BY <1>1, <1>7, WholeJoined DEF AllWhole
  <2>2. QED BY <1>3, <1>7, <2>1 DEF AllWhole
<1>8. QED BY <1>3, <1>6, <1>7 DEF q

\* The bytes kept at the end begin like the tag.
LEMMA KeepIs ==
  ASSUME NEW b \in Texts, NEW think \in BOOLEAN
  PROVE  LET k == Keep(b, Tag(think))
         IN k \in 0 .. Len(b) /\ (k # 0 => b[Len(b) - k + 1] = "<")
<1> DEFINE tag == Tag(think)
           ks == {k \in 1 .. (Len(tag) - 1) :
                    k < Len(b) /\ SubSeq(b, Len(b) - k + 1, Len(b)) = SubSeq(tag, 1, k)}
<1>1. tag \in Texts /\ Len(tag) = 3 /\ tag[1] = "<"
  BY TagIs
<1>2. Len(b) \in Nat
  BY TextIs
<1> DEFINE held == Keep(b, tag)
<1>3. held = IF ks = {} THEN 0 ELSE Min(ks)
  BY DEF Keep
<1> HIDE DEF tag, held
<1> SUFFICES held \in 0 .. Len(b) /\ (held # 0 => b[Len(b) - held + 1] = "<")
  BY DEF held, tag
<1>4. CASE ks = {}
  BY <1>2, <1>3, <1>4
<1>5. CASE ks # {}
  <2> DEFINE k == Min(ks)
  <2>1. ks \subseteq Nat
    BY <1>1
  <2>2. k \in ks
    <3> HIDE DEF ks
    <3>1. QED BY <1>5, <2>1, LeastOf
  <2> HIDE DEF k
  <2>3. k \in 1 .. 2 /\ k < Len(b) /\ SubSeq(b, Len(b) - k + 1, Len(b)) = SubSeq(tag, 1, k)
    BY <1>1, <2>2
  <2>4. Len(b) - k + 1 \in 1 .. (Len(b) + 1) /\ Len(b) \in ((Len(b) - k + 1) - 1) .. Len(b)
        /\ 1 \in 1 .. (Len(tag) + 1) /\ k \in (1 - 1) .. Len(tag) /\ 1 \in 1 .. (k - 1 + 1)
        /\ 1 \in 1 .. (Len(b) - (Len(b) - k + 1) + 1) /\ (Len(b) - k + 1) + 1 - 1 = Len(b) - k + 1
    BY <1>1, <1>2, <2>3
  <2>5. SubSeq(tag, 1, k)[1] = tag[1 + 1 - 1]
    BY <1>1, <2>4, PieceOf
  <2>6. SubSeq(b, Len(b) - k + 1, Len(b))[1] = b[(Len(b) - k + 1) + 1 - 1]
    <3> DEFINE m == Len(b) - k + 1
               l == Len(b)
    <3>1. m \in 1 .. (Len(b) + 1) /\ l \in (m - 1) .. Len(b) /\ 1 \in 1 .. (l - m + 1)
      BY <2>4
    <3> HIDE DEF m, l
    <3>2. SubSeq(b, m, l)[1] = b[m + 1 - 1]
      BY <3>1, PieceOf
    <3>3. QED BY <3>2 DEF m, l
  <2>7. b[Len(b) - k + 1] = "<"
    BY <1>1, <2>3, <2>4, <2>5, <2>6
  <2>8. held = k
    BY <1>3, <1>5 DEF k
  <2>9. QED BY <1>2, <2>3, <2>7, <2>8
<1>6. QED BY <1>4, <1>5

LEMMA HoldBackIs ==
  ASSUME NEW think \in BOOLEAN, NEW rest \in Texts
  PROVE  /\ HoldBack(think, rest) \in Parted
         /\ Weight(HoldBack(think, rest)) = Letters(rest)
         /\ Whole(rest) => AllWhole(HoldBack(think, rest))
<1> DEFINE k == Keep(rest, Tag(think))
           n == Len(rest) - k
           a == SubSeq(rest, 1, n)
           b == SubSeq(rest, n + 1, Len(rest))
           p == [content |-> <<>>, reasoning |-> <<>>, think |-> think, buf |-> b]
<1>1. k \in 0 .. Len(rest) /\ (k # 0 => rest[Len(rest) - k + 1] = "<") /\ Len(rest) \in Nat
  BY KeepIs, TextIs
<1>2. HoldBack(think, rest) = Add(think, a, p)
  BY DEF HoldBack
<1> HIDE DEF k
<1>3. n \in 0 .. Len(rest) /\ (n < Len(rest) => rest[n + 1] # "c")
  BY <1>1
<1> HIDE DEF n
<1>4. b = Behind(rest, n)
  BY DEF Behind
<1>5. a \in Texts /\ b \in Texts /\ rest = a \o b
  BY <1>3, <1>4, BehindIs
<1>6. Whole(rest) => Whole(a) /\ Whole(b)
  BY <1>3, <1>4, WholeCut
<1> HIDE DEF a, b
<1>7. Letters(rest) = Letters(a) + Letters(b) /\ Letters(a) \in Nat /\ Letters(b) \in Nat
  BY <1>5, LettersJoined, PrintedIs
<1>8. <<>> \in Texts /\ Letters(<<>>) = 0
  <2>1. <<>> \in Texts /\ Len(<<>>) = 0
    BY EmptySeq DEF Texts
  <2>2. QED BY <2>1, NoLetters
<1>9. p \in Parted /\ p.content = <<>> /\ p.reasoning = <<>> /\ p.buf = b
  BY <1>5, <1>8 DEF Parted
<1> HIDE DEF p
<1>10. Weight(p) = Letters(b)
  BY <1>7, <1>8, <1>9 DEF Weight
<1>11. Whole(b) => AllWhole(p)
  BY <1>9, WholeNothing DEF AllWhole
<1>12. QED BY <1>2, <1>5, <1>6, <1>7, <1>9, <1>10, <1>11, AddIs

NextAt(b, at) == Min(Hits(b, at[1], at[2])) + Len(Tag(at[1]))
Before(b, at) == SubSeq(b, at[2], Min(Hits(b, at[1], at[2])) - 1)
Rest(b, at)   == Behind(b, at[2] - 1)
Spots(b)      == BOOLEAN \X (1 .. (Len(b) + 1))

\* A tag splits the rest into what is before it, the tag and what is behind it.
LEMMA HitIs ==
  ASSUME NEW b \in Texts, NEW at \in Spots(b), Hits(b, at[1], at[2]) # {}
  PROVE  /\ <<~at[1], NextAt(b, at)>> \in Spots(b) /\ NextAt(b, at) > at[2]
         /\ NextAt(b, at) \in 1 .. (Len(b) + 1)
         /\ Before(b, at) \in Texts
         /\ Letters(Rest(b, at)) = Letters(Before(b, at)) + Letters(Behind(b, NextAt(b, at) - 1))
         /\ Whole(Rest(b, at)) => Whole(Before(b, at)) /\ Whole(Behind(b, NextAt(b, at) - 1))
<1> DEFINE tag == Tag(at[1])
           hits == Hits(b, at[1], at[2])
           m == Min(hits)
           st == at[2]
<1>1. Len(b) \in Nat /\ st \in 1 .. (Len(b) + 1) /\ at[1] \in BOOLEAN
  BY TextIs DEF Spots
<1>2. tag \in Texts /\ Len(tag) = 3 /\ tag[1] = "<" /\ tag[3] = ">" /\ tag[2] \in {"t", "/"}
  BY <1>1, TagIs
<1>3. hits = {p \in st .. (Len(b) - 2) : SubSeq(b, p, p + 2) = tag}
  BY <1>1, <1>2 DEF Hits
<1>4. m \in hits
  <2>1. hits \subseteq Nat
    BY <1>1, <1>3
  <2> HIDE DEF hits
  <2>2. hits # {}
    BY DEF hits
  <2>3. QED BY <2>1, <2>2, LeastOf
<1>5. m \in st .. (Len(b) - 2) /\ SubSeq(b, m, m + 2) = tag
  BY <1>3, <1>4
<1>6. NextAt(b, at) = m + 3 /\ Before(b, at) = SubSeq(b, st, m - 1) /\ Rest(b, at) = Behind(b, st - 1)
  BY <1>2 DEF NextAt, Before, Rest
<1> HIDE DEF m, hits, tag, st
<1> DEFINE r == Behind(b, st - 1)
           x == SubSeq(b, st, m - 1)
           z == Behind(b, m + 2)
<1>7. /\ st - 1 \in 0 .. Len(b) /\ m - 1 \in (st - 1) .. Len(b) /\ m + 2 \in 0 .. Len(b)
      /\ m \in 1 .. (Len(b) + 1) /\ m + 2 \in (m - 1) .. Len(b) /\ (m - 1) + 1 = m
      /\ (st - 1) + 1 = st /\ m + 2 \in (st - 1) .. Len(b) /\ (m + 2) + 1 = m + 3
      /\ Len(b) \in (m + 2) .. Len(b) /\ m + 2 \in (m - 1) .. Len(b) /\ (m + 2) - m + 1 = 3
      /\ m + 3 - 1 = m + 2
  BY <1>1, <1>5
<1>8. x \in Texts
  BY <1>1, <1>7, PieceOf
<1>9. r \in Texts /\ z \in Texts /\ r = SubSeq(b, st, Len(b)) /\ z = SubSeq(b, m + 3, Len(b))
  BY <1>7, BehindIs DEF Behind
<1>10. r = (x \o tag) \o z
  <2>1. x \o SubSeq(b, (m - 1) + 1, m + 2) = SubSeq(b, st, m + 2)
    BY <1>1, <1>7, PiecesJoin
  <2>2. SubSeq(b, st, m + 2) \o SubSeq(b, (m + 2) + 1, Len(b)) = SubSeq(b, st, Len(b))
    BY <1>1, <1>7, PiecesJoin
  <2>3. QED BY <1>5, <1>7, <1>9, <2>1, <2>2
<1>11. b[m] = "<" /\ b[m + 2] = ">"
  <2>1. \A k \in 1 .. 3 : SubSeq(b, m, m + 2)[k] = b[m + k - 1]
    BY <1>7, PieceOf
  <2>2. 1 \in 1 .. 3 /\ 3 \in 1 .. 3 /\ m + 1 - 1 = m /\ m + 3 - 1 = m + 2
    BY <1>7
  <2>3. QED BY <1>2, <1>5, <2>1, <2>2
<1> HIDE DEF r, x, z
<1>12. Letters(r) = Letters(x) + Letters(z)
  <2>1. \A k \in 1 .. Len(tag) : tag[k] \notin Ink3
    <3>1. \A k \in 1 .. 3 : k = 1 \/ k = 2 \/ k = 3
      OBVIOUS
    <3>2. QED BY <1>2, <3>1 DEF Ink3
  <2>2. Letters(tag) = 0
    BY <1>2, <2>1, NoLetters
  <2>3. Letters(x \o tag) = Letters(x) + Letters(tag)
    BY <1>2, <1>8, LettersJoined
  <2>4. x \o tag \in Texts
    BY <1>2, <1>8, Joined
  <2>5. Letters(r) = Letters(x \o tag) + Letters(z)
    BY <1>9, <1>10, <2>4, LettersJoined
  <2>6. QED BY <1>8, <2>2, <2>3, <2>5, PrintedIs
<1>13. ASSUME Whole(r) PROVE Whole(x) /\ Whole(z)
  <2> DEFINE n == Len(x)
             y == x \o tag
  <2>1. n = m - st /\ n \in Nat
    <3>1. Len(x) = (m - 1) - st + 1
      BY <1>1, <1>7, PieceOf DEF x
    <3>2. QED BY <1>1, <1>5, <3>1
  <2>2. Len(r) = Len(b) - (st - 1) /\ \A k \in 1 .. (Len(b) - (st - 1)) : r[k] = b[(st - 1) + k]
    BY <1>7, BehindIs DEF r
  <2>3. n \in 0 .. Len(r) /\ n + 3 \in 0 .. Len(r) /\ n + 1 \in 1 .. Len(r) /\ n + 3 \in 1 .. Len(r)
        /\ (st - 1) + (n + 1) = m /\ (st - 1) + (n + 3) = m + 2
    <3>1. Len(r) = Len(b) - st + 1 /\ Len(r) \in Nat
      BY <1>1, <2>2
    <3>2. n + 3 <= Len(r)
      BY <1>1, <1>5, <2>1, <3>1
    <3>3. (st - 1) + (n + 1) = m /\ (st - 1) + (n + 3) = m + 2
      BY <1>1, <1>5, <2>1
    <3>4. QED BY <2>1, <3>1, <3>2, <3>3
  <2>4. r[n + 1] = "<" /\ r[n + 3] = ">"
    BY <1>11, <2>2, <2>3
  <2>5. y \in Texts /\ Len(y) = n + 3
    <3>1. x \o tag \in Texts /\ Len(x \o tag) = Len(x) + Len(tag)
      BY <1>2, <1>8, Joined
    <3>2. QED BY <1>2, <3>1
  <2>6. x \o (tag \o z) = r /\ tag \o z \in Texts
    <3>1. tag \o z \in Texts
      BY <1>2, <1>9, Joined
    <3>2. (x \o tag) \o z = x \o (tag \o z)
      BY <1>2, <1>8, <1>9, JoinedTwice, ZenonT(30)
    <3>3. QED BY <1>10, <3>1, <3>2
  <2>7. SubSeq(r, 1, n) = x
    <3>1. Len(x) \in 0 .. Len(x)
      BY <2>1
    <3>2. SubSeq(x \o (tag \o z), 1, Len(x)) = SubSeq(x, 1, Len(x))
      BY <1>8, <2>6, <3>1, PieceOfJoined
    <3>3. QED BY <1>8, <2>6, <3>2, WholePiece
  <2>8. Behind(r, n + 3) = z
    <3>1. Len(y) \in 0 .. Len(y)
      BY <2>1, <2>5
    <3>2. Behind(y \o z, Len(y)) = Behind(y, Len(y)) \o z
      BY <1>9, <2>5, <3>1, PieceOfJoined
    <3>3. Behind(y, Len(y)) = <<>>
      <4>1. Behind(y, Len(y)) \in Texts /\ Len(Behind(y, Len(y))) = Len(y) - Len(y)
        BY <2>5, <3>1, BehindIs
      <4>2. QED BY <2>1, <2>5, <4>1, TextIs
    <3>4. <<>> \o z = z
      BY <1>9, TextIs
    <3>5. QED BY <1>10, <2>5, <3>2, <3>3, <3>4
  <2> HIDE DEF n, y
  <2>9. Whole(x)
    BY <1>9, <1>13, <2>3, <2>4, <2>7, WholeCut
  <2>10. n + 3 < Len(r) => r[n + 3 + 1] # "c"
    BY <1>9, <1>13, <2>3, <2>4, CutBehindPlain
  <2>11. Whole(z)
    BY <1>9, <1>13, <2>3, <2>8, <2>10, WholeCut
  <2>12. QED BY <2>9, <2>11
<1>14. m + 3 \in 1 .. (Len(b) + 1) /\ m + 3 > st
  BY <1>1, <1>5
<1>15. <<~at[1], m + 3>> \in Spots(b)
  BY <1>1, <1>14 DEF Spots
<1>16. QED BY <1>6, <1>7, <1>8, <1>12, <1>13, <1>14, <1>15 DEF r, x, z, st


NoTag(b, at) == Hits(b, at[1], at[2]) = {}
Next3(b, at) == <<~at[1], NextAt(b, at)>>
Leftover(b, at) == HoldBack(at[1], SubSeq(b, at[2], Len(b)))
Cuts(b, f) == f = [at \in Spots(b) |->
                     IF NoTag(b, at) THEN Leftover(b, at)
                     ELSE Add(at[1], Before(b, at), f[Next3(b, at)])]
CutsOf(b) == CHOOSE f : Cuts(b, f)

LEMMA PartsIsCuts ==
  ASSUME NEW think, NEW b
  PROVE  Parts(think, b) = CutsOf(b)[<<think, 1>>]
BY DEF Parts, CutsOf, Cuts, NoTag, Leftover, Spots, Before, Next3, NextAt

LEMMA LeftoverIs ==
  ASSUME NEW b \in Texts, NEW at \in Spots(b)
  PROVE  /\ Leftover(b, at) \in Parted /\ Weight(Leftover(b, at)) = Letters(Rest(b, at))
         /\ Whole(Rest(b, at)) => AllWhole(Leftover(b, at))
<1>1. at[1] \in BOOLEAN /\ at[2] \in 1 .. (Len(b) + 1) /\ Len(b) \in Nat
  BY TextIs DEF Spots
<1>2. at[2] - 1 \in 0 .. Len(b) /\ (at[2] - 1) + 1 = at[2]
  BY <1>1
<1>3. Rest(b, at) \in Texts
  BY <1>2, BehindIs DEF Rest
<1>4. Rest(b, at) = SubSeq(b, at[2], Len(b))
  BY <1>2 DEF Rest, Behind
<1>5. Leftover(b, at) = HoldBack(at[1], Rest(b, at))
  BY <1>4 DEF Leftover
<1> DEFINE r == Rest(b, at)
<1> HIDE DEF r
<1>6. QED BY <1>1, <1>3, <1>5, HoldBackIs

Fair(p, b, at) == /\ p \in Parted /\ Weight(p) = Letters(Rest(b, at))
                  /\ Whole(Rest(b, at)) => AllWhole(p)

LEMMA CutsExist ==
  ASSUME NEW b \in Texts
  PROVE  \E f : Cuts(b, f)
<1> DEFINE D == Spots(b)
           N == Len(b)
           done == {at \in D : NoTag(b, at)}
           base == [at \in D |-> Leftover(b, at)]
           rank == [at \in D |-> N + 1 - at[2]]
           next == [at \in D |-> IF at \in done THEN at ELSE Next3(b, at)]
           step == [x \in D \X Parted |->
                      IF x[1] \in done THEN x[2] ELSE Add(x[1][1], Before(b, x[1]), x[2])]
<1>1. N \in Nat
  BY TextIs
<1>2. \A at \in D : at[1] \in BOOLEAN /\ at[2] \in 1 .. (N + 1)
  BY DEF Spots
<1>3. rank \in [D -> 0 .. N]
  BY <1>1, <1>2
<1>4. base \in [D -> Parted]
  BY LeftoverIs
<1>5. ASSUME NEW at \in D, at \notin done
      PROVE  Next3(b, at) \in D /\ Next3(b, at)[2] > at[2] /\ Before(b, at) \in Texts
  BY <1>5, HitIs DEF NoTag, Next3
<1>6. next \in [D -> D]
  BY <1>5
<1>7. step \in [D \X Parted -> Parted]
  <2>1. ASSUME NEW x \in D \X Parted PROVE step[x] \in Parted
    <3>1. x[1] \in D /\ x[2] \in Parted
      OBVIOUS
    <3>2. CASE x[1] \in done
      BY <3>1, <3>2
    <3>3. CASE x[1] \notin done
      <4>1. Before(b, x[1]) \in Texts /\ x[1][1] \in BOOLEAN
        BY <1>2, <1>5, <3>1, <3>3
      <4>2. Add(x[1][1], Before(b, x[1]), x[2]) \in Parted
        BY <3>1, <4>1, AddIs
      <4>3. QED BY <3>3, <4>2
    <3>4. QED BY <3>2, <3>3
  <2>2. QED BY <2>1
<1>8. Falls(rank, D, done, next)
  <2>1. ASSUME NEW at \in D, at \notin done PROVE rank[next[at]] < rank[at]
    <3>1. next[at] = Next3(b, at) /\ Next3(b, at) \in D /\ Next3(b, at)[2] > at[2]
      BY <1>5, <2>1
    <3>2. rank[next[at]] = N + 1 - Next3(b, at)[2] /\ rank[at] = N + 1 - at[2]
      BY <3>1
    <3>3. Next3(b, at)[2] \in 1 .. (N + 1) /\ at[2] \in 1 .. (N + 1)
      BY <1>2, <3>1
    <3> HIDE DEF rank, next, D, N
    <3>4. QED BY <1>1, <3>1, <3>2, <3>3
  <2>2. QED BY <2>1 DEF Falls
<1>9. PICK f \in [D -> Parted] : Runs(f, D, done, base, next, step)
  <2> HIDE DEF D, done, base, rank, next, step, N
  <2>1. QED BY <1>1, <1>3, <1>4, <1>6, <1>7, <1>8, Recursion
<1>10. ASSUME NEW at \in D
       PROVE  f[at] = IF NoTag(b, at) THEN Leftover(b, at)
                      ELSE Add(at[1], Before(b, at), f[Next3(b, at)])
  <2>1. CASE NoTag(b, at)
    BY <1>9, <2>1 DEF Runs
  <2>2. CASE ~NoTag(b, at)
    <3>1. at \notin done /\ next[at] = Next3(b, at) /\ next[at] \in D
      BY <1>5, <2>2
    <3>2. f[at] = step[<<at, f[next[at]]>>]
      BY <1>9, <3>1 DEF Runs
    <3>3. <<at, f[next[at]]>> \in D \X Parted
      BY <3>1
    <3>4. step[<<at, f[next[at]]>>] = Add(at[1], Before(b, at), f[next[at]])
      BY <3>1, <3>3
    <3>5. QED BY <2>2, <3>1, <3>2, <3>4
  <2>3. QED BY <2>1, <2>2
<1>11. Cuts(b, f)
  BY <1>10 DEF Cuts
<1>12. QED BY <1>11

\* The split loses no letter and breaks no character.
LEMMA PartsAreFair ==
  ASSUME NEW b \in Texts, NEW think \in BOOLEAN
  PROVE  /\ Parts(think, b) \in Parted /\ Weight(Parts(think, b)) = Letters(b)
         /\ Whole(b) => AllWhole(Parts(think, b))
<1> DEFINE f == CutsOf(b)
           N == Len(b)
           G == {n \in 0 .. N : \A at \in Spots(b) : at[2] = N + 1 - n => Fair(f[at], b, at)}
<1>1. N \in Nat
  BY TextIs
<1>2. Cuts(b, f)
  BY CutsExist DEF CutsOf
<1> HIDE DEF f
<1>3. ASSUME NEW n \in 0 .. N, \A m \in 0 .. (n - 1) : m \in G PROVE n \in G
  <2> SUFFICES ASSUME NEW at \in Spots(b), at[2] = N + 1 - n PROVE Fair(f[at], b, at)
    OBVIOUS
  <2>1. f[at] = IF NoTag(b, at) THEN Leftover(b, at)
                ELSE Add(at[1], Before(b, at), f[Next3(b, at)])
    BY <1>2 DEF Cuts
  <2>2. CASE NoTag(b, at)
    BY <2>1, <2>2, LeftoverIs DEF Fair
  <2>3. CASE ~NoTag(b, at)
    <3> DEFINE to == Next3(b, at)
               x == Before(b, at)
               p == f[to]
    <3>1. /\ to \in Spots(b) /\ to[2] > at[2] /\ x \in Texts /\ to[2] \in 1 .. (N + 1)
          /\ Letters(Rest(b, at)) = Letters(x) + Letters(Rest(b, to))
          /\ Whole(Rest(b, at)) => Whole(x) /\ Whole(Rest(b, to))
      BY <2>3, HitIs DEF NoTag, Next3, Rest
    <3>2. at[1] \in BOOLEAN
      BY DEF Spots
    <3> HIDE DEF to, x
    <3>3. N + 1 - to[2] \in 0 .. (n - 1) /\ to[2] = N + 1 - (N + 1 - to[2])
      BY <1>1, <3>1
    <3>4. Fair(p, b, to)
      BY <1>3, <3>1, <3>3
    <3>5. f[at] = Add(at[1], x, p)
      BY <2>1, <2>3 DEF x, to
    <3> HIDE DEF p
    <3>6. p \in Parted /\ Weight(p) = Letters(Rest(b, to)) /\ (Whole(Rest(b, to)) => AllWhole(p))
      BY <3>4 DEF Fair
    <3>7. /\ f[at] \in Parted /\ Weight(f[at]) = Letters(x) + Weight(p)
          /\ Whole(x) /\ AllWhole(p) => AllWhole(f[at])
      BY <3>1, <3>2, <3>5, <3>6, AddIs
    <3>8. QED BY <3>1, <3>6, <3>7 DEF Fair
  <2>4. QED BY <2>2, <2>3
<1>4. \A n \in 0 .. N : n \in G
  <2> HIDE DEF G, N
  <2>1. QED BY <1>1, <1>3, Climb
<1> DEFINE at == <<think, 1>>
<1>5. N \in 0 .. N /\ at \in Spots(b) /\ at[2] = N + 1 - N /\ at[2] - 1 = 0
  BY <1>1 DEF Spots
<1>6. Fair(f[at], b, at)
  BY <1>4, <1>5
<1>7. Rest(b, at) = b
  BY <1>5, WholePiece DEF Rest
<1>8. Parts(think, b) = f[at]
  BY PartsIsCuts DEF f
<1> HIDE DEF at
<1>9. QED BY <1>6, <1>7, <1>8 DEF Fair

\* Neither does dropping an opener.
LEMMA EchoIs ==
  ASSUME NEW b \in Texts, inThink \in BOOLEAN
  PROVE  /\ DropEcho(b) \in Texts /\ Letters(DropEcho(b)) = Letters(b)
         /\ Whole(b) => Whole(DropEcho(b))
<1>1. CASE ~(first /\ inThink /\ IsPrefix(Open, b))
  BY <1>1 DEF DropEcho
<1>2. CASE first /\ inThink /\ IsPrefix(Open, b)
  <2> DEFINE c == Behind(b, 3)
             a == SubSeq(b, 1, 3)
  <2>1. Open \in Texts /\ Len(Open) = 3 /\ Open[1] = "<" /\ Open[2] = "t" /\ Open[3] = ">"
    BY DEF Open, Texts, Bytes
  <2>2. Len(b) \in Nat
    BY TextIs
  <2>3. 3 <= Len(b) /\ a = Open
    <3>1. Len(Open) <= Len(b) /\ SubSeq(Open, 1, Len(Open)) = SubSeq(b, 1, Len(Open))
      BY <1>2 DEF IsPrefix
    <3>2. QED BY <2>1, <3>1, WholePiece
  <2>4. DropEcho(b) = c
    <3>1. Len(Open) + 1 = 3 + 1
      BY <2>1
    <3>2. QED BY <1>2, <3>1 DEF DropEcho, Behind
  <2>5. 3 \in 0 .. Len(b) /\ 3 \in 1 .. Len(b) /\ 1 \in 1 .. (Len(b) + 1) /\ 3 \in (1 - 1) .. Len(b)
    BY <2>2, <2>3
  <2>6. c \in Texts /\ a \in Texts /\ a \o c = b
    BY <2>5, BehindIs
  <2>7. b[3] = ">"
    <3>1. \A k \in 1 .. (3 - 1 + 1) : a[k] = b[1 + k - 1]
      BY <2>5, PieceOf
    <3>2. a[3] = b[1 + 3 - 1]
      BY <3>1
    <3>3. QED BY <2>1, <2>3, <3>2
  <2>8. Whole(b) => Whole(c)
    <3>1. SUFFICES ASSUME Whole(b) PROVE Whole(c)
      OBVIOUS
    <3>2. 3 < Len(b) => b[3 + 1] # "c"
      BY <2>5, <2>7, <3>1, CutBehindPlain
    <3>3. QED BY <2>5, <3>1, <3>2, WholeCut
  <2>9. Letters(a) = 0
    <3>1. \A k \in 1 .. Len(Open) : Open[k] \notin Ink3
      <4>1. \A k \in 1 .. 3 : k = 1 \/ k = 2 \/ k = 3
        OBVIOUS
      <4>2. QED BY <2>1, <4>1 DEF Ink3
    <3>2. QED BY <2>1, <2>3, <3>1, NoLetters
  <2> HIDE DEF a, c
  <2>10. Letters(b) = Letters(a) + Letters(c)
    BY <2>6, LettersJoined
  <2>11. Letters(c) = Letters(b)
    BY <2>6, <2>9, <2>10, PrintedIs
  <2>12. QED BY <2>4, <2>6, <2>8, <2>11
<1>3. QED BY <1>1, <1>2

LEMMA PushIs ==
  ASSUME NEW s \in Texts, buf \in Texts, inThink \in BOOLEAN
  PROVE  LET p == SplitterPush(s)
         IN /\ p \in Parted /\ Weight(p) = Letters(buf) + Letters(s)
            /\ Whole(buf) /\ Whole(s) => AllWhole(p)
<1> DEFINE b == buf \o s
           d == DropEcho(b)
<1>1. b \in Texts /\ Letters(b) = Letters(buf) + Letters(s) /\ (Whole(buf) /\ Whole(s) => Whole(b))
  BY Joined, LettersJoined, WholeJoined
<1> HIDE DEF b
<1>2. d \in Texts /\ Letters(d) = Letters(b) /\ (Whole(b) => Whole(d))
  BY <1>1, EchoIs
<1> HIDE DEF d
<1>3. /\ Parts(inThink, d) \in Parted /\ Weight(Parts(inThink, d)) = Letters(d)
      /\ Whole(d) => AllWhole(Parts(inThink, d))
  BY <1>2, PartsAreFair
<1>4. SplitterPush(s) = Parts(inThink, d)
  BY DEF SplitterPush, d, b
<1>5. QED BY <1>1, <1>2, <1>3, <1>4

---------------------------------------------------------------------------
(* The lines of the queue. *)

\* The kinds of lines.
Sorts == {"progress", "delta", "calls", "fin", "DONE"}
Lines == [kind : Sorts, content : Texts, reasoning : Texts]

PlacesOf(lg) ==
  UNION { {<<k, "content", n>> : n \in Printed(lg[k].content)}
          \cup {<<k, "reasoning", n>> : n \in Printed(lg[k].reasoning)} : k \in DOMAIN lg }
SentOf(lg) == Cardinality(PlacesOf(lg))

Kept(lg) == /\ lg \in Seq(Lines) /\ IsFiniteSet(PlacesOf(lg))
            /\ \A k \in DOMAIN lg : Whole(lg[k].content) /\ Whole(lg[k].reasoning)

\* lg2 is lg with lines behind it.
Longer(lg, lg2) == Len(lg) <= Len(lg2) /\ \A k \in 1 .. Len(lg) : lg2[k] = lg[k]

LEMMA NothingIs == <<>> \in Texts /\ Letters(<<>>) = 0 /\ Whole(<<>>)
<1>1. <<>> \in Texts /\ Len(<<>>) = 0
  BY EmptySeq DEF Texts
<1>2. QED BY <1>1, NoLetters, WholeNothing

LEMMA OneMore ==
  ASSUME NEW lg \in Seq(Lines), NEW l \in Lines
  PROVE  /\ Append(lg, l) \in Seq(Lines) /\ Len(lg) \in Nat /\ DOMAIN lg = 1 .. Len(lg)
         /\ DOMAIN Append(lg, l) = 1 .. (Len(lg) + 1) /\ Len(Append(lg, l)) = Len(lg) + 1
         /\ \A k \in 1 .. Len(lg) : Append(lg, l)[k] = lg[k]
         /\ Append(lg, l)[Len(lg) + 1] = l
BY AppendProperties, LenProperties

LEMMA PlacesGrow ==
  ASSUME NEW lg \in Seq(Lines), NEW l \in Lines, IsFiniteSet(PlacesOf(lg))
  PROVE  /\ IsFiniteSet(PlacesOf(Append(lg, l))) /\ SentOf(lg) \in Nat
         /\ SentOf(Append(lg, l)) = SentOf(lg) + Letters(l.content) + Letters(l.reasoning)
<1> DEFINE lg2 == Append(lg, l)
           m == Len(lg) + 1
           A == Printed(l.content)
           B == Printed(l.reasoning)
           C == {<<m, "content", n>> : n \in A}
           R == {<<m, "reasoning", n>> : n \in B}
           Of(k, x) == {<<k, "content", n>> : n \in Printed(x[k].content)}
                       \cup {<<k, "reasoning", n>> : n \in Printed(x[k].reasoning)}
<1>1. /\ lg2 \in Seq(Lines) /\ Len(lg) \in Nat /\ DOMAIN lg = 1 .. Len(lg) /\ DOMAIN lg2 = 1 .. m
      /\ \A k \in 1 .. Len(lg) : lg2[k] = lg[k]
      /\ lg2[m] = l
  BY OneMore
<1> HIDE DEF lg2
<1>2. m \in Nat /\ m \notin 1 .. Len(lg) /\ 1 .. m = 1 .. Len(lg) \cup {m}
  BY <1>1
<1> HIDE DEF m
<1>3. PlacesOf(lg) = UNION {Of(k, lg) : k \in 1 .. Len(lg)}
  BY <1>1 DEF PlacesOf
<1>4. PlacesOf(lg2) = UNION {Of(k, lg2) : k \in 1 .. m}
  BY <1>1 DEF PlacesOf
<1>5. \A k \in 1 .. Len(lg) : Of(k, lg2) = Of(k, lg)
  BY <1>1
<1>6. Of(m, lg2) = C \cup R
  BY <1>1
<1>7. \A k : \A x \in Of(k, lg) : x[1] = k
  OBVIOUS
<1> HIDE DEF Of
<1>8. PlacesOf(lg2) = PlacesOf(lg) \cup (C \cup R)
  BY <1>2, <1>3, <1>4, <1>5, <1>6
<1>9. \A x \in PlacesOf(lg) : x[1] # m
  BY <1>2, <1>3, <1>7
<1>10. \A x \in C \cup R : x[1] = m
  OBVIOUS
<1>11. PlacesOf(lg) \cap (C \cup R) = {}
  BY <1>9, <1>10
<1>12. C \cap R = {}
  <2>1. (\A x \in C : x[2] = "content") /\ (\A x \in R : x[2] = "reasoning")
    OBVIOUS
  <2>2. QED BY <2>1
<1>13. l.content \in Texts /\ l.reasoning \in Texts
  BY DEF Lines
<1>14. IsFiniteSet(A) /\ IsFiniteSet(B)
  BY <1>13, PrintedIs
<1>15. IsFiniteSet(C) /\ Cardinality(C) = Cardinality(A)
  <2> DEFINE f == [n \in A |-> <<m, "content", n>>]
  <2>1. f \in [A -> C]
    OBVIOUS
  <2>2. \A x, y \in A : f[x] = f[y] => x = y
    OBVIOUS
  <2>3. \A y \in C : \E x \in A : f[x] = y
    OBVIOUS
  <2> HIDE DEF f, A, C
  <2>4. QED BY <1>14, <2>1, <2>2, <2>3, SameSize
<1>16. IsFiniteSet(R) /\ Cardinality(R) = Cardinality(B)
  <2> DEFINE f == [n \in B |-> <<m, "reasoning", n>>]
  <2>1. f \in [B -> R]
    OBVIOUS
  <2>2. \A x, y \in B : f[x] = f[y] => x = y
    OBVIOUS
  <2>3. \A y \in R : \E x \in B : f[x] = y
    OBVIOUS
  <2> HIDE DEF f, B, R
  <2>4. QED BY <1>14, <2>1, <2>2, <2>3, SameSize
<1>17. Cardinality(A) = Letters(l.content) /\ Cardinality(B) = Letters(l.reasoning)
  BY DEF Letters
<1> HIDE DEF A, B, C, R
<1>18. /\ IsFiniteSet(C \cup R) /\ Cardinality(C \cup R) = Cardinality(C) + Cardinality(R)
       /\ Cardinality(C) \in Nat /\ Cardinality(R) \in Nat
  BY <1>12, <1>15, <1>16, DisjointSize
<1>19. /\ IsFiniteSet(PlacesOf(lg2)) /\ Cardinality(PlacesOf(lg)) \in Nat
       /\ Cardinality(PlacesOf(lg2)) = Cardinality(PlacesOf(lg)) + Cardinality(C \cup R)
  <2> DEFINE T == C \cup R
             P == PlacesOf(lg)
  <2> HIDE DEF T, P
  <2>1. PlacesOf(lg2) = P \cup T /\ P \cap T = {} /\ IsFiniteSet(P) /\ IsFiniteSet(T)
    BY <1>8, <1>11, <1>18 DEF T, P
  <2>2. IsFiniteSet(P \cup T) /\ Cardinality(P \cup T) = Cardinality(P) + Cardinality(T) /\ Cardinality(P) \in Nat
    BY <2>1, DisjointSize
  <2>3. QED BY <2>1, <2>2 DEF T, P
<1>20. SentOf(lg2) = SentOf(lg) + (Letters(l.content) + Letters(l.reasoning)) /\ SentOf(lg) \in Nat
  BY <1>15, <1>16, <1>17, <1>18, <1>19 DEF SentOf
<1>21. Letters(l.content) \in Nat /\ Letters(l.reasoning) \in Nat
  BY <1>13, PrintedIs
<1>22. QED BY <1>19, <1>20, <1>21 DEF lg2

LEMMA Logged ==
  ASSUME NEW lg, Kept(lg), NEW l \in Lines, Whole(l.content), Whole(l.reasoning)
  PROVE  /\ Kept(Append(lg, l)) /\ Longer(lg, Append(lg, l)) /\ SentOf(lg) \in Nat
         /\ SentOf(Append(lg, l)) = SentOf(lg) + Letters(l.content) + Letters(l.reasoning)
         /\ \A k \in DOMAIN Append(lg, l) : (k \in DOMAIN lg /\ Append(lg, l)[k] = lg[k]) \/ Append(lg, l)[k] = l
         /\ Last(Append(lg, l)) = l /\ Append(lg, l) # <<>>
<1> DEFINE lg2 == Append(lg, l)
           m == Len(lg) + 1
<1>1. lg \in Seq(Lines) /\ IsFiniteSet(PlacesOf(lg))
  BY DEF Kept
<1>2. /\ lg2 \in Seq(Lines) /\ Len(lg) \in Nat /\ DOMAIN lg = 1 .. Len(lg) /\ DOMAIN lg2 = 1 .. m
      /\ Len(lg2) = m /\ \A k \in 1 .. Len(lg) : lg2[k] = lg[k]
      /\ lg2[m] = l
  BY <1>1, OneMore
<1>3. /\ IsFiniteSet(PlacesOf(lg2)) /\ SentOf(lg) \in Nat
      /\ SentOf(lg2) = SentOf(lg) + Letters(l.content) + Letters(l.reasoning)
  BY <1>1, PlacesGrow
<1>4. lg2 # <<>>
  BY <1>1, AppendProperties
<1> HIDE DEF lg2
<1>5. \A k \in 1 .. m : (k \in 1 .. Len(lg) /\ lg2[k] = lg[k]) \/ lg2[k] = l
  <2>1. SUFFICES ASSUME NEW k \in 1 .. m PROVE (k \in 1 .. Len(lg) /\ lg2[k] = lg[k]) \/ lg2[k] = l
    OBVIOUS
  <2>2. CASE k = m
    BY <1>2, <2>2
  <2>3. CASE k # m
    <3>1. k \in 1 .. Len(lg)
      BY <1>2, <2>3
    <3>2. QED BY <1>2, <3>1
  <2>4. QED BY <2>2, <2>3
<1>6. \A k \in DOMAIN lg2 : Whole(lg2[k].content) /\ Whole(lg2[k].reasoning)
  BY <1>2, <1>5 DEF Kept
<1>7. Last(lg2) = l
  BY <1>2 DEF Last
<1>8. Longer(lg, lg2)
  BY <1>2 DEF Longer
<1>9. Kept(lg2)
  BY <1>2, <1>3, <1>6 DEF Kept
<1>10. QED BY <1>2, <1>3, <1>4, <1>5, <1>7, <1>8, <1>9 DEF lg2

LEMMA LinesAre ==
  ASSUME NEW kind \in Sorts, NEW c \in Texts, NEW r \in Texts
  PROVE  /\ Line(kind, c, r) \in Lines /\ Line(kind, c, r).kind = kind
         /\ Line(kind, c, r).content = c /\ Line(kind, c, r).reasoning = r
BY DEF Line, Lines

\* Emitting a delta adds a line with the content and what is not blank of the reasoning.
Adds(lg, c, r, lg2) ==
  /\ Kept(lg2) /\ Longer(lg, lg2) /\ SentOf(lg) \in Nat
  /\ SentOf(lg2) = SentOf(lg) + Letters(c) + Letters(r)
  /\ \A k \in DOMAIN lg2 : (k \in DOMAIN lg /\ lg2[k] = lg[k]) \/ lg2[k].content = c

LEMMA DeltaLogged ==
  ASSUME NEW lg, Kept(lg), NEW c \in Texts, NEW r \in Texts, Whole(c), Whole(r),
         NEW lg2, lg2 = lg \o Delta(c, r)
  PROVE  Adds(lg, c, r, lg2)
<1> DEFINE shown == IF is_blank(r) THEN <<>> ELSE r
           l == Line("delta", c, shown)
<1>1. shown \in Texts /\ Letters(shown) = Letters(r) /\ Whole(shown)
  <2>1. CASE is_blank(r)
    <3>1. \A k \in 1 .. Len(r) : r[k] = "n"
      BY <2>1, TextIs DEF is_blank
    <3>2. Letters(r) = 0
      BY <3>1, NoLetters DEF Ink3
    <3>3. QED BY <2>1, <3>2, NothingIs
  <2>2. CASE ~is_blank(r)
    BY <2>2
  <2>3. QED BY <2>1, <2>2
<1>2. Delta(c, r) = IF c = <<>> /\ shown = <<>> THEN <<>> ELSE <<l>>
  BY DEF Delta
<1> HIDE DEF shown
<1>3. lg \in Seq(Lines) /\ IsFiniteSet(PlacesOf(lg)) /\ DOMAIN lg = 1 .. Len(lg) /\ Len(lg) \in Nat
  BY LenProperties DEF Kept
<1>4. Letters(c) \in Nat /\ Letters(r) \in Nat
  BY PrintedIs
<1>5. l \in Lines /\ l.content = c /\ l.reasoning = shown
  BY <1>1, LinesAre DEF Sorts
<1> HIDE DEF l
<1>6. /\ Kept(Append(lg, l)) /\ Longer(lg, Append(lg, l)) /\ SentOf(lg) \in Nat
      /\ SentOf(Append(lg, l)) = SentOf(lg) + Letters(l.content) + Letters(l.reasoning)
      /\ \A k \in DOMAIN Append(lg, l) : (k \in DOMAIN lg /\ Append(lg, l)[k] = lg[k]) \/ Append(lg, l)[k] = l
  BY <1>1, <1>5, Logged
<1>7. CASE c = <<>> /\ shown = <<>>
  <2>1. lg \o Delta(c, r) = lg
    BY <1>2, <1>3, <1>7, ConcatEmptySeq
  <2>2. Letters(c) = 0 /\ Letters(r) = 0
    BY <1>1, <1>7, NothingIs
  <2>3. Longer(lg, lg)
    BY <1>3 DEF Longer
  <2>4. QED BY <1>6, <2>1, <2>2, <2>3 DEF Adds
<1>8. CASE ~(c = <<>> /\ shown = <<>>)
  <2>1. lg \o Delta(c, r) = Append(lg, l)
    BY <1>2, <1>3, <1>5, <1>8, AppendIsConcat
  <2>2. \A k \in DOMAIN Append(lg, l) : (k \in DOMAIN lg /\ Append(lg, l)[k] = lg[k]) \/ Append(lg, l)[k].content = c
    BY <1>5, <1>6
  <2>3. SentOf(Append(lg, l)) = SentOf(lg) + Letters(c) + Letters(r)
    BY <1>1, <1>5, <1>6
  <2>4. QED BY <1>6, <2>1, <2>2, <2>3 DEF Adds
<1>9. QED BY <1>7, <1>8

---------------------------------------------------------------------------
(* The inductive invariant. *)

Generating == {"start", "decode", "tail"}
Waiting == {"pop", "look"}

\* What the splitter holds and what it has sent.
SplitInv ==
  /\ mode \in {"chat", "tools"} /\ inThink \in BOOLEAN /\ first \in BOOLEAN /\ prefilled \in BOOLEAN
  /\ fed \in Texts /\ buf \in Texts /\ kept \in Texts /\ Whole(buf) /\ Whole(kept)
  /\ Kept(log)
  /\ mode = "chat" => kept = <<>>

\* The head of the answer: held, or handed on; without the stop string.
HeadInv ==
  /\ raw \in Texts /\ pend \in Texts /\ acc \in Texts /\ lead \in Texts /\ leadDone \in BOOLEAN
  /\ Whole(lead)
  /\ gen = "start" => raw = <<>> /\ acc = <<>> /\ pend = <<>>
  /\ leadDone => lead = <<>>
  /\ ~leadDone => fed = <<>> /\ lead = acc
  /\ gen \in {"start", "decode"} => Ending(fed \o lead, acc) /\ ~HasStop(acc)
  /\ ~HasStop(fed \o lead)
  /\ AssembledAlike

NoContent(lg) == \A k \in DOMAIN lg : lg[k].content = <<>>
CleanContent(lg) ==
  \A k \in DOMAIN lg : \A n \in DOMAIN lg[k].content : lg[k].content[n] \notin {"T", "U"}

\* Content that waits for the parse.
CallsInv ==
  /\ calls \in BOOLEAN
  /\ gen \in Generating => ~calls
  /\ mode = "tools" /\ (gen \in Generating \/ calls) => NoContent(log)
  /\ mode = "tools" => CleanContent(log)

\* Nothing is lost on the way into the queue.
CountInv ==
  /\ gen \in Generating => SentOf(log) + Letters(buf) + Letters(kept) = Letters(fed)
  /\ gen \notin Generating /\ ~calls /\ Openings(kept) = {} =>
       SentOf(log) + Letters(buf) = Letters(fed)

\* The queue is done when the worker is, with its last line in it.
DrainInv ==
  /\ gen \in {"start", "decode", "tail", "fin", "done", "finish", "end"}
  /\ qdone \in BOOLEAN /\ (qdone <=> gen = "end")
  /\ gen \in {"finish", "end"} => log # <<>> /\ Last(log).kind = "DONE"
  /\ prov \in {"pop", "look", "gone", "drained", "capped"}
  /\ taken \in 0 .. Len(log) /\ idle \in 0 .. MaxIdle
  /\ prov \in Waiting => idle < MaxIdle
  /\ prov = "drained" => qdone /\ taken = Len(log)

StreamInv == SplitInv /\ HeadInv /\ CallsInv /\ CountInv /\ DrainInv

LEMMA NoStopInNothing == ~HasStop(<<>>)
<1>1. Stop \in Texts /\ Stop # <<>>
  BY StreamAssumption
<1>2. Len(Stop) \in Nat /\ Len(Stop) # 0 /\ Len(<<>>) = 0
  BY <1>1, TextIs
<1>3. 1 .. (Len(<<>>) - Len(Stop) + 1) = {}
  BY <1>2
<1>4. QED BY <1>3 DEF HasStop

LEMMA StopInEnding ==
  ASSUME NEW t \in Texts, NEW s \in Texts, Ending(t, s), HasStop(t)
  PROVE  HasStop(s)
<1>1. PICK n \in 0 .. Len(s) : t = Behind(s, n)
  BY DEF Ending
<1>2. Len(s) \in Nat /\ Len(Stop) \in Nat
  BY TextIs, StreamAssumption
<1>3. Len(t) = Len(s) - n
  BY <1>1, BehindIs
<1>4. Len(Stop) # 0
  BY StreamAssumption, TextIs
<1>5. PICK k \in 1 .. (Len(t) - Len(Stop) + 1) : SubSeq(t, k, k + Len(Stop) - 1) = Stop
  BY DEF HasStop
<1> DEFINE a == n + 1
           b == Len(s)
           l == k + Len(Stop) - 1
<1>6. /\ a \in 1 .. (Len(s) + 1) /\ b \in (a - 1) .. Len(s) /\ k \in 1 .. (b - a + 2)
      /\ l \in (k - 1) .. (b - a + 1) /\ a + k - 1 = n + k /\ a + l - 1 = (n + k) + Len(Stop) - 1
      /\ n + k \in 1 .. (Len(s) - Len(Stop) + 1)
  BY <1>2, <1>3, <1>4, <1>5
<1> HIDE DEF a, b, l
<1>7. SubSeq(SubSeq(s, a, b), k, l) = SubSeq(s, a + k - 1, a + l - 1)
  BY <1>6, PieceOfPiece
<1>8. t = SubSeq(s, a, b)
  BY <1>1 DEF Behind, a, b
<1>9. SubSeq(s, n + k, (n + k) + Len(Stop) - 1) = Stop
  BY <1>5, <1>6, <1>7, <1>8 DEF l
<1>10. QED BY <1>6, <1>9 DEF HasStop

\* One callback: its text is in the deltas, in the splitter or kept.
LEMMA CallbackIs ==
  ASSUME SplitInv, mode' = mode, NEW s \in Texts, Whole(s), Callback(s)
  PROVE  /\ SplitInv' /\ fed' = fed \o s
         /\ SentOf(log') + Letters(buf') + Letters(kept') + Letters(fed)
              = SentOf(log) + Letters(buf) + Letters(kept) + Letters(fed')
         /\ mode = "tools" /\ NoContent(log) => NoContent(log')
         /\ Longer(log, log')
<1>1. fed \in Texts /\ buf \in Texts /\ kept \in Texts /\ Kept(log) /\ inThink \in BOOLEAN
  BY DEF SplitInv
<1>2. CASE s = <<>>
  <2>1. UNCHANGED <<fed, prefilled, inThink, first, buf, kept, log>>
    BY <1>2 DEF Callback, split
  <2>2. fed \o s = fed
    BY <1>1, <1>2, TextIs
  <2>3. SplitInv'
    BY <2>1 DEF SplitInv
  <2>4. Longer(log, log)
    BY <1>1, LenProperties DEF Longer, Kept
  <2>5. QED BY <2>1, <2>2, <2>3, <2>4
<1>3. CASE s # <<>>
  <2> DEFINE p == SplitterPush(s)
             c == IF mode = "chat" THEN p.content ELSE <<>>
  <2>1. /\ fed' = fed \o s /\ inThink' = p.think /\ first' = (first /\ ~inThink) /\ buf' = p.buf
        /\ log' = log \o Delta(c, p.reasoning)
        /\ kept' = IF mode = "chat" THEN kept ELSE kept \o p.content
        /\ prefilled' = prefilled
    BY <1>3 DEF Callback
  <2>2. p \in Parted /\ Weight(p) = Letters(buf) + Letters(s) /\ (Whole(buf) /\ Whole(s) => AllWhole(p))
    BY <1>1, PushIs
  <2> HIDE DEF p
  <2>3. /\ p.content \in Texts /\ p.reasoning \in Texts /\ p.buf \in Texts /\ p.think \in BOOLEAN
        /\ Whole(p.content) /\ Whole(p.reasoning) /\ Whole(p.buf)
    BY <2>2 DEF Parted, AllWhole, SplitInv
  <2>4. c \in Texts /\ Whole(c)
    BY <2>3, NothingIs
  <2> HIDE DEF c
  <2>5. /\ Kept(log') /\ Longer(log, log') /\ SentOf(log) \in Nat
        /\ SentOf(log') = SentOf(log) + Letters(c) + Letters(p.reasoning)
        /\ \A k \in DOMAIN log' : (k \in DOMAIN log /\ log'[k] = log[k]) \/ log'[k].content = c
    <3>1. log' = log \o Delta(c, p.reasoning) /\ p.reasoning \in Texts /\ Whole(p.reasoning)
      BY <2>1, <2>3
    <3>2. Adds(log, c, p.reasoning, log')
      BY <1>1, <2>4, <3>1, DeltaLogged
    <3>3. QED BY <3>2 DEF Adds
  <2>6. fed \o s \in Texts /\ Letters(fed \o s) = Letters(fed) + Letters(s)
    BY <1>1, Joined, LettersJoined
  <2>7. Letters(p.content) \in Nat /\ Letters(p.reasoning) \in Nat /\ Letters(p.buf) \in Nat /\ Letters(buf) \in Nat
        /\ Letters(kept) \in Nat /\ Letters(fed) \in Nat /\ Letters(s) \in Nat
    BY <1>1, <2>3, PrintedIs
  <2>8. Letters(p.content) + Letters(p.reasoning) + Letters(p.buf) = Letters(buf) + Letters(s)
    BY <2>2 DEF Weight
  <2>9. CASE mode = "chat"
    <3>1. kept' = kept /\ c = p.content /\ kept = <<>>
      BY <2>1, <2>9 DEF c, SplitInv
    <3>2. SplitInv'
      BY <2>1, <2>3, <2>5, <2>6, <3>1 DEF SplitInv
    <3>3. SentOf(log') = SentOf(log) + Letters(p.content) + Letters(p.reasoning)
      BY <2>5, <3>1
    <3>4. Letters(buf') = Letters(p.buf) /\ Letters(kept') = Letters(kept) /\ Letters(fed') = Letters(fed) + Letters(s)
      BY <2>1, <2>6, <3>1
    <3>5. SentOf(log') + Letters(buf') + Letters(kept') + Letters(fed)
            = SentOf(log) + Letters(buf) + Letters(kept) + Letters(fed')
      BY <2>5, <2>7, <2>8, <3>3, <3>4
    <3>6. QED BY <2>1, <2>5, <2>9, <3>2, <3>5
  <2>10. CASE mode # "chat"
    <3>1. kept' = kept \o p.content /\ c = <<>> /\ mode = "tools"
      BY <2>1, <2>10 DEF c, SplitInv
    <3>2. kept' \in Texts /\ Letters(kept') = Letters(kept) + Letters(p.content)
      BY <1>1, <2>3, <3>1, Joined, LettersJoined
    <3>3. Whole(kept')
      BY <1>1, <2>3, <3>1, WholeJoined DEF SplitInv
    <3>4. SplitInv'
      BY <2>1, <2>3, <2>5, <2>6, <2>10, <3>2, <3>3 DEF SplitInv
    <3>5. SentOf(log') = SentOf(log) + Letters(p.reasoning)
      BY <2>5, <2>7, <3>1, NothingIs
    <3>6. Letters(buf') = Letters(p.buf) /\ Letters(fed') = Letters(fed) + Letters(s)
      BY <2>1, <2>6
    <3>7. NoContent(log) => NoContent(log')
      BY <2>5, <3>1 DEF NoContent
    <3>8. SentOf(log') + Letters(buf') + Letters(kept') + Letters(fed)
            = SentOf(log) + Letters(buf) + Letters(kept) + Letters(fed')
      BY <2>5, <2>7, <2>8, <3>2, <3>5, <3>6
    <3>9. QED BY <2>1, <2>5, <3>4, <3>7, <3>8
  <2>11. QED BY <2>9, <2>10
<1>4. QED BY <1>2, <1>3

LEMMA StreamInvInit == StreamInit => StreamInv
<1> SUFFICES ASSUME StreamInit PROVE StreamInv
  OBVIOUS
<1>1. <<>> \in Texts /\ Len(<<>>) = 0 /\ Letters(<<>>) = 0 /\ Whole(<<>>) /\ <<>> \o <<>> = <<>>
  BY NothingIs, TextIs
<1>2. /\ mode \in {"chat", "tools"} /\ gen = "start" /\ raw = <<>> /\ pend = <<>> /\ acc = <<>>
      /\ lead = <<>> /\ leadDone = FALSE /\ prefilled \in BOOLEAN /\ fed = <<>> /\ inThink = FALSE
      /\ first = TRUE /\ buf = <<>> /\ kept = <<>> /\ calls = FALSE /\ log = <<>> /\ taken = 0
      /\ qdone = FALSE /\ prov = "pop" /\ idle = 0
  BY DEF StreamInit
<1>3. <<>> \in Seq(Lines) /\ DOMAIN <<>> = {}
  BY EmptySeq
<1>4. PlacesOf(<<>>) = {}
  BY <1>3 DEF PlacesOf
<1>5. IsFiniteSet(PlacesOf(<<>>)) /\ SentOf(<<>>) = 0
  BY <1>4, FS_EmptySet DEF SentOf
<1>6. Kept(<<>>)
  BY <1>3, <1>5 DEF Kept
<1>7. SplitInv
  BY <1>1, <1>2, <1>6 DEF SplitInv
<1>8. Ending(<<>>, <<>>)
  BY <1>1, WholePiece DEF Ending
<1>9. HeadInv
  BY <1>1, <1>2, <1>8, NoStopInNothing DEF HeadInv, AssembledAlike
<1>10. CallsInv
  BY <1>2, <1>3 DEF CallsInv, NoContent, CleanContent
<1>11. CountInv
  BY <1>1, <1>2, <1>5 DEF CountInv, Generating
<1>12. DrainInv
  <2>1. MaxIdle \in Nat /\ 0 < MaxIdle
    BY StreamAssumption
  <2>2. taken \in 0 .. Len(log) /\ idle \in 0 .. MaxIdle /\ idle < MaxIdle
    BY <1>1, <1>2, <2>1
  <2>3. QED BY <1>2, <2>2 DEF DrainInv, Waiting
<1>13. QED BY <1>7, <1>9, <1>10, <1>11, <1>12 DEF StreamInv

---------------------------------------------------------------------------
(* The steps. *)

\* What was handed on, or is held for it, is not taken back.
Handed == IsPrefix(Ink(fed \o lead), Ink(fed' \o lead'))

LEMMA PrefixJoined ==
  ASSUME NEW s \in Texts, NEW t \in Texts
  PROVE  IsPrefix(s, s \o t) /\ IsPrefix(s, s)
<1>1. Len(s) \in Nat /\ Len(t) \in Nat /\ Len(s \o t) = Len(s) + Len(t)
  BY TextIs, Joined
<1>2. Len(s) \in 0 .. Len(s)
  BY <1>1
<1>3. SubSeq(s \o t, 1, Len(s)) = SubSeq(s, 1, Len(s))
  BY <1>2, PieceOfJoined
<1>4. QED BY <1>1, <1>3 DEF IsPrefix

LEMMA InkIs ==
  ASSUME NEW s \in Texts, NEW t \in Texts
  PROVE  Ink(s) \in Texts /\ Ink(s \o t) = Ink(s) \o Ink(t) /\ IsPrefix(Ink(s), Ink(s \o t)) /\ IsPrefix(Ink(s), Ink(s))
<1>1. Ink(s) \in Texts /\ Ink(t) \in Texts
  BY WithoutIs DEF Ink
<1>2. Ink(s \o t) = Ink(s) \o Ink(t)
  BY WithoutJoined DEF Ink
<1>3. QED BY <1>1, <1>2, PrefixJoined


LEMMA Untouched ==
  ASSUME SplitInv, HeadInv, UNCHANGED <<fed, lead>>
  PROVE  Handed
<1>1. fed \o lead \in Texts
  BY Joined DEF SplitInv, HeadInv
<1>2. fed' \o lead' = fed \o lead
  OBVIOUS
<1>3. QED BY <1>1, <1>2, InkIs DEF Handed

\* A worker's step before its last line.
LEMMA WorkerDrains ==
  ASSUME SplitInv, DrainInv, gen \notin {"finish", "end"}, UNCHANGED <<qdone, client>>,
         Longer(log, log'), Len(log') \in Nat, gen' \in {"start", "decode", "tail", "fin", "done"}
  PROVE  DrainInv'
<1>1. Len(log) \in Nat /\ Len(log) <= Len(log')
  BY LenProperties DEF SplitInv, Kept, Longer
<1>2. ~qdone /\ taken' = taken /\ prov' = prov /\ idle' = idle /\ qdone' = qdone
  BY DEF DrainInv, client
<1>3. taken' \in 0 .. Len(log')
  BY <1>1, <1>2 DEF DrainInv
<1>4. ~qdone' /\ gen' # "end" /\ prov' # "drained"
  BY <1>2 DEF DrainInv
<1>5. QED BY <1>2, <1>3, <1>4 DEF DrainInv

LEMMA NoneIsClean == \A lg : NoContent(lg) => CleanContent(lg)
<1> SUFFICES ASSUME NEW lg, NoContent(lg) PROVE CleanContent(lg)
  OBVIOUS
<1>1. DOMAIN <<>> = {}
  OBVIOUS
<1>2. \A k \in DOMAIN lg : DOMAIN lg[k].content = {}
  BY <1>1 DEF NoContent
<1>3. QED BY <1>2 DEF CleanContent

\* While it generates, a callback keeps the content back on the tools path.
LEMMA CallbackCalls ==
  ASSUME CallsInv, gen \in Generating, gen' \in Generating, mode' = mode, calls' = calls,
         mode = "tools" /\ NoContent(log) => NoContent(log')
  PROVE  CallsInv'
<1>1. ~calls' /\ calls' \in BOOLEAN
  BY DEF CallsInv
<1>2. mode = "tools" => NoContent(log')
  BY DEF CallsInv
<1>3. mode = "tools" => CleanContent(log')
  BY <1>2, NoneIsClean
<1>4. QED BY <1>1, <1>2, <1>3 DEF CallsInv

LEMMA CallbackCounts ==
  ASSUME SplitInv, SplitInv', CountInv, gen \in Generating, gen' \in Generating,
         SentOf(log') + Letters(buf') + Letters(kept') + Letters(fed)
           = SentOf(log) + Letters(buf) + Letters(kept) + Letters(fed')
  PROVE  CountInv'
<1>1. /\ Letters(buf) \in Nat /\ Letters(kept) \in Nat /\ Letters(fed) \in Nat
      /\ Letters(buf') \in Nat /\ Letters(kept') \in Nat /\ Letters(fed') \in Nat
  BY PrintedIs DEF SplitInv
<1>2. SentOf(log) \in Nat /\ SentOf(log') \in Nat
  <2>1. IsFiniteSet(PlacesOf(log)) /\ IsFiniteSet(PlacesOf(log'))
    BY DEF SplitInv, Kept
  <2>2. QED BY <2>1, FS_CardinalityType DEF SentOf
<1>3. SentOf(log) + Letters(buf) + Letters(kept) = Letters(fed)
  BY DEF CountInv
<1>4. SentOf(log') + Letters(buf') + Letters(kept') = Letters(fed')
  BY <1>1, <1>2, <1>3
<1>5. QED BY <1>4 DEF CountInv

LEMMA EndDecodeStep ==
  ASSUME StreamInv, gen = "decode", UNCHANGED <<mode, calls, qdone, client>>, raw' \in Texts,
         NEW text \in Texts, NEW tail, EndDecode(text, tail)
  PROVE  StreamInv' /\ Handed
<1> DEFINE s == IF leadDone THEN <<>> ELSE clean_prefix(lead)
<1>1. SplitInv /\ HeadInv /\ CallsInv /\ CountInv /\ DrainInv
  BY DEF StreamInv
<1>2. /\ raw \in Texts /\ pend \in Texts /\ acc \in Texts /\ lead \in Texts /\ leadDone \in BOOLEAN
      /\ fed \in Texts /\ Whole(lead)
  BY <1>1 DEF HeadInv, SplitInv
<1>3. /\ leadDone' = TRUE /\ lead' = <<>> /\ Callback(s) /\ pend' = <<>> /\ gen' = "tail"
      /\ acc' = text \o (IF tail = <<>> THEN <<>> ELSE <<"?">>)
  BY DEF EndDecode
<1>4. s \in Texts /\ Whole(s)
  BY <1>2, NothingIs, Cleaned
<1> HIDE DEF s
<1>5. /\ SplitInv' /\ fed' = fed \o s
      /\ SentOf(log') + Letters(buf') + Letters(kept') + Letters(fed)
           = SentOf(log) + Letters(buf) + Letters(kept) + Letters(fed')
      /\ mode = "tools" /\ NoContent(log) => NoContent(log')
      /\ Longer(log, log')
  BY <1>1, <1>3, <1>4, CallbackIs
<1>6. gen \in Generating /\ gen' \in Generating
  BY <1>3 DEF Generating
<1>7. fed' \in Texts /\ fed' \o lead' = fed'
  BY <1>3, <1>5, TextIs DEF SplitInv
<1>8. ~HasStop(fed') /\ Handed
  <2>1. CASE leadDone
    <3>1. s = <<>> /\ lead = <<>>
      BY <1>1, <2>1 DEF s, HeadInv
    <3>2. fed' = fed /\ fed \o lead = fed
      BY <1>2, <1>5, <3>1, TextIs
    <3>3. ~HasStop(fed')
      BY <1>1, <3>2 DEF HeadInv
    <3>4. Handed
      BY <1>2, <1>7, <3>2, InkIs DEF Handed
    <3>5. QED BY <3>3, <3>4
  <2>2. CASE ~leadDone
    <3>1. s = clean_prefix(lead) /\ fed = <<>> /\ lead = acc
      BY <1>1, <2>2 DEF s, HeadInv
    <3>2. fed' = s /\ fed \o lead = lead
      BY <1>2, <1>4, <1>5, <3>1, TextIs
    <3>3. Ending(s, lead) /\ Ink(s) = Ink(lead)
      BY <1>2, <3>1, Cleaned
    <3>4. ~HasStop(lead)
      BY <1>1, <3>1 DEF HeadInv
    <3>5. ~HasStop(fed')
      BY <1>2, <1>4, <3>2, <3>3, <3>4, StopInEnding
    <3>6. Handed
      BY <1>2, <1>7, <3>2, <3>3, InkIs DEF Handed
    <3>7. QED BY <3>5, <3>6
  <2>3. QED BY <2>1, <2>2
<1>9. acc' \in Texts
  <2>1. "?" \in Bytes
    BY DEF Bytes
  <2>2. QED BY <1>3, <2>1, OneByte, NothingIs, Joined
<1>10. HeadInv'
  <2>1. AssembledAlike'
    BY <1>3 DEF AssembledAlike
  <2>2. QED BY <1>3, <1>7, <1>8, <1>9, <2>1, NothingIs DEF HeadInv
<1>11. CallsInv'
  BY <1>1, <1>5, <1>6, CallbackCalls
<1>12. CountInv'
  BY <1>1, <1>5, <1>6, CallbackCounts
<1>13. DrainInv'
  <2>1. Len(log') \in Nat
    BY <1>5, LenProperties DEF SplitInv, Kept
  <2>2. QED BY <1>1, <1>3, <1>5, <2>1, WorkerDrains
<1>14. QED BY <1>5, <1>8, <1>10, <1>11, <1>12, <1>13 DEF StreamInv

LEMMA LastTokenStep ==
  ASSUME StreamInv, LastToken
  PROVE  StreamInv' /\ Handed
<1>1. /\ gen = "decode" /\ UNCHANGED <<mode, calls, qdone, client>> /\ raw' = raw
      /\ EndDecode(acc, pend)
  BY DEF LastToken
<1>2. acc \in Texts /\ raw' \in Texts
  BY <1>1 DEF StreamInv, HeadInv
<1>3. QED BY <1>1, <1>2, EndDecodeStep

LEMMA EndingJoined ==
  ASSUME NEW t \in Texts, NEW s \in Texts, NEW u \in Texts, Ending(t, s)
  PROVE  Ending(t \o u, s \o u)
<1>1. PICK n \in 0 .. Len(s) : t = Behind(s, n)
  BY DEF Ending
<1>2. Behind(s \o u, n) = Behind(s, n) \o u
  BY PieceOfJoined
<1>3. Len(s) \in Nat /\ Len(u) \in Nat /\ Len(s \o u) = Len(s) + Len(u)
  BY TextIs, Joined
<1>4. n \in 0 .. Len(s \o u)
  BY <1>3
<1>5. QED BY <1>1, <1>2, <1>4 DEF Ending

\* The whole of the iteration that stops or goes on.
LEMMA Assembling ==
  ASSUME HeadInv, gen = "decode", NEW piece \in Texts, NEW u, u = Assemble(Scanned(piece))
  PROVE  /\ u \in Assembled /\ Whole(u.out) /\ raw \o piece \in Texts
         /\ Assemble(raw \o piece).out = acc \o u.out /\ Assemble(raw \o piece).tail = u.tail
<1>1. raw \in Texts /\ pend \in Texts /\ acc \in Texts /\ AssembledAlike
  BY DEF HeadInv
<1>2. acc = Assemble(raw).out /\ pend = Assemble(raw).tail
  BY <1>1 DEF AssembledAlike
<1>3. pend \o piece \in Texts /\ raw \o piece \in Texts
  BY <1>1, Joined
<1>4. u = Assemble(pend \o piece)
  BY DEF Scanned
<1>5. Assemble(pend \o piece) \in Assembled
  BY <1>3, AssembleIs
<1>6. Whole(Assemble(pend \o piece).out)
  BY <1>3, AssembledIsWhole
<1>7. Assemble(raw \o piece) = Prepend(acc, u)
  BY <1>1, <1>2, <1>4, AssembleGoesOn DEF GoesOn
<1>8. Prepend(acc, u).out = acc \o u.out /\ Prepend(acc, u).tail = u.tail
  BY <1>4, <1>5, PrependIs, <1>1
<1>9. QED BY <1>3, <1>4, <1>5, <1>6, <1>7, <1>8

\* What becomes of the head when a piece is held with it or handed on.
HeadMoves(s) ==
  /\ fed' \o lead' \in Texts /\ Whole(lead') /\ lead' \in Texts /\ leadDone' \in BOOLEAN
  /\ leadDone' => lead' = <<>>
  /\ ~leadDone' => fed' = <<>> /\ lead' = acc \o s
  /\ Ending(fed' \o lead', acc \o s)
  /\ Handed

LEMMA HeadMovesOn ==
  ASSUME SplitInv, HeadInv, gen = "decode", mode' = mode, NEW s \in Texts, Whole(s), HoldOrSend(s)
  PROVE  HeadMoves(s) /\ (\E t \in Texts : Whole(t) /\ Callback(t))
<1>1. /\ acc \in Texts /\ lead \in Texts /\ leadDone \in BOOLEAN /\ fed \in Texts /\ Whole(lead)
      /\ (leadDone => lead = <<>>) /\ (~leadDone => fed = <<>> /\ lead = acc)
      /\ Ending(fed \o lead, acc)
  BY DEF HeadInv, SplitInv
<1>2. fed \o lead \in Texts /\ acc \o s \in Texts
  BY <1>1, Joined
<1>3. CASE leadDone \/ s = <<>>
  <2>1. Callback(s) /\ lead' = lead /\ leadDone' = leadDone
    BY <1>3 DEF HoldOrSend
  <2>2. fed' = fed \o s
    BY <2>1, CallbackIs
  <2>3. fed' \o lead' = (fed \o lead) \o s
    <3>1. CASE leadDone
      <4>1. lead = <<>> /\ fed \o lead = fed
        BY <1>1, <3>1, TextIs
      <4>2. fed \o s \in Texts
        BY <1>1, Joined
      <4>3. (fed \o s) \o lead = fed \o s
        BY <4>1, <4>2, TextIs
      <4>4. QED BY <2>1, <2>2, <4>1, <4>3
    <3>2. CASE s = <<>>
      <4>1. fed \o s = fed /\ (fed \o lead) \o s = fed \o lead
        BY <1>1, <1>2, <3>2, TextIs
      <4>2. QED BY <2>1, <2>2, <4>1
    <3>3. QED BY <1>3, <3>1, <3>2
  <2>4. Ending((fed \o lead) \o s, acc \o s)
    BY <1>1, <1>2, EndingJoined
  <2>5. ~leadDone' => fed' = <<>> /\ lead' = acc \o s
    <3>1. ASSUME ~leadDone PROVE s = <<>> /\ fed = <<>> /\ lead = acc
      BY <1>1, <1>3, <3>1
    <3>2. ASSUME ~leadDone PROVE fed \o s = <<>> /\ acc \o s = acc
      BY <1>1, <3>1, <3>2, TextIs
    <3>3. QED BY <2>1, <2>2, <3>1, <3>2
  <2>6. IsPrefix(Ink(fed \o lead), Ink((fed \o lead) \o s))
    BY <1>2, InkIs
  <2>7. Handed
    BY <2>3, <2>6 DEF Handed
  <2>8. (fed \o lead) \o s \in Texts
    BY <1>2, Joined
  <2>9. QED BY <1>1, <2>1, <2>3, <2>4, <2>5, <2>7, <2>8 DEF HeadMoves
<1>4. CASE ~(leadDone \/ s = <<>>)
  <2> DEFINE held == lead \o s
  <2>1. /\ leadDone' = (Len(held) >= LeadMax)
        /\ lead' = IF leadDone' THEN <<>> ELSE held
        /\ Callback(IF leadDone' THEN clean_prefix(held) ELSE <<>>)
    BY <1>4 DEF HoldOrSend
  <2>2. fed = <<>> /\ lead = acc /\ held = acc \o s
    BY <1>1, <1>4
  <2>3. held \in Texts /\ Whole(held)
    BY <1>1, Joined, WholeJoined
  <2> HIDE DEF held
  <2>4. fed \o lead = acc
    BY <1>1, <2>2, TextIs
  <2>5. IsPrefix(Ink(fed \o lead), Ink(held))
    BY <1>1, <2>2, <2>4, InkIs
  <2>6. CASE leadDone'
    <3> DEFINE t == clean_prefix(held)
    <3>1. t \in Texts /\ Ending(t, held) /\ Ink(t) = Ink(held) /\ Whole(t)
      BY <2>3, Cleaned
    <3>2. lead' = <<>> /\ Callback(t)
      BY <2>1, <2>6
    <3> HIDE DEF t
    <3>3. fed' = fed \o t
      BY <3>1, <3>2, CallbackIs
    <3>4. fed' = t /\ fed' \o lead' = t
      BY <2>2, <3>1, <3>2, <3>3, TextIs
    <3>5. Handed
      BY <2>5, <3>1, <3>4 DEF Handed
    <3>6. QED BY <2>2, <2>6, <3>1, <3>2, <3>4, <3>5, NothingIs DEF HeadMoves
  <2>7. CASE ~leadDone'
    <3>1. lead' = held /\ Callback(<<>>)
      BY <2>1, <2>7
    <3>2. fed' = fed \o <<>>
      BY <3>1, CallbackIs, NothingIs
    <3>3. fed' = <<>> /\ fed' \o lead' = held
      BY <1>1, <2>2, <2>3, <3>1, <3>2, TextIs
    <3>4. Handed
      BY <2>5, <3>3 DEF Handed
    <3>5. Ending(held, held)
      <4>1. Len(held) \in Nat /\ Behind(held, 0) = held
        BY <2>3, TextIs, WholePiece DEF Behind
      <4>2. QED BY <4>1 DEF Ending
    <3>6. leadDone' \in BOOLEAN
      BY <2>1
    <3>7. QED BY <2>2, <2>3, <2>7, <3>1, <3>3, <3>4, <3>5, <3>6, NothingIs DEF HeadMoves
  <2>8. QED BY <2>6, <2>7
<1>5. QED BY <1>3, <1>4

LEMMA SampleTakes ==
  ASSUME StreamInv, NEW piece \in Pieces, SampleStep(piece)
  PROVE  StreamInv' /\ Handed
<1> DEFINE u == Assemble(Scanned(piece))
           text == acc \o u.out
<1>1. SplitInv /\ HeadInv /\ CallsInv /\ CountInv /\ DrainInv
  BY DEF StreamInv
<1>2. /\ gen = "decode" /\ raw' = raw \o piece /\ UNCHANGED <<mode, calls, qdone, client>>
      /\ IF Stopped(u.out)
           THEN EndDecode(text, u.tail)
           ELSE HoldOrSend(u.out) /\ acc' = text /\ pend' = u.tail /\ gen' = gen
  BY DEF SampleStep
<1>3. piece \in Texts
  BY StreamAssumption
<1>4. /\ u \in Assembled /\ Whole(u.out) /\ raw \o piece \in Texts
      /\ Assemble(raw \o piece).out = text /\ Assemble(raw \o piece).tail = u.tail
  BY <1>1, <1>2, <1>3, Assembling
<1> HIDE DEF u
<1>5. u.out \in Texts /\ u.tail \in Texts /\ acc \in Texts
  BY <1>1, <1>4 DEF Assembled, HeadInv
<1>6. text \in Texts
  BY <1>5, Joined
<1>7. raw' \in Texts
  BY <1>2, <1>4
<1>8. CASE Stopped(u.out)
  <2> HIDE DEF text
  <2>1. EndDecode(text, u.tail)
    BY <1>2, <1>8
  <2>2. QED BY <1>2, <1>6, <1>7, <2>1, EndDecodeStep
<1>9. CASE ~Stopped(u.out)
  <2> DEFINE s == u.out
  <2>1. HoldOrSend(s) /\ acc' = text /\ pend' = u.tail /\ gen' = "decode"
    BY <1>2, <1>9
  <2>2. ~HasStop(text)
    BY <1>9 DEF Stopped
  <2> HIDE DEF s
  <2>3. s \in Texts /\ Whole(s) /\ text = acc \o s
    BY <1>4, <1>5 DEF s
  <2>4. HeadMoves(s) /\ \E t \in Texts : Whole(t) /\ Callback(t)
    BY <1>1, <1>2, <2>1, <2>3, HeadMovesOn
  <2>5. PICK t \in Texts : Whole(t) /\ Callback(t)
    BY <2>4
  <2>6. /\ SplitInv'
        /\ SentOf(log') + Letters(buf') + Letters(kept') + Letters(fed)
             = SentOf(log) + Letters(buf) + Letters(kept) + Letters(fed')
        /\ mode = "tools" /\ NoContent(log) => NoContent(log')
        /\ Longer(log, log')
    BY <1>1, <1>2, <2>5, CallbackIs
  <2>7. /\ fed' \o lead' \in Texts /\ Whole(lead') /\ lead' \in Texts /\ leadDone' \in BOOLEAN
        /\ leadDone' => lead' = <<>>
        /\ ~leadDone' => fed' = <<>> /\ lead' = text
        /\ Ending(fed' \o lead', text)
        /\ Handed
    BY <2>3, <2>4 DEF HeadMoves
  <2>8. AssembledAlike'
    BY <1>2, <1>4, <2>1 DEF AssembledAlike
  <2> HIDE DEF text
  <2>9. ~HasStop(fed' \o lead')
    BY <1>6, <2>2, <2>7, StopInEnding
  <2>10. HeadInv'
    BY <1>5, <1>6, <1>7, <2>1, <2>2, <2>7, <2>8, <2>9 DEF HeadInv
  <2>11. gen \in Generating /\ gen' \in Generating
    BY <1>2, <2>1 DEF Generating
  <2>12. CallsInv'
    BY <1>1, <1>2, <2>6, <2>11, CallbackCalls
  <2>13. CountInv'
    BY <1>1, <2>6, <2>11, CallbackCounts
  <2>14. DrainInv'
    <3>1. Len(log') \in Nat
      BY <2>6, LenProperties DEF SplitInv, Kept
    <3>2. QED BY <1>1, <1>2, <2>1, <2>6, <3>1, WorkerDrains
  <2>15. QED BY <2>6, <2>7, <2>10, <2>12, <2>13, <2>14 DEF StreamInv
<1>10. QED BY <1>8, <1>9

\* A step that leaves the text alone.
LEMMA HeadStays ==
  ASSUME HeadInv, SplitInv, UNCHANGED <<raw, pend, acc, lead, leadDone, fed>>,
         gen' # "start", gen = gen' \/ (gen = "start" /\ gen' = "decode") \/ gen' \notin {"start", "decode"}
  PROVE  HeadInv'
<1>1. AssembledAlike'
  <2>1. CASE gen' # "decode"
    BY <2>1 DEF AssembledAlike
  <2>2. CASE gen' = "decode" /\ gen = "decode"
    BY <2>2 DEF AssembledAlike, HeadInv
  <2>3. CASE gen' = "decode" /\ gen = "start"
    <3>1. raw = <<>> /\ acc = <<>> /\ pend = <<>>
      BY <2>3 DEF HeadInv
    <3>2. Assemble(<<>>) = [out |-> <<>>, tail |-> <<>>]
      BY NothingIs, AssembleIs
    <3>3. QED BY <3>1, <3>2 DEF AssembledAlike
  <2>4. QED BY <2>1, <2>2, <2>3
<1>2. QED BY <1>1 DEF HeadInv

LEMMA GiveUpStep ==
  ASSUME StreamInv, GiveUp
  PROVE  StreamInv' /\ Handed
<1>1. SplitInv /\ HeadInv /\ CallsInv /\ CountInv /\ DrainInv
  BY DEF StreamInv
<1>2. /\ gen = "start" /\ gen' = "tail"
      /\ UNCHANGED <<mode, raw, pend, acc, lead, leadDone, fed, prefilled, inThink, first, buf, kept, calls, log>>
      /\ UNCHANGED <<qdone, client>>
  BY DEF GiveUp, split
<1>3. SplitInv'
  BY <1>1, <1>2 DEF SplitInv
<1>4. HeadInv' /\ Handed
  BY <1>1, <1>2, HeadStays, Untouched
<1>5. CallsInv'
  BY <1>1, <1>2 DEF CallsInv, Generating
<1>6. CountInv'
  BY <1>1, <1>2 DEF CountInv, Generating
<1>7. DrainInv'
  <2>1. Longer(log, log') /\ Len(log') \in Nat
    BY <1>1, <1>2, LenProperties DEF SplitInv, Kept, Longer
  <2>2. QED BY <1>1, <1>2, <2>1, WorkerDrains
<1>8. QED BY <1>3, <1>4, <1>5, <1>6, <1>7 DEF StreamInv

\* A line without text.
LEMMA Announced ==
  ASSUME SplitInv, NEW kind \in Sorts, UNCHANGED <<mode, fed, buf, kept, first, prefilled>>, inThink' \in BOOLEAN,
         log' = Append(log, Line(kind, <<>>, <<>>))
  PROVE  /\ SplitInv' /\ Longer(log, log') /\ Len(log') \in Nat /\ SentOf(log') = SentOf(log)
         /\ NoContent(log) => NoContent(log')
         /\ CleanContent(log) => CleanContent(log')
         /\ log' # <<>> /\ Last(log').kind = kind
<1> DEFINE l == Line(kind, <<>>, <<>>)
<1>1. l \in Lines /\ l.kind = kind /\ l.content = <<>> /\ l.reasoning = <<>>
  BY LinesAre, NothingIs
<1>2. log' = Append(log, l) /\ Kept(log)
  BY DEF SplitInv
<1> HIDE DEF l
<1>3. /\ Kept(log') /\ Longer(log, log') /\ SentOf(log) \in Nat
      /\ SentOf(log') = SentOf(log) + Letters(l.content) + Letters(l.reasoning)
      /\ \A k \in DOMAIN log' : (k \in DOMAIN log /\ log'[k] = log[k]) \/ log'[k] = l
      /\ Last(log') = l /\ log' # <<>>
  BY <1>1, <1>2, Logged, NothingIs
<1>4. SentOf(log') = SentOf(log)
  BY <1>1, <1>3, NothingIs
<1>5. SplitInv'
  BY <1>3 DEF SplitInv
<1>6. Len(log') \in Nat
  BY <1>3, LenProperties DEF Kept
<1>7. NoContent(log) => NoContent(log')
  BY <1>1, <1>3 DEF NoContent
<1>8. CleanContent(log) => CleanContent(log')
  <2>1. DOMAIN <<>> = {}
    OBVIOUS
  <2>2. DOMAIN l.content = {}
    BY <1>1, <2>1
  <2>3. SUFFICES ASSUME CleanContent(log), NEW k \in DOMAIN log', NEW n \in DOMAIN log'[k].content
                 PROVE  log'[k].content[n] \notin {"T", "U"}
    BY DEF CleanContent
  <2>4. CASE k \in DOMAIN log /\ log'[k] = log[k]
    BY <2>3, <2>4 DEF CleanContent
  <2>5. CASE log'[k] = l
    BY <2>2, <2>3, <2>5
  <2>6. QED BY <1>3, <2>4, <2>5
<1>9. QED BY <1>1, <1>3, <1>4, <1>5, <1>6, <1>7, <1>8

LEMMA PromptDecodedStep ==
  ASSUME StreamInv, PromptDecoded
  PROVE  StreamInv' /\ Handed
<1>1. SplitInv /\ HeadInv /\ CallsInv /\ CountInv /\ DrainInv
  BY DEF StreamInv
<1>2. /\ gen = "start" /\ gen' = "decode" /\ inThink' = (inThink \/ prefilled)
      /\ log' = Append(log, Line("progress", <<>>, <<>>))
      /\ UNCHANGED <<mode, raw, pend, acc, lead, leadDone, fed, prefilled, first, buf, kept, calls>>
      /\ UNCHANGED <<qdone, client>>
  BY DEF PromptDecoded, engine
<1>3. inThink' \in BOOLEAN /\ "progress" \in Sorts
  BY <1>1, <1>2 DEF SplitInv, Sorts
<1>4. /\ SplitInv' /\ Longer(log, log') /\ Len(log') \in Nat /\ SentOf(log') = SentOf(log)
      /\ NoContent(log) => NoContent(log')
      /\ CleanContent(log) => CleanContent(log')
  BY <1>1, <1>2, <1>3, Announced
<1>5. HeadInv' /\ Handed
  BY <1>1, <1>2, HeadStays, Untouched
<1>6. CallsInv'
  BY <1>1, <1>2, <1>4 DEF CallsInv, Generating
<1>7. CountInv'
  BY <1>1, <1>2, <1>4 DEF CountInv, Generating
<1>8. DrainInv'
  BY <1>1, <1>2, <1>4, WorkerDrains
<1>9. QED BY <1>4, <1>5, <1>6, <1>7, <1>8 DEF StreamInv

LEMMA PushFinStep ==
  ASSUME StreamInv, PushFin
  PROVE  StreamInv' /\ Handed
<1>1. SplitInv /\ HeadInv /\ CallsInv /\ CountInv /\ DrainInv
  BY DEF StreamInv
<1>2. /\ gen = "fin" /\ gen' = "done"
      /\ log' = Append(log, Line("fin", <<>>, <<>>))
      /\ UNCHANGED <<mode, raw, pend, acc, lead, leadDone, fed, prefilled, inThink, first, buf, kept, calls>>
      /\ UNCHANGED <<qdone, client>>
  BY DEF PushFin, Push, engine, split
<1>3. inThink' \in BOOLEAN /\ "fin" \in Sorts
  BY <1>1, <1>2 DEF SplitInv, Sorts
<1>4. /\ SplitInv' /\ Longer(log, log') /\ Len(log') \in Nat /\ SentOf(log') = SentOf(log)
      /\ NoContent(log) => NoContent(log')
      /\ CleanContent(log) => CleanContent(log')
  BY <1>1, <1>2, <1>3, Announced
<1>5. HeadInv' /\ Handed
  BY <1>1, <1>2, HeadStays, Untouched
<1>6. CallsInv'
  BY <1>1, <1>2, <1>4 DEF CallsInv, Generating
<1>7. CountInv'
  BY <1>1, <1>2, <1>4 DEF CountInv, Generating
<1>8. DrainInv'
  BY <1>1, <1>2, <1>4, WorkerDrains
<1>9. QED BY <1>4, <1>5, <1>6, <1>7, <1>8 DEF StreamInv

LEMMA PushDoneStep ==
  ASSUME StreamInv, PushDone
  PROVE  StreamInv' /\ Handed
<1>1. SplitInv /\ HeadInv /\ CallsInv /\ CountInv /\ DrainInv
  BY DEF StreamInv
<1>2. /\ gen = "done" /\ gen' = "finish"
      /\ log' = Append(log, Line("DONE", <<>>, <<>>))
      /\ UNCHANGED <<mode, raw, pend, acc, lead, leadDone, fed, prefilled, inThink, first, buf, kept, calls>>
      /\ qdone' = qdone /\ taken' = taken /\ prov' = prov /\ idle' = idle
  BY DEF PushDone, Push, engine, split, client
<1>3. inThink' \in BOOLEAN /\ "DONE" \in Sorts
  BY <1>1, <1>2 DEF SplitInv, Sorts
<1>4. /\ SplitInv' /\ Longer(log, log') /\ Len(log') \in Nat /\ SentOf(log') = SentOf(log)
      /\ NoContent(log) => NoContent(log')
      /\ CleanContent(log) => CleanContent(log')
      /\ log' # <<>> /\ Last(log').kind = "DONE"
  BY <1>1, <1>2, <1>3, Announced
<1>5. HeadInv' /\ Handed
  BY <1>1, <1>2, HeadStays, Untouched
<1>6. CallsInv'
  BY <1>1, <1>2, <1>4 DEF CallsInv, Generating
<1>7. CountInv'
  BY <1>1, <1>2, <1>4 DEF CountInv, Generating
<1>8. DrainInv'
  <2>1. Len(log) \in Nat /\ Len(log) <= Len(log')
    BY <1>1, <1>4, LenProperties DEF SplitInv, Kept, Longer
  <2>2. ~qdone /\ prov # "drained"
    BY <1>1, <1>2 DEF DrainInv
  <2>3. taken' \in 0 .. Len(log')
    BY <1>1, <1>2, <1>4, <2>1 DEF DrainInv
  <2>4. QED BY <1>1, <1>2, <1>4, <2>2, <2>3 DEF DrainInv
<1>9. QED BY <1>4, <1>5, <1>6, <1>7, <1>8 DEF StreamInv

LEMMA FinishStep ==
  ASSUME StreamInv, Finish
  PROVE  StreamInv' /\ Handed
<1>1. SplitInv /\ HeadInv /\ CallsInv /\ CountInv /\ DrainInv
  BY DEF StreamInv
<1>2. /\ gen = "finish" /\ gen' = "end" /\ qdone' = TRUE
      /\ UNCHANGED <<mode, raw, pend, acc, lead, leadDone, fed, prefilled, inThink, first, buf, kept, calls, log>>
      /\ taken' = taken /\ prov' = prov /\ idle' = idle
  BY DEF Finish, engine, split, client
<1>3. SplitInv'
  BY <1>1, <1>2 DEF SplitInv
<1>4. HeadInv' /\ Handed
  BY <1>1, <1>2, HeadStays, Untouched
<1>5. CallsInv'
  BY <1>1, <1>2 DEF CallsInv, Generating
<1>6. CountInv'
  BY <1>1, <1>2 DEF CountInv, Generating
<1>7. DrainInv'
  BY <1>1, <1>2 DEF DrainInv
<1>8. QED BY <1>3, <1>4, <1>5, <1>6, <1>7 DEF StreamInv

\* The provider reads the queue and nothing else.
LEMMA ProviderStep ==
  ASSUME StreamInv, Provider \/ Over \/ UNCHANGED streamVars
  PROVE  StreamInv' /\ Handed
<1>1. SplitInv /\ HeadInv /\ CallsInv /\ CountInv /\ DrainInv
  BY DEF StreamInv
<1>2. /\ UNCHANGED <<mode, gen, raw, pend, acc, lead, leadDone, fed, prefilled, inThink, first, buf, kept, calls>>
      /\ log' = log /\ qdone' = qdone
  BY DEF Provider, PopLine, LookAround, PopNothing, Over, streamVars, served, engine, split
<1>3. SplitInv'
  BY <1>1, <1>2 DEF SplitInv
<1>4. Handed
  BY <1>1, <1>2, Untouched
<1>5. HeadInv'
  BY <1>1, <1>2 DEF HeadInv, AssembledAlike
<1>6. CallsInv'
  BY <1>1, <1>2 DEF CallsInv
<1>7. CountInv'
  BY <1>1, <1>2 DEF CountInv
<1>8. DrainInv'
  <2>1. Len(log) \in Nat /\ MaxIdle \in Nat
    BY <1>1, LenProperties, StreamAssumption DEF SplitInv, Kept
  <2>2. taken \in 0 .. Len(log) /\ idle \in 0 .. MaxIdle
    BY <1>1 DEF DrainInv
  <2>3. ASSUME NEW writable \in BOOLEAN, PopLine(writable) PROVE DrainInv'
    <3>1. /\ prov = "pop" /\ taken # Len(log) /\ taken' = taken + 1 /\ idle' = 0
          /\ prov' \in {"pop", "gone"}
      BY <2>3 DEF PopLine, Empty
    <3>2. taken' \in 0 .. Len(log) /\ idle' \in 0 .. MaxIdle /\ idle' < MaxIdle
      BY <2>1, <2>2, <3>1, <1>1 DEF DrainInv, Waiting
    <3>3. QED BY <1>1, <1>2, <3>1, <3>2 DEF DrainInv
  <2>4. CASE PopNothing
    <3>1. prov = "pop" /\ prov' = "look" /\ taken' = taken /\ idle' = idle
      BY <2>4 DEF PopNothing
    <3>2. QED BY <1>1, <1>2, <3>1 DEF DrainInv, Waiting
  <2>5. ASSUME NEW writable \in BOOLEAN, LookAround(writable) PROVE DrainInv'
    <3>1. /\ prov = "look" /\ idle' = idle + 1 /\ taken' = taken
          /\ prov' \in {"gone", "drained", "capped", "pop"}
          /\ prov' = "drained" => qdone /\ taken = Len(log)
          /\ prov' = "pop" => idle + 1 # MaxIdle
      BY <2>5 DEF LookAround, finished, Empty
    <3>2. idle < MaxIdle
      BY <1>1, <3>1 DEF DrainInv, Waiting
    <3>3. idle' \in 0 .. MaxIdle /\ (prov' = "pop" => idle' < MaxIdle)
      BY <2>1, <2>2, <3>1, <3>2
    <3>4. QED BY <1>1, <1>2, <3>1, <3>3 DEF DrainInv, Waiting
  <2>6. CASE Over \/ UNCHANGED streamVars
    <3>1. prov' = prov /\ taken' = taken /\ idle' = idle
      BY <2>6 DEF Over, streamVars, client
    <3>2. QED BY <1>1, <1>2, <3>1 DEF DrainInv
  <2>7. QED BY <2>3, <2>4, <2>5, <2>6 DEF Provider
<1>9. QED BY <1>3, <1>4, <1>5, <1>6, <1>7, <1>8 DEF StreamInv

\* The lines of the end of a chat answer, and of one that may hold calls.
LEMMA ChatTail ==
  ASSUME StreamInv, NEW found \in BOOLEAN, FlushTail(found), mode = "chat"
  PROVE  /\ Kept(log') /\ Longer(log, log') /\ calls' = calls /\ kept' = kept
         /\ SentOf(log') = SentOf(log) + Letters(buf) + Letters(kept)
<1> DEFINE c == IF inThink THEN <<>> ELSE buf
           r == IF inThink THEN buf ELSE <<>>
<1>1. SplitInv
  BY DEF StreamInv
<1>2. log' = log \o Delta(c, r) /\ kept' = kept /\ calls' = calls
  BY DEF FlushTail
<1>3. /\ c \in Texts /\ r \in Texts /\ Whole(c) /\ Whole(r) /\ Letters(c) + Letters(r) = Letters(buf)
      /\ Letters(buf) \in Nat /\ Letters(kept) = 0 /\ Kept(log)
  BY <1>1, NothingIs, PrintedIs DEF SplitInv
<1>4. Letters(c) \in Nat /\ Letters(r) \in Nat
  BY <1>3, PrintedIs
<1> HIDE DEF c, r
<1>5. Adds(log, c, r, log')
  BY <1>2, <1>3, DeltaLogged
<1>6. SentOf(log) \in Nat /\ SentOf(log') = SentOf(log) + Letters(c) + Letters(r)
  BY <1>5 DEF Adds
<1>7. SentOf(log') = SentOf(log) + Letters(buf) + Letters(kept)
  BY <1>3, <1>4, <1>6
<1>8. QED BY <1>2, <1>5, <1>7 DEF Adds

LEMMA ToolsTail ==
  ASSUME StreamInv, NEW found \in BOOLEAN, FlushTail(found), mode = "tools"
  PROVE  /\ Kept(log') /\ Longer(log, log') /\ calls' = found /\ kept' \in Texts /\ Whole(kept')
         /\ CleanContent(log') /\ (found => NoContent(log'))
         /\ ~found /\ Openings(kept') = {} => SentOf(log') = SentOf(log) + Letters(buf) + Letters(kept)
<1> DEFINE c == IF inThink THEN <<>> ELSE buf
           r == IF inThink THEN buf ELSE <<>>
           all == kept \o c
           show == strip_tool_markup(all)
           log1 == log \o Delta(<<>>, r)
<1>1. SplitInv /\ CallsInv /\ gen \in Generating
  BY DEF StreamInv, FlushTail, Generating
<1>2. /\ kept' = all /\ calls' = found
      /\ log' = log1 \o (IF found THEN <<Line("calls", <<>>, <<>>)>> ELSE Delta(show, <<>>))
  BY DEF FlushTail
<1>3. /\ c \in Texts /\ r \in Texts /\ Whole(c) /\ Whole(r) /\ Letters(c) + Letters(r) = Letters(buf)
      /\ Kept(log) /\ kept \in Texts /\ Whole(kept) /\ Letters(kept) \in Nat
  BY <1>1, NothingIs, PrintedIs DEF SplitInv
<1>4. Letters(c) \in Nat /\ Letters(r) \in Nat
  BY <1>3, PrintedIs
<1> HIDE DEF c, r
<1>5. all \in Texts /\ Whole(all) /\ Letters(all) = Letters(kept) + Letters(c)
  BY <1>3, Joined, WholeJoined, LettersJoined
<1> HIDE DEF all
<1>6. /\ show \in Texts /\ Whole(show)
      /\ Openings(all) = {} => Letters(show) = Letters(all)
      /\ \A k \in 1 .. Len(show) : show[k] \notin {"T", "U"}
  BY <1>5, Stripped
<1> HIDE DEF show
<1>7. Adds(log, <<>>, r, log1)
  BY <1>3, NothingIs, DeltaLogged
<1> HIDE DEF log1
<1>8. /\ Kept(log1) /\ Longer(log, log1) /\ SentOf(log) \in Nat
      /\ SentOf(log1) = SentOf(log) + Letters(r)
  BY <1>4, <1>7, NothingIs DEF Adds
<1>9. NoContent(log1)
  <2>1. NoContent(log)
    BY <1>1 DEF CallsInv
  <2>2. QED BY <1>7, <2>1 DEF Adds, NoContent
<1>10. CASE found
  <2> DEFINE l == Line("calls", <<>>, <<>>)
  <2>1. l \in Lines /\ l.content = <<>> /\ l.reasoning = <<>>
    <3>1. "calls" \in Sorts
      BY DEF Sorts
    <3>2. QED BY <3>1, LinesAre, NothingIs
  <2>2. log' = log1 \o <<l>>
    BY <1>2, <1>10
  <2> HIDE DEF l
  <2>3. log' = Append(log1, l)
    BY <1>8, <2>1, <2>2, AppendIsConcat DEF Kept
  <2>4. /\ Kept(log') /\ Longer(log1, log')
        /\ \A k \in DOMAIN log' : (k \in DOMAIN log1 /\ log'[k] = log1[k]) \/ log'[k] = l
    BY <1>8, <2>1, <2>3, Logged, NothingIs
  <2>5. NoContent(log')
    BY <1>9, <2>1, <2>4 DEF NoContent
  <2>6. CleanContent(log')
    BY <2>5, NoneIsClean
  <2>7. Longer(log, log')
    BY <1>3, <1>8, <2>4, LenProperties DEF Longer, Kept
  <2>8. QED BY <1>2, <1>5, <1>10, <2>4, <2>5, <2>6, <2>7
<1>11. CASE ~found
  <2>1. log' = log1 \o Delta(show, <<>>)
    BY <1>2, <1>11
  <2>2. Adds(log1, show, <<>>, log')
    BY <1>5, <1>6, <1>8, <2>1, NothingIs, DeltaLogged
  <2>3. /\ Kept(log') /\ Longer(log1, log')
        /\ SentOf(log') = SentOf(log1) + Letters(show) + 0
        /\ \A k \in DOMAIN log' : (k \in DOMAIN log1 /\ log'[k] = log1[k]) \/ log'[k].content = show
    BY <2>2, NothingIs DEF Adds
  <2>4. CleanContent(log')
    <3>1. DOMAIN show = 1 .. Len(show) /\ DOMAIN <<>> = {}
      BY <1>6, TextIs
    <3>2. SUFFICES ASSUME NEW k \in DOMAIN log', NEW n \in DOMAIN log'[k].content
                   PROVE  log'[k].content[n] \notin {"T", "U"}
      BY DEF CleanContent
    <3>3. CASE k \in DOMAIN log1 /\ log'[k] = log1[k]
      <4>1. log'[k].content = <<>>
        BY <1>9, <3>3 DEF NoContent
      <4>2. QED BY <3>1, <3>2, <4>1
    <3>4. CASE log'[k].content = show
      BY <1>6, <3>1, <3>2, <3>4
    <3>5. QED BY <2>3, <3>3, <3>4
  <2>5. Longer(log, log')
    BY <1>3, <1>8, <2>3, LenProperties DEF Longer, Kept
  <2>6. ASSUME Openings(all) = {}
        PROVE  SentOf(log') = SentOf(log) + Letters(buf) + Letters(kept)
    BY <1>3, <1>4, <1>5, <1>6, <1>8, <2>3, <2>6
  <2>7. QED BY <1>2, <1>5, <1>11, <2>3, <2>4, <2>5, <2>6
<1>12. QED BY <1>10, <1>11

LEMMA FlushTailStep ==
  ASSUME StreamInv, NEW found \in BOOLEAN, FlushTail(found)
  PROVE  StreamInv' /\ Handed
<1>1. SplitInv /\ HeadInv /\ CallsInv /\ CountInv /\ DrainInv
  BY DEF StreamInv
<1>2. /\ gen = "tail" /\ gen' = "fin" /\ buf' = <<>>
      /\ UNCHANGED <<mode, raw, pend, acc, lead, leadDone, fed, prefilled, inThink, first>>
      /\ UNCHANGED <<qdone, client>>
  BY DEF FlushTail, engine
<1>3. /\ SentOf(log) + Letters(buf) + Letters(kept) = Letters(fed)
      /\ Letters(<<>>) = 0 /\ ~calls
  BY <1>1, <1>2, NothingIs DEF CountInv, CallsInv, Generating
<1>4. HeadInv' /\ Handed
  BY <1>1, <1>2, HeadStays, Untouched
<1>5. SplitInv' /\ CallsInv' /\ CountInv' /\ Longer(log, log')
  <2>1. CASE mode = "chat"
    <3>1. /\ Kept(log') /\ Longer(log, log') /\ calls' = calls /\ kept' = kept
          /\ SentOf(log') = SentOf(log) + Letters(buf) + Letters(kept)
      BY <2>1, ChatTail
    <3>2. SplitInv'
      BY <1>1, <1>2, <3>1, NothingIs DEF SplitInv
    <3>3. CallsInv'
      <4>1. mode' # "tools" /\ calls \in BOOLEAN
        BY <1>1, <1>2, <2>1 DEF CallsInv
      <4>2. calls' \in BOOLEAN /\ ~calls'
        BY <1>3, <3>1, <4>1
      <4>3. QED BY <4>1, <4>2 DEF CallsInv
    <3>4. SentOf(log') \in Nat
      <4>1. IsFiniteSet(PlacesOf(log'))
        BY <3>1 DEF Kept
      <4>2. QED BY <4>1, FS_CardinalityType DEF SentOf
    <3>5. CountInv'
      BY <1>2, <1>3, <3>1, <3>4 DEF CountInv, Generating
    <3>6. QED BY <3>1, <3>2, <3>3, <3>5
  <2>2. CASE mode = "tools"
    <3>1. /\ Kept(log') /\ Longer(log, log') /\ calls' = found /\ kept' \in Texts /\ Whole(kept')
          /\ CleanContent(log') /\ (found => NoContent(log'))
          /\ ~found /\ Openings(kept') = {} =>
               SentOf(log') = SentOf(log) + Letters(buf) + Letters(kept)
      BY <2>2, ToolsTail
    <3>2. SplitInv'
      BY <1>1, <1>2, <2>2, <3>1, NothingIs DEF SplitInv
    <3>3. CallsInv'
      BY <1>2, <3>1 DEF CallsInv, Generating
    <3>4. SentOf(log') \in Nat
      <4>1. IsFiniteSet(PlacesOf(log'))
        BY <3>1 DEF Kept
      <4>2. QED BY <4>1, FS_CardinalityType DEF SentOf
    <3>5. CountInv'
      BY <1>2, <1>3, <3>1, <3>4 DEF CountInv, Generating
    <3>6. QED BY <3>1, <3>2, <3>3, <3>5
  <2>3. QED BY <1>1, <2>1, <2>2 DEF SplitInv
<1>6. DrainInv'
  <2>1. Len(log') \in Nat
    BY <1>5, LenProperties DEF SplitInv, Kept
  <2>2. QED BY <1>1, <1>2, <1>5, <2>1, WorkerDrains
<1>7. QED BY <1>4, <1>5, <1>6 DEF StreamInv

LEMMA StreamInvNext ==
  ASSUME StreamInv, [StreamNext]_streamVars
  PROVE  StreamInv' /\ Handed
<1>1. CASE GiveUp
  BY <1>1, GiveUpStep
<1>2. CASE PromptDecoded
  BY <1>2, PromptDecodedStep
<1>3. ASSUME NEW piece \in Pieces, SampleStep(piece) PROVE StreamInv' /\ Handed
  BY <1>3, SampleTakes
<1>4. CASE LastToken
  BY <1>4, LastTokenStep
<1>5. ASSUME NEW found \in BOOLEAN, FlushTail(found) PROVE StreamInv' /\ Handed
  BY <1>5, FlushTailStep
<1>6. CASE PushFin
  BY <1>6, PushFinStep
<1>7. CASE PushDone
  BY <1>7, PushDoneStep
<1>8. CASE Finish
  BY <1>8, FinishStep
<1>9. CASE Provider \/ Over \/ UNCHANGED streamVars
  BY <1>9, ProviderStep
<1>10. QED
  BY <1>1, <1>2, <1>3, <1>4, <1>5, <1>6, <1>7, <1>8, <1>9 DEF StreamNext, Worker

\* The invariant holds in every state of a stream, from the prompt to the closed connection
\* (llama_stream and the two generation threads of the chat handler).
THEOREM StreamIsKept == StreamSpec => []StreamInv
<1>1. StreamInit => StreamInv
  BY StreamInvInit
<1>2. StreamInv /\ [StreamNext]_streamVars => StreamInv'
  BY StreamInvNext
<1>3. QED BY <1>1, <1>2, PTL DEF StreamSpec

---------------------------------------------------------------------------
(* What the invariant gives. *)

\* A stream that ended by itself delivered every line up to [DONE]: the provider's two looks at
\* the queue, in pop and in finished(), leave no room for a line in between (server.cpp:43, :52).
THEOREM DrainedStreamIsComplete == StreamSpec => []DrainedIsComplete
<1>1. StreamInv => DrainedIsComplete
  BY DEF StreamInv, DrainInv, DrainedIsComplete
<1>2. QED BY <1>1, StreamIsKept, PTL

\* Neither the stop string nor the markup of a call is ever shown, and a client of the tools path
\* sees the calls or the content (text_engine.cpp:1674, server.cpp:1108).
THEOREM OnlyTheTextIsShown == StreamSpec => []OnlyTextIsShown
<1>1. StreamInv => OnlyTextIsShown
  <2> SUFFICES ASSUME StreamInv PROVE OnlyTextIsShown
    OBVIOUS
  <2>1. HeadInv /\ CallsInv
    BY DEF StreamInv
  <2>2. StopNeverShown
    BY <2>1 DEF HeadInv, StopNeverShown
  <2>3. mode = "tools" => /\ CleanContent(log)
                          /\ calls => NoContent(log)
    BY <2>1 DEF CallsInv
  <2>4. CallsOrContent
    <3>1. SUFFICES ASSUME mode = "tools", NEW k \in DOMAIN log, log[k].content # <<>>
                   PROVE  ~calls /\ \A n \in DOMAIN log[k].content : log[k].content[n] \notin {"T", "U"}
      BY DEF CallsOrContent
    <3>2. ~calls
      BY <2>3, <3>1 DEF NoContent
    <3>3. \A n \in DOMAIN log[k].content : log[k].content[n] \notin {"T", "U"}
      BY <2>3, <3>1 DEF CleanContent
    <3>4. QED BY <3>2, <3>3
  <2>5. QED BY <2>2, <2>4 DEF OnlyTextIsShown
<1>2. QED BY <1>1, StreamIsKept, PTL

\* What the engine holds back as the head is handed on in the end, and nothing handed on is taken
\* back, whatever ends the loop (flush_lead, text_engine.cpp:1649).
THEOREM TheHeadIsHandedOn == StreamSpec => HeldTextIsNeverDropped
<1>1. StreamInv /\ [StreamNext]_streamVars => [IsPrefix(Ink(fed \o lead), Ink(fed' \o lead'))]_streamVars
  BY StreamInvNext DEF Handed
<1>2. QED BY <1>1, StreamIsKept, PTL DEF StreamSpec, HeldTextIsNeverDropped

\* The text survives every cut: of the tokenizer inside a character, of the pieces inside a tag, of
\* the held head (Utf8Streamer, text_engine.cpp:1009; ThinkSplitter, server.cpp:63).
THEOREM TheTextSurvives == StreamSpec => []TextSurvivesCuts
<1>1. StreamInv => TextSurvivesCuts
  <2> SUFFICES ASSUME StreamInv PROVE TextSurvivesCuts
    OBVIOUS
  <2>1. SplitInv /\ HeadInv /\ CallsInv /\ CountInv /\ DrainInv
    BY DEF StreamInv
  <2>2. /\ log \in Seq(Lines) /\ IsFiniteSet(PlacesOf(log))
        /\ \A k \in DOMAIN log : Whole(log[k].content) /\ Whole(log[k].reasoning)
    BY <2>1 DEF SplitInv, Kept
  <2>3. StreamTypeOK
    <3>1. \A k \in DOMAIN log : log[k].kind \in {"progress", "delta", "calls", "fin", "DONE"}
      <4>1. \A k \in DOMAIN log : log[k] \in Lines
        BY <2>2, ElementOfSeq, LenProperties
      <4>2. QED BY <4>1 DEF Lines, Sorts
    <3>2. \A s \in {raw, pend, acc, lead, fed, buf, kept} : s \in Texts
      BY <2>1 DEF SplitInv, HeadInv
    <3>3. /\ mode \in {"chat", "tools"} /\ prefilled \in BOOLEAN /\ leadDone \in BOOLEAN
          /\ inThink \in BOOLEAN /\ first \in BOOLEAN /\ calls \in BOOLEAN /\ qdone \in BOOLEAN
      BY <2>1 DEF SplitInv, HeadInv, CallsInv, DrainInv
    <3>4. /\ gen \in {"start", "decode", "tail", "fin", "done", "finish", "end"}
          /\ taken \in 0 .. Len(log) /\ idle \in 0 .. MaxIdle
          /\ prov \in {"pop", "look", "gone", "drained", "capped"}
      BY <2>1 DEF DrainInv
    <3>5. QED BY <3>1, <3>2, <3>3, <3>4 DEF StreamTypeOK
  <2>4. DeltasAreWhole
    BY <2>2 DEF DeltasAreWhole
  <2>5. AssembledAlike
    BY <2>1 DEF HeadInv
  <2>6. EveryLetterGoesOut
    <3>1. Sent = SentOf(log)
      BY DEF Sent, SentOf, Places, PlacesOf
    <3>2. Sent \in Nat /\ Letters(buf) \in Nat /\ Letters(kept) \in Nat
      <4>1. buf \in Texts /\ kept \in Texts
        BY <2>1 DEF SplitInv
      <4>2. QED BY <2>2, <3>1, <4>1, FS_CardinalityType, PrintedIs DEF SentOf
    <3>3. gen \in {"fin", "done", "finish", "end"} <=> gen \notin Generating
      BY <2>1 DEF DrainInv, Generating
    <3>4. CASE gen \in Generating
      <4>1. Sent + Letters(buf) + Letters(kept) = Letters(fed)
        BY <2>1, <3>1, <3>4 DEF CountInv
      <4>2. QED BY <3>3, <3>4, <4>1 DEF EveryLetterGoesOut
    <3>5. CASE gen \notin Generating /\ ~calls /\ Openings(kept) = {}
      <4>1. Sent + Letters(buf) + 0 = Letters(fed)
        BY <2>1, <3>1, <3>2, <3>5 DEF CountInv
      <4>2. QED BY <3>3, <3>5, <4>1 DEF EveryLetterGoesOut
    <3>6. CASE calls
      BY <3>6 DEF EveryLetterGoesOut
    <3>7. CASE gen \notin Generating /\ Openings(kept) # {}
      <4>1. gen \in {"fin", "done", "finish", "end"}
        BY <2>1, <3>7 DEF DrainInv, Generating
      <4>2. QED BY <3>7, <4>1 DEF EveryLetterGoesOut
    <3>8. QED BY <3>4, <3>5, <3>6, <3>7
  <2>7. QED BY <2>3, <2>4, <2>5, <2>6 DEF TextSurvivesCuts
<1>2. QED BY <1>1, StreamIsKept, PTL
=============================================================================
