--------------------------- MODULE TextGeneration ---------------------------
(***************************************************************************)
(* One text request at a time, as engine/text_engine.cpp runs it under     *)
(* models_mutex_: a fresh context, auto-compaction, the prefill, and the   *)
(* plain or the speculative decoding loop; LoRA adapters around it.        *)
(*                                                                         *)
(* The models are external.  What the request's own sampler returns of the *)
(* target is a script: how many tokens before the end-of-generation token, *)
(* whether it thinks first, at which token the thinking closes and at      *)
(* which one the answer starts; a token is its number in the script.  A    *)
(* cache holds such numbers, after one entry for the prompt.               *)
(*                                                                         *)
(* The output is tokens, not text: the plain and the speculative loop make *)
(* text of their tokens in different ways, and with differently made       *)
(* samplers, so that a script belongs to one request and its loop.         *)
(***************************************************************************)
EXTENDS Integers, Sequences, FiniteSetsExt

CONSTANTS
  Scripts,    \* the answers: [len, thinks, close, answer]
  Limits,     \* values of max_tokens
  K,          \* opts.draft_tokens, after clamping
  PromptLen,  \* tokens of the prompt
  NCtx,       \* config.n_ctx
  Extra, ExtCap, Slack, MinRoom, MinExtra, AnswerRoom,  \* 512, 4096, 16, 128, 64, 512
  Headroom    \* 4: what a speculative round keeps free

ASSUME LimitsAssumption == Limits \subseteq Nat /\ K \in Nat \ {0} /\ PromptLen \in Nat \ {0}
ASSUME RoomAssumption ==
  /\ NCtx \in Nat /\ Extra \in Nat \ {0} /\ ExtCap \in Nat /\ Slack \in Nat /\ Headroom \in Nat
  /\ MinRoom \in Nat \ {0} /\ MinExtra \in 1..Extra /\ AnswerRoom \in Nat \ {0}
ASSUME ScriptsAssumption ==
  Scripts \subseteq [len : Nat, thinks : BOOLEAN, close : Nat, answer : Nat]

\* What else a cache or an output may hold: the prompt, what an earlier use left, a token that
\* the target would not say next.
PROMPT == 0   STRAY == -1   WRONG == -2

Kinds == {"chat", "stream", "raw"}
Models == {"target", "draft"}
NoScript == [len |-> 0, thinks |-> FALSE, close |-> 0, answer |-> 0]
NoRequest == [kind |-> "none", max_tokens |-> 0, speculative |-> FALSE, grammar |-> FALSE, lora |-> FALSE]

VARIABLES
  pc,        \* where the request is
  request,   \* its options: kind, max_tokens, speculative, grammar, lora
  script,    \* what the target would answer
  ctx,       \* ctx[m]: does model m have a context (lctx)
  kv,        \* kv[m]: the cache of that context, in order of position
  rounds,    \* auto_compact: summaries made
  adapter,   \* is the LoRA adapter loaded
  applied,   \* is it applied to the target's context
  i, lim, ext_total,  \* the plain loop
  proposals, \* the speculative round: what the draft proposed
  out,       \* the tokens emitted
  trouble,   \* a failed decode in the plain loop: it ended the answer, or was ignored
  finish     \* finish_reason of the last answer

loop == <<i, lim, ext_total>>
vars == <<pc, request, script, ctx, kv, rounds, adapter, applied, loop, proposals, out, trouble, finish>>

Init ==
  /\ pc = "idle" /\ request = NoRequest /\ script = NoScript
  /\ ctx = [m \in Models |-> TRUE] /\ kv = [m \in Models |-> <<>>] /\ rounds = 0
  /\ adapter = FALSE /\ applied = FALSE /\ i = 0 /\ lim = 0 /\ ext_total = 0
  /\ proposals = <<>> /\ out = <<>> /\ trouble = "none" /\ finish = "none"

---------------------------------------------------------------------------
Count(n) == [j \in 1..n |-> j]
Used(m) == IF kv[m] = <<>> THEN 0 ELSE Len(kv[m]) - 1 + PromptLen

\* Slip: an answer that is cut leaves its adapter applied.
EndKeepsAdapter(reason) ==
  /\ pc' = "answered" /\ finish' = reason /\ applied' = (applied /\ reason = "length")
  /\ UNCHANGED <<request, rounds, loop>>

\* The request is answered, its adapters cleared and its samplers freed.
End(reason) ==
  /\ pc' = "answered" /\ finish' = reason /\ applied' = FALSE
  /\ UNCHANGED <<request, rounds, loop>>

\* fresh_context(): a new context with an empty cache, or none at all.
Fresh(m) == /\ ctx' = [ctx EXCEPT ![m] = TRUE] /\ kv' = [kv EXCEPT ![m] = <<>>]
NoContext(m) == /\ ctx' = [ctx EXCEPT ![m] = FALSE] /\ kv' = [kv EXCEPT ![m] = <<>>]

\* complete, complete_stream, complete_raw (and complete_stream_raw).
Begin(r) ==
  /\ pc = "idle" /\ request' = r /\ applied' = FALSE
  /\ \/ /\ Fresh("target") /\ UNCHANGED finish
        /\ pc' = IF r.kind = "raw" THEN "prefill" ELSE "compact"
     \/ NoContext("target") /\ finish' = "error" /\ pc' = "answered"
  /\ UNCHANGED <<script, rounds, adapter, loop, proposals, out, trouble>>

\* The call returns; what it decoded is a stray in its contexts from now on.
Return ==
  /\ pc = "answered" /\ pc' = "idle" /\ request' = NoRequest /\ script' = NoScript
  /\ kv' = [m \in Models |-> IF kv[m] = <<>> THEN <<>> ELSE <<STRAY>>]
  /\ rounds' = 0 /\ i' = 0 /\ lim' = 0 /\ ext_total' = 0 /\ out' = <<>> /\ proposals' = <<>>
  /\ trouble' = "none" /\ finish' = "none" /\ UNCHANGED <<ctx, adapter, applied>>

\* load_lora_adapter: the old adapter goes before the new one is there.
LoadAdapter ==
  /\ pc = "idle" /\ adapter' \in BOOLEAN
  /\ UNCHANGED <<pc, request, script, ctx, kv, rounds, applied, loop, proposals, out, trouble, finish>>

\* unload_lora_adapter.
UnloadAdapter ==
  /\ pc = "idle" /\ adapter /\ adapter' = FALSE
  /\ UNCHANGED <<pc, request, script, ctx, kv, rounds, applied, loop, proposals, out, trouble, finish>>

---------------------------------------------------------------------------
(* auto_compact *)

\* A summary by the same model in the same context; it fails or is empty: no more rounds.
Summarise ==
  /\ pc = "compact" /\ rounds < 3
  /\ kv' = [kv EXCEPT !["target"] = <<STRAY>>]
  /\ \/ rounds' = rounds + 1 /\ UNCHANGED pc
     \/ pc' = "compacted" /\ UNCHANGED rounds
  /\ UNCHANGED <<request, script, ctx, adapter, applied, loop, proposals, out, trouble, finish>>

\* The prompt fits, or nothing is left to summarise.
Fits ==
  /\ pc = "compact" /\ pc' = "compacted"
  /\ UNCHANGED <<request, script, ctx, kv, rounds, adapter, applied, loop, proposals, out, trouble, finish>>

AfterCompact ==
  IF request.kind = "chat" /\ request.speculative THEN "choose" ELSE "prefill"

\* The end of auto_compact: a fresh context if there was a summary.
Compacted ==
  /\ pc = "compacted"
  /\ \/ /\ rounds > 0 => Fresh("target")
        /\ rounds = 0 => UNCHANGED <<ctx, kv>>
        /\ pc' = AfterCompact
        /\ UNCHANGED <<request, applied, loop, finish, rounds>>
     \/ rounds > 0 /\ NoContext("target") /\ End("error")
  /\ UNCHANGED <<script, adapter, proposals, out, trouble>>

\* Slip: under a grammar the request starts over with its draft.
ChooseAgain ==
  /\ pc = "choose" /\ ctx["draft"] /\ Fresh("draft")
  /\ IF request.grammar THEN pc' = "compact" /\ rounds' = 0 ELSE pc' = "prefill" /\ UNCHANGED rounds
  /\ UNCHANGED <<request, script, adapter, applied, loop, proposals, out, trouble, finish>>

\* llama_complete: the draft gets a fresh context, or the request goes on without it;
\* under a grammar it starts over as a standard one.
Choose ==
  /\ pc = "choose"
  /\ \/ /\ ctx["draft"] /\ Fresh("draft")
        /\ IF request.grammar
           THEN pc' = "compact" /\ rounds' = 0 /\ request' = [request EXCEPT !.speculative = FALSE]
           ELSE pc' = "prefill" /\ UNCHANGED <<rounds, request>>
     \/ /\ ctx["draft"] /\ NoContext("draft") /\ pc' = "prefill"
        /\ request' = [request EXCEPT !.speculative = FALSE] /\ UNCHANGED rounds
     \/ /\ ~ctx["draft"] /\ pc' = "prefill"
        /\ request' = [request EXCEPT !.speculative = FALSE] /\ UNCHANGED <<ctx, kv, rounds>>
  /\ UNCHANGED <<script, adapter, applied, loop, proposals, out, trouble, finish>>

---------------------------------------------------------------------------
(* the prefill *)

Speculates == request.kind = "chat" /\ request.speculative

\* llama_complete does not clear the cache, the other loops do.
ClearsFirst == request.kind # "chat" \/ Speculates

Prefill ==
  /\ pc = "prefill" /\ script' \in Scripts
  /\ \/ /\ kv' = [m \in Models |->
               IF m = "draft" THEN IF Speculates THEN <<PROMPT>> ELSE kv[m]
               ELSE IF ClearsFirst THEN <<PROMPT>> ELSE Append(kv[m], PROMPT)]
        /\ applied' = (request.lora /\ adapter)
        /\ pc' = IF Speculates THEN "propose" ELSE "plain"
        /\ lim' = request.max_tokens /\ UNCHANGED <<request, rounds, i, ext_total, finish>>
     \/ /\ kv' = [kv EXCEPT !["target"] = <<STRAY>>] /\ End("error")
  /\ UNCHANGED <<ctx, adapter, proposals, out, trouble>>

---------------------------------------------------------------------------
(* the plain loop: llama_complete, llama_complete_raw, llama_stream *)

\* think_unclosed and think_has_answer, after n tokens.
Unclosed(n) == script.thinks /\ (script.close = 0 \/ n < script.close)
HasAnswer(n) == script.thinks /\ script.close > 0 /\ n >= script.answer

Room(n) == NCtx - (PromptLen + n) - Slack

\* Slip: the extensions are not added up.
GrowthUncapped(n) ==
  LET extra == Min({Extra, ExtCap, Room(n)}) IN
    IF Room(n) < MinRoom \/ extra < MinExtra THEN 0 ELSE extra

\* How much the limit grows when it is reached after n tokens of thinking; 0 means stop.
Growth(n) ==
  LET extra == Min({Extra, ExtCap - ext_total, Room(n)}) IN
    IF Room(n) < MinRoom \/ extra < MinExtra THEN 0 ELSE extra

\* Slip: the limit grows once only.
LimitReachedOnce(n) == n >= lim /\ Unclosed(n) /\ ext_total = 0

\* Is the limit reached while the model still thinks?
LimitReached(n) == n >= lim /\ Unclosed(n) /\ ext_total < ExtCap

\* What is left of the limit once the answer has begun, after n tokens.
Shrunk(n, limit, ext) ==
  LET room == n - 1 + Max({request.max_tokens, AnswerRoom}) IN
    IF ext > 0 /\ ~Unclosed(n) /\ HasAnswer(n) /\ limit > room THEN room ELSE limit

\* The token sampled as the n-th: after a decode whose failure was ignored it is sampled from
\* what the decode before it left, and is not what the target would say.
Token(n) == IF trouble = "ignored" THEN WRONG ELSE n

\* One token, after which the loop goes on.  A failed decode is ignored: the token is emitted
\* and is not in the cache.
Goes(n, decoded) ==
  /\ out' = Append(out, Token(n)) /\ i' = n
  /\ kv' = IF decoded THEN [kv EXCEPT !["target"] = Append(@, Token(n))] ELSE kv
  /\ trouble' = IF decoded THEN trouble ELSE "ignored"
  /\ LET g == IF LimitReached(n) THEN Growth(n) ELSE 0 IN
       /\ ~(LimitReached(n) /\ g = 0)
       /\ ext_total' = ext_total + g
       /\ lim' = Shrunk(n, lim + g, ext_total + g)
  /\ UNCHANGED <<pc, request, script, ctx, rounds, adapter, applied, proposals, finish>>

\* The loop ends with its last token: a stop string, a failed decode, no growth.
EndsAt(n, reason, decoded) ==
  /\ out' = Append(out, Token(n)) /\ End(reason)
  /\ kv' = IF decoded THEN [kv EXCEPT !["target"] = Append(@, Token(n))] ELSE kv
  /\ UNCHANGED <<script, ctx, adapter, proposals>>

\* A failed decode ends the answer, for want of room or for another reason.
Troubled(fits) == IF fits /\ trouble = "none" THEN "ended" ELSE trouble

PlainEnd ==
  /\ pc = "plain"
  /\ \/ i < lim /\ i = script.len /\ End("stop")
     \/ i >= lim /\ End("length")
  /\ UNCHANGED <<script, ctx, kv, adapter, proposals, out, trouble>>

\* A token ends the answer if its decode fails, unless it completes no character yet: then
\* llama_complete and llama_complete_raw do not look at the result.
PlainStep ==
  LET n == i + 1
      fits == Used("target") < NCtx
  IN /\ pc = "plain" /\ i < lim /\ i < script.len
     /\ \/ fits /\ Goes(n, TRUE)
        \/ request.kind # "stream" /\ Goes(n, FALSE)
        \/ EndsAt(n, "stop", FALSE) /\ UNCHANGED trouble
        \/ EndsAt(n, "length", FALSE) /\ trouble' = Troubled(fits)
        \/ fits /\ LimitReached(n) /\ Growth(n) = 0 /\ EndsAt(n, "length", TRUE) /\ UNCHANGED trouble

---------------------------------------------------------------------------
(* the speculative loop: llama_complete_speculative *)

Base == Len(out)

\* A proposal of p tokens of which the first n are what the target would say.
Proposal(p, n) == [j \in 1..p |-> IF j <= n THEN Base + j ELSE WRONG]

\* The loop test, the room test, and a draft that proposes nothing.
SpeculationEnds ==
  /\ pc = "propose" /\ End("length")
  /\ UNCHANGED <<script, ctx, kv, adapter, proposals, out, trouble>>

\* Slip: the limit is not looked at.
ProposeUnlimited ==
  /\ pc = "propose" /\ Used("target") + K + Headroom < NCtx
  /\ \E p \in 1..K : \E n \in 0..p :
       /\ Base + n <= script.len
       /\ proposals' = Proposal(p, n)
       /\ kv' = [kv EXCEPT !["draft"] = @ \o Proposal(p, n)]
  /\ pc' = "verify"
  /\ UNCHANGED <<request, script, ctx, rounds, adapter, applied, loop, out, trouble, finish>>

\* The draft proposes up to K tokens; it cannot agree beyond the end of the answer.
Propose ==
  /\ pc = "propose" /\ Base < request.max_tokens /\ Used("target") + K + Headroom < NCtx
  /\ \E p \in 1..K : \E n \in 0..p :
       /\ Base + n <= script.len
       /\ proposals' = Proposal(p, n)
       /\ kv' = [kv EXCEPT !["draft"] = @ \o Proposal(p, n)]
  /\ pc' = "verify"
  /\ UNCHANGED <<request, script, ctx, rounds, adapter, applied, loop, out, trouble, finish>>

Accepted == Max({n \in 0..Len(proposals) : \A j \in 1..n : proposals[j] = Base + j})

\* Slip: the rejected tail stays in the draft's cache.
TrimmedTargetOnly(m, keep) ==
  LET cache == IF m = "target" THEN kv[m] \o proposals ELSE kv[m]
  IN IF m = "draft" THEN cache ELSE SubSeq(cache, 1, 1 + keep)

\* The cache of m after verification, cut to the prompt and keep tokens: the target has
\* decoded the proposals only now, the draft when it made them.
Trimmed(m, keep) ==
  LET cache == IF m = "target" THEN kv[m] \o proposals ELSE kv[m]
  IN SubSeq(cache, 1, 1 + keep)

\* Slip: the rejected tail is emitted too.
EmittedWhole(n) == out \o proposals \o <<Base + n + 1>>

\* The output after a round that accepts n proposals and adds one token of the target's own.
Emitted(n) == out \o SubSeq(proposals, 1, n) \o <<Base + n + 1>>

\* Slip: the accepted proposals are lost before a bonus too.
RoundEndsSilently ==
  LET n == Accepted IN
    /\ pc = "verify" /\ Base + n = script.len /\ End("stop")
    /\ kv' = [m \in Models |-> Trimmed(m, Base + n)]
    /\ proposals' = <<>> /\ UNCHANGED <<script, ctx, adapter, out, trouble>>

\* The target's own token - the correction, or the bonus - ends the answer.  The accepted
\* proposals are emitted before a bonus, and are not before a correction.
RoundEnds ==
  LET n == Accepted IN
    /\ pc = "verify" /\ Base + n = script.len /\ End("stop")
    /\ kv' = [m \in Models |-> Trimmed(m, Base + n)]
    /\ out' = IF n = Len(proposals) THEN out \o proposals ELSE out
    /\ proposals' = <<>>
    /\ UNCHANGED <<script, ctx, adapter, trouble>>

\* The target's own token is emitted and decoded by both; the loop goes on unless the
\* output has a stop string.
RoundGoesOn ==
  LET n == Accepted
      base == Base
  IN /\ pc = "verify" /\ base + n < script.len /\ out' = Emitted(n)
     /\ kv' = [m \in Models |-> Append(Trimmed(m, base + n), base + n + 1)]
     /\ proposals' = <<>>
     /\ \/ pc' = "propose" /\ UNCHANGED <<request, applied, rounds, loop, finish>>
        \/ End("length")
     /\ UNCHANGED <<script, ctx, adapter, trouble>>

\* A decode fails: the loop is left.
RoundFails ==
  /\ pc = "verify" /\ End("length") /\ proposals' = <<>>
  /\ UNCHANGED <<script, ctx, kv, adapter, out, trouble>>

---------------------------------------------------------------------------
Requests ==
  [kind : Kinds, max_tokens : Limits, speculative : BOOLEAN, grammar : BOOLEAN, lora : BOOLEAN]

Step == Return \/ Summarise \/ Fits \/ Compacted \/ Choose \/ Prefill \/ PlainStep \/ PlainEnd
        \/ SpeculationEnds \/ Propose \/ RoundEnds \/ RoundGoesOn \/ RoundFails

Next == (\E r \in Requests : Begin(r)) \/ LoadAdapter \/ UnloadAdapter \/ Step

Spec == Init /\ [][Next]_vars

\* The thread that serves the request runs; no call of llama.cpp hangs.
FairSpec == Spec /\ WF_vars(Step)

---------------------------------------------------------------------------
TypeOK ==
  /\ pc \in {"idle", "answered", "compact", "compacted", "choose", "prefill", "plain", "propose", "verify"}
  /\ request \in Requests \cup {NoRequest} /\ script \in Scripts \cup {NoScript}
  /\ ctx \in [Models -> BOOLEAN] /\ kv \in [Models -> Seq(Int)] /\ rounds \in 0..3
  /\ adapter \in BOOLEAN /\ applied \in BOOLEAN
  /\ i \in Nat /\ lim \in Nat /\ ext_total \in 0..ExtCap
  /\ proposals \in Seq(Int) /\ out \in Seq(Int)
  /\ trouble \in {"none", "ended", "ignored"}
  /\ finish \in {"none", "stop", "length", "error"}

\* Whenever a loop samples, the caches hold the prompt and exactly what has been emitted: the
\* speculative loop trims and refills both alike.  The plain loop has two exceptions: a chat
\* request whose first summary failed (see PrefillsEmptyCache), and an answer in which the
\* failed decode of a token that completes no character was ignored.
Holds(m, before) == kv[m] = before \o <<PROMPT>> \o Count(Len(out))
CachesHoldTheAnswer ==
  /\ pc = "propose" => /\ ctx["target"] /\ ctx["draft"]
                       /\ Holds("target", <<>>) /\ Holds("draft", <<>>)
  /\ pc = "plain" => ctx["target"]
  /\ pc = "plain" /\ trouble = "none" =>
       \/ Holds("target", <<>>)
       \/ request.kind = "chat" /\ rounds = 0 /\ Holds("target", <<STRAY>>)

\* "ringkasan memakai lctx yang sama -> segarkan agar prefill utama mulai dari KV kosong"
\* (text_engine.cpp:1165: a summary uses the same context, which is refreshed so that the main
\* prefill starts from an empty cache): no loop samples behind something other than its prompt.
PrefillsEmptyCache == pc \in {"plain", "propose"} => Head(kv["target"]) = PROMPT

\* The output is the tokens the target's sampler returns for what was emitted before, in order
\* and without a gap, whatever the draft proposes and wherever a round is rejected - except
\* behind a decode whose failure was ignored, which only the plain loop does.
EmitsTheTargetsTokens ==
  /\ Len(out) <= script.len
  /\ out = Count(Len(out)) \/ (trouble = "ignored" /\ ~Speculates)

\* A speculative answer that reports its end misses less than one round of tokens of it: those
\* accepted before a correction that is the end-of-generation token.
StopLosesLessThanADraft ==
  pc = "answered" /\ finish = "stop" /\ Speculates => script.len - Len(out) < K

\* max_tokens is passed by no more than a round, or than the extension for thinking.
LengthBounded ==
  Len(out) <= request.max_tokens + (IF Speculates THEN K ELSE ExtCap)

\* BUG-047: an answer is not cut while the model thinks, unless the extension is used up, the
\* context is full or a decode failed.  (A limit of 0 never enters the loop.)
ThinkingCutForRoomOnly ==
  pc = "answered" /\ finish = "length" /\ ~Speculates /\ request.max_tokens > 0
  /\ Unclosed(Len(out)) =>
    \/ ExtCap - ext_total < MinExtra
    \/ Room(Len(out)) < Max({MinRoom, MinExtra})
    \/ Used("target") >= NCtx
    \/ trouble # "none"

\* An answer is as long as it may be: the loops count by the round, by the extension for
\* thinking and by the room in the context, and miss or exceed the limit by no more.
EndsInBounds == StopLosesLessThanADraft /\ LengthBounded /\ ThinkingCutForRoomOnly

\* No context refers to an adapter that was freed: it is cleared on every way out of a request.
AppliedIsLoaded == applied => adapter

\* What a request finds when it samples: caches that hold its prompt and its answer (with the
\* two exceptions named above), and no adapter that was freed.
ContextsAreSound == TypeOK /\ CachesHoldTheAnswer /\ AppliedIsLoaded

\* Every request is answered, also when the draft proposes nothing but wrong tokens and the
\* limit keeps growing.
RequestEnds == pc # "idle" ~> pc = "idle"
===========================================================================
