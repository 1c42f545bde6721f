------------------------------ MODULE TextStream ------------------------------
(* The path of a streamed answer: llama_stream's decode loop and its UTF-8     *)
(* assembler (engine/text_engine.cpp), the think splitter, the detached        *)
(* generation thread and the SSE queue its lines go through, and the content   *)
(* provider that writes them to the client (api/server.cpp).                   *)
(*                                                                             *)
(* Text is a sequence of byte kinds:                                           *)
(*   "x"  a printing one-byte character     "n"  white space                   *)
(*   "3"  the first byte of a three-byte character, "c" a continuation byte    *)
(*   "<" "t" "/" ">"  the bytes of a tag: <t> stands for <think>, </> for      *)
(*        </think>; both are longer in the code, the hold-back rule is the same*)
(*   "H"  the whole header <|im_start|>assistant                               *)
(*   "T"  a whole <tool_call>..</tool_call> or <function=..</function> block   *)
(*   "U"  the beginning of such a block that nothing closes                    *)
(*   "?"  what the assembler puts in place of a byte it cannot place           *)
EXTENDS Integers, Sequences, SequencesExt, FiniteSetsExt

Bytes == {"x", "n", "3", "c", "<", "t", "/", ">", "s", "H", "T", "U", "?"}
Texts == Seq(Bytes)

CONSTANTS Pieces,     \* the token pieces the model may sample
          Stop,       \* the request's stop string
          LeadMax,    \* bytes held back to clean the head (64)
          MaxBytes,   \* bound: bytes of one answer
          MaxIdle     \* provider polls without a line before it gives up (14400)

\* An empty stop string is skipped.
ASSUME StreamAssumption ==
  /\ Pieces \subseteq Texts /\ Stop \in Texts \ {<<>>}
  /\ LeadMax \in Nat /\ MaxBytes \in Nat /\ MaxIdle \in Nat \ {0}

VARIABLES mode,     \* "chat": content goes out live; "tools": it waits for the parse
          gen,      \* the generation thread
          raw,      \* history: the bytes of all sampled pieces
          pend,     \* Utf8Streamer::pending
          acc,      \* the text so far, the stop strings are looked up in it
          lead, leadDone,  \* the held head of the answer
          fed,      \* history: what the callback received
          prefilled,            \* the prompt ends inside an open think block
          inThink, first, buf,  \* ThinkSplitter
          kept,     \* content_buf of the tools path
          calls,    \* the parse found tool calls
          log,      \* every line pushed to the queue, in order
          taken,    \* how many of them pop has returned
          qdone,    \* SseQueue::done
          prov,     \* the content provider
          idle      \* its polls without a line in a row

engine == <<raw, pend, acc, lead, leadDone>>
split  == <<fed, prefilled, inThink, first, buf, kept>>
client == <<taken, prov, idle>>
streamVars == <<mode, gen, engine, split, calls, log, qdone, client>>

Open  == <<"<", "t", ">">>
Close == <<"<", "/", ">">>
Tag(think) == IF think THEN Close ELSE Open

(* ------------------------------ Utf8Streamer ------------------------------ *)
\* Slip: every byte is a character.
NeedOne(b) == 1

Need(b) == CASE b = "c" -> 0 [] b = "3" -> 3 [] OTHER -> 1

\* The character that begins at byte i is not all there yet.
Incomplete(s, i) == i + Need(s[i]) - 1 > Len(s)

Broken(s, i) == Need(s[i]) = 0 \/ \E k \in 1 .. (Need(s[i]) - 1) : s[i + k] # "c"

\* How many bytes are taken at i, and what is put out for them.
Width(s, i) == IF Broken(s, i) THEN 1 ELSE Need(s[i])
Character(s, i) ==
  IF Broken(s, i) THEN <<"?">> ELSE SubSeq(s, i, i + Need(s[i]) - 1)

\* The scan of push: what is whole so far, and the incomplete tail it holds.
Assemble(s) ==
  LET from[i \in 1 .. (Len(s) + 1)] ==
        IF i > Len(s) \/ Incomplete(s, i)
          THEN [out |-> <<>>, tail |-> SubSeq(s, i, Len(s))]
          ELSE [from[i + Width(s, i)] EXCEPT !.out = Character(s, i) \o @]
  IN from[1]

\* What push scans: the held tail and the new piece. Slip: the tail is lost.
ScannedPieceOnly(piece) == piece
Scanned(piece) == pend \o piece

(* ------------------------- the head of the answer ------------------------- *)
\* s without the given bytes.
Without(s, bytes) ==
  LET sift[n \in 0 .. Len(s)] ==
        IF n = 0 THEN <<>> ELSE IF s[n] \in bytes THEN sift[n - 1]
        ELSE Append(sift[n - 1], s[n])
  IN sift[Len(s)]

SkipBlank(s) ==
  LET ink == {i \in DOMAIN s : s[i] # "n"}
  IN IF ink = {} THEN <<>> ELSE SubSeq(s, Min(ink), Len(s))

clean_prefix(s) ==
  LET t == SkipBlank(s) IN IF t # <<>> /\ t[1] = "H" THEN SkipBlank(Tail(t)) ELSE t

is_blank(s) == \A i \in DOMAIN s : s[i] = "n"
\* Slip: the markup stays.
strip_nothing(s) == s

\* Where a block begins that nothing closes.
Openings(s) == {k \in DOMAIN s : s[k] = "U"}

\* A block that is not closed is erased to the end of the text, the closed blocks
\* behind its beginning with it, so that the order of the two does not matter.
strip_tool_markup(s) ==
  LET u   == IF Openings(s) = {} THEN s ELSE SubSeq(s, 1, Min(Openings(s)) - 1)
      t   == clean_prefix(Without(u, {"T"}))
      ink == {i \in DOMAIN t : t[i] # "n"}
  IN IF ink = {} THEN <<>> ELSE SubSeq(t, 1, Max(ink))

(* ------------------------------ ThinkSplitter ----------------------------- *)
\* How much of the end of b may be the beginning of the tag.
Keep(b, tag) ==
  LET ks == {k \in 1 .. (Len(tag) - 1) :
               k < Len(b) /\ SubSeq(b, Len(b) - k + 1, Len(b)) = SubSeq(tag, 1, k)}
  IN IF ks = {} THEN 0 ELSE Min(ks)

\* Where the tag that ends the block may begin, at or behind i.
Hits(b, think, i) ==
  {p \in i .. (Len(b) - Len(Tag(think)) + 1) :
     SubSeq(b, p, p + Len(Tag(think)) - 1) = Tag(think)}

Add(think, s, parts) == IF think THEN [parts EXCEPT !.reasoning = s \o @]
                                 ELSE [parts EXCEPT !.content = s \o @]

\* No tag in the rest: what may be the beginning of one is held.
HoldBack(think, rest) ==
  LET n == Len(rest) - Keep(rest, Tag(think))
  IN Add(think, SubSeq(rest, 1, n),
         [content |-> <<>>, reasoning |-> <<>>, think |-> think,
          buf |-> SubSeq(rest, n + 1, Len(rest))])

\* The loop of push over b, started in or out of a think block.
Parts(think, b) ==
  LET from[at \in BOOLEAN \X (1 .. (Len(b) + 1))] ==
        LET hits == Hits(b, at[1], at[2])
        IN IF hits = {} THEN HoldBack(at[1], SubSeq(b, at[2], Len(b)))
           ELSE Add(at[1], SubSeq(b, at[2], Min(hits) - 1),
                    from[<<~at[1], Min(hits) + Len(Tag(at[1]))>>])
  IN from[<<think, 1>>]

\* Slip: the first bytes are taken for the opener unseen.
DropUnseen(b) == IF first /\ inThink THEN SubSeq(b, Len(Open) + 1, Len(b)) ELSE b

\* An opener the model echoes after a prefilled one is dropped, once.
DropEcho(b) == IF first /\ inThink /\ IsPrefix(Open, b)
                 THEN SubSeq(b, Len(Open) + 1, Len(b)) ELSE b

SplitterPush(s) == Parts(inThink, DropEcho(buf \o s))

(* ------------------------- queue lines and deltas ------------------------- *)
Line(kind, c, r) == [kind |-> kind, content |-> c, reasoning |-> r]

\* emit_delta: reasoning that is only white space is dropped, and so is an
\* empty delta.
Delta(c, r) ==
  LET shown == IF is_blank(r) THEN <<>> ELSE r
  IN IF c = <<>> /\ shown = <<>> THEN <<>> ELSE <<Line("delta", c, shown)>>

\* What one callback with text s (and is_final FALSE) does on the server.
Callback(text) == \E s \in {text} :
  IF s = <<>> THEN UNCHANGED <<split, log>>
  ELSE \E p \in {SplitterPush(s)} :
       /\ fed' = fed \o s
       /\ inThink' = p.think
       /\ first' = (first /\ ~inThink)
       /\ buf' = p.buf
       /\ log' = log \o Delta(IF mode = "chat" THEN p.content ELSE <<>>, p.reasoning)
       /\ kept' = IF mode = "chat" THEN kept ELSE kept \o p.content
       /\ UNCHANGED prefilled

(* --------------------------- the generation thread ------------------------ *)
\* complete_stream or llama_stream gives up before the first token: the error
\* text goes into the final callback, which the server ignores.
GiveUp ==
  /\ gen = "start"
  /\ gen' = "tail"
  /\ UNCHANGED <<mode, raw, pend, acc, lead, leadDone, split, calls, log, qdone, client>>

\* The prompt is decoded; the progress callback tells the server whether it
\* ends inside an open think block. A later prefill failure is GiveUp again.
PromptDecoded ==
  /\ gen = "start"
  /\ inThink' = (inThink \/ prefilled)
  /\ log' = Append(log, Line("progress", <<>>, <<>>))
  /\ gen' = "decode"
  /\ UNCHANGED <<mode, engine, fed, prefilled, first, buf, kept, calls, qdone, client>>

\* Slip: an answer shorter than the held head is not flushed.
EndWithoutLead(text, tail) ==
  /\ leadDone' = TRUE
  /\ lead' = <<>>
  /\ acc' = text /\ pend' = <<>> /\ gen' = "tail"
  /\ UNCHANGED <<split, log>>

\* flush_lead and the final callback; the tail the assembler still holds ends
\* up in acc as "?", and is not sent.
EndDecode(text, tail) ==
  /\ leadDone' = TRUE
  /\ lead' = <<>>
  /\ Callback(IF leadDone THEN <<>> ELSE clean_prefix(lead))
  /\ acc' = text \o (IF tail = <<>> THEN <<>> ELSE <<"?">>)
  /\ pend' = <<>>
  /\ gen' = "tail"

HasStop(s) == \E i \in 1 .. (Len(s) - Len(Stop) + 1) :
                SubSeq(s, i, i + Len(Stop) - 1) = Stop

\* The search runs over the text so far. Slip: over the new piece.
StoppedInPiece(s) == HasStop(s)
Stopped(s) == HasStop(acc \o s)

\* The assembled piece is held with the head of the answer, or handed on.
HoldOrSend(s) ==
  LET held == lead \o s
  IN IF leadDone \/ s = <<>>
       THEN Callback(s) /\ UNCHANGED <<lead, leadDone>>
       ELSE /\ leadDone' = (Len(held) >= LeadMax)
            /\ lead' = IF leadDone' THEN <<>> ELSE held
            /\ Callback(IF leadDone' THEN clean_prefix(held) ELSE <<>>)

\* One iteration: sample a piece, assemble it, look for the stop string, hold
\* it or hand it on, decode the token.
SampleStep(piece) ==
  \E u \in {Assemble(Scanned(piece))} : LET text == acc \o u.out IN
  /\ gen = "decode"
  /\ Len(raw) + Len(piece) <= MaxBytes
  /\ raw' = raw \o piece
  /\ IF Stopped(u.out)
       THEN EndDecode(text, u.tail)
       ELSE /\ HoldOrSend(u.out)
            /\ acc' = text
            /\ pend' = u.tail
            /\ gen' = gen
  /\ UNCHANGED <<mode, calls, qdone, client>>

\* End of generation, a failed decode, no room to continue, or the limit.
LastToken ==
  /\ gen = "decode"
  /\ EndDecode(acc, pend)
  /\ UNCHANGED <<mode, raw, calls, qdone, client>>

\* The splitter's rest; on the tools path the parse decides whether the
\* buffered content is shown.
FlushTail(found) ==
  LET c == IF inThink THEN <<>> ELSE buf
      r == IF inThink THEN buf ELSE <<>>
  IN
  /\ gen = "tail"
  /\ buf' = <<>>
  /\ IF mode = "chat"
       THEN /\ log' = log \o Delta(c, r)
            /\ UNCHANGED <<kept, calls>>
       ELSE /\ kept' = kept \o c
            /\ calls' = found
            /\ \E all \in {kept \o c} : \E show \in {strip_tool_markup(all)} :
                 log' = log \o Delta(<<>>, r) \o
                          (IF found THEN <<Line("calls", <<>>, <<>>)>> ELSE Delta(show, <<>>))
  /\ gen' = "fin"
  /\ UNCHANGED <<mode, engine, fed, prefilled, inThink, first, qdone, client>>

Push(at, kind, next) ==
  /\ gen = at
  /\ log' = Append(log, Line(kind, <<>>, <<>>))
  /\ gen' = next
  /\ UNCHANGED <<mode, engine, split, calls, qdone, client>>

PushFin  == Push("fin", "fin", "done")
PushDone == Push("done", "DONE", "finish")

Finish ==
  /\ gen = "finish"
  /\ qdone' = TRUE
  /\ gen' = "end"
  /\ UNCHANGED <<mode, engine, split, calls, log, client>>

Worker == \/ GiveUp
          \/ PromptDecoded
          \/ \E piece \in Pieces : SampleStep(piece)
          \/ LastToken
          \/ \E found \in BOOLEAN : FlushTail(found)
          \/ PushFin \/ PushDone \/ Finish

(* -------------------------- the content provider -------------------------- *)
\* Slips: an empty queue is noticed only after finish; finished() forgets the
\* lines that came after pop's timeout.
EmptyOnceDone == qdone /\ taken = Len(log)
finishedFlag  == qdone

Empty == taken = Len(log)
finished == qdone /\ Empty

served == <<mode, gen, engine, split, calls, log, qdone>>

\* pop returned a line: it is written, unless the peer is gone.
PopLine(writable) ==
  /\ prov = "pop"
  /\ ~Empty
  /\ taken' = taken + 1
  /\ idle' = 0
  /\ prov' = IF writable THEN "pop" ELSE "gone"
  /\ UNCHANGED served

\* pop timed out, or found the queue drained and done.
PopNothing ==
  /\ prov = "pop"
  /\ Empty
  /\ prov' = "look"
  /\ UNCHANGED <<served, taken, idle>>

\* Slip: only a gone peer ends the loop.
LookForPeer(writable) ==
  /\ prov = "look"
  /\ prov' = IF writable THEN "pop" ELSE "gone"
  /\ UNCHANGED <<served, taken, idle>>

\* What the loop checks after pop returned false: the peer, then finished().
LookAround(writable) ==
  /\ prov = "look"
  /\ idle' = idle + 1
  /\ prov' = CASE ~writable          -> "gone"
               [] finished           -> "drained"
               [] idle + 1 = MaxIdle -> "capped"
               [] OTHER              -> "pop"
  /\ UNCHANGED <<served, taken>>

Provider == \/ \E writable \in BOOLEAN : PopLine(writable) \/ LookAround(writable)
            \/ PopNothing

StreamInit ==
  /\ mode \in {"chat", "tools"}
  /\ gen = "start"
  /\ raw = <<>> /\ pend = <<>> /\ acc = <<>>
  /\ lead = <<>> /\ leadDone = FALSE
  /\ prefilled \in BOOLEAN
  /\ fed = <<>> /\ inThink = FALSE /\ first = TRUE /\ buf = <<>> /\ kept = <<>>
  /\ calls = FALSE
  /\ log = <<>> /\ taken = 0 /\ qdone = FALSE
  /\ prov = "pop" /\ idle = 0

Closed == prov \notin {"pop", "look"}
Over   == gen = "end" /\ Closed /\ UNCHANGED streamVars

StreamNext == Worker \/ Provider \/ Over

StreamSpec == StreamInit /\ [][StreamNext]_streamVars /\ WF_streamVars(Worker) /\ WF_streamVars(Provider)

\* Types of the variables; the queue's consumer never overtakes its producer.
StreamTypeOK ==
  /\ mode \in {"chat", "tools"}
  /\ gen \in {"start", "decode", "tail", "fin", "done", "finish", "end"}
  /\ \A s \in {raw, pend, acc, lead, fed, buf, kept} : s \in Texts
  /\ prefilled \in BOOLEAN /\ leadDone \in BOOLEAN /\ inThink \in BOOLEAN /\ first \in BOOLEAN
  /\ calls \in BOOLEAN /\ qdone \in BOOLEAN
  /\ \A i \in DOMAIN log : log[i].kind \in {"progress", "delta", "calls", "fin", "DONE"}
  /\ taken \in 0 .. Len(log)
  /\ prov \in {"pop", "look", "gone", "drained", "capped"}
  /\ idle \in 0 .. MaxIdle

Whole(s) == \A i \in DOMAIN s :
  /\ s[i] = "3" => i + 2 <= Len(s) /\ s[i + 1] = "c" /\ s[i + 2] = "c"
  /\ s[i] = "c" => \E k \in {1, 2} : i > k /\ s[i - k] = "3"

\* No delta carries half a character, wherever the sampled pieces, the held head
\* and the tag hold-back cut the text: dump() would throw in the detached thread
\* and end the process (Utf8Streamer, text_engine.cpp:1005).
DeltasAreWhole == \A i \in DOMAIN log : Whole(log[i].content) /\ Whole(log[i].reasoning)

\* Assembling piece by piece gives what assembling the whole answer gives: the
\* text does not depend on where the tokenizer cut it.
AssembledAlike == gen = "decode" => acc = Assemble(raw).out /\ pend = Assemble(raw).tail

Ink(s) == Without(s, {"n", "H"})

\* What the engine holds back as the head of the answer is handed on in the end
\* whatever ends the loop, and nothing handed on is taken back.
HeldTextIsNeverDropped == [][IsPrefix(Ink(fed \o lead), Ink(fed' \o lead'))]_streamVars

Printed(s) == {k \in DOMAIN s : s[k] \in {"x", "s", "3", "c", "?"}}
Letters(s) == Cardinality(Printed(s))

\* The places of the log that hold a printing character.
Places ==
  UNION { {<<i, "content", k>> : k \in Printed(log[i].content)}
          \cup {<<i, "reasoning", k>> : k \in Printed(log[i].reasoning)} : i \in DOMAIN log }
Sent == Cardinality(Places)

\* Every printing character the engine handed on is in a delta, or still in the
\* splitter or in the content the tools path keeps: the split into reasoning and
\* content loses none and repeats none.  With calls the content is not shown, and of
\* one with a block that nothing closes only what stands before it.
EveryLetterGoesOut ==
  \/ Sent + Letters(buf) + (IF gen \in {"fin", "done", "finish", "end"}
                              THEN 0 ELSE Letters(kept)) = Letters(fed)
  \/ calls
  \/ gen \in {"fin", "done", "finish", "end"} /\ Openings(kept) # {}

\* The text survives every cut: by the tokenizer inside a character, by the pieces inside a
\* tag, by the held head.
TextSurvivesCuts == StreamTypeOK /\ DeltasAreWhole /\ AssembledAlike /\ EveryLetterGoesOut

\* The stop string itself is never handed on, though the head was held back and
\* the string may span pieces.
StopNeverShown == ~HasStop(fed \o lead)

\* On the tools path a client sees either the calls or the content, and never
\* the raw markup of a call as content, closed or not (BUG-049, server.cpp:1107).
CallsOrContent ==
  mode = "tools" =>
    \A i \in DOMAIN log : LET c == log[i].content IN
      c # <<>> => ~calls /\ \A k \in DOMAIN c : c[k] \notin {"T", "U"}

\* What is not meant for the client is not shown: the stop string, the markup of a call.
OnlyTextIsShown == StopNeverShown /\ CallsOrContent

\* A stream that ended by itself delivered every line up to [DONE], although the
\* provider looks at the queue twice, in pop and in finished(), with the worker
\* in between.
DrainedIsComplete ==
  prov = "drained" => /\ taken = Len(log)
                      /\ log # <<>> /\ Last(log).kind = "DONE"

\* The response is closed in the end, whatever the peer and the generation do.
StreamCloses == <>Closed

\* server.cpp:59: "Tags may straddle token pieces; up to 7 trailing chars stay
\* unclassified". The deltas of a finished chat answer are then those of the
\* whole text, white space aside.
TagsMayStraddle ==
  LET whole == Parts(prefilled, fed)
      sent  == FoldLeft(LAMBDA t, l : t \o l.content, <<>>, log)
  IN gen = "fin" /\ mode = "chat" =>
       Ink(sent) = Ink(whole.content \o (IF whole.think THEN <<>> ELSE whole.buf))
=============================================================================
