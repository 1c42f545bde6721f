------------------------------- MODULE AgentLoop -------------------------------
(* AgentRunner::run of agent/agent_loop.cpp beside the direct tool calls of     *)
(* POST /tools: generate, parse the tool calls, recover and repair arguments    *)
(* that were lost, execute each call, append the answers, again, up to          *)
(* max_steps_ times.                                                            *)
(*                                                                              *)
(* A generated text is the sequence of its tool call blocks, [form, name, args]:*)
(*   "json"    <tool_call>{"name":..}</tool_call>, the braces apart or doubled  *)
(*   "compact" the same, with two closing braces in a row                       *)
(*   "xml"     <function=name> with <parameter=..> pairs                        *)
(*   "hermes"  <function=name>{json}</function>                                 *)
EXTENDS AgentTools, GlobMatch

CONSTANTS Runner,    \* the thread that runs the agent loop
          McpTools,  \* names the MCP client has
          Texts,     \* the texts the model may generate
          Calls,     \* the tool calls clients send to POST /tools
          MaxCalls,  \* bound: those calls, all threads together
          MaxSteps   \* max_steps_

ASSUME RunnerAssumption == Runner \in Threads
ASSUME TextsAssumption ==
  Texts \subseteq Seq([form : {"json", "compact", "xml", "hermes"}, name : STRING, args : Arguments])
\* A shell call has no path.
ASSUME CallsAssumption ==
  /\ Calls \subseteq [tool : Tools, cwd : Dirs \cup {None, Missing}, path : Dirs \cup {None},
                     args : Arguments]
  /\ \A c \in Calls : c.tool = "exec_shell_command" => c.path = None
ASSUME BoundsAssumption == MaxCalls \in Nat /\ MaxSteps \in Nat

VARIABLES phase,   \* where run() is
          step,    \* its loop variable i
          cwd,     \* the working directory of the request
          gen,     \* the text of this step
          calls,   \* the tool calls of this step, each with the block it came from
          next,    \* the call that is executed
          transcript, \* the messages appended so far
          reason,  \* finish_reason
          lost,    \* history: the calls whose arguments the parse did not find
          nudged,  \* history: this step's repair was tried
          direct   \* history: direct calls made

loopVars == <<phase, step, cwd, gen, calls, next, transcript, reason, lost, nudged, direct>>
vars == <<files, toolVars, loopVars>>

Init ==
  /\ ToolInit /\ phase = "idle" /\ step = 0 /\ cwd = None /\ gen = <<>> /\ calls = <<>>
  /\ next = 0 /\ transcript = <<>> /\ reason = "none" /\ lost = {} /\ nudged = FALSE
  /\ direct = 0

(* -------------------------- parsing a generated text ---------------------- *)
HasArgs(c) == c.args # None

CallOf(text_, k, args) == [name |-> text_[k].name, args |-> args, block |-> k]

Nth(ks, n) == CHOOSE k \in ks : Cardinality({l \in ks : l < k}) = n - 1

\* The calls of the blocks ks in their order, those of known with their arguments.
CallsOf(text_, ks, known) ==
  [n \in 1 .. Cardinality(ks) |->
    LET k == Nth(ks, n) IN CallOf(text_, k, IF k \in known THEN text_[k].args ELSE None)]

\* common_chat_parse finds nothing, or all blocks; of each it may lose the
\* arguments.  It is not even asked when the model was unloaded meanwhile.
Native(text_) ==
  {<<>>} \cup { CallsOf(text_, DOMAIN text_, known) : known \in SUBSET DOMAIN text_ }

IsFunction(b) == b.form \in {"xml", "hermes"}

\* fallback_tool_calls: the JSON blocks that still parse when each pair of braces
\* is made one, which a compact one does not; without one the <function=> blocks,
\* of which the Hermes ones have their arguments.
fallback_tool_calls(text_) ==
  LET json == {k \in DOMAIN text_ : text_[k].form = "json"}
      function == {k \in DOMAIN text_ : IsFunction(text_[k])}
      blank == {k \in DOMAIN text_ : text_[k].form = "xml"}
  IN  CallsOf(text_, IF json # {} THEN json ELSE function, DOMAIN text_ \ blank)

\* Slip: every search starts at the beginning of the text.
FoundFirst(text_, name, k) ==
  LET here == {l \in DOMAIN text_ : IsFunction(text_[l]) /\ text_[l].name = name}
  IN  IF here = {} THEN 0 ELSE Min(here)

\* The first <function=name> at or behind block k; none: the first of the text.
Found(text_, name, k) ==
  LET here == {l \in DOMAIN text_ : IsFunction(text_[l]) /\ text_[l].name = name}
      on   == {l \in here : l >= k}
  IN  IF here = {} THEN 0 ELSE IF on = {} THEN Min(here) ELSE Min(on)

\* Where the search goes on behind call c, and what c is given; it started at from.
SearchedFrom(text_, c, from) ==
  LET f == Found(text_, c.name, from) IN IF HasArgs(c) \/ f = 0 THEN from ELSE f + 1

RecoveredArgs(text_, c, from) ==
  LET f == Found(text_, c.name, from)
  IN  IF HasArgs(c) \/ f = 0 \/ text_[f].form # "xml" THEN c.args ELSE text_[f].args

\* recover_xml_args: blank calls, one by one, each from behind the last one's block.
SearchStarts(text_, cs) ==
  LET pos[k \in 0 .. Len(cs)] ==
        IF k = 0 THEN 1 ELSE SearchedFrom(text_, cs[k], pos[k - 1])
  IN  pos

recover_xml_args(text_, cs) ==
  LET pos == SearchStarts(text_, cs)
  IN  [k \in DOMAIN cs |-> [cs[k] EXCEPT !.args = RecoveredArgs(text_, cs[k], pos[k - 1])]]

\* parse_step_text: what was found before the recovery, and the calls.
parse_step_text(text_) ==
  { LET cs == IF native = <<>> THEN fallback_tool_calls(text_) ELSE native
    IN  [lost |-> {k \in DOMAIN cs : ~HasArgs(cs[k])}, calls |-> recover_xml_args(text_, cs)]
    : native \in Native(text_) }

\* Tabulated, for TLC evaluates a constant once.
Parses == [t \in Texts |-> parse_step_text(t)]

(* --------------------------------- the loop ------------------------------- *)
tools_ == <<files, toolVars>>

End(why) == phase' = "idle" /\ reason' = why

\* The variables of one iteration go with it.
Forget == gen' = <<>> /\ calls' = <<>> /\ next' = 0 /\ lost' = {} /\ nudged' = FALSE

\* Slip: i <= max_steps_.
StepsLeftOneMore == step <= MaxSteps

StepsLeft == step < MaxSteps

\* A request for the agent; it may end before the first step (no model, no
\* templates, messages or tools that do not parse, no tools).
Begin ==
  /\ phase = "idle" /\ reason = "none" /\ cwd' \in {None, Missing} \cup (Dirs \ {Root})
  /\ \/ phase' = "render" /\ UNCHANGED reason
     \/ End("error")
  /\ UNCHANGED <<step, gen, calls, next, transcript, lost, nudged, direct, tools_>>

Generate ==
  /\ phase = "render"
  /\ \/ ~StepsLeft /\ End("length") /\ UNCHANGED gen
     \/ StepsLeft /\ End("error") /\ UNCHANGED gen
     \/ StepsLeft /\ gen' \in Texts /\ phase' = "parse" /\ UNCHANGED reason
  /\ UNCHANGED <<step, cwd, calls, next, transcript, lost, nudged, direct, tools_>>

Parse ==
  /\ phase = "parse" /\ phase' = "repair"
  /\ \E p \in Parses[gen] : calls' = p.calls /\ lost' = p.lost
  /\ UNCHANGED <<step, cwd, gen, next, transcript, reason, nudged, direct, tools_>>

\* Slip: a single call is taken as it is.
NeedsRepairMany == Len(calls) > 1 /\ \A k \in DOMAIN calls : ~HasArgs(calls[k])

NeedsRepair == calls # <<>> /\ \A k \in DOMAIN calls : ~HasArgs(calls[k])

\* repair_calls: when no call has arguments, one more short generation; its calls
\* are taken if any of them has.
repair_calls ==
  /\ phase = "repair" /\ phase' = "append"
  /\ IF ~NeedsRepair THEN UNCHANGED <<calls, nudged>>
     ELSE /\ nudged' = TRUE
          /\ \/ UNCHANGED calls
             \/ \E t \in Texts : \E p \in Parses[t] :
                  /\ \E k \in DOMAIN p.calls : HasArgs(p.calls[k])
                  /\ calls' = p.calls
  /\ UNCHANGED <<step, cwd, gen, next, transcript, reason, lost, direct, tools_>>

Append_ ==
  /\ phase = "append"
  /\ IF calls = <<>> THEN End("stop") /\ Forget /\ UNCHANGED transcript
     ELSE /\ transcript' = Append(transcript, [role |-> "assistant", calls |-> calls])
          /\ next' = 1 /\ phase' = "call" /\ gen' = <<>> /\ lost' = {}
          /\ UNCHANGED <<reason, calls, nudged>>
  /\ UNCHANGED <<step, cwd, direct, tools_>>

\* Slip: a tool nobody has gets no answer.
AnsweredIfKnown(c) ==
  /\ transcript' = IF c.name \in Tools \cup McpTools
                   THEN Append(transcript, [role |-> "tool", call |-> c]) ELSE transcript
  /\ next' = next + 1 /\ phase' = "call"

Answered(c) ==
  /\ transcript' = Append(transcript, [role |-> "tool", call |-> c])
  /\ next' = next + 1 /\ phase' = "call"

\* A built-in tool is entered, one of an MCP server or an unknown one answered.
CallTool ==
  /\ phase = "call" /\ next <= Len(calls)
  /\ LET c == calls[next] IN
     IF c.name \in Tools
     THEN /\ Enter(Runner, [tool |-> c.name, cwd |-> cwd, path |-> None, args |-> c.args])
          /\ phase' = "tool" /\ UNCHANGED <<next, transcript>>
     ELSE Answered(c) /\ UNCHANGED tools_
  /\ UNCHANGED <<step, cwd, gen, calls, reason, lost, nudged, direct>>


ToolReturned ==
  /\ phase = "tool" /\ Leave(Runner) /\ Answered(calls[next])
  /\ UNCHANGED <<step, cwd, gen, calls, reason, lost, nudged, direct>>

NextStep ==
  /\ phase = "call" /\ next > Len(calls) /\ phase' = "render" /\ step' = step + 1
  /\ Forget /\ UNCHANGED <<cwd, transcript, reason, direct, tools_>>

Run == \/ Generate \/ Parse \/ repair_calls \/ Append_ \/ CallTool \/ ToolReturned
       \/ NextStep

\* POST /tools: execute_tool on another thread.
CallDirect(t) ==
  /\ t # Runner /\ direct < MaxCalls /\ direct' = direct + 1
  /\ \E c \in Calls : Enter(t, c)
  /\ UNCHANGED <<phase, step, cwd, gen, calls, next, transcript, reason, lost, nudged>>

DirectReturns(t) == t # Runner /\ Leave(t) /\ UNCHANGED loopVars

Works(t) == Tool(t) /\ UNCHANGED loopVars

Outside(t) == (ChildWrites(t) \/ ChildExits(t) \/ CommandEnds(t)) /\ UNCHANGED loopVars

Clock(t) == DeadlinePasses(t) /\ UNCHANGED loopVars

Next == \/ Begin \/ Run
        \/ \E t \in Threads : \/ CallDirect(t) \/ DirectReturns(t) \/ Works(t)
                              \/ Outside(t) \/ Clock(t)

Spec == Init /\ [][Next]_vars

\* A thread that can go on does, and time passes; a command need not write, nor
\* end.
Thread(t) == Works(t) \/ IF t = Runner THEN Run ELSE DirectReturns(t)

FairSpec == Spec /\ \A t \in Threads : WF_vars(Thread(t)) /\ WF_vars(Clock(t))

(* ------------------------------- properties ------------------------------- *)
\* glob_match with its one saved star accepts exactly the names the pattern
\* means, literal brackets, empty and negated classes and ranges included; said of
\* the first states, for neither side depends on the state.
GlobMeansIt ==
  phase = "idle" /\ reason = "none" /\ direct = 0 =>
    \A pat \in Patterns, s \in Names : glob_match(pat, s) <=> Fits(pat, s)

\* Every variable of the tools and of the loop has its type.
TypeOK ==
  /\ ToolTypeOK /\ step \in 0 .. MaxSteps /\ cwd \in Dirs \cup {None, Missing}
  /\ phase \in {"idle", "render", "parse", "repair", "append", "call", "tool"}
  /\ reason \in {"none", "stop", "length", "error"} /\ direct \in 0 .. MaxCalls

\* What the template is given: behind every assistant message one answer for each
\* of its calls, in their order, and no other; the loop and the tools have no
\* other agreement on which answer is whose (run, transcript.push_back).
TranscriptIsPaired ==
  LET tools == {k \in DOMAIN transcript : transcript[k].role = "tool"}
      Opens_(a, k) == a \in DOMAIN transcript \ tools /\ a < k /\ (a + 1) .. k \subseteq tools
  IN /\ \A k \in tools : \E a \in 1 .. k :
          /\ Opens_(a, k) /\ k - a \in DOMAIN transcript[a].calls
          /\ transcript[k].call = transcript[a].calls[k - a]
     /\ phase = "render" => \A a \in DOMAIN transcript \ tools :
          LET n == Len(transcript[a].calls) IN
          a + n <= Len(transcript) /\ (a + 1) .. (a + n) \subseteq tools

\* In a text of <function=> blocks each call whose arguments the parse did not find
\* gets those of its own XML block back, whichever others it lost and also when
\* several call the same tool, unless an earlier call of that tool kept its own:
\* then the search begins before that one's block (BUG-051b, agent_loop.cpp:71-117).
LostArgumentsComeBack ==
  phase = "repair" /\ (\A k \in DOMAIN gen : IsFunction(gen[k])) =>
    \A k \in lost : LET b == calls[k].block IN
      \/ gen[b].form = "xml" => calls[k].args = gen[b].args
      \/ \E l \in DOMAIN calls \ lost : l < k /\ calls[l].name = calls[k].name

\* agent_loop.cpp:73: "Pulihkan args dari pasangan XML di teks mentah untuk call yang
\* blank" (restore the arguments from the XML pairs for calls that are blank): those
\* of the call's own block, whatever the parse kept of the others.
BlankCallsGetTheirOwn ==
  phase = "repair" /\ (\A k \in DOMAIN gen : gen[k].form = "xml") =>
    \A k \in lost : calls[k].args = gen[calls[k].block].args

\* agent_loop.cpp:29: "<tool_call> ... </tool_call> with optional doubled braces": a
\* call in well-formed JSON is found, doubled braces or not.
WellFormedCallsAreFound ==
  phase = "repair" => \A k \in DOMAIN gen :
    gen[k].form \in {"json", "compact"} => \E c \in DOMAIN calls : calls[c].block = k

\* A message none of whose calls has arguments is executed only after the model
\* was asked once more (BUG-051, repair_calls).
BlankCallsWereQuestioned ==
  phase \in {"call", "tool"} => nudged \/ \E k \in DOMAIN calls : HasArgs(calls[k])

\* The calls that are executed are the model's own: what the parse lost comes back from their own
\* blocks where LostArgumentsComeBack says so, and calls without arguments are questioned first.
CallsAreTheModels == TypeOK /\ LostArgumentsComeBack /\ BlankCallsWereQuestioned

\* The branch without a deadline waits for a command that need not end, and reads
\* from one that the shell left in the background.
Hangs(t) == \/ pc[t] \in {"gets", "pclose"} /\ child[t].state = "running"
            \/ pc[t] = "gets" /\ child[t].behind

\* Every call of POST /tools returns, on Windows whatever the command does, elsewhere
\* unless it waits for a command that does not end.
ToolReturns == \A t \in Threads \ {Runner} : pc[t] # "idle" ~> (pc[t] = "idle" \/ Hangs(t))

\* A run of the agent ends, its tool calls with it, unless a command hangs it
\* (AgentRunner::run).
RunEnds == phase # "idle" ~> (phase = "idle" \/ Hangs(Runner))

===============================================================================
