------------------------------ MODULE AgentTools ------------------------------
(* The built-in tools of agent/agent_tools.cpp, called by the threads that     *)
(* serve requests: execute with its thread-local working directory, read_file, *)
(* write_file and edit_file on files that no lock protects, and                *)
(* exec_shell_command with the shell it watches, on Windows and elsewhere, and *)
(* the command that may outlive the shell.  Every directory holds one file;    *)
(* its content is a sequence.                                                  *)
EXTENDS Integers, Sequences, SequencesExt

CONSTANTS Threads,  \* the threads that serve requests
          Dirs,     \* the directories that exist
          Root,     \* root_, the configured one
          Missing,  \* a working directory that is none
          None,     \* an empty path, working directory or argument object
          Chars,    \* what files are written in
          Initial,  \* what every file holds at first
          Cap,      \* the shell's output cap (64 KB), in chunks
          MaxOut    \* bound: chunks a shell command writes

ASSUME DirsAssumption == Root \in Dirs /\ Missing \notin Dirs /\ None \notin Dirs
ASSUME TextAssumption == Initial \in Seq(Chars)
ASSUME CapAssumption  == Cap \in Nat /\ MaxOut \in Nat

\* What write_file is given, None for what is no string, and what edit_file is.
ToWrite   == [content : Seq(Chars) \cup {None}]
ToEdit    == [old : Seq(Chars), new : Seq(Chars)]
Arguments == {None} \cup ToWrite \cup ToEdit

VARIABLES files,    \* files[d]: the content of the file in directory d
          pc, call, \* where a thread is in execute, and what it was called with
          override, \* t_cwd_override
          target, text,    \* the directory a tool works in; the text it holds
          answer,   \* "ok" or an error; for a shell what the last line tells
          child, got, due, \* the shell, the chunks read, the deadline
          seen,     \* history: the files when the thread entered execute
          alone,    \* history: nobody else wrote its file meanwhile
          refused   \* history: the disk refused what it wrote

toolVars == <<pc, call, override, target, text, answer, child, got, due, seen, alone, refused>>

Tools == {"get_datetime", "read_file", "write_file", "edit_file", "exec_shell_command"}
NoCall  == [tool |-> "none", cwd |-> None, path |-> None, args |-> None]
\* The shell; whether something that it started runs on behind it; the chunks
\* written to the pipe, and (history) those until the shell ended.
NoChild == [state |-> "none", behind |-> FALSE, written |-> 0, last |-> 0]

ToolInit ==
  /\ files = [d \in Dirs |-> Initial]
  /\ pc = [t \in Threads |-> "idle"] /\ call = [t \in Threads |-> NoCall]
  /\ override = [t \in Threads |-> None] /\ target = [t \in Threads |-> None]
  /\ text = [t \in Threads |-> <<>>] /\ answer = [t \in Threads |-> "none"]
  /\ child = [t \in Threads |-> NoChild] /\ got = [t \in Threads |-> 0]
  /\ due = [t \in Threads |-> FALSE] /\ seen = [t \in Threads |-> files]
  /\ alone = [t \in Threads |-> TRUE] /\ refused = [t \in Threads |-> FALSE]

(* ------------------- execute and the working directory -------------------- *)
normalize_cwd(cwd) == IF cwd \in Dirs THEN cwd ELSE None

\* Slip: the override is a plain static, shared by all threads.
SetOverrideShared(t, cwd) == override' = [u \in Threads |-> normalize_cwd(cwd)]

SetOverride(t, cwd) == override' = [override EXCEPT ![t] = normalize_cwd(cwd)]

eff_root(t) == IF override[t] # None THEN override[t] ELSE Root

\* A relative path, or the absolute path of the file in a directory.
resolve(t, path) ==
  IF path = None THEN eff_root(t) ELSE IF path = eff_root(t) THEN path ELSE None

\* The directory the caller means.
Meant(c) == IF c.path # None THEN c.path ELSE IF c.cwd = None THEN Root ELSE c.cwd

Enter(t, c) ==
  /\ pc[t] = "idle"
  /\ call' = [call EXCEPT ![t] = c] /\ SetOverride(t, c.cwd)
  /\ IF c.cwd # None /\ normalize_cwd(c.cwd) = None
     THEN pc' = [pc EXCEPT ![t] = "done"] /\ answer' = [answer EXCEPT ![t] = "error"]
     ELSE pc' = [pc EXCEPT ![t] = "entered"] /\ UNCHANGED answer
  /\ seen' = [seen EXCEPT ![t] = files] /\ alone' = [alone EXCEPT ![t] = TRUE]
  /\ UNCHANGED <<files, target, text, child, got, due, refused>>

\* execute returns: ~CwdGuard, and the tool's locals go.
Leave(t) ==
  /\ pc[t] = "done" /\ pc' = [pc EXCEPT ![t] = "idle"]
  /\ override' = [override EXCEPT ![t] = None]
  /\ call' = [call EXCEPT ![t] = NoCall] /\ target' = [target EXCEPT ![t] = None]
  /\ text' = [text EXCEPT ![t] = <<>>] /\ answer' = [answer EXCEPT ![t] = "none"]
  /\ child' = [child EXCEPT ![t] = NoChild] /\ got' = [got EXCEPT ![t] = 0]
  /\ due' = [due EXCEPT ![t] = FALSE] /\ refused' = [refused EXCEPT ![t] = FALSE]
  /\ seen' = [seen EXCEPT ![t] = [d \in Dirs |-> Initial]]
  /\ alone' = [alone EXCEPT ![t] = TRUE]
  /\ UNCHANGED files

shell == <<child, got, due>>
frame == <<call, override, seen>>

Entered(t, tool) == pc[t] = "entered" /\ call[t].tool = tool

Ends(t, a) == pc' = [pc EXCEPT ![t] = "done"] /\ answer' = [answer EXCEPT ![t] = a]

Fails(t) == Ends(t, "error") /\ UNCHANGED <<files, target, text, alone, refused, shell, frame>>

get_datetime(t) ==
  /\ Entered(t, "get_datetime") /\ Ends(t, "ok")
  /\ UNCHANGED <<files, target, text, alone, refused, shell, frame>>

(* ----------------------------- the file tools ----------------------------- *)
\* The path escapes the root, or the file cannot be opened.
CannotOpen(t) ==
  /\ \E tool \in {"read_file", "write_file", "edit_file"} : Entered(t, tool)
  /\ Fails(t)

Opens(t, tool) ==
  /\ Entered(t, tool) /\ resolve(t, call[t].path) # None
  /\ target' = [target EXCEPT ![t] = resolve(t, call[t].path)]

read_file(t) ==
  /\ Opens(t, "read_file") /\ Ends(t, "ok")
  /\ text' = [text EXCEPT ![t] = files[target'[t]]]
  /\ UNCHANGED <<files, alone, refused, shell, frame>>

\* Another thread that works on the same file is not alone with it any more.
Writes(t, d, content) ==
  /\ files' = [files EXCEPT ![d] = content]
  /\ alone' = [u \in Threads |->
                 alone[u] /\ (u = t \/ pc[u] = "idle" \/ Meant(call[u]) # d)]

IsText(args) == ~(args \in ToWrite /\ args.content = None)

\* a.value("content", "")
Given(args) == IF args \in ToWrite THEN args.content ELSE <<>>

\* std::ios::trunc empties the file when it is opened.  Only then is the content
\* looked at, and execute catches what is thrown when it is no string.
Truncate(t) ==
  /\ Opens(t, "write_file") /\ Writes(t, target'[t], <<>>)
  /\ IF IsText(call[t].args)
     THEN /\ text' = [text EXCEPT ![t] = Given(call[t].args)]
          /\ pc' = [pc EXCEPT ![t] = "put"] /\ UNCHANGED answer
     ELSE Ends(t, "error") /\ UNCHANGED text
  /\ UNCHANGED <<refused, shell, frame>>

Spans(s, old) == {k \in 1 .. (Len(s) - Len(old) + 1) : SubSeq(s, k, k + Len(old) - 1) = old}

\* Slip: the first of several spans is taken.
EditableAnyway(s, args) == args \in ToEdit /\ args.old # <<>> /\ Spans(s, args.old) # {}

\* old_text is given and not empty, and occurs exactly once, overlapping spans
\* counted.
Editable(s, args) ==
  args \in ToEdit /\ args.old # <<>> /\ Cardinality(Spans(s, args.old)) = 1

Replaced(s, args) ==
  LET k == Min(Spans(s, args.old))
  IN  SubSeq(s, 1, k - 1) \o args.new \o SubSeq(s, k + Len(args.old), Len(s))

\* edit_file reads the whole file and replaces the span in memory ...
Load(t) ==
  /\ Opens(t, "edit_file")
  /\ LET s == files[target'[t]] IN
     IF Editable(s, call[t].args)
     THEN /\ text' = [text EXCEPT ![t] = Replaced(s, call[t].args)]
          /\ pc' = [pc EXCEPT ![t] = "reopen"] /\ UNCHANGED answer
     ELSE Ends(t, "error") /\ UNCHANGED text
  /\ UNCHANGED <<files, alone, refused, shell, frame>>

\* ... then opens it again, which empties it, or cannot.
Reopen(t) ==
  /\ pc[t] = "reopen"
  /\ \/ /\ Writes(t, target[t], <<>>)
        /\ pc' = [pc EXCEPT ![t] = "put"]
        /\ UNCHANGED <<answer, target, text, refused, shell, frame>>
     \/ Fails(t)

\* Each stream writes from the beginning of the file: two that were opened at a
\* time write over each other.  Nobody looks whether the disk took the text.
Overlaid(s, content) == content \o SubSeq(s, Len(content) + 1, Len(s))

Put(t) ==
  /\ pc[t] = "put" /\ Ends(t, "ok")
  /\ \/ /\ Writes(t, target[t], Overlaid(files[target[t]], text[t])) /\ UNCHANGED refused
     \/ refused' = [refused EXCEPT ![t] = TRUE] /\ UNCHANGED <<files, alone>>
  /\ UNCHANGED <<target, text, shell, frame>>

(* --------------------------- exec_shell_command --------------------------- *)
files_ == <<files, text, alone, refused, frame>>

Goto(t, label) == pc' = [pc EXCEPT ![t] = label] /\ UNCHANGED answer

\* On Windows the pipe is looked at with a deadline, elsewhere popen is read.
Spawn(t) ==
  /\ Entered(t, "exec_shell_command")
  /\ \/ /\ target' = [target EXCEPT ![t] = eff_root(t)]
        /\ child' = [child EXCEPT ![t].state = "running"]
        /\ \E branch \in {"peek", "gets"} : Goto(t, branch)
     \/ Ends(t, "error") /\ UNCHANGED <<target, child>>
  /\ UNCHANGED <<got, due, files_>>

\* As long as somebody reads from the pipe.
ChildWrites(t) ==
  /\ pc[t] \in {"peek", "wait", "late", "drain", "gets"}
  /\ child[t].state = "running" \/ child[t].behind
  /\ child[t].written < MaxOut
  /\ child' = [child EXCEPT ![t].written = @ + 1]
  /\ UNCHANGED <<pc, answer, target, got, due, files_>>

\* The shell is gone; what it started ends with it or not.
Gone(c, how, left) == [c EXCEPT !.state = how, !.behind = left, !.last = c.written]

ChildExits(t) ==
  /\ child[t].state = "running"
  /\ \E left \in BOOLEAN : child' = [child EXCEPT ![t] = Gone(child[t], "exited", left)]
  /\ UNCHANGED <<pc, answer, target, got, due, files_>>

CommandEnds(t) ==
  /\ child[t].behind /\ child' = [child EXCEPT ![t].behind = FALSE]
  /\ UNCHANGED <<pc, answer, target, got, due, files_>>

DeadlinePasses(t) ==
  /\ pc[t] \in {"peek", "wait", "late", "drain"} /\ ~due[t]
  /\ due' = [due EXCEPT ![t] = TRUE]
  /\ UNCHANGED <<pc, answer, target, child, got, files_>>

Unread(t) == child[t].written - got[t]

Takes(t, n) == got' = [got EXCEPT ![t] = @ + n]

\* PeekNamedPipe and ReadFile: a chunk; beyond the cap the loop is left, and with
\* it the child, which nobody waits for.
Peek(t) ==
  /\ pc[t] = "peek"
  /\ IF Unread(t) > 0
     THEN /\ Takes(t, 1)
          /\ IF got[t] + 1 > Cap THEN Ends(t, "cut") ELSE UNCHANGED <<pc, answer>>
     ELSE Goto(t, "wait") /\ UNCHANGED got
  /\ UNCHANGED <<target, child, due, files_>>

Wait(t) ==
  /\ pc[t] = "wait"
  /\ Goto(t, IF child[t].state = "exited" THEN "drain" ELSE "late")
  /\ UNCHANGED <<target, child, got, due, files_>>

\* Slip: the deadline counts only when the child has exited anyway.
LateOnly(t) ==
  /\ pc[t] = "late"
  /\ IF due[t] /\ child[t].state # "running"
     THEN Ends(t, "timeout") ELSE Goto(t, "peek")
  /\ UNCHANGED <<target, child, got, due, files_>>

\* The deadline, looked at when the shell was still running: cmd.exe is
\* terminated, the command it waits for is not.
Late(t) ==
  /\ pc[t] = "late"
  /\ IF due[t]
     THEN /\ IF child[t].state # "running" THEN UNCHANGED child
             ELSE \E left \in BOOLEAN : child' = [child EXCEPT ![t] = Gone(child[t], "killed", left)]
          /\ Ends(t, "timeout")
     ELSE Goto(t, "peek") /\ UNCHANGED child
  /\ UNCHANGED <<target, got, due, files_>>

\* Slip: the output that came since the last look is left in the pipe.
NoDrain(t) ==
  /\ pc[t] = "drain" /\ Ends(t, "exit")
  /\ UNCHANGED <<target, child, got, due, files_>>

\* The shell has exited: what came since the last look is read, to the cap.
Drain(t) ==
  /\ pc[t] = "drain" /\ Ends(t, "exit")
  /\ Takes(t, Min({Unread(t), Cap + 1 - got[t]}))
  /\ UNCHANGED <<target, child, due, files_>>

\* Elsewhere: fgets blocks until there is a line or nobody has the pipe any more.
Gets(t) ==
  /\ pc[t] = "gets"
  /\ \/ /\ Unread(t) > 0 /\ Takes(t, 1)
        /\ IF got[t] + 1 > Cap THEN Goto(t, "pclose") ELSE UNCHANGED <<pc, answer>>
     \/ /\ Unread(t) = 0 /\ child[t].state = "exited" /\ ~child[t].behind
        /\ Goto(t, "pclose") /\ UNCHANGED got
  /\ UNCHANGED <<target, child, due, files_>>

pclose(t) ==
  /\ pc[t] = "pclose" /\ child[t].state = "exited" /\ Ends(t, "exit")
  /\ UNCHANGED <<target, child, got, due, files_>>

t_shell(t) == Spawn(t) \/ Peek(t) \/ Wait(t) \/ Late(t) \/ Drain(t) \/ Gets(t) \/ pclose(t)

Tool(t) == \/ get_datetime(t) \/ CannotOpen(t) \/ read_file(t) \/ Truncate(t)
           \/ Load(t) \/ Reopen(t) \/ Put(t) \/ t_shell(t)

(* ------------------------------- properties ------------------------------- *)
ToolTypeOK ==
  /\ files \in [Dirs -> Seq(Chars)]
  /\ override \in [Threads -> Dirs \cup {None}] /\ target \in [Threads -> Dirs \cup {None}]
  /\ \A t \in Threads : /\ call[t].tool \in Tools \cup {"none"} /\ text[t] \in Seq(Chars)
                        /\ child[t].written \in 0 .. MaxOut /\ got[t] \in 0 .. (Cap + 1)
  /\ alone \in [Threads -> BOOLEAN] /\ due \in [Threads -> BOOLEAN]

\* A tool works in the directory its own caller chose, or in the configured root,
\* never in that of another request at the same time or of an earlier call on the
\* same thread (t_cwd_override and CwdGuard).
InItsOwnRoot == \A t \in Threads : target[t] \in {None, Meant(call[t])}

\* A call whose file nobody else writes meanwhile, on a disk that takes what it
\* writes, does what it says: the file has the content, or exactly one span of what
\* it had, and not an empty one, is replaced and there was no other; a read tells
\* what was there; after an error the file is as it was, however far the tool got,
\* but for content that is no string: then it may be empty (t_read_file to
\* t_edit_file).
LoneToolIsExact ==
  \A t \in Threads :
    pc[t] = "done" /\ alone[t] /\ ~refused[t] /\ Meant(call[t]) \in Dirs =>
      LET c == call[t]  was == seen[t][Meant(c)]  is == files[Meant(c)]
          Split(s, k, l, mid) == SubSeq(s, 1, k) \o mid \o SubSeq(s, k + l + 1, Len(s))
          At(k) == was = Split(was, k, Len(c.args.old), c.args.old)
      IN CASE c.tool = "write_file" /\ answer[t] = "ok" -> IsText(c.args) /\ is = Given(c.args)
           [] c.tool = "write_file" /\ answer[t] # "ok" /\ ~IsText(c.args) -> is \in {was, <<>>}
           [] c.tool = "edit_file" /\ answer[t] = "ok" ->
                c.args.old # <<>> /\ \E k \in 0 .. Len(was) :
                  /\ At(k) /\ \A l \in 0 .. Len(was) : At(l) => l = k
                  /\ is = Split(was, k, Len(c.args.old), c.args.new)
           [] c.tool = "read_file" /\ answer[t] = "ok" -> is = was /\ text[t] = was
           [] OTHER -> is = was

\* A tool works on the file that its caller meant, and does to it what it says.
ToolIsExact == InItsOwnRoot /\ LoneToolIsExact

\* What the last line of a shell's answer says is so: with an exit code the shell
\* has ended and all that was written until then is there, unless the cap cut it;
\* with a timeout the shell does not run any more, of the command see KilledIsDead;
\* where neither is said, the output is more than the cap (t_shell, both branches).
ShellAnswerIsTrue ==
  \A t \in Threads :
    /\ answer[t] = "exit" => /\ child[t].state = "exited"
                             /\ got[t] >= child[t].last \/ got[t] > Cap
    /\ answer[t] = "timeout" => child[t].state # "running"
    /\ answer[t] = "cut" => got[t] > Cap

\* agent_tools.cpp:514: "process killed": behind an answer that says so nothing of
\* the command runs.
KilledIsDead ==
  \A t \in Threads :
    answer[t] = "timeout" => child[t].state # "running" /\ ~child[t].behind
===============================================================================
