------------------------------- MODULE MCAgent -------------------------------
(* The instance of AgentLoop for TLC, and of GlobMatch: all short patterns and *)
(* some longer ones, on all short names.                                       *)
EXTENDS AgentLoop, TLC

CharRank == ("!" :> 33) @@ ("*" :> 42) @@ ("-" :> 45) @@ ("?" :> 63) @@ ("[" :> 91)
            @@ ("]" :> 93) @@ ("a" :> 97) @@ ("b" :> 98) @@ ("c" :> 99)
CharSet == DOMAIN CharRank

UpTo(S, n) == UNION {[1 .. k -> S] : k \in 0 .. n}
MCPatterns == UpTo({"a", "*", "?", "[", "]", "!"}, 4)
              \cup {<<"[">> \o x \o <<"]">> : x \in UpTo({"a", "c", "-", "b"}, 4)}
              \cup {<<"*">> \o x \o <<"b">> : x \in UpTo({"a", "b", "*", "?"}, 3)}
MCNames == UpTo({"a", "b", "[", "-"}, 3) \cup {<<"a", "a", "b", "a", "b">>}

aToB  == [old |-> <<"a">>, new |-> <<"b">>]
bToAa == [old |-> <<"b">>, new |-> <<"a", "a">>]
MCInitial == <<"a", "b">>

Block(form, name, args) == [form |-> form, name |-> name, args |-> args]
MCTexts ==
  { << Block("xml", "mcp_tool", aToB), Block("xml", "mcp_tool", bToAa) >>,
    << Block("hermes", "edit_file", bToAa) >>,
    << Block("json", "exec_shell_command", None) >>,
    << Block("compact", "no_such_tool", aToB) >> }

ToContent(text_) == [content |-> text_]

ToolCall(tool, dir, path, args) == [tool |-> tool, cwd |-> dir, path |-> path, args |-> args]
MCCalls ==
  { ToolCall("edit_file", None, None, aToB), ToolCall("edit_file", None, "picked", bToAa),
    ToolCall("write_file", "picked", None, ToContent(<<"a">>)),
    ToolCall("write_file", None, None, ToContent(None)), ToolCall("read_file", "picked", "picked", None) }
===============================================================================
