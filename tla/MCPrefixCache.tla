--------------------------- MODULE MCPrefixCache ---------------------------
(* Two prompts that share three of four tokens, a longer one, one with nothing in common. *)
EXTENDS PrefixCache
MCPrompts == {<<1, 1, 1, 1>>, <<1, 1, 1, 2>>, <<1, 1, 1, 1, 2>>, <<2, 1>>}
===========================================================================
