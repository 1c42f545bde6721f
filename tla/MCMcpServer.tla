---------------------------- MODULE MCMcpServer ----------------------------
(* Instances of McpServer for TLC: two handler threads, h1 and h2. *)
EXTENDS McpServer

CONSTANTS h1, h2
===========================================================================
