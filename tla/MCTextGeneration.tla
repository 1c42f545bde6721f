-------------------------- MODULE MCTextGeneration --------------------------
(* Answers of up to eight tokens: without thinking, with thinking that closes early or late,
   and with thinking that never closes. *)
EXTENDS TextGeneration
MCScripts ==
  {[len |-> n, thinks |-> FALSE, close |-> 0, answer |-> 0] : n \in {0, 4, 8}}
  \cup [len : {8}, thinks : {TRUE}, close : {2, 4}, answer : {5, 6}]
  \cup {[len |-> 8, thinks |-> TRUE, close |-> 0, answer |-> 0]}
=============================================================================
