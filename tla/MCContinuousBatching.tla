--------------------- MODULE MCContinuousBatching ---------------------
(* Three requests: one fills a block, one two, one is above the token budget. *)
EXTENDS ContinuousBatching, TLC
CONSTANTS r1, r2, r3
MCTokens == (r1 :> 2) @@ (r2 :> 3) @@ (r3 :> 6)
=======================================================================
