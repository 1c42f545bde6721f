----------------------------- MODULE MCHotSwap -----------------------------
(* Instances of HotSwap for TLC.                                           *)
EXTENDS HotSwap, TLC

\* The threads are alike, and so are the models.
ThreadsAlike == Permutations(Requests) \cup Permutations(Models)
===========================================================================
