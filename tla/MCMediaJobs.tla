----------------------------- MODULE MCMediaJobs -----------------------------
(* MediaJobs with two jobs and two spellings of one model. *)
EXTENDS MediaJobs, TLC

CONSTANTS j1, j2, hyphen, underscore

MCAlias == (hyphen :> underscore) @@ (underscore :> hyphen)

\* Nothing chooses between two jobs, and the properties checked are of safety.
JobsAlike == Permutations(Jobs)
=============================================================================
