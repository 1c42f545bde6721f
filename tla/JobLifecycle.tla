--------------------------- MODULE JobLifecycle ---------------------------
(***************************************************************************)
(* What the job queue promises about the EXECUTION of a generation job,    *)
(* whatever its status row says: a job is submitted once, at most one      *)
(* worker ever starts it, a started job ends in exactly one way, and an    *)
(* ended job never comes back.  A job can be lost only before it has       *)
(* ended, when the process stops.  (desain.md, section 8, "Job pattern".)  *)
(***************************************************************************)
CONSTANT Jobs

VARIABLE stage   \* the true stage of every job, not its row in SQLite

Stages == {"absent", "queued", "processing", "completed", "failed", "lost"}

\* Stages in which the job still is the process's business.
Live == {"queued", "processing"}

Init == stage = [j \in Jobs |-> "absent"]

Move(j, from, to) == /\ stage[j] = from
                     /\ stage' = [stage EXCEPT ![j] = to]

Submit(j) == Move(j, "absent", "queued")
Start(j)  == Move(j, "queued", "processing")
Finish(j) == Move(j, "processing", "completed") \/ Move(j, "processing", "failed")

\* The process ends: any of the live jobs are lost.
Lose == \E S \in SUBSET {j \in Jobs : stage[j] \in Live} :
           stage' = [j \in Jobs |-> IF j \in S THEN "lost" ELSE stage[j]]

Next == Lose \/ \E j \in Jobs : Submit(j) \/ Start(j) \/ Finish(j)

Spec == Init /\ [][Next]_stage
===========================================================================
