---------------------------- MODULE MCJobQueue ----------------------------
(* Instances of JobQueue for TLC.                                          *)
EXTENDS JobQueue

CONSTANTS i1, i2, wi1, wi2

\* Two image jobs for a pool of two image workers: the pool races with itself.
ImageJobs       == {i1, i2}
ImagePool       == {wi1, wi2}
ImageJobType    == [j \in ImageJobs |-> "image"]
ImageWorkerType == [w \in ImagePool |-> "image"]
===========================================================================
