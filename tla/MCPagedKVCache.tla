-------------------------- MODULE MCPagedKVCache --------------------------
(* Instances of PagedKVCache for TLC.                                      *)
EXTENDS PagedKVCache

\* Lengths around the block boundary, and the empty one.
Lengths == {0, 1, 2, 3}

\* The same without the empty one.
PositiveLengths == {1, 2, 3}
===========================================================================
