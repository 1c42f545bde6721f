----------------------------- MODULE BlockPool -----------------------------
(***************************************************************************)
(* What a paged KV cache promises: every block has at most one owner, a    *)
(* sequence takes free blocks only, and what it gives back it gives back   *)
(* all at once.  PagedKVCache implements this.                             *)
(***************************************************************************)
CONSTANTS Blocks,     \* the blocks there may be
          Sequences,  \* the sequences that may own them
          Nobody,     \* the owner of a free block
          Absent      \* the owner of a block that was never created

VARIABLE owner        \* owner[b]: the sequence that block b belongs to

Init == owner = [b \in Blocks |-> Absent]

Create(B) == /\ \A b \in B : owner[b] = Absent
             /\ owner' = [b \in Blocks |-> IF b \in B THEN Nobody ELSE owner[b]]

Take(s, B) == /\ \A b \in B : owner[b] = Nobody
              /\ owner' = [b \in Blocks |-> IF b \in B THEN s ELSE owner[b]]

GiveBack(s) == owner' = [b \in Blocks |-> IF owner[b] = s THEN Nobody ELSE owner[b]]

Next == \/ \E B \in SUBSET Blocks : Create(B)
        \/ \E s \in Sequences : \/ \E B \in SUBSET Blocks : Take(s, B)
                                \/ GiveBack(s)

Spec == Init /\ [][Next]_owner
===========================================================================
