--------------------------- MODULE BlockAllocator ---------------------------
(***************************************************************************)
(* What the space manager of btrees/btree.c promises the btree: a set of   *)
(* blocks in use.  An allocation returns a block of the file that is not   *)
(* in use, and reports ENOSPC only when there is none; a call that fails   *)
(* changes nothing.                                                        *)
(***************************************************************************)
CONSTANTS Block,    \* the blocks of the file
          Fixed     \* the blocks that are always in use

VARIABLES used, reply

allocVars == <<used, reply>>

Says(e) == [err |-> e, blkno |-> 0]

Init == used = Fixed /\ reply = Says("none")

Alloc ==
    \E n \in Block \ used :
        /\ used' = used \cup {n}
        /\ reply' = [err |-> "ok", blkno |-> n]

Full ==
    /\ used = Block
    /\ reply' = Says("ENOSPC")
    /\ UNCHANGED used

Free ==
    \E n \in used \ Fixed :
        /\ used' = used \ {n}
        /\ reply' = Says("ok")

\* I/O errors, reopening the file, and the end of the program.
Unchanged ==
    /\ reply' \in {Says("none"), Says("EIO"), Says("abort")}
    /\ UNCHANGED used

Next == Alloc \/ Full \/ Free \/ Unchanged

Spec == Init /\ [][Next]_allocVars

=============================================================================
