---------------------------- MODULE SpaceManager ----------------------------
(***************************************************************************)
(* The space manager of btrees/btree.c: one bit per block of the file, in  *)
(* bitmap blocks of Bpb bits each, every one with its own count of clear   *)
(* bits.  sm_balloc looks for the first bitmap whose count is not zero and *)
(* bm_balloc for the first clear bit in it; sm_bfree clears a bit.  Both   *)
(* run with bt_rwlock held exclusively, so a call is one step.             *)
(***************************************************************************)
EXTENDS Integers, FiniteSets

\* An operator Op_Slip is Op with a slip of the kind this code invites; each is
\* used only to see that some property would notice it.
CONSTANTS
    NBlocks,  \* smp_nblocks
    Bpb       \* blks_per_bm

\* Both are computed by bt_create: ROUND_UP(smp_nblocks, blks_per_bm) / blks_per_bm
nbmblks == (NBlocks + Bpb - 1) \div Bpb
nextra == nbmblks * Bpb - NBlocks

\* BT_START_SIZE takes more than one bitmap, and bt_create asserts that the
\* first bitmap covers the space manager, the root and all the bitmaps.
ASSUME SpaceAssumption ==
    /\ NBlocks \in Nat
    /\ Bpb \in Nat \ {0}
    /\ NBlocks > Bpb
    /\ nbmblks + 2 <= Bpb

VARIABLES
    bmp_bm,    \* bmp_bm[i]: the bits set in bitmap i
    bmp_nfree, \* bmp_nfree[i]
    cached,    \* the bitmaps in the block cache, which bt_check looks at
    owned,     \* the blocks given out and not given back
    reply,     \* what the last call returned
    abort      \* the assertion that failed, or "none"

vars == <<bmp_bm, bmp_nfree, cached, owned, reply, abort>>

Maps == 0 .. nbmblks - 1
Bits == 0 .. Bpb - 1

\* The block that bit j of bitmap i stands for, and back.
Blkno(i, j) == Bpb * i + j
MapOf(n) == n \div Bpb
BitOf(n) == n % Bpb

Clear(i) == Bits \ bmp_bm[i]

\* The space manager, the root and the bitmaps: the first blocks of the file.
Fixed == 0 .. nbmblks + 1
Block == 0 .. NBlocks - 1

\* A call returns an error code, sm_balloc also a block number.
Says(e) == [err |-> e, blkno |-> 0]
Gives(n) == [err |-> "ok", blkno |-> n]

-----------------------------------------------------------------------------
\* bt_create.  The last bitmap has nextra bits too many: they are set.
ExtraBits_OneLess == Bpb - nextra + 1 .. Bpb - 1
ExtraBits == Bpb - nextra .. Bpb - 1

Init ==
    /\ bmp_bm = [i \in Maps |-> IF i = 0 THEN 0 .. nbmblks + 1
                               ELSE IF i = nbmblks - 1 THEN ExtraBits ELSE {}]
    /\ bmp_nfree = [i \in Maps |-> IF i = 0 THEN Bpb - (nbmblks + 2)
                                  ELSE IF i = nbmblks - 1 THEN Bpb - nextra ELSE Bpb]
    /\ cached = {}
    /\ owned = {}
    /\ reply = Says("none")
    /\ abort = "none"

Running == abort = "none"

Abort(what) ==
    /\ abort' = what
    /\ reply' = Says("abort")
    /\ UNCHANGED <<bmp_bm, bmp_nfree, cached, owned>>

-----------------------------------------------------------------------------
(* Allocation                                                              *)

\* bm_balloc: the first clear bit; the index is blks_per_bm, and nothing is
\* set, if there is none.
FirstClear(i) ==
    IF Clear(i) = {} THEN Bpb ELSE CHOOSE j \in Clear(i) : \A k \in Clear(i) : j <= k

Taken(i) ==
    bmp_nfree' = IF Clear(i) = {} THEN bmp_nfree ELSE [bmp_nfree EXCEPT ![i] = @ - 1]

bm_balloc(i) ==
    /\ bmp_bm' = [bmp_bm EXCEPT ![i] = @ \cup (Bits \cap {FirstClear(i)})]
    /\ Taken(i)
    /\ reply' = Gives(Blkno(i, FirstClear(i)))
    /\ owned' = owned \cup {Blkno(i, FirstClear(i))}

\* sm_balloc: the first bitmap that counts a clear bit.
HasFree(i) == bmp_nfree[i] # 0

First_Roomy(i) == bmp_nfree[i] > 1 /\ \A k \in 0 .. i - 1 : ~HasFree(k)
First(i) == HasFree(i) /\ \A k \in 0 .. i - 1 : ~HasFree(k)

sm_balloc ==
    /\ Running
    /\ \E i \in Maps :
         /\ First(i)
         /\ bm_balloc(i)
         /\ cached' = cached \cup 0 .. i
    /\ UNCHANGED abort

sm_balloc_ENOSPC ==
    /\ Running
    /\ \A i \in Maps : ~First(i)
    /\ reply' = Says("ENOSPC")
    /\ cached' = cached \cup Maps
    /\ UNCHANGED <<bmp_bm, bmp_nfree, owned, abort>>

-----------------------------------------------------------------------------
(* Freeing                                                                 *)

\* bm_bfree: bit j of bitmap i.
bm_bfree(i, j) ==
    /\ bmp_bm' = [bmp_bm EXCEPT ![i] = @ \ {j}]
    /\ bmp_nfree' = [bmp_nfree EXCEPT ![i] = @ + 1]

\* The assertions of bm_bfree.
CanFree(n) == bmp_nfree[MapOf(n)] # 0 /\ BitOf(n) \in bmp_bm[MapOf(n)]

\* The btree frees only blocks it was given (btn_free of a node).
sm_bfree(n) ==
    /\ Running
    /\ CanFree(n)
    /\ bm_bfree(MapOf(n), BitOf(n))
    /\ owned' = owned \ {n}
    /\ reply' = Says("ok")
    /\ cached' = cached \cup {MapOf(n)}
    /\ UNCHANGED abort

sm_bfree_abort(n) ==
    /\ Running
    /\ ~CanFree(n)
    /\ Abort("bm_bfree")

-----------------------------------------------------------------------------
(* The rest                                                                *)

\* bm_get of bitmap i fails, after sm_balloc has looked at the full ones
\* before it, or in sm_bfree: both return its error.
bm_get_error(i) ==
    /\ Running
    /\ reply' = Says("EIO")
    /\ \/ cached' = cached
       \/ (\A k \in 0 .. i - 1 : ~HasFree(k)) /\ cached' = cached \cup 0 .. i - 1
    /\ UNCHANGED <<bmp_bm, bmp_nfree, owned, abort>>

\* bc_get of some other block evicts the buffer of bitmap i, writing it back.
bc_evict(i) ==
    /\ Running
    /\ i \in cached
    /\ cached' = cached \ {i}
    /\ UNCHANGED <<bmp_bm, bmp_nfree, owned, reply, abort>>

\* bm_bco_check on one bitmap: what its two assertions say.
bm_bco_check(i) ==
    /\ bmp_nfree[i] < Bpb
    /\ bmp_nfree[i] = Cardinality(Clear(i))

\* bt_check looks at every bitmap that is in the cache.
bt_check ==
    /\ Running
    /\ \E i \in cached : ~bm_bco_check(i)
    /\ Abort("bm_bco_check")

\* bt_close and bt_open: the bitmaps are written out and the cache is empty.
bt_close ==
    /\ Running
    /\ cached' = {}
    /\ reply' = Says("none")
    /\ UNCHANGED <<bmp_bm, bmp_nfree, owned, abort>>

Next ==
    \/ sm_balloc
    \/ sm_balloc_ENOSPC
    \/ \E n \in owned : sm_bfree(n) \/ sm_bfree_abort(n)
    \/ \E i \in Maps : bm_get_error(i) \/ bc_evict(i)
    \/ bt_check
    \/ bt_close

Spec == Init /\ [][Next]_vars

-----------------------------------------------------------------------------
(* Correctness                                                             *)

(* The counts stay within 0 .. blks_per_bm, and what is given out lies in  *)
(* the file.                                                               *)
TypeOK ==
    /\ bmp_bm \in [Maps -> SUBSET Bits]
    /\ bmp_nfree \in [Maps -> 0 .. Bpb]
    /\ cached \subseteq Maps
    /\ owned \subseteq Block
    /\ abort \in {"none", "bm_bfree", "bm_bco_check"}

\* Every bitmap's count is the number of its clear bits: the second assertion
\* of bm_bco_check, and why bm_balloc's scan never runs off the bitmap.
NfreeExact == \A i \in Maps : bmp_nfree[i] = Cardinality(Clear(i))

\* A bit is set exactly when its block is one of the fixed ones, is in use by
\* the tree, or lies beyond the end of the file.
BitsExact ==
    \A i \in Maps, j \in Bits :
        j \in bmp_bm[i] <=> Blkno(i, j) \in Fixed \cup owned \/ Blkno(i, j) >= NBlocks

(* The counts, the bits and the blocks in use agree after every call: no   *)
(* block is given out twice, none is lost, none of the first or of the     *)
(* extra ones is ever given out, and bmp_nfree, which decides which bitmap *)
(* is searched, is never above or below the clear bits there are.          *)
BitmapsExact == NfreeExact /\ BitsExact

(* The bitmaps together behave as one set of blocks in use.                *)
Allocator == INSTANCE BlockAllocator WITH used <- Fixed \cup owned

IsAllocator == Allocator!Spec

=============================================================================
