------------------------------- MODULE BTree -------------------------------
(***************************************************************************)
(* The on-disk btree of btrees/btree.c.  Every operation runs under        *)
(* bt_rwlock, exclusively when it changes anything, so an operation is one *)
(* step.  The functions of the C code that call each other become          *)
(* operators over a tree state S,                                          *)
(*                                                                         *)
(*   S.nd[n]   the node in block n (NoNode when n holds none)              *)
(*   S.alloc   the blocks in use, their bits set in the bitmaps            *)
(*   S.lost    blocks whose bits are set although nothing is in them       *)
(*   S.root    smp_rblkno, and the block of bt_root                        *)
(*   S.dirty   the blocks dirtied since the last flush                     *)
(*   S.abort   the assertion that failed, or ""                            *)
(*   S.fault   the call of malloc or of the block cache that fails         *)
(*                                                                         *)
(* that return a record: the new state, the error and the split info.  One *)
(* failing call is enough: every one of them ends the operation.           *)
(* Sizes are in bytes as in the code, scaled down.  A leaf record's value  *)
(* is its btrp_vsz; an index record's is the block it points to.           *)
(***************************************************************************)
EXTENDS Integers, Sequences, FiniteSets, SequencesExt, FiniteSetsExt

\* An operator Op_Slip is Op with a slip of the kind this code invites; each is
\* used only to see that some property would notice it.
CONSTANTS
    Keys,        \* the keys in use, integers
    Vals,        \* the value sizes in use
    KeySz,       \* btrp_ksz and the record header, for every key
    MaxInline,   \* bt_max_inline_record_size: a block without its header
    PtrSz,       \* sizeof(uint64_t)
    InfoSz,      \* sizeof(bt_info_phys_t)
    NBlocks,     \* smp_nblocks
    Uses         \* how the tree may be used: see use

ASSUME BTreeAssumption ==
    /\ Keys \subseteq Nat
    /\ Vals \subseteq Nat
    /\ {KeySz, MaxInline, PtrSz, InfoSz, NBlocks} \subseteq Nat
    /\ InfoSz <= MaxInline \* a root has room for the info,
    /\ NBlocks > 2         \* and the file for the blocks bt_create writes
    /\ \A u \in Uses :
         /\ u.built \in Seq(Keys \X Vals) /\ u.keys \subseteq Keys /\ u.vals \subseteq Vals
         /\ u.maxops \in Nat
         /\ u.calls \subseteq {"dup", "dup_full", "miss", "remove", "sync", "close"}
         /\ u.faults \subseteq {"read", "copy", "bitmap", "node", "root", "index", "free", "record", "flush"}

VARIABLES
    use,     \* the use of this behaviour: records built are inserted first; then come
             \* operations with keys and vals, at most maxops inserts and removes (0
             \* for no bound), of the calls the actions name only those in calls, and
             \* of the failures only those in faults
    tree,    \* the tree state as the block cache holds it
    disk,    \* the tree state as the file holds it
    leaked,  \* blocks with a reference that bt_find did not release
    answers, \* what bt_find would return for each key: Answers(tree) while it runs
    reply,   \* the result of the last operation
    ops      \* inserts and removes so far, when they are bounded

vars == <<use, tree, disk, leaked, answers, reply, ops>>

SMBlk == 0    \* BT_PHYS_SM_OFFSET
RootBlk == 1  \* BT_PHYS_BT_OFFSET
BMBlk == 2    \* the bitmaps; one block of them here

NodeBlks == (0 .. NBlocks - 1) \ {SMBlk, BMBlk}
NoNode == [leaf |-> FALSE, root |-> FALSE, first |-> 0, recs |-> << >>, free |-> 0, nn |-> 0]
NoRec == [k |-> -1, v |-> -1]
NoValue == -1

Reply(e, v) == [err |-> e, val |-> v]
NoReply == Reply("none", NoValue)

-----------------------------------------------------------------------------
(* Records and nodes                                                       *)

\* btr_phys_size
btr_size(leaf, rec) == KeySz + IF leaf THEN rec.v ELSE PtrSz

SizeOf(leaf, recs) ==
    LET upto[i \in 0 .. Len(recs)] == IF i = 0 THEN 0 ELSE upto[i - 1] + btr_size(leaf, recs[i])
    IN  upto[Len(recs)]

\* The scan of an insert or remove stops at the first key not below k.
At(recs, k) == Min({i \in 1 .. Len(recs) : k <= recs[i].k} \cup {Len(recs) + 1})

\* The walk of an index node stops before the first key above k; 0 is the
\* first index pointer.
Route_Closed(recs, k) == At(recs, k) - 1
Route(recs, k) == Min({i \in 1 .. Len(recs) : k < recs[i].k} \cup {Len(recs) + 1}) - 1

Ptr(b, j) == IF j = 0 THEN b.first ELSE b.recs[j].v

SetPtr_NotFirst(S, n, j, p) ==
    [S EXCEPT !.nd[n] = IF j = 0 THEN @ ELSE [@ EXCEPT !.recs[j].v = p], !.dirty = @ \cup {n}]

SetPtr(S, n, j, p) ==
    [S EXCEPT !.nd[n] = IF j = 0 THEN [@ EXCEPT !.first = p] ELSE [@ EXCEPT !.recs[j].v = p],
              !.dirty = @ \cup {n}]

\* btn_init_phys
NewNode(leaf, root) ==
    [leaf |-> leaf, root |-> root, first |-> 0, recs |-> << >>,
     free |-> MaxInline - (IF root THEN InfoSz ELSE 0), nn |-> 0]

Done(S) == [s |-> S, err |-> "ok", i1 |-> NoRec, i2 |-> NoRec, bip |-> 0]
Fail(S, e) == [Done(S) EXCEPT !.err = e]
Abort(S, what) == Fail([S EXCEPT !.abort = what], "abort")
did_split(r) == r.i1 # NoRec

\* The call of this kind fails, where it works on node n: the read of a child
\* ("read"); btn_insert_split's malloc of the copy ("copy"), its btn_alloc in
\* sm_balloc ("bitmap") or in btn_get ("node"), and its malloc of the index record
\* ("index"); the btn_alloc of a root above n ("root"); n's sm_bfree ("free").
Fails(S, call, n) == S.fault = [call |-> call, at |-> n]
NoFault == [call |-> "none", at |-> SMBlk]

\* sm_balloc and bm_balloc: the lowest clear bit.
FreeBlks(S) == (0 .. NBlocks - 1) \ (S.alloc \cup S.lost)

\* btn_alloc
btn_alloc(S, leaf, root) ==
    LET n == Min(FreeBlks(S))
    IN  [S EXCEPT !.nd[n] = NewNode(leaf, root), !.alloc = @ \cup {n},
                  !.dirty = @ \cup {n, BMBlk}]

\* btn_alloc without success, when n is to be split or to have a child.  A block
\* whose buffer btn_get cannot get keeps its bit.
AllocFails(S, n) == FreeBlks(S) = {} \/ Fails(S, "bitmap", n) \/ Fails(S, "node", n)

FailedAlloc(S, n) ==
    IF Fails(S, "bitmap", n) THEN Fail(S, "EIO")
    ELSE IF FreeBlks(S) = {} THEN Fail(S, "ENOSPC")
    ELSE Fail([S EXCEPT !.lost = @ \cup {Min(FreeBlks(S))}, !.dirty = @ \cup {BMBlk}], "EIO")

\* bti_nnodes of the root, in btn_root_info(bt->bt_root).  Its assertion holds: a
\* root that has lost IS_ROOT to a split that failed is a leaf, and a leaf root
\* has nothing counted.
AddNodes(S, d) == [S EXCEPT !.nd[S.root].nn = @ + d, !.dirty = @ \cup {S.root}]

\* btn_free.  The block may stay dirty in the cache and be written with its old
\* records, but nothing looks at it again before btn_init_phys has cleared it:
\* the model forgets it at once.
btn_free_BitmapClean(S, n) ==
    AddNodes([S EXCEPT !.nd[n] = NoNode, !.alloc = @ \ {n}, !.dirty = @ \ {n}], -1)

btn_free(S, n) ==
    AddNodes([S EXCEPT !.nd[n] = NoNode, !.alloc = @ \ {n}, !.dirty = (@ \ {n}) \cup {BMBlk}], -1)

-----------------------------------------------------------------------------
(* btn_insert and btn_insert_split                                         *)

btn_insert_first_index_record(S, n, p, rec) ==
    LET sz   == btr_size(FALSE, rec) + PtrSz
        with == [S.nd[n] EXCEPT !.first = p, !.recs = <<rec>>, !.free = @ - sz]
    IN  IF sz > S.nd[n].free
        THEN Abort(S, "recsz <= btnp->btnp_freespace")
        ELSE Done([S EXCEPT !.nd[n] = with, !.dirty = @ \cup {n}])

\* A cut of a full node: the index of the first record that moves to the new
\* node (Len(recs) + 1 for none), the bytes that will be in it, and headsz.
CutPoint(leaf, recs, ins, sz, cut) ==
    [at   |-> cut,
     tail |-> IF cut > Len(recs) THEN 0
              ELSE SizeOf(leaf, SubSeq(recs, cut, Len(recs))) + (IF ins >= cut THEN sz ELSE 0),
     head |-> SizeOf(leaf, SubSeq(recs, 1, cut - 1)) + (IF ins <= Len(recs) THEN sz ELSE 0)]

\* Where a full node is cut: where the head is full, which it is once it has half
\* of MaxInline, counting the new record from its place on.
SplitPoint(leaf, recs, ins, sz) ==
    LET half      == MaxInline \div 2
        Before(i) == SizeOf(leaf, SubSeq(recs, 1, i - 1))
        Full(i)   == \/ Before(i) + (IF ins < i THEN sz ELSE 0) >= half
                     \/ i = ins /\ Before(i) + sz >= half
    IN  CutPoint(leaf, recs, ins, sz, Min({i \in 1 .. Len(recs) : Full(i)} \cup {Len(recs) + 1}))

\* The three-node case retries with the cut at the insertion point.
Recut_AtHalf(leaf, recs, ins, sz) == SplitPoint(leaf, recs, ins, sz)

Recut(leaf, recs, ins, sz) ==
    [at |-> ins, tail |-> SizeOf(leaf, SubSeq(recs, ins, Len(recs))) + sz]

\* Moving the tail records from n to the new node m.  The old node stops
\* being the root; without a tail nothing marks it dirty.
MoveTail(S, n, m, cut) ==
    LET b     == S.nd[n]
        kept  == SubSeq(b.recs, 1, cut - 1)
        moved == SubSeq(b.recs, cut, Len(b.recs))
        sz    == SizeOf(b.leaf, moved)
        old   == [b EXCEPT !.root = FALSE, !.recs = kept,
                           !.free = @ + sz + (IF b.root THEN InfoSz ELSE 0)]
    IN  IF moved = << >>
        THEN [S EXCEPT !.nd[n] = old]
        ELSE [S EXCEPT !.nd[n] = old,
                       !.nd[m].recs = moved,
                       !.nd[m].free = @ - sz - (IF b.leaf THEN 0 ELSE PtrSz),
                       !.dirty = @ \cup {n, m}]

\* Whether rec does not fit in node n, and what becomes of it if it does.
MustSplit(b, rec) == (b.leaf \/ b.recs # << >>) /\ btr_size(b.leaf, rec) > b.free

InsertHere(S, n, rec) ==
    LET b    == S.nd[n]
        i    == At(b.recs, rec.k)
        with == [b EXCEPT !.recs = InsertAt(@, i, rec), !.free = @ - btr_size(b.leaf, rec)]
    IN  IF ~b.leaf /\ b.recs = << >> THEN btn_insert_first_index_record(S, n, 0, rec)
        ELSE IF i <= Len(b.recs) /\ b.recs[i].k = rec.k THEN Fail(S, "EEXIST")
        ELSE Done([S EXCEPT !.nd[n] = with, !.dirty = @ \cup {n}])

\* A split up to the insertion of the record: the new node is m, and the record
\* goes into the node into.  overfull: it fits in neither.
Parted(S, m, into, inOld, overfull, bip) ==
    [s |-> S, err |-> "ok", new |-> m, into |-> into, inOld |-> inOld, overfull |-> overfull, bip |-> bip]

Unparted(r, n) == [Parted(r.s, n, n, TRUE, FALSE, 0) EXCEPT !.err = r.err]

\* The new record goes to the old node if its place is before the cut, or if
\* it would not fit with the tail but does fit in the old node.
Place(S, n, m, rec, before, tail, bip) ==
    LET fits  == btr_size(S.nd[n].leaf, rec) <= S.nd[n].free
        inOld == before \/ (tail > MaxInline /\ fits)
    IN  Parted(S, m, IF inOld THEN n ELSE m, inOld, tail > MaxInline /\ ~fits, bip)

\* The tail behind the cut moves to m.
SplitAt(S, n, m, rec, cut) ==
    LET b == S.nd[n]
    IN  Place(MoveTail(S, n, m, cut.at), n, m, rec,
              At(b.recs, rec.k) < cut.at /\ cut.at <= Len(b.recs),
              cut.tail, IF b.root THEN b.nn ELSE 0)

\* If the new record is behind the cut and does not fit there, the node is cut
\* again, where the record goes: it must be a large one.
ChooseCut(S, n, m, rec, first) ==
    LET b     == S.nd[n]
        sz    == btr_size(b.leaf, rec)
        ins   == At(b.recs, rec.k)
        third == ins >= first.at /\ first.tail > MaxInline
    IN  CASE ~third -> SplitAt(S, n, m, rec, first)
          [] third /\ ~(sz > MaxInline \div 2) -> Unparted(Abort(S, "nrecsz > (maxsz / 2)"), n)
          [] third /\ sz > MaxInline \div 2 /\ ~(first.head + sz > MaxInline) ->
               Unparted(Abort(S, "(headsz + nrecsz) > maxsz"), n)
          [] OTHER -> SplitAt(S, n, m, rec, Recut(b.leaf, b.recs, ins, sz))

\* btn_insert_split up to there.  The copy of the node is made for an error path
\* that does not use it; the new node is allocated before the search that finds a
\* duplicate.
Split(S, n, rec) ==
    LET b      == S.nd[n]
        ins    == At(b.recs, rec.k)
        S1     == btn_alloc(S, b.leaf, FALSE)
        copied == ~Fails(S, "copy", n)
        new    == copied /\ ~AllocFails(S, n)
    IN  CASE ~copied -> Unparted(Fail(S, "ENOMEM"), n)
          [] copied /\ ~new -> Unparted(FailedAlloc(S, n), n)
          [] new /\ ins <= Len(b.recs) /\ b.recs[ins].k = rec.k ->
               Unparted(Fail(S1, "EEXIST"), n)
          [] OTHER -> ChooseCut(S1, n, Min(FreeBlks(S)), rec,
                                SplitPoint(b.leaf, b.recs, ins, btr_size(b.leaf, rec)))

\* What the caller gets is the index record of the new node, and the one of a
\* third node if the insertion has split it.  Without memory for it the split is
\* not undone: nothing leads to the new node.
WithIndex(r, p) ==
    IF Fails(r.s, "index", p.new) THEN Fail(r.s, "ENOMEM")
    ELSE [r EXCEPT !.i1 = [k |-> r.s.nd[p.new].recs[1].k, v |-> p.new], !.i2 = r.i1, !.bip = p.bip]

\* The rest of btn_insert_split, r being the result of the insertion into p.into.
SplitResult(r, p) ==
    CASE r.err # "ok" -> r
      [] r.err = "ok" /\ ~did_split(r) -> WithIndex(r, p)
      [] r.err = "ok" /\ did_split(r) /\ p.inOld -> Abort(r.s, "!bsi_did_split(&rbsi)")
      [] r.err = "ok" /\ did_split(r) /\ ~p.inOld /\ ~p.overfull ->
           Abort(r.s, "tailsz > maxsz && nrecsz > btnp->btnp_freespace")
      [] OTHER ->
           IF r.i2 # NoRec \/ r.bip # 0 THEN Abort(r.s, "!rbsi.bsi_split_index2") ELSE WithIndex(r, p)

\* btn_insert and btn_insert_split call each other: a node may be split, and the
\* new one once more for a record that fits in neither.  One more split would be
\* one that this has not made room for the record.
InsertUnsplit(S, n, rec) ==
    IF MustSplit(S.nd[n], rec) THEN Abort(S, "split three times") ELSE InsertHere(S, n, rec)

\* Inserting the record after split p.
FinishOnce(p, rec) ==
    IF p.err # "ok" THEN Fail(p.s, p.err) ELSE SplitResult(InsertUnsplit(p.s, p.into, rec), p)

SplitOnce(S, n, rec) == FinishOnce(Split(S, n, rec), rec)

InsertOnce(S, n, rec) ==
    IF MustSplit(S.nd[n], rec) THEN SplitOnce(S, n, rec) ELSE InsertHere(S, n, rec)

Finish(p, rec) ==
    IF p.err # "ok" THEN Fail(p.s, p.err) ELSE SplitResult(InsertOnce(p.s, p.into, rec), p)

btn_insert_split(S, n, rec) == Finish(Split(S, n, rec), rec)

btn_insert(S, n, rec) ==
    IF MustSplit(S.nd[n], rec) THEN btn_insert_split(S, n, rec) ELSE InsertHere(S, n, rec)

-----------------------------------------------------------------------------
(* bt_insert                                                               *)

\* The nodes visited on the way to k, from the root down: to a leaf, or to an
\* index node without the child.
Path(S, k) ==
    LET path[depth \in 0 .. NBlocks] ==
            [n \in NodeBlks |->
               LET b == S.nd[n]
                   p == Ptr(b, Route(b.recs, k))
               IN  IF depth = 0 \/ b.leaf \/ p = 0 THEN <<n>> ELSE <<n>> \o path[depth - 1][p]]
    IN  path[NBlocks][S.root]

\* btn_get of a child on the way to k fails.
Unreadable(S, k) == S.fault.call = "read" /\ S.fault.at \in ToSet(Tail(Path(S, k)))

\* The new child's index record goes into its parent.
AddIndex_AtRoot(S, n, rec) == btn_insert(AddNodes(S, 1), S.root, rec)
AddIndex(S, n, rec) == btn_insert(AddNodes(S, 1), n, rec)

\* After the index record of a split child has been added to the parent.
Indexed(i, i2) ==
    CASE i.err = "abort" -> i
      [] i.err \notin {"ok", "abort"} -> Abort(i.s, "!err")
      [] i.err = "ok" /\ i2 # NoRec -> Abort(i.s, "!cbsi.bsi_split_index2")
      [] OTHER -> [i EXCEPT !.s.dirty = @ \cup {i.s.root}]

FromChild(c, n) ==
    IF c.err # "ok" \/ ~did_split(c) THEN c ELSE Indexed(AddIndex(c.s, n, c.i1), c.i2)

\* A missing child is made, a leaf.
NewChild(S, n, j) == AddNodes(SetPtr(btn_alloc(S, TRUE, FALSE), n, j, Min(FreeBlks(S))), 1)

\* What the call on the last node of the path does: the leaf, or an index node
\* without the child.
AtBottom(S, n, rec) ==
    CASE S.nd[n].leaf -> btn_insert(S, n, rec)
      [] ~S.nd[n].leaf /\ AllocFails(S, n) -> FailedAlloc(S, n)
      [] OTHER -> FromChild(btn_insert(NewChild(S, n, Route(S.nd[n].recs, rec.k)), Min(FreeBlks(S)), rec), n)

\* The calls on the nodes of the path, from the last to the root: on its way
\* down a call only reads.
Ascent(S, rec) ==
    LET path == Path(S, rec.k)
        insert[up \in 0 .. Len(path) - 1] ==
            IF up = 0 THEN AtBottom(S, path[Len(path)], rec)
            ELSE FromChild(insert[up - 1], path[Len(path) - up])
    IN  insert[Len(path) - 1]

_bt_insert(S, rec) == IF Unreadable(S, rec.k) THEN Fail(S, "EIO") ELSE Ascent(S, rec)

\* bti_nnodes of a new root: itself, and the nodes the split added.
NodesAfter_TwoOnly(r) == r.bip + 2
NodesAfter(r) == r.bip + 2 + (IF r.i2 # NoRec THEN 1 ELSE 0)

\* did_split: a new root above the two nodes the old one became.
RootAbove(r) ==
    LET n  == Min(FreeBlks(r.s))
        S1 == [btn_alloc(r.s, FALSE, TRUE) EXCEPT
                 !.root = n,
                 !.nd[n].nn = NodesAfter(r),
                 !.dirty = @ \cup {SMBlk}]
        made == FreeBlks(r.s) # {} /\ ~Fails(r.s, "root", r.s.root)
    IN  CASE ~made -> Abort(r.s, "!err: btn_alloc of the root")
          [] made /\ r.bip = 0 -> Abort(S1, "bsi->bsi_bip.bti_nnodes")
          [] OTHER -> btn_insert_first_index_record(S1, n, r.s.root, r.i1)

\* The index record of the third node may split the new root, and another
\* comes above it.
SecondIndex(i2) ==
    CASE i2.err = "abort" -> i2
      [] i2.err \notin {"ok", "abort"} -> Abort(i2.s, "!err")
      [] i2.err = "ok" /\ ~did_split(i2) -> i2
      [] i2.err = "ok" /\ did_split(i2) /\ i2.i2 # NoRec -> Abort(i2.s, "!bsi2.bsi_split_index2")
      [] OTHER -> RootAbove(i2)

NewRoot(r) ==
    LET i1 == RootAbove(r)
    IN  IF i1.err # "ok" \/ r.i2 = NoRec THEN i1 ELSE SecondIndex(btn_insert(i1.s, i1.s.root, r.i2))

\* bt_insert: the checks of the sizes, the descent, and a new root if the old
\* one has split.
Rooted(r) == IF r.err = "ok" /\ did_split(r) THEN NewRoot(r) ELSE r

Insertion(S, rec) ==
    IF \/ KeySz + PtrSz > MaxInline - InfoSz - PtrSz
       \/ btr_size(TRUE, rec) > MaxInline
    THEN Fail(S, "E2BIG")
    ELSE Rooted(_bt_insert(S, rec))

-----------------------------------------------------------------------------
(* bt_find and bt_remove                                                   *)

\* _bt_find: the value, or NoValue for ENOENT.
Lookup(S, k) ==
    LET b    == S.nd[Last(Path(S, k))]
        hits == {i \in 1 .. Len(b.recs) : b.recs[i].k = k}
    IN  IF b.leaf /\ hits # {} THEN b.recs[Min(hits)].v ELSE NoValue

Answers(S) == [k \in Keys |-> IF k \in use.keys THEN Lookup(S, k) ELSE NoValue]

\* The space record i takes in node b.
Reclaimed(b, i) == btr_size(b.leaf, b.recs[i])

btn_remove(S, n, k) ==
    LET b       == S.nd[n]
        i       == At(b.recs, k)
        without == [b EXCEPT !.recs = RemoveAt(@, i), !.free = @ + Reclaimed(b, i)]
    IN  IF i <= Len(b.recs) /\ b.recs[i].k = k
        THEN Done([S EXCEPT !.nd[n] = without, !.dirty = @ \cup {n}])
        ELSE Fail(S, "ENOENT")

\* _bt_remove: an empty leaf below the root is freed and its pointer cleared.  If
\* its bitmap cannot be read, it stays, and the record is gone all the same.
\* bm_bfree asserts that the bitmap, of which there is one here, is not full.
Removal(S, k) ==
    LET path   == Path(S, k)
        n      == Last(path)
        r      == btn_remove(S, n, k)
        parent == path[Len(path) - 1]
        empty  == r.err = "ok" /\ Len(path) > 1 /\ r.s.nd[n].recs = << >>
        freed  == ~Fails(S, "free", n)
    IN  CASE Unreadable(S, k) -> Fail(S, "EIO")
          [] ~Unreadable(S, k) /\ ~S.nd[n].leaf -> Fail(S, "ENOENT")
          [] ~Unreadable(S, k) /\ S.nd[n].leaf /\ empty /\ ~freed -> Fail(r.s, "EIO")
          [] ~Unreadable(S, k) /\ S.nd[n].leaf /\ empty /\ freed ->
               IF FreeBlks(S) = {} THEN Abort(r.s, "bmp->bmp_nfree")
               ELSE Done(SetPtr(btn_free(r.s, n), parent, Route(r.s.nd[parent].recs, k), 0))
          [] OTHER -> r

-----------------------------------------------------------------------------
\* bt_create: block 1 is an empty leaf and the root.
Created ==
    [nd    |-> [n \in NodeBlks |-> IF n = RootBlk THEN [NewNode(TRUE, TRUE) EXCEPT !.nn = 1] ELSE NoNode],
     alloc |-> {SMBlk, RootBlk, BMBlk}, lost |-> {}, root |-> RootBlk, dirty |-> {}, abort |-> "",
     fault |-> NoFault]

\* Flushing writes the dirty blocks over what the file had.
Flushed(S, D) ==
    [nd    |-> [n \in NodeBlks |-> IF n \in S.dirty THEN S.nd[n] ELSE D.nd[n]],
     alloc |-> IF BMBlk \in S.dirty THEN S.alloc ELSE D.alloc,
     lost  |-> IF BMBlk \in S.dirty THEN S.lost ELSE D.lost,
     root  |-> IF SMBlk \in S.dirty THEN S.root ELSE D.root,
     dirty |-> {}, abort |-> S.abort, fault |-> NoFault]

\* One more key and value of those a tree is built with, if it has not stopped.
BuiltFrom(S, kv) == IF S.abort # "" THEN S ELSE Insertion(S, [k |-> kv[1], v |-> kv[2]]).s

\* A tree with use.built inserted, written to the file and opened again.
Start ==
    LET built[i \in 0 .. Len(use.built)] ==
            IF i = 0 THEN Created
            ELSE BuiltFrom(built[i - 1], use.built[i])
    IN  Flushed(built[Len(use.built)], Created)

Init ==
    /\ use \in Uses
    /\ disk = Start
    /\ tree = Start
    /\ answers = Answers(Start)
    /\ leaked = {}
    /\ reply = NoReply
    /\ ops = 0

Running == tree.abort = ""
MayChange == Running /\ (use.maxops = 0 \/ ops < use.maxops)

\* The failures of these kinds that an operation may meet on its way to k: at the
\* nodes that are there, and at those it makes.
Faults(S, k, calls) ==
    {NoFault} \cup [call : use.faults \cap calls, at : ToSet(Path(S, k)) \cup FreeBlks(S)]

Struck(S, f) == [S EXCEPT !.fault = f]

\* A call that fails an assertion returns nothing.
Change(r) ==
    /\ tree' = Struck(r.s, NoFault)
    /\ IF r.s.abort = ""
       THEN answers' = Answers(r.s) /\ reply' = Reply(r.err, NoValue)
       ELSE UNCHANGED <<answers, reply>>
    /\ ops' = IF use.maxops > 0 THEN ops + 1 ELSE 0
    /\ UNCHANGED <<use, disk, leaked>>

\* The duplicates the users insert: any, or those the leaf has room for.
DupAllowed(k, v) ==
    LET room == tree.nd[Last(Path(tree, k))].free >= KeySz + v
    IN  use.calls \cap (IF room THEN {"dup", "dup_full"} ELSE {"dup_full"}) # {}

bt_insert(k, v) ==
    /\ MayChange
    /\ Lookup(tree, k) # NoValue => DupAllowed(k, v)
    /\ \E f \in Faults(tree, k, {"read", "copy", "bitmap", "node", "root", "index"}) :
         Change(Insertion(Struck(tree, f), [k |-> k, v |-> v]))

bt_remove(k) ==
    /\ MayChange
    /\ "remove" \in use.calls
    /\ \E f \in Faults(tree, k, {"read", "free"}) : Change(Removal(Struck(tree, f), k))

\* A miss in a leaf returns without releasing the nodes below the root.
bt_find(k) ==
    /\ Running
    /\ Lookup(tree, k) = NoValue => "miss" \in use.calls
    /\ reply' = Reply(IF Lookup(tree, k) = NoValue THEN "ENOENT" ELSE "ok", Lookup(tree, k))
    /\ leaked' = IF Lookup(tree, k) = NoValue
                 THEN leaked \cup (ToSet(Path(tree, k)) \ {tree.root})
                 ELSE leaked
    /\ UNCHANGED <<use, tree, disk, answers, ops>>

\* _bt_find without memory for the record, or without a child it reads: the nodes
\* it has gone through below the root, before node i of the path, are not released.
bt_find_stops(k, i, e) ==
    /\ leaked' = leaked \cup {Path(tree, k)[j] : j \in 2 .. i - 1}
    /\ reply' = Reply(e, NoValue)
    /\ UNCHANGED <<use, tree, disk, answers, ops>>

bt_find_unread_Silent(k) ==
    /\ Running
    /\ "read" \in use.faults
    /\ \E i \in 2 .. Len(Path(tree, k)) : bt_find_stops(k, i, "ok")

bt_find_unread(k) ==
    /\ Running
    /\ "read" \in use.faults
    /\ \E i \in 2 .. Len(Path(tree, k)) : bt_find_stops(k, i, "EIO")

bt_find_uncopied(k) ==
    /\ Running
    /\ "record" \in use.faults
    /\ Lookup(tree, k) # NoValue
    /\ bt_find_stops(k, Len(Path(tree, k)) + 1, "ENOMEM")

bt_sync ==
    /\ Running
    /\ "sync" \in use.calls
    /\ disk' = Flushed(tree, disk)
    /\ tree' = [tree EXCEPT !.dirty = {}]
    /\ reply' = NoReply
    /\ UNCHANGED <<use, leaked, answers, ops>>

\* bt_sync or bt_close when bc_flush fails: some blocks have been written and are
\* not dirty any more, and that is all; bt_close has released nothing.
bc_flush_fails ==
    /\ Running
    /\ "flush" \in use.faults
    /\ \E written \in SUBSET tree.dirty :
         /\ disk' = Flushed([tree EXCEPT !.dirty = written], disk)
         /\ tree' = [tree EXCEPT !.dirty = @ \ written]
    /\ reply' = Reply("EIO", NoValue)
    /\ UNCHANGED <<use, leaked, answers, ops>>

\* bt_close flushes and drops the cache, where a block must have no reference
\* left; bt_open reads the file.
bt_close ==
    /\ Running
    /\ "close" \in use.calls
    /\ disk' = Flushed(tree, disk)
    /\ tree' = [disk' EXCEPT !.abort = IF leaked = {} THEN "" ELSE "bl_refcnt == 0"]
    /\ answers' = Answers(disk')
    /\ reply' = NoReply
    /\ leaked' = {}
    /\ UNCHANGED <<use, ops>>

Next ==
    \/ \E k \in use.keys :
         \/ bt_find(k) \/ bt_find_unread(k) \/ bt_find_uncopied(k)
         \/ bt_remove(k)
         \/ \E v \in use.vals : bt_insert(k, v)
    \/ bt_sync
    \/ bc_flush_fails
    \/ bt_close

Spec == Init /\ [][Next]_vars

-----------------------------------------------------------------------------
(* Correctness                                                             *)

Children(S, n) ==
    IF S.nd[n].leaf THEN {}
    ELSE ({S.nd[n].first} \cup {S.nd[n].recs[i].v : i \in 1 .. Len(S.nd[n].recs)}) \ {0}

\* The nodes _bt_iterate_disk visits, as often as it does.
Visits(S) ==
    LET visits[depth \in 0 .. NBlocks] ==
            [n \in NodeBlks |->
               LET ptrs == <<S.nd[n].first>> \o [i \in 1 .. Len(S.nd[n].recs) |-> S.nd[n].recs[i].v]
               IN  IF depth = 0 \/ S.nd[n].leaf THEN <<n>>
                   ELSE <<n>> \o FlattenSeq([i \in 1 .. Len(ptrs) |->
                                               IF ptrs[i] = 0 THEN << >> ELSE visits[depth - 1][ptrs[i]]])]
    IN  visits[NBlocks][S.root]

Nodes(S) == ToSet(Visits(S))

\* The root, the bits and the free space of every node stay within the file and
\* the block: no split or remove gives back more than it took.
TypeOK ==
    /\ tree.root \in NodeBlks
    /\ tree.alloc \subseteq 0 .. NBlocks - 1
    /\ tree.lost \subseteq (0 .. NBlocks - 1) \ tree.alloc
    /\ \A n \in NodeBlks : tree.nd[n].free \in 0 .. MaxInline
    /\ leaked \subseteq NodeBlks
    /\ ops \in 0 .. use.maxops

(* None of the assertions on the insert path fails, nor bc_destroy's in    *)
(* bt_close: no split needs more nodes than its caller expects, no record  *)
(* is put where it does not fit, and no node is left with a reference.     *)
(* That is so while no call of malloc or of the block cache fails and      *)
(* blocks are left, for the callers assert that a btn_insert or a          *)
(* btn_alloc for a split succeeds (btree.c:1566, 1694); while records take *)
(* at most a quarter of a node, or one is large (btree.c:906); and if no   *)
(* absent key is looked up before the tree is closed (btree.c:1815).       *)
NoAssertFails == tree.abort = ""

(* The tree is a map: what bt_find walks to is what was inserted and not   *)
(* removed, through every split, free and reuse of nodes, and after every  *)
(* call that has failed.  Two things are excepted: an index record that    *)
(* cannot be made when records have been moved (btree.c:982), and a record *)
(* inserted before a large last one (btree.c:951).                         *)
Map == INSTANCE OrderedMap WITH
    Key <- Keys, Value <- Vals, Absent <- NoValue,
    map <- answers

IsMap == [][Map!Next]_<<answers, reply>>

\* The keys at and below n are ascending, and in lo .. hi - 1.
Ordered(S, from, low, high) ==
    LET ordered[depth \in 0 .. NBlocks] ==
            [n \in NodeBlks, lo \in low .. high, hi \in low .. high |->
               LET b == S.nd[n]
                   K(i) == IF i = 0 THEN lo ELSE IF i > Len(b.recs) THEN hi ELSE b.recs[i].k
               IN  /\ \A i \in 1 .. Len(b.recs) : lo <= K(i) /\ K(i) < hi /\ (i > 1 => K(i - 1) < K(i))
                   /\ ~b.leaf => \A i \in 0 .. Len(b.recs) :
                        Ptr(b, i) # 0 => depth > 0 /\ ordered[depth - 1][Ptr(b, i), K(i), K(i + 1)]]
    IN  ordered[NBlocks][from, low, high]

\* Every node's keys are strictly ascending and lie between the index keys on
\* either side of the pointer to it, as long as no assertion has failed.
KeysInOrder == Running => Ordered(tree, tree.root, 0, Max(Keys) + 1)

\* The levels below the root, or a negative number if they differ.
Height(S) ==
    LET height[depth \in 0 .. NBlocks] ==
            [n \in NodeBlks |->
               IF depth = 0 \/ S.nd[n].leaf THEN 1
               ELSE LET below == {height[depth - 1][c] : c \in Children(S, n)}
                    IN  IF below \subseteq {1} THEN 2
                        ELSE IF Cardinality(below) = 1 THEN 1 + Max(below) ELSE -100]
    IN  height[NBlocks][S.root]

\* All leaves are at the same depth, and a missing child is always a leaf: the
\* level-1 comment of _bt_insert.
SameDepth == Height(tree) > 0

\* The block smp_rblkno names is the only node with IS_ROOT set.
OneRoot == \A n \in Nodes(tree) : tree.nd[n].root <=> n = tree.root

(* The shape of the tree survives every split, every leaf that is freed    *)
(* and every one that is made in its place: keys are between the index     *)
(* keys that lead to them, all leaves are at one depth, only the root says *)
(* it is the root, and no node is more than full.                          *)
WellFormed == TypeOK /\ KeysInOrder /\ SameDepth /\ OneRoot

\* The checks of _bt_check_disk_node_cb on one node.
NodeChecks(b) ==
    /\ ~b.leaf => b.recs # << >>
    /\ b.free = MaxInline - (IF b.root THEN InfoSz ELSE 0) - (IF b.leaf THEN 0 ELSE PtrSz)
                  - SizeOf(b.leaf, b.recs)

Live(S) == NodeBlks \cap S.alloc

(* Every node with a block, the ones that a failed split has lost          *)
(* included, would pass these checks, is no more than full and has its     *)
(* keys in order.  Its pointers lead to nodes with a block, and no pointer *)
(* of the tree leads where another does, or to the root.  No failing call  *)
(* of malloc or of the block cache changes that.                           *)
NodesSound ==
    Running =>
        /\ \A n \in Live(tree) :
             LET b == tree.nd[n] IN
             /\ NodeChecks(b) /\ b.free >= 0
             /\ \A i \in 2 .. Len(b.recs) : b.recs[i - 1].k < b.recs[i].k
             /\ ~b.leaf => \A i, j \in 0 .. Len(b.recs) : i # j /\ Ptr(b, i) = Ptr(b, j) => Ptr(b, i) = 0
             /\ Children(tree, n) \subseteq Live(tree) \ {tree.root}
        /\ \A n, m \in Live(tree) : n # m => Children(tree, n) \cap Children(tree, m) = {}

\* bt_check_disk: every node's free space, the node count in the root (which
\* _bt_iterate_disk sizes its array by) and the bitmaps against the tree.
bt_check_disk(S) ==
    /\ \A n \in Nodes(S) : NodeChecks(S.nd[n])
    /\ S.nd[S.root].nn = Len(Visits(S))
    /\ S.alloc \cup S.lost = {SMBlk, BMBlk} \cup Nodes(S)

(* The tree in memory would pass bt_check_disk after every operation, as   *)
(* long as no call of malloc or of the block cache fails: a btn_alloc or   *)
(* an index record that fails leaves a block with its bit set that is not  *)
(* in the tree (btree.c:696, 982).  A duplicate in a full leaf leaves one  *)
(* as well (btree.c:868), and is not inserted here.                        *)
TreeChecks == bt_check_disk(tree)

(* Once no block is dirty the file has exactly the tree that is in memory, *)
(* and the same bits, also when a flush has failed half-way before, or     *)
(* when a failed call has lost a block.                                    *)
SyncIsComplete ==
    tree.dirty = {} =>
        /\ disk.root = tree.root /\ disk.alloc = tree.alloc /\ disk.lost = tree.lost
        /\ \A n \in Nodes(tree) : disk.nd[n] = tree.nd[n]

=============================================================================
