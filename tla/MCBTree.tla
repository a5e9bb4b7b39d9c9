------------------------------ MODULE MCBTree ------------------------------
(***************************************************************************)
(* BTree for TLC.  A block has room for 8 bytes of records, a root for one *)
(* less; keys take 1 byte, so an index record takes 2 and a leaf record 1  *)
(* plus its value.                                                         *)
(***************************************************************************)
EXTENDS BTree

TheKeys == 1 .. 21
TheVals == 0 .. 7

\* Any operations on a small tree.
Small == [built |-> << >>, keys |-> 1 .. 6, vals |-> {0, 1}, maxops |-> 0, calls |-> {"dup", "remove"},
          faults |-> {}]

\* Four leaves under a full root, built by inserting the even keys: when the
\* last leaf splits, so does the root, and the tree gets a third level.  The odd
\* keys come before, between and after the others.
Deep ==
    [built |-> [i \in 1 .. 10 |-> <<2 * i, 1>>], keys |-> {2 * i : i \in 1 .. 10} \cup {1, 11, 19, 21},
     vals |-> {1}, maxops |-> 4, calls |-> {"dup", "remove", "sync", "close"},
     faults |-> {}]

\* A root full of one-byte records, and records of more than half a block to put
\* between any two of them.
Crowded ==
    [built |-> [i \in 1 .. 7 |-> <<2 * i, 0>>], keys |-> 1 .. 15, vals |-> {0} \cup 4 .. 7,
     maxops |-> 1, calls |-> {"miss"}, faults |-> {}]

\* Records that fill most of a block.
Big == [built |-> << >>, keys |-> 1 .. 6, vals |-> {1, 4, 5}, maxops |-> 0, calls |-> {}, faults |-> {}]

\* The tree of Deep, with changes and failures that split the full leaf and the
\* root, or empty a leaf, and flushes that fail half-way.
Unflushed ==
    [Deep EXCEPT !.keys = {2, 4, 19, 21}, !.maxops = 3,
                 !.faults = {"copy", "bitmap", "node", "root", "free", "flush"}]

\* The same tree, when reading it fails or a record found cannot be copied.
Unread ==
    [Deep EXCEPT !.keys = {2, 4, 5, 21}, !.maxops = 2, !.calls = {"remove", "miss"},
                 !.faults = {"read", "record", "free"}]

\* Any operations on a tree of few keys that loses blocks until none is left.
Unlucky ==
    [built |-> << >>, keys |-> 1 .. 4, vals |-> {1}, maxops |-> 0, calls |-> {"remove"},
     faults |-> {"bitmap", "node", "root", "free"}]

SafeUses == {Small, Deep, Crowded}
BigUses == {Big}
FaultyUses == {Unflushed, Unread, Unlucky}

=============================================================================
