------------------------------- MODULE AvlTree -------------------------------
(***************************************************************************)
(* The AVL tree of avl_trees/avl_tree.c.  Data are numbers, compared as    *)
(* such, and a node is named by its data, which is in the tree once.  The  *)
(* functions that call each other are operators on a record S with the     *)
(* root, the children and the balance of every node, the nodes that are    *)
(* allocated, and the assertion that failed, if one did.                   *)
(*                                                                         *)
(* A side is -1 for left and 1 for right: kid[n][-1] is atn_lchild, and    *)
(* the functions that are mirror images of each other are one operator.    *)
(* Recursion is a function of its depth: nothing is changed on the way     *)
(* down, and no branch is longer than there are data.                      *)
(***************************************************************************)
EXTENDS Integers, Sequences, SequencesExt, FiniteSets

\* An operator Op_Slip is Op with a slip of the kind this code invites; each is
\* used only to see that some property would notice it.
CONSTANTS
    Data,
    NULL,
    Starts    \* how behaviours begin: [built, data, calls] is a tree made by inserting
              \* the sequence built, and then calls with data in data, at most calls of
              \* them that insert or remove (0 for any number)

ASSUME AvlAssumption ==
    /\ Data \subseteq Int /\ IsFiniteSet(Data)
    /\ NULL \notin Data
    /\ \A s \in Starts : s.data \subseteq Data /\ s.built \in Seq(Data)

VARIABLES
    start,       \* the member of Starts
    at,          \* the tree
    at_nnodes,
    at_reply,    \* what the last call was, and what it returned
    ncalls

avlvars == <<start, at, at_nnodes, at_reply, ncalls>>

Reply(op, d, r) == [op |-> op, data |-> d, res |-> r]

Sides == {-1, 1}
NodeOrNull == Data \cup {NULL}
Deepest == Cardinality(Data)

Childless == [s \in Sides |-> NULL]

Created ==
    [root |-> NULL, kid |-> [n \in Data |-> Childless], bal |-> [n \in Data |-> 0],
     used |-> {}, abort |-> ""]

\* atn_is_left_heavy, atn_is_right_heavy and atn_unbalanced.
Heavy(S, n, s) == S.bal[n] * s > 0
Unbalanced(S, n) == S.bal[n] \notin -1 .. 1
atn_has_no_children(S, n) == S.kid[n] = Childless

Side(a, b) == IF a > b THEN 1 ELSE -1

Claim(S, ok, what) == IF ok \/ S.abort # "" THEN S ELSE [S EXCEPT !.abort = what]

\* Put m in n's place under its parent p, found by comparing n with p.
Replace(S, n, p, m) ==
    IF p = NULL THEN [S EXCEPT !.root = m] ELSE [S EXCEPT !.kid[p][Side(n, p)] = m]

-----------------------------------------------------------------------------
(* Rotations                                                               *)

\* The balances of n and of its child on side s after n is rotated away from s.
RotatedBalance(S, n, child, s) ==
    S.bal[n] - s * (IF ~Heavy(S, child, s) THEN 1 ELSE IF Unbalanced(S, child) THEN 3 ELSE 2)

ChildBalance(S, n, child, s) ==
    IF ~Heavy(S, child, s) THEN S.bal[child] - s
    ELSE IF Unbalanced(S, n) THEN 0 ELSE -s

\* The child takes n's place, and n the child's inner subtree.
Turned_DropsInner(S, n, p, child, s) ==
    [Replace(S, n, p, child) EXCEPT
        !.kid[child][-s] = n,
        !.kid[n][s] = NULL,
        !.bal[n] = RotatedBalance(S, n, child, s),
        !.bal[child] = ChildBalance(S, n, child, s)]
Turned(S, n, p, child, s) ==
    [Replace(S, n, p, child) EXCEPT
        !.kid[child][-s] = n,
        !.kid[n][s] = S.kid[child][-s],
        !.bal[n] = RotatedBalance(S, n, child, s),
        !.bal[child] = ChildBalance(S, n, child, s)]

\* at_rotate_right for s = -1, at_rotate_left for s = 1.
Rotate(S, n, p, s) ==
    LET child == S.kid[n][s]
        S1 == Claim(S, Heavy(S, n, s), "heavy")
        S2 == Claim(S1, p = NULL => n = S.root, "atn == at->at_root")
        S3 == Claim(S2, Heavy(S, child, s) /\ Unbalanced(S, child) => Unbalanced(S, n), "atn_unbalanced(atn)")
    IN  Turned(S3, n, p, child, s)

\* The extra rotation of the child when it is heavy on the inner side.
PreRotated(S, n, s) ==
    IF Heavy(S, S.kid[n][s], -s) THEN Rotate(S, S.kid[n][s], n, -s) ELSE S

at_balance(S, n, p) ==
    LET s  == IF S.bal[n] > 0 THEN 1 ELSE -1
        S1 == Rotate(PreRotated(S, n, s), n, p, s)
    IN  Claim(S1, ~Unbalanced(S1, n), "!atn_unbalanced(atn)")

-----------------------------------------------------------------------------
(* Insertion: changed says whether the height of the subtree changed       *)

Changed(S, err, changed) == [s |-> S, err |-> err, changed |-> changed]

\* After the subtree of n on side s was inserted into.
Balanced(S, n, p, changed) ==
    IF Unbalanced(S, n) THEN Changed(at_balance(S, n, p), "ok", FALSE) ELSE Changed(S, "ok", changed)

Raised(r, n, p, s) ==
    IF r.err # "ok" THEN r
    ELSE IF ~r.changed
         THEN Changed(Claim(r.s, ~Unbalanced(r.s, n), "rheight_change || lheight_change"), "ok", FALSE)
         ELSE Balanced([r.s EXCEPT !.bal[n] = @ + s], n, p, ~Heavy(r.s, n, -s))

\* The node of d becomes the child of n on side s.
Linked(S, n, s, d) == Changed([S EXCEPT !.kid[n][s] = d], "ok", TRUE)

_at_insert(S, d) ==
    LET insert[depth \in 0 .. Deepest] ==
            [n \in NodeOrNull |-> [p \in NodeOrNull |->
               IF depth = 0 \/ d = n THEN Changed(S, "EEXIST", FALSE)
               ELSE LET s == Side(d, n) IN
                    IF S.kid[n][s] = NULL THEN Raised(Linked(S, n, s, d), n, p, s)
                    ELSE Raised(insert[depth - 1][S.kid[n][s]][n], n, p, s)]]
    IN  insert[Deepest][S.root][NULL]

\* at_insert, when malloc succeeds.
Inserted(S, d) ==
    LET r == IF S.root = NULL THEN Changed([S EXCEPT !.root = d], "ok", TRUE)
             ELSE _at_insert(S, d)
    IN  IF r.err = "ok" THEN [r EXCEPT !.s.used = @ \cup {d}] ELSE r

-----------------------------------------------------------------------------
(* Removal: changed says whether the height of the subtree changed         *)

\* When n is out of balance after losing height: the height of n changes unless
\* the side it is heavy on is perfectly balanced.
HeightDrops_Always(S, n) == TRUE
HeightDrops(S, n) == S.bal[S.kid[n][IF S.bal[n] > 0 THEN 1 ELSE -1]] # 0

Rebalanced(S, n, p, changed) ==
    IF Unbalanced(S, n)
    THEN Changed(at_balance(Claim(S, ~changed, "*height_change == false"), n, p), "ok", HeightDrops(S, n))
    ELSE Changed(S, "ok", changed)

\* After the subtree of n on side s was removed from.
Lowered(r, n, p, s) ==
    IF r.err # "ok" THEN r
    ELSE IF ~r.changed
         THEN Changed(Claim(r.s, ~Unbalanced(r.s, n), "rheight_change || lheight_change"), "ok", FALSE)
         ELSE Rebalanced([r.s EXCEPT !.bal[n] = @ - s], n, p, Heavy(r.s, n, s))

Plucked(r, node) == [s |-> r.s, err |-> r.err, changed |-> r.changed, node |-> node]

\* at_get_max_for_removal for s = 1, at_get_min_for_removal for s = -1; both go
\* on with at_get_max_for_removal.
PluckBelow(r, n, p, s) == Plucked(Lowered(Changed(r.s, r.err, r.changed), n, p, s), r.node)

Pluck(S, from, parent, side) ==
    LET pluck[depth \in 0 .. Deepest] ==
            [n \in NodeOrNull |-> [p \in NodeOrNull |-> [s \in Sides |->
               IF depth = 0 \/ S.kid[n][s] = NULL
               THEN Plucked(Changed(Replace(S, n, p, S.kid[n][-s]), "ok", TRUE), n)
               ELSE PluckBelow(pluck[depth - 1][S.kid[n][s]][n][1], n, p, s)]]]
    IN  pluck[Deepest][from][parent][side]

Destroyed(S, n) == [S EXCEPT !.kid[n] = Childless, !.bal[n] = 0, !.used = @ \ {n}]

\* The replacement r.node takes n's place, children and balance.
Swapped(r, n, p) ==
    LET m == r.node
        S == Claim(r.s, m \notin {r.s.kid[n][-1], r.s.kid[n][1]}, "!atn_is_child_of(replacement, atn)")
    IN  Destroyed([Replace(S, n, p, m) EXCEPT !.kid[m] = S.kid[n], !.bal[m] = S.bal[n]], n)

\* at_get_replacement_for_removal: the max of the left subtree, or the min of
\* the right one if there is no left one.
ReplacedFrom(r, n, p, s) == Lowered(Changed(Swapped(r, n, p), "ok", r.changed), r.node, p, s)
Removed(S, n, p) ==
    IF atn_has_no_children(S, n) THEN Changed(Destroyed(Replace(S, n, p, NULL), n), "ok", TRUE)
    ELSE IF S.kid[n][-1] # NULL THEN ReplacedFrom(Pluck(S, S.kid[n][-1], n, 1), n, p, -1)
    ELSE ReplacedFrom(Pluck(S, S.kid[n][1], n, -1), n, p, 1)

_at_remove(S, d) ==
    LET remove[depth \in 0 .. Deepest] ==
            [n \in NodeOrNull |-> [p \in NodeOrNull |->
               IF depth = 0 \/ n = NULL THEN Changed(S, "ENOENT", FALSE)
               ELSE IF d = n THEN Removed(S, n, p)
               ELSE LET s == Side(d, n) IN Lowered(remove[depth - 1][S.kid[n][s]][n], n, p, s)]]
    IN  remove[Deepest][S.root][NULL]

-----------------------------------------------------------------------------
\* Where _at_find looks for d after n.
Below_Swapped(S, n, d) == S.kid[n][Side(n, d)]
Below(S, n, d) == S.kid[n][Side(d, n)]

_at_find(S, d) ==
    LET find[depth \in 0 .. Deepest] ==
            [n \in NodeOrNull |->
               IF depth = 0 \/ n = NULL THEN "ENOENT"
               ELSE IF d = n THEN "ok" ELSE find[depth - 1][Below(S, n, d)]]
    IN  find[Deepest][S.root]

\* _at_iterate: the data of the tree in the order they are visited.
InOrder(S) ==
    LET visits[depth \in 0 .. Deepest] ==
            [n \in NodeOrNull |->
               IF depth = 0 \/ n = NULL THEN << >>
               ELSE visits[depth - 1][S.kid[n][-1]] \o <<n>> \o visits[depth - 1][S.kid[n][1]]]
    IN  visits[Deepest][S.root]

\* The tree made by inserting seq.
Built(seq) ==
    LET after[i \in 0 .. Len(seq)] == IF i = 0 THEN Created ELSE Inserted(after[i - 1], seq[i]).s
    IN  after[Len(seq)]

AvlInit ==
    /\ start \in Starts
    /\ at = Built(start.built)
    /\ at_nnodes = Cardinality(at.used)
    /\ at_reply = Reply("create", NULL, "ok")
    /\ ncalls = 0

AvlRunning == at.abort = ""
MayChange == AvlRunning /\ (start.calls > 0 => ncalls < start.calls)

\* The end of a call that may change the tree.
Ends(r, n, reply) ==
    /\ at' = r.s
    /\ at_nnodes' = n
    /\ at_reply' = reply
    /\ ncalls' = IF start.calls > 0 THEN ncalls + 1 ELSE 0
    /\ UNCHANGED start

at_insert(d) ==
    LET r == Inserted(at, d) IN
    /\ MayChange
    /\ Ends(r, IF r.err = "ok" THEN at_nnodes + 1 ELSE at_nnodes, Reply("insert", d, r.err))

at_insert_ENOMEM(d) ==
    /\ MayChange
    /\ Ends(Changed(at, "ok", FALSE), at_nnodes, Reply("insert", d, "ENOMEM"))

at_remove(d) ==
    LET r == _at_remove(at, d) IN
    /\ MayChange
    /\ Ends(r, IF r.err = "ok" THEN at_nnodes - 1 ELSE at_nnodes, Reply("remove", d, r.err))

\* at_destroy; then at_create.
at_destroy ==
    /\ MayChange
    /\ Ends(Changed(Created, "ok", FALSE), 0, Reply("create", NULL, "ok"))

Answer(r) == AvlRunning /\ at_reply' = r /\ UNCHANGED <<start, at, at_nnodes, ncalls>>

at_find(d) == Answer(Reply("find", d, _at_find(at, d)))

\* at_iterate with a callback that stops at d: how many data it is given.
at_iterate(d) ==
    LET all == InOrder(at)
        n   == IF d \in ToSet(all) THEN CHOOSE i \in DOMAIN all : all[i] = d ELSE Len(all)
    IN  Answer(Reply("iterate", d, n))

AvlNext ==
    \/ \E d \in start.data : at_insert(d) \/ at_insert_ENOMEM(d) \/ at_remove(d) \/ at_find(d)
    \/ \E d \in start.data \cup {NULL} : at_iterate(d)
    \/ at_destroy

AvlSpec == AvlInit /\ [][AvlNext]_avlvars

-----------------------------------------------------------------------------
(* Correctness                                                             *)

\* The height _at_check computes.
Height(S, from) ==
    LET height[depth \in 0 .. Deepest] ==
            [n \in NodeOrNull |->
               IF depth = 0 \/ n = NULL THEN 0
               ELSE LET lheight == height[depth - 1][S.kid[n][-1]]
                        rheight == height[depth - 1][S.kid[n][1]]
                    IN  1 + (IF lheight > rheight THEN lheight ELSE rheight)]
    IN  height[Deepest][from]

\* at_check: the balance of every node is the difference of the heights below
\* it, and at_nnodes counts the nodes.
at_check ==
    LET all == InOrder(at) IN
    /\ \A i \in DOMAIN all :
         LET n == all[i] IN
         /\ at.bal[n] = Height(at, at.kid[n][1]) - Height(at, at.kid[n][-1])
         /\ at.bal[n] \in -1 .. 1
         /\ \A s \in Sides : at.kid[n][s] # NULL => Side(at.kid[n][s], n) = s
    /\ at_nnodes = Len(all)

(* None of the assertions in the rotations, in at_balance and on the two   *)
(* ways down to a replacement fails: a node is unbalanced only after a     *)
(* height change below it, and one rotation or two always mend it.  And    *)
(* at_check passes after every call: the balances kept step by step along  *)
(* the path of an insertion or removal are the true ones everywhere.       *)
AvlChecks == AvlRunning /\ at_check

(* The tree visits its data in ascending order, and no rotation or swap    *)
(* drops a node or keeps one that was freed.  at_check would not notice: it*)
(* compares a node with its children only.                                 *)
InOrderAndComplete ==
    LET all == InOrder(at) IN
    /\ \A i \in 1 .. Len(all) - 1 : all[i] < all[i + 1]
    /\ ToSet(all) = at.used

(* The tree is a set.                                                      *)
AvlSet == INSTANCE DataSet WITH contents <- at.used, reply <- at_reply

IsAvlSet == [][AvlSet!Next]_<<at.used, at_reply>>

=============================================================================
