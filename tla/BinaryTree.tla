----------------------------- MODULE BinaryTree -----------------------------
(***************************************************************************)
(* The binary tree of binary_trees/binary_tree.c, which is not balanced.   *)
(* Its bt_remove is a stub that looks at nothing, changes nothing and      *)
(* returns 0 (binary_tree.c:82), even for a key that is there: it is no    *)
(* call of this specification, which says nothing of removals.             *)
(* Keys are numbers, key_compare is their difference, and a node is named  *)
(* by its key.  The functions descend with the address of the pointer they *)
(* came through: here a place, which is the node and the child pointer in  *)
(* it, or the root pointer.                                                *)
(***************************************************************************)
EXTENDS Integers, FiniteSets

\* An operator Op_Slip is Op with a slip of the kind this code invites; each is
\* used only to see that some property would notice it.
CONSTANTS BtKey, BtValue, Absent, NoNode

ASSUME BtAssumption ==
    /\ BtKey \subseteq Int /\ IsFiniteSet(BtKey)
    /\ Absent \notin BtValue
    /\ NoNode \notin BtKey

VARIABLES
    bt_ptr,      \* the node every place points to
    bt_value,    \* the value stored with every node
    bt_reply

btvars == <<bt_ptr, bt_value, bt_reply>>

Root == <<NoNode, "root">>
Place == {Root} \cup (BtKey \X {"lchild", "rchild"})

BtReply(e) == [err |-> e, val |-> Absent]

\* bt_create.
BtInit ==
    /\ bt_ptr = [p \in Place |-> NoNode]
    /\ bt_value = [k \in BtKey |-> Absent]
    /\ bt_reply = BtReply("created")

\* Where key_compare sends key at the node n.
Toward(n, key) == <<n, IF n - key > 0 THEN "rchild" ELSE "lchild">>

\* The place _bt_insert and _bt_find stop at: the one that points to the node
\* with this key, or the empty one where it would be.  Recursion is a function of
\* its depth: no branch is longer than there are keys.
Descend(key) ==
    LET descend[depth \in 0 .. Cardinality(BtKey)] ==
            [p \in Place |->
               IF depth = 0 \/ bt_ptr[p] \in {NoNode, key} THEN p
               ELSE descend[depth - 1][Toward(bt_ptr[p], key)]]
    IN  descend[Cardinality(BtKey)][Root]

bt_insert_Overwrites(key, value) ==
    /\ bt_value' = [bt_value EXCEPT ![key] = value]
    /\ bt_ptr' = [bt_ptr EXCEPT ![Descend(key)] = key]
    /\ bt_reply' = BtReply(IF bt_value[key] = Absent THEN "ok" ELSE "EEXIST")
bt_insert(key, value) ==
    LET p == Descend(key) IN
    \/ /\ bt_ptr[p] = NoNode
       /\ bt_ptr' = [bt_ptr EXCEPT ![p] = key]
       /\ bt_value' = [bt_value EXCEPT ![key] = value]
       /\ bt_reply' = BtReply("ok")
    \/ /\ bt_ptr[p] = key
       /\ bt_reply' = BtReply("EEXIST")
       /\ UNCHANGED <<bt_ptr, bt_value>>

\* A malloc fails, of the node or of its copies of key and value: in the second
\* case the node is lost.
bt_insert_ENOMEM(key) ==
    /\ bt_ptr[Descend(key)] = NoNode
    /\ bt_reply' = BtReply("ENOMEM")
    /\ UNCHANGED <<bt_ptr, bt_value>>

bt_find(key) ==
    LET n == bt_ptr[Descend(key)] IN
    /\ bt_reply' = IF n = NoNode THEN BtReply("ENOENT") ELSE [err |-> "ok", val |-> bt_value[n]]
    /\ UNCHANGED <<bt_ptr, bt_value>>

\* bt_destroy; then bt_create.
bt_destroy ==
    /\ bt_ptr' = [p \in Place |-> NoNode]
    /\ bt_value' = [k \in BtKey |-> Absent]
    /\ bt_reply' = BtReply("created")

BtNext ==
    \/ \E k \in BtKey :
         \/ \E v \in BtValue : bt_insert(k, v)
         \/ bt_insert_ENOMEM(k)
         \/ bt_find(k)
    \/ bt_destroy

BtSpec == BtInit /\ [][BtNext]_btvars

-----------------------------------------------------------------------------
(* The tree is a map from which nothing is removed: bt_find returns the    *)
(* value of the first insertion of the key, and an insertion that fails    *)
(* changes nothing.                                                        *)
BinaryMap == INSTANCE OrderedMap WITH
                 Key <- BtKey, Value <- BtValue, map <- bt_value, reply <- bt_reply

IsBinaryMap == [][BinaryMap!Next]_<<bt_value, bt_reply>>

=============================================================================
