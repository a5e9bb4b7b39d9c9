--------------------------- MODULE MCTreesGraphs ---------------------------
(***************************************************************************)
(* The trees, and the graphs whose nodes and edges are kept in trees, for  *)
(* TLC.  A behaviour uses one structure of the four.                       *)
(*                                                                         *)
(* The AVL tree is used in two ways: any calls with seven data, from an    *)
(* empty tree; and two calls on each of four trees of twelve nodes and     *)
(* height five, the sparsest there are, where one removal takes a rotation *)
(* at several levels, and an insertion falls at an end or in the middle.   *)
(*                                                                         *)
(* The graphs are every graph of up to five nodes, and every weighted graph*)
(* of up to four nodes with three weights, among them ones where a detour  *)
(* is shorter than an edge and ones where it is as long.                   *)
(***************************************************************************)
EXTENDS AvlTree, BinaryTree, UdGraph, UdwGraph

\* Sparse trees, in the order of their levels: leaning left, leaning left with
\* the heavy grandchild inside, and the mirror images of the two.
Sparse ==
    {<<10, 6, 13, 4, 9, 12, 14, 3, 5, 7, 11, 2>>,
     <<10, 4, 12, 3, 7, 11, 14, 2, 5, 9, 13, 6>>,
     <<6, 3, 10, 2, 4, 7, 12, 5, 9, 11, 13, 14>>,
     <<6, 4, 12, 2, 5, 9, 13, 3, 7, 11, 14, 10>>}

AvlData == 1 .. 15
Empty == [built |-> <<>>, data |-> 1 .. 7, calls |-> 0]
AvlStarts == {Empty} \cup {[built |-> t, data |-> AvlData, calls |-> 2] : t \in Sparse}

FourKeys == 1 .. 4
TwoValues == {"v1", "v2"}

FiveNodes == 1 .. 5
FourNodes == 1 .. 4
Weights == {1, 2, 4}

VARIABLE used

MCInit ==
    /\ AvlInit /\ BtInit /\ UdInit /\ UdwInit
    /\ used \in {"avl_tree", "binary_tree", "ud_graph", "udw_graph"}
    /\ used # "avl_tree" => start = Empty

MCNext ==
    \/ used = "avl_tree" /\ AvlNext /\ UNCHANGED <<btvars, udvars, udwvars, used>>
    \/ used = "binary_tree" /\ BtNext /\ UNCHANGED <<avlvars, udvars, udwvars, used>>
    \/ used = "ud_graph" /\ UdNext /\ UNCHANGED <<avlvars, btvars, udwvars, used>>
    \/ used = "udw_graph" /\ UdwNext /\ UNCHANGED <<avlvars, btvars, udvars, used>>

MCSpec == MCInit /\ [][MCNext]_<<avlvars, btvars, udvars, udwvars, used>>

=============================================================================
