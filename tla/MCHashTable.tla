---------------------------- MODULE MCHashTable ----------------------------
(***************************************************************************)
(* The hash table and the lists it is built on, for TLC.  The three hash   *)
(* values collide in a table of 1 or 2 slots and not all in one of 4, so   *)
(* that chains of three are made, moved and taken apart.  A behaviour uses *)
(* either a hash table, or two lists.                                      *)
(***************************************************************************)
EXTENDS HashTable, LinkedList

Addresses == 1 .. 6
ThreeData == 1 .. 3
TwoItems == 1 .. 2
HashValues == <<1, 3, 5>>

\* bound: the nodes of the two lists together
MaxListNodes == 4

VARIABLE used

MCInit == Init /\ ListInit /\ used \in {"table", "lists"}

MCNext ==
    \/ used = "table" /\ Next /\ UNCHANGED <<listvars, used>>
    \/ used = "lists" /\ ListNext /\ Cardinality(memory'.used) <= MaxListNodes /\ UNCHANGED <<vars, used>>

MCSpec == MCInit /\ [][MCNext]_<<vars, listvars, used>>

=============================================================================
