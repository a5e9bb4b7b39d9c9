------------------------------ MODULE MCQueues ------------------------------
(***************************************************************************)
(* The two queues of queues/, for TLC: an array of 2 slots that may double *)
(* twice, and a heap that starts with 2 slots and may grow three times,    *)
(* with two elements of one weight.  A behaviour uses one of them.         *)
(***************************************************************************)
EXTENDS Fifo, Heap

CONSTANTS d1, d2

TwoData == {d1, d2}

FourElems == 1 .. 4
Weights == <<1, 2, 2, 3>>

VARIABLE used

MCInit == Init /\ HeapInit /\ used \in {"fifo", "heap"}

MCNext ==
    \/ used = "fifo" /\ Next /\ UNCHANGED <<heapvars, used>>
    \/ used = "heap" /\ HeapNext /\ UNCHANGED <<vars, used>>

MCSpec == MCInit /\ [][MCNext]_<<vars, heapvars, used>>

=============================================================================
