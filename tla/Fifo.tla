-------------------------------- MODULE Fifo --------------------------------
(***************************************************************************)
(* The fifo of queues/fifos/fifo.c, on which graphs/ud_graph's breadth     *)
(* first search runs: a circular array that doubles when it is full.       *)
(* fi_head and fi_tail are the slots of the first and of the last element, *)
(* and the same slot, which is empty, when there is no element.            *)
(***************************************************************************)
EXTENDS Integers, Sequences, FiniteSets

\* An operator Op_Slip is Op with a slip of the kind this code invites; each is
\* used only to see that some property would notice it.
CONSTANTS
    Data,       \* what may be queued
    NULL,
    StartSize,  \* FIFO_START_SIZE
    MaxSize     \* bound: malloc refuses a larger array

ASSUME FifoAssumption ==
    /\ NULL \notin Data
    /\ StartSize \in Nat \ {0}
    /\ MaxSize \in Nat

VARIABLES fi_head, fi_tail, fi_size, fi_nelements, fi_queue,
          reply  \* what the last call returned and handed out

vars == <<fi_head, fi_tail, fi_size, fi_nelements, fi_queue, reply>>

Reply(e, s) == [err |-> e, data |-> s]

Init ==
    /\ fi_head = 0
    /\ fi_tail = 0
    /\ fi_size = StartSize
    /\ fi_nelements = 0
    /\ fi_queue = [i \in 0 .. StartSize - 1 |-> NULL]
    /\ reply = Reply("ok", << >>)

fi_full == fi_nelements = fi_size
fi_empty == fi_nelements = 0

\* The slot after i of s.
After(i, s) == (i + 1) % s

-----------------------------------------------------------------------------
\* The array fi_grow makes: twice the size, the elements moved to its front.
Grown_InPlace ==
    [i \in 0 .. 2 * fi_size - 1 |-> IF i < fi_nelements THEN fi_queue[i] ELSE NULL]

Grown ==
    [i \in 0 .. 2 * fi_size - 1 |->
        IF i < fi_nelements THEN fi_queue[(fi_head + i) % fi_size] ELSE NULL]

\* What fi_enq does once there is room, in an array q of s slots.
Put(head, tail, s, q, d) ==
    LET at == IF fi_empty THEN tail ELSE After(tail, s) IN
    /\ fi_head' = head
    /\ fi_tail' = at
    /\ fi_size' = s
    /\ fi_queue' = [q EXCEPT ![at] = d]
    /\ fi_nelements' = fi_nelements + 1
    /\ reply' = Reply("ok", << >>)

fi_enq(d) ==
    \/ ~fi_full /\ Put(fi_head, fi_tail, fi_size, fi_queue, d)
    \/ fi_full /\ 2 * fi_size <= MaxSize /\ Put(0, fi_size - 1, 2 * fi_size, Grown, d)

\* malloc fails in fi_grow.
fi_enq_ENOMEM ==
    /\ fi_full
    /\ reply' = Reply("ENOMEM", << >>)
    /\ UNCHANGED <<fi_head, fi_tail, fi_size, fi_nelements, fi_queue>>

\* fi_head after an element was taken: it stays when that was the last one.
NewHead_Always == After(fi_head, fi_size)
NewHead == IF fi_nelements = 1 THEN fi_head ELSE After(fi_head, fi_size)

Cleared == [fi_queue EXCEPT ![fi_head] = NULL]

fi_deq ==
    /\ ~fi_empty
    /\ reply' = Reply("ok", <<fi_queue[fi_head]>>)
    /\ fi_queue' = Cleared
    /\ fi_nelements' = fi_nelements - 1
    /\ fi_head' = NewHead
    /\ UNCHANGED <<fi_tail, fi_size>>

fi_deq_ENOENT ==
    /\ fi_empty
    /\ reply' = Reply("ENOENT", << >>)
    /\ UNCHANGED <<fi_head, fi_tail, fi_size, fi_nelements, fi_queue>>

\* The walk from fi_head over fi_nelements slots.
Contents == [i \in 1 .. fi_nelements |-> fi_queue[(fi_head + i - 1) % fi_size]]

\* fi_destroy passes every element to fo_destroy_data_fn; then fi_create.
fi_destroy ==
    /\ reply' = Reply("ok", Contents)
    /\ fi_head' = 0
    /\ fi_tail' = 0
    /\ fi_size' = StartSize
    /\ fi_nelements' = 0
    /\ fi_queue' = [i \in 0 .. StartSize - 1 |-> NULL]

Next ==
    \/ \E d \in Data : fi_enq(d)
    \/ fi_enq_ENOMEM
    \/ fi_deq
    \/ fi_deq_ENOENT
    \/ fi_destroy

Spec == Init /\ [][Next]_vars

-----------------------------------------------------------------------------
(* Correctness                                                             *)

Slots == 0 .. fi_size - 1

(* Head, tail and the number of elements stay within the array.            *)
TypeOK ==
    /\ fi_size \in Nat \ {0}
    /\ fi_head \in Slots
    /\ fi_tail \in Slots
    /\ fi_nelements \in 0 .. fi_size
    /\ fi_queue \in [Slots -> Data \cup {NULL}]

Occupied == {i \in Slots : fi_queue[i] # NULL}

\* The assertions of fi_check, beyond the ranges of head and tail.
fi_check ==
    /\ fi_empty => fi_head = fi_tail
    /\ \A i \in Occupied :
         IF fi_head <= fi_tail THEN fi_head <= i /\ i <= fi_tail ELSE fi_head <= i \/ i <= fi_tail
    /\ \A i \in Slots \ Occupied :
         \/ fi_empty
         \/ IF fi_head <= fi_tail THEN i < fi_head \/ i > fi_tail ELSE i < fi_head /\ i > fi_tail
    /\ Cardinality(Occupied) = fi_nelements

\* The assertions inside fi_enq, fi_grow and fi_deq would pass now: the first and
\* the last slot hold data, the one after the last is free, and fi_grow would
\* find data in every slot of a full array.
CallsPass ==
    /\ fi_empty => fi_head = fi_tail
    /\ ~fi_empty => fi_queue[fi_head] # NULL /\ fi_queue[fi_tail] # NULL
    /\ fi_nelements > 1 => fi_queue[After(fi_head, fi_size)] # NULL
    /\ ~fi_full /\ ~fi_empty => fi_queue[After(fi_tail, fi_size)] = NULL
    /\ fi_empty => fi_queue[fi_tail] = NULL
    /\ fi_full => \A i \in Slots : fi_queue[i] # NULL

(* After every call, wrapped around or not, grown or not, fi_check passes  *)
(* and the next call fails no assertion.                                   *)
FifoNeverAsserts == fi_check /\ CallsPass

(* The circular array is a queue.                                          *)
Queue == INSTANCE DataQueue WITH contents <- Contents

IsQueue == Queue!Spec

=============================================================================
