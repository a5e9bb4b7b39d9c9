---------------------------- MODULE PriorityQueue ----------------------------
(***************************************************************************)
(* What the heap of queues/heaps/heap.c promises: a bag.  heap_pop takes   *)
(* out one element no other element beats, heap_top shows one, a call that *)
(* fails changes nothing, and heap_destroy hands every element that is     *)
(* left to the destructor, as often as it is in the heap.                  *)
(***************************************************************************)
EXTENDS Integers

CONSTANTS Elem, Weight

VARIABLES
    count,    \* how often each element is in the queue
    answer    \* what the last call returned, and how often it handed out each element

Nothing == [e \in Elem |-> 0]
Single(e) == [Nothing EXCEPT ![e] = 1]
Answer(err, out) == [err |-> err, out |-> out]

Init == count = Nothing /\ answer = Answer("ok", Nothing)

\* No element of the queue beats e.
IsTop(e) == count[e] > 0 /\ \A f \in Elem : count[f] > 0 => Weight[f] <= Weight[e]

Insert(e) ==
    /\ count' = [count EXCEPT ![e] = @ + 1]
    /\ answer' = Answer("ok", Nothing)

NoMemory ==
    /\ answer' = Answer("ENOMEM", Nothing)
    /\ UNCHANGED count

Top(e) ==
    /\ IsTop(e)
    /\ answer' = Answer("top", Single(e))
    /\ UNCHANGED count

Pop(e) ==
    /\ IsTop(e)
    /\ count' = [count EXCEPT ![e] = @ - 1]
    /\ answer' = Answer("pop", Single(e))

\* heap_top and heap_pop of an empty queue return NULL.
Empty ==
    /\ count = Nothing
    /\ answer' = Answer("NULL", Nothing)
    /\ UNCHANGED count

Destroy ==
    /\ count' = Nothing
    /\ answer' = Answer("ok", count)

Next ==
    \/ \E e \in Elem : Insert(e) \/ Top(e) \/ Pop(e)
    \/ NoMemory
    \/ Empty
    \/ Destroy

Spec == Init /\ [][Next]_<<count, answer>>

=============================================================================
