-------------------------------- MODULE Heap --------------------------------
(***************************************************************************)
(* The heap of queues/heaps/heap.c, on which graphs/udw_graph's shortest   *)
(* path runs: an array in which no element beats its parent, the one with  *)
(* the largest weight on top.  It grows by HEAP_START_SIZE slots.          *)
(*                                                                         *)
(* heap_upheap and heap_downheap call themselves in tail position.  Each   *)
(* such call is a step here, at the slot cursor, so that the invariant     *)
(* says what holds in the middle of a call as well.                        *)
(***************************************************************************)
EXTENDS Integers, FiniteSets

\* An operator Op_Slip is Op with a slip of the kind this code invites; each is
\* used only to see that some property would notice it.
CONSTANTS
    Elem,       \* what may be put in the heap
    Weight,     \* heap_compare(a, b) is the sign of Weight[a] - Weight[b]
    NoElem,     \* NULL
    Junk,       \* what realloc leaves in the new slots
    HeapStart,  \* HEAP_START_SIZE
    HeapMax     \* bound: realloc refuses a larger array

ASSUME HeapAssumption ==
    /\ NoElem \notin Elem
    /\ Junk \notin Elem \cup {NoElem}
    /\ Weight \in [Elem -> Int]
    /\ HeapStart \in Nat \ {0}
    /\ HeapMax \in Nat

VARIABLES
    h_heap, h_size, h_nelements,
    call,    \* "idle", or the call under way: "insert" or "pop"
    cursor,  \* the argument ind of heap_upheap and heap_downheap
    top,     \* the local variable of heap_pop
    answer   \* what the last call returned, and how often it handed out each element

heapvars == <<h_heap, h_size, h_nelements, call, cursor, top, answer>>

Nothing == [e \in Elem |-> 0]
Single(e) == [Nothing EXCEPT ![e] = 1]
Answer(err, out) == [err |-> err, out |-> out]

HeapInit ==
    /\ h_heap = [i \in 0 .. HeapStart - 1 |-> NoElem]
    /\ h_size = HeapStart
    /\ h_nelements = 0
    /\ call = "idle"
    /\ cursor = 0
    /\ top = NoElem
    /\ answer = Answer("ok", Nothing)

heap_empty == h_nelements = 0
Parent_OffByOne(i) == i \div 2
Parent(i) == (i - 1) \div 2

Swapped(i, j) == [h_heap EXCEPT ![i] = h_heap[j], ![j] = h_heap[i]]

-----------------------------------------------------------------------------
Full == h_nelements = h_size

\* heap_insert up to its call of heap_upheap.
heap_insert(e) ==
    LET size == IF Full THEN h_size + HeapStart ELSE h_size IN
    /\ call = "idle"
    /\ size <= HeapMax
    /\ h_heap' = [i \in 0 .. size - 1 |->
                    IF i = h_nelements THEN e ELSE IF i < h_size THEN h_heap[i] ELSE Junk]
    /\ h_size' = size
    /\ call' = "insert"
    /\ cursor' = h_nelements
    /\ UNCHANGED <<h_nelements, top, answer>>

\* realloc fails.
heap_insert_fails ==
    /\ call = "idle"
    /\ Full
    /\ answer' = Answer("ENOMEM", Nothing)
    /\ UNCHANGED <<h_heap, h_size, h_nelements, call, cursor, top>>

Beats(e, f) == Weight[e] > Weight[f]

\* heap_upheap swaps and goes on, or returns to heap_insert, which returns.
Rises == cursor > 0 /\ Beats(h_heap[cursor], h_heap[Parent(cursor)])

heap_upheap ==
    /\ call = "insert"
    /\ IF Rises
       THEN /\ h_heap' = Swapped(cursor, Parent(cursor))
            /\ cursor' = Parent(cursor)
            /\ UNCHANGED <<h_size, h_nelements, call, top, answer>>
       ELSE /\ h_nelements' = h_nelements + 1
            /\ call' = "idle"
            /\ cursor' = 0
            /\ answer' = Answer("ok", Nothing)
            /\ UNCHANGED <<h_heap, h_size, top>>

\* The slot heap_pop fills the hole at the top from; it is left NULL.
Popped == [[h_heap EXCEPT ![0] = h_heap[h_nelements - 1]] EXCEPT ![h_nelements - 1] = NoElem]

\* heap_pop up to its call of heap_downheap.
heap_pop ==
    /\ call = "idle"
    /\ ~heap_empty
    /\ top' = h_heap[0]
    /\ h_heap' = Popped
    /\ h_nelements' = h_nelements - 1
    /\ call' = "pop"
    /\ cursor' = 0
    /\ UNCHANGED <<h_size, answer>>

\* The child heap_downheap compares with its parent: the second if they tie.
SwapChild_First == 2 * cursor + 1
SwapChild ==
    LET first == 2 * cursor + 1 IN
    IF first + 1 < h_nelements /\ ~Beats(h_heap[first], h_heap[first + 1]) THEN first + 1 ELSE first

Sinks ==
    /\ 2 * cursor + 1 < h_nelements
    /\ Beats(h_heap[SwapChild], h_heap[cursor])

\* heap_downheap swaps and goes on, or returns to heap_pop, which returns.
heap_downheap ==
    /\ call = "pop"
    /\ IF Sinks
       THEN /\ h_heap' = Swapped(cursor, SwapChild)
            /\ cursor' = SwapChild
            /\ UNCHANGED <<h_size, h_nelements, call, top, answer>>
       ELSE /\ call' = "idle"
            /\ cursor' = 0
            /\ top' = NoElem
            /\ answer' = Answer("pop", Single(top))
            /\ UNCHANGED <<h_heap, h_size, h_nelements>>

\* What a caller of heap_top or heap_pop is given when nothing is taken out:
\* whatever slot 0 holds.
Shown(kind) ==
    IF h_heap[0] = NoElem THEN Answer("NULL", Nothing)
    ELSE IF h_heap[0] \in Elem THEN Answer(kind, Single(h_heap[0]))
    ELSE Answer("junk", Nothing)

heap_pop_empty ==
    /\ call = "idle"
    /\ heap_empty
    /\ answer' = Shown("pop")
    /\ UNCHANGED <<h_heap, h_size, h_nelements, call, cursor, top>>

heap_top ==
    /\ call = "idle"
    /\ answer' = Shown("top")
    /\ UNCHANGED <<h_heap, h_size, h_nelements, call, cursor, top>>

\* The slots that hold elements of the queue: a new one is part of it when
\* heap_insert returns.
Live == 0 .. h_nelements - 1
Counted(slots) == [e \in Elem |-> Cardinality({i \in slots : h_heap[i] = e})]

\* heap_destroy passes every element to heap_destroy_element; then heap_create.
heap_destroy ==
    /\ call = "idle"
    /\ answer' = Answer("ok", Counted(Live))
    /\ h_heap' = [i \in 0 .. HeapStart - 1 |-> NoElem]
    /\ h_size' = HeapStart
    /\ h_nelements' = 0
    /\ UNCHANGED <<call, cursor, top>>

HeapNext ==
    \/ \E e \in Elem : heap_insert(e)
    \/ heap_insert_fails
    \/ heap_upheap
    \/ heap_pop
    \/ heap_downheap
    \/ heap_pop_empty
    \/ heap_top
    \/ heap_destroy

HeapSpec == HeapInit /\ [][HeapNext]_heapvars

-----------------------------------------------------------------------------
(* Correctness                                                             *)

\* The count, the cursor and every slot in use stay within the array, also while
\* heap_upheap and heap_downheap run: the assertion of heap_downheap holds and
\* no slot realloc has not cleared is ever read.
HeapTypeOK ==
    /\ h_size \in Nat \ {0}
    /\ h_nelements \in 0 .. h_size
    /\ h_heap \in [0 .. h_size - 1 -> Elem \cup {NoElem, Junk}]
    /\ call \in {"idle", "insert", "pop"}
    /\ cursor \in 0 .. h_size - 1
    /\ call = "insert" => h_nelements < h_size /\ cursor <= h_nelements
    /\ call = "pop" /\ ~heap_empty => cursor < h_nelements
    /\ call = "pop" <=> top \in Elem
    /\ \A i \in Live : h_heap[i] \in Elem

\* In the middle of a call, the only element that may beat its parent is the one
\* at the cursor, rising, or one of its children, while it sinks; and then the
\* parent of the cursor still beats or ties the children.
OrderExceptAtCursor ==
    LET n == IF call = "insert" THEN h_nelements + 1 ELSE h_nelements
        Ordered(i, j) == ~Beats(h_heap[j], h_heap[i])
    IN  \A j \in 1 .. n - 1 :
          /\ \/ Ordered(Parent(j), j)
             \/ call = "insert" /\ j = cursor
             \/ call = "pop" /\ Parent(j) = cursor
          /\ call # "idle" /\ cursor > 0 /\ Parent(j) = cursor => Ordered(Parent(cursor), j)

\* An empty heap shows NULL: heap_pop reads slot 0 before it looks at the count,
\* so the last pop must have cleared it.
EmptyShowsNull == heap_empty /\ call = "idle" => h_heap[0] = NoElem

(* The array is a heap except at the cursor, its slots in use are always   *)
(* ones that were written, also while heap_upheap and heap_downheap run,   *)
(* and heap_top of an empty heap is NULL.                                  *)
HeapInv == HeapTypeOK /\ OrderExceptAtCursor /\ EmptyShowsNull

\* The queue as its user knows it, in the middle of a call: without the element
\* being put in, with the one being taken out.
Count ==
    IF call = "idle" THEN Counted(Live)
    ELSE IF call = "insert" THEN Counted((0 .. h_nelements) \ {cursor})
    ELSE [Counted(Live) EXCEPT ![top] = @ + 1]

(* The array is a priority queue: no growth, failure or sequence of calls  *)
(* loses or repeats an element, or pops one that another element beats.    *)
PQ == INSTANCE PriorityQueue WITH count <- Count

IsPriorityQueue == PQ!Spec

=============================================================================
