----------------------------- MODULE QueuesProofs -----------------------------
(***************************************************************************)
(* Proofs about the two queues of queues/, the fifo and the heap; MCQueues *)
(* is their run.                                                           *)
(***************************************************************************)
EXTENDS Fifo, Heap, FiniteSetTheorems, SequenceTheorems, WellFoundedInduction, TLAPS

-----------------------------------------------------------------------------
(***************************************************************************)
(* Proofs about the fifo, for any data, start size and bound.  fi_check    *)
(* says how head, tail and the occupied slots lie to each other but not    *)
(* how far apart head and tail are, so it is not inductive.  FifoInv is:   *)
(* the occupied slots are the fi_nelements first ones counted round from   *)
(* fi_head, and fi_tail is the last of them.                               *)
(***************************************************************************)

\* How far slot j is from fi_head, going round.
Dist(j) == IF j >= fi_head THEN j - fi_head ELSE j - fi_head + fi_size

\* The slot n after slot h of s, going round at most once.
Round(h, n, s) == IF h + n < s THEN h + n ELSE h + n - s

Ranges ==
    /\ fi_size \in Nat /\ fi_size > 0
    /\ fi_head \in Nat /\ fi_head < fi_size
    /\ fi_tail \in Nat /\ fi_tail < fi_size
    /\ fi_nelements \in Nat /\ fi_nelements <= fi_size

TailIsLast ==
    /\ fi_nelements = 0 => fi_tail = fi_head
    /\ fi_nelements > 0 => fi_tail = Round(fi_head, fi_nelements - 1, fi_size)

OccupiedFromHead == \A j \in Slots : fi_queue[j] # NULL <=> Dist(j) < fi_nelements

FifoInv ==
    /\ TypeOK
    /\ TailIsLast
    /\ OccupiedFromHead
    /\ Cardinality(Occupied) = fi_nelements

-----------------------------------------------------------------------------
(* The code's % fi_size goes round the array at most once.                 *)
LEMMA WrapOnce ==
    ASSUME NEW a \in Nat, NEW s \in Nat, s > 0, a < s + s
    PROVE  a % s = IF a < s THEN a ELSE a - s
<1> DEFINE q == a \div s
           r == a % s
<1>1. q \in Nat /\ r \in 0 .. s - 1 /\ a = s * q + r
  OBVIOUS
<1> HIDE DEF q, r
<1>2. CASE q = 0
  BY <1>1, <1>2 DEF r
<1>3. CASE q = 1
  BY <1>1, <1>3 DEF r
<1>4. CASE q >= 2
  <2>1. s * q >= s * 2
    BY <1>1, <1>4
  <2>2. s * 2 = s + s /\ s * q \in Nat
    BY <1>1
  <2>3. QED BY <1>1, <2>1, <2>2
<1>5. QED BY <1>1, <1>2, <1>3, <1>4

(* The slot n places after h, as fi_grow and fi_destroy compute it.        *)
LEMMA RoundIsMod ==
    ASSUME NEW s \in Nat, s > 0, NEW h \in 0 .. s - 1, NEW n \in 0 .. s - 1
    PROVE  /\ (h + n) % s = Round(h, n, s)
           /\ Round(h, n, s) \in 0 .. s - 1
<1> DEFINE a == h + n
<1>1. a \in Nat /\ a < s + s
  OBVIOUS
<1> HIDE DEF a
<1>2. a % s = IF a < s THEN a ELSE a - s
  BY <1>1, WrapOnce
<1>3. QED BY <1>2 DEF Round, a

(* The next slot, as fi_enq and fi_deq compute it.                         *)
LEMMA AfterIs ==
    ASSUME NEW s \in Nat, s > 0, NEW i \in 0 .. s - 1
    PROVE  After(i, s) = IF i + 1 = s THEN 0 ELSE i + 1
<1> DEFINE a == i + 1
<1>1. a \in Nat /\ a < s + s
  OBVIOUS
<1> HIDE DEF a
<1>2. a % s = IF a < s THEN a ELSE a - s
  BY <1>1, WrapOnce
<1>3. QED BY <1>2 DEF After, a

(* The ranges of TypeOK as arithmetic.                                     *)
LEMMA RangesOf == TypeOK => Ranges
BY DEF TypeOK, Ranges, Slots

(* There are only as many occupied slots as slots.                         *)
LEMMA OccupiedFinite ==
    ASSUME Ranges
    PROVE  IsFiniteSet(Occupied)
<1>1. IsFiniteSet(Slots)
  BY FS_Interval DEF Ranges, Slots
<1>2. QED BY <1>1, FS_Subset DEF Occupied

-----------------------------------------------------------------------------
(* fi_enq with room: the slot after the last one is free and becomes the   *)
(* last one.                                                               *)
LEMMA EnqStep ==
    ASSUME FifoInv, NEW d \in Data, ~fi_full,
           Put(fi_head, fi_tail, fi_size, fi_queue, d)
    PROVE  FifoInv'
<1> DEFINE at == IF fi_empty THEN fi_tail ELSE After(fi_tail, fi_size)
<1>1. Ranges /\ TypeOK /\ TailIsLast /\ OccupiedFromHead /\ Cardinality(Occupied) = fi_nelements
  BY RangesOf DEF FifoInv
<1>2. /\ fi_head' = fi_head /\ fi_size' = fi_size /\ fi_tail' = at
      /\ fi_nelements' = fi_nelements + 1 /\ fi_queue' = [fi_queue EXCEPT ![at] = d]
  BY DEF Put
<1>3. fi_nelements < fi_size
  BY <1>1 DEF Ranges, fi_full
<1>4. at = Round(fi_head, fi_nelements, fi_size)
  <2>1. CASE fi_nelements = 0
    BY <2>1, <1>1 DEF fi_empty, TailIsLast, Round, Ranges
  <2>2. CASE fi_nelements > 0
    <3>1. fi_tail \in 0 .. fi_size - 1
      BY <1>1 DEF Ranges
    <3>2. at = IF fi_tail + 1 = fi_size THEN 0 ELSE fi_tail + 1
      BY <2>2, <3>1, <1>1, AfterIs DEF Ranges, fi_empty
    <3>3. QED BY <3>2, <2>2, <1>1, <1>3 DEF TailIsLast, Round, Ranges
  <2>3. QED BY <2>1, <2>2, <1>1 DEF Ranges
<1> HIDE DEF at
<1>5. at \in Slots /\ Dist(at) = fi_nelements
  BY <1>1, <1>3, <1>4 DEF Ranges, Slots, Round, Dist
<1>6. \A j \in Slots : j # at => Dist(j) # fi_nelements
  BY <1>1, <1>3, <1>4 DEF Ranges, Slots, Round, Dist
<1>7. TypeOK'
  BY <1>1, <1>2, <1>3, <1>5 DEF TypeOK, Ranges, Slots
<1>8. TailIsLast'
  BY <1>1, <1>2, <1>4 DEF TailIsLast, Ranges, Round
<1>9. \A j \in Slots : fi_queue'[j] # NULL <=> (fi_queue[j] # NULL \/ j = at)
  BY <1>1, <1>2, FifoAssumption DEF TypeOK
<1>10. OccupiedFromHead'
  <2>1. \A j \in Slots : Dist(j) \in Int /\ Dist(j)' = Dist(j)
    BY <1>1, <1>2 DEF Ranges, Slots, Dist
  <2>2. Slots' = Slots
    BY <1>2 DEF Slots
  <2>3. ASSUME NEW j \in Slots
        PROVE  fi_queue'[j] # NULL <=> Dist(j) < fi_nelements + 1
    BY <1>1, <1>5, <1>6, <1>9, <2>1 DEF OccupiedFromHead, Ranges
  <2>4. QED BY <1>2, <2>1, <2>2, <2>3 DEF OccupiedFromHead
<1>11. Occupied' = Occupied \cup {at} /\ at \notin Occupied
  <2>1. Slots' = Slots
    BY <1>2 DEF Slots
  <2>2. fi_queue[at] = NULL
    BY <1>1, <1>5 DEF OccupiedFromHead, Ranges
  <2>3. QED BY <1>5, <1>9, <2>1, <2>2 DEF Occupied
<1>12. Cardinality(Occupied') = fi_nelements'
  BY <1>1, <1>2, <1>11, OccupiedFinite, FS_AddElement
<1>13. QED BY <1>7, <1>8, <1>10, <1>12 DEF FifoInv

(* fi_enq of a full array: the elements move to the front of one of twice  *)
(* the size, in order, and the new one follows them.                       *)
LEMMA GrowStep ==
    ASSUME FifoInv, NEW d \in Data, fi_full,
           Put(0, fi_size - 1, 2 * fi_size, Grown, d)
    PROVE  FifoInv'
<1> DEFINE src(i) == fi_queue[(fi_head + i) % fi_size]
<1>1. Ranges /\ TypeOK /\ OccupiedFromHead
  BY RangesOf DEF FifoInv
<1>2. fi_nelements = fi_size /\ ~fi_empty
  BY <1>1 DEF fi_full, fi_empty, Ranges
<1>3. After(fi_size - 1, 2 * fi_size) = fi_size
  <2>1. 2 * fi_size \in Nat /\ 2 * fi_size > 0 /\ fi_size - 1 \in 0 .. 2 * fi_size - 1
    BY <1>1 DEF Ranges
  <2>2. QED BY <2>1, AfterIs, <1>1 DEF Ranges
<1>4. /\ fi_head' = 0 /\ fi_size' = 2 * fi_size /\ fi_tail' = fi_size
      /\ fi_nelements' = fi_size + 1 /\ fi_queue' = [Grown EXCEPT ![fi_size] = d]
  BY <1>2, <1>3 DEF Put
<1>5. ASSUME NEW i \in 0 .. fi_size - 1
      PROVE  src(i) \in Data
  <2>0. fi_size \in Nat /\ fi_size > 0 /\ fi_head \in 0 .. fi_size - 1
    BY <1>1 DEF Ranges
  <2>1. /\ (fi_head + i) % fi_size = Round(fi_head, i, fi_size)
        /\ Round(fi_head, i, fi_size) \in Slots
    BY <2>0, RoundIsMod DEF Slots
  <2>2. Dist(Round(fi_head, i, fi_size)) < fi_nelements
    BY <1>1, <1>2 DEF Ranges, Round, Dist
  <2>3. QED BY <1>1, <2>1, <2>2 DEF OccupiedFromHead, TypeOK
<1>6. Grown = [i \in 0 .. 2 * fi_size - 1 |-> IF i < fi_size THEN src(i) ELSE NULL]
  BY <1>2 DEF Grown
<1> HIDE DEF src
<1>7. \A j \in 0 .. 2 * fi_size - 1 :
        fi_queue'[j] \in Data \cup {NULL} /\ (fi_queue'[j] # NULL <=> j < fi_size + 1)
  <2>1. ASSUME NEW j \in 0 .. 2 * fi_size - 1
        PROVE  /\ fi_queue'[j] \in Data \cup {NULL}
               /\ fi_queue'[j] # NULL <=> j < fi_size + 1
    <3>1. CASE j < fi_size
      BY <3>1, <1>1, <1>4, <1>5, <1>6, FifoAssumption DEF Ranges
    <3>2. CASE j = fi_size
      BY <3>2, <1>1, <1>4, <1>6, FifoAssumption DEF Ranges
    <3>3. CASE j > fi_size
      BY <3>3, <1>1, <1>4, <1>6 DEF Ranges
    <3>4. QED BY <3>1, <3>2, <3>3, <1>1 DEF Ranges
  <2>2. QED BY <2>1
<1>8. TypeOK'
  <2>1. fi_queue' \in [0 .. 2 * fi_size - 1 -> Data \cup {NULL}]
    BY <1>4, <1>6, <1>7
  <2>2. QED BY <2>1, <1>1, <1>4 DEF TypeOK, Ranges, Slots
<1>9. TailIsLast'
  BY <1>1, <1>4 DEF TailIsLast, Ranges, Round
<1>10. OccupiedFromHead'
  BY <1>1, <1>4, <1>7 DEF OccupiedFromHead, Slots, Dist, Ranges
<1>11. Occupied' = 0 .. fi_size
  BY <1>1, <1>4, <1>7 DEF Occupied, Slots, Ranges
<1>12. Cardinality(Occupied') = fi_nelements'
  BY <1>1, <1>4, <1>11, FS_Interval DEF Ranges
<1>13. QED BY <1>8, <1>9, <1>10, <1>12 DEF FifoInv

(* fi_deq: the first element's slot becomes free, and the next one is the  *)
(* first, unless there is none.                                            *)
LEMMA DeqStep ==
    ASSUME FifoInv, fi_deq
    PROVE  FifoInv'
<1>1. Ranges /\ TypeOK /\ TailIsLast /\ OccupiedFromHead /\ Cardinality(Occupied) = fi_nelements
  BY RangesOf DEF FifoInv
<1>2. fi_nelements > 0
  BY <1>1 DEF fi_deq, fi_empty, Ranges
<1>3. After(fi_head, fi_size) = IF fi_head + 1 = fi_size THEN 0 ELSE fi_head + 1
  BY <1>1, AfterIs DEF Ranges
<1>4. /\ fi_size' = fi_size /\ fi_tail' = fi_tail /\ fi_nelements' = fi_nelements - 1
      /\ fi_queue' = [fi_queue EXCEPT ![fi_head] = NULL]
      /\ fi_head' = IF fi_nelements = 1 THEN fi_head
                    ELSE IF fi_head + 1 = fi_size THEN 0 ELSE fi_head + 1
  BY <1>3 DEF fi_deq, Cleared, NewHead
<1>5. TypeOK'
  BY <1>1, <1>2, <1>4 DEF TypeOK, Ranges, Slots
<1>6. TailIsLast'
  BY <1>1, <1>2, <1>4 DEF TailIsLast, Ranges, Round
<1>7. \A j \in Slots : fi_queue'[j] # NULL <=> (fi_queue[j] # NULL /\ j # fi_head)
  BY <1>1, <1>4, FifoAssumption DEF TypeOK
<1>8. Slots' = Slots /\ fi_head \in Slots
  BY <1>1, <1>4 DEF Slots, Ranges
<1>9. OccupiedFromHead'
  <2>1. ASSUME NEW j \in Slots
        PROVE  (Dist(j) < fi_nelements /\ j # fi_head) <=> Dist(j)' < fi_nelements - 1
    BY <1>1, <1>2, <1>4 DEF Ranges, Slots, Dist
  <2>2. QED BY <1>1, <1>4, <1>7, <1>8, <2>1 DEF OccupiedFromHead
<1>10. Occupied' = Occupied \ {fi_head} /\ fi_head \in Occupied
  <2>1. fi_queue[fi_head] # NULL
    BY <1>1, <1>2, <1>8 DEF OccupiedFromHead, Dist, Ranges
  <2>2. QED BY <1>7, <1>8, <2>1 DEF Occupied
<1>11. Cardinality(Occupied') = fi_nelements'
  BY <1>1, <1>4, <1>10, OccupiedFinite, FS_RemoveElement
<1>12. QED BY <1>5, <1>6, <1>9, <1>11 DEF FifoInv

\* What fi_create makes.
EmptyArray ==
    /\ fi_head = 0 /\ fi_tail = 0 /\ fi_size = StartSize /\ fi_nelements = 0
    /\ fi_queue = [i \in 0 .. StartSize - 1 |-> NULL]

(* fi_create, and fi_destroy followed by it, establish the invariant.      *)
LEMMA EmptyInv == EmptyArray => FifoInv
<1> SUFFICES ASSUME EmptyArray PROVE FifoInv
  OBVIOUS
<1> USE DEF EmptyArray
<1>1. TypeOK /\ TailIsLast
  BY FifoAssumption DEF TypeOK, TailIsLast, Slots
<1>2. OccupiedFromHead
  BY FifoAssumption DEF OccupiedFromHead, Slots, Dist
<1>3. Occupied = {}
  BY DEF Occupied, Slots
<1>4. QED BY <1>1, <1>2, <1>3, FS_EmptySet DEF FifoInv

(* The calls keep the elements in consecutive slots, counted round.        *)
THEOREM FifoInvariant == Spec => []FifoInv
<1>1. Init => FifoInv
  BY EmptyInv DEF Init, EmptyArray
<1>2. ASSUME FifoInv, [Next]_vars
      PROVE  FifoInv'
  <2>1. ASSUME NEW d \in Data, fi_enq(d)
        PROVE  FifoInv'
    BY <1>2, <2>1, EnqStep, GrowStep DEF fi_enq
  <2>2. ASSUME UNCHANGED <<fi_head, fi_tail, fi_size, fi_nelements, fi_queue>>
        PROVE  FifoInv'
    BY <1>2, <2>2 DEF FifoInv, TypeOK, TailIsLast, OccupiedFromHead, Occupied, Slots, Dist, Round
  <2>3. CASE fi_deq
    BY <1>2, <2>3, DeqStep
  <2>4. CASE fi_destroy
    <3>1. EmptyArray'
      BY <2>4 DEF fi_destroy, EmptyArray
    <3>2. QED BY <3>1, EmptyInv, PTL
  <2>5. QED BY <1>2, <2>1, <2>2, <2>3, <2>4 DEF Next, fi_enq_ENOMEM, fi_deq_ENOENT, vars
<1>3. QED BY <1>1, <1>2, PTL DEF Spec

(* Head, tail and the number of elements stay within the array.            *)
THEOREM FifoTypes == Spec => []TypeOK
<1>1. FifoInv => TypeOK
  BY DEF FifoInv
<1>2. QED BY <1>1, FifoInvariant, PTL

\* fi_check fails no assertion, however often the queue has wrapped around and
\* grown.
LEMMA CheckPasses ==
    ASSUME FifoInv
    PROVE  fi_check
<1>1. Ranges /\ TailIsLast /\ OccupiedFromHead /\ Cardinality(Occupied) = fi_nelements
  BY RangesOf DEF FifoInv
<1>2. fi_empty => fi_head = fi_tail
  BY <1>1 DEF TailIsLast, fi_empty
<1>3. ASSUME NEW i \in Occupied
      PROVE  IF fi_head <= fi_tail THEN fi_head <= i /\ i <= fi_tail ELSE fi_head <= i \/ i <= fi_tail
  <2>1. i \in Slots /\ Dist(i) < fi_nelements
    BY <1>1 DEF Occupied, OccupiedFromHead
  <2>2. QED BY <2>1, <1>1 DEF Slots, Dist, Ranges, TailIsLast, Round
<1>4. ASSUME NEW i \in Slots \ Occupied, ~fi_empty
      PROVE  IF fi_head <= fi_tail THEN i < fi_head \/ i > fi_tail ELSE i < fi_head /\ i > fi_tail
  <2>1. i \in Slots /\ ~(Dist(i) < fi_nelements)
    BY <1>1 DEF Occupied, OccupiedFromHead
  <2>2. fi_nelements > 0
    BY <1>4, <1>1 DEF fi_empty, Ranges
  <2>3. QED BY <2>1, <2>2, <1>1 DEF Slots, Dist, Ranges, TailIsLast, Round
<1>. QED BY <1>1, <1>2, <1>3, <1>4 DEF fi_check

\* No assertion in fi_enq, fi_grow or fi_deq fails on the next call.
LEMMA NextCallPasses ==
    ASSUME FifoInv
    PROVE  CallsPass
<1>1. Ranges /\ TailIsLast /\ OccupiedFromHead
  BY RangesOf DEF FifoInv
<1>2. /\ fi_head \in Slots /\ fi_tail \in Slots
      /\ After(fi_head, fi_size) = IF fi_head + 1 = fi_size THEN 0 ELSE fi_head + 1
      /\ After(fi_tail, fi_size) = IF fi_tail + 1 = fi_size THEN 0 ELSE fi_tail + 1
  BY <1>1, AfterIs DEF Ranges, Slots
<1>3. After(fi_head, fi_size) \in Slots /\ After(fi_tail, fi_size) \in Slots
  BY <1>1, <1>2 DEF Ranges, Slots
<1>4. fi_empty => fi_head = fi_tail /\ fi_queue[fi_tail] = NULL
  BY <1>1, <1>2 DEF TailIsLast, fi_empty, OccupiedFromHead, Dist, Ranges
<1>5. ~fi_empty => fi_queue[fi_head] # NULL /\ fi_queue[fi_tail] # NULL
  <2>1. SUFFICES ASSUME fi_nelements > 0
                 PROVE  Dist(fi_head) < fi_nelements /\ Dist(fi_tail) < fi_nelements
    BY <1>1, <1>2 DEF fi_empty, Ranges, OccupiedFromHead
  <2>2. QED BY <2>1, <1>1 DEF Dist, Ranges, TailIsLast, Round
<1>6. fi_nelements > 1 => fi_queue[After(fi_head, fi_size)] # NULL
  <2>1. SUFFICES ASSUME fi_nelements > 1
                 PROVE  Dist(After(fi_head, fi_size)) < fi_nelements
    BY <1>1, <1>3 DEF OccupiedFromHead
  <2>2. QED BY <2>1, <1>1, <1>2 DEF Dist, Ranges
<1>7. ~fi_full /\ ~fi_empty => fi_queue[After(fi_tail, fi_size)] = NULL
  <2>1. SUFFICES ASSUME fi_nelements > 0, fi_nelements < fi_size
                 PROVE  ~(Dist(After(fi_tail, fi_size)) < fi_nelements)
    BY <1>1, <1>3 DEF OccupiedFromHead, fi_full, fi_empty, Ranges
  <2>2. QED BY <2>1, <1>1, <1>2 DEF Dist, Ranges, TailIsLast, Round
<1>8. fi_full => \A i \in Slots : fi_queue[i] # NULL
  BY <1>1 DEF OccupiedFromHead, fi_full, Dist, Ranges, Slots
<1>. QED BY <1>4, <1>5, <1>6, <1>7, <1>8 DEF CallsPass

(* For every start size and every sequence of calls, no assertion of the   *)
(* fifo fails, in fi_check or in a call.                                   *)
THEOREM NoFifoAsserts == Spec => []FifoNeverAsserts
<1>1. FifoInv => FifoNeverAsserts
  BY CheckPasses, NextCallPasses DEF FifoNeverAsserts
<1>2. QED BY <1>1, FifoInvariant, PTL

-----------------------------------------------------------------------------
\* The elements in order, with the code's % taken out.
ContentsRound ==
    /\ Contents \in Seq(Data)
    /\ Len(Contents) = fi_nelements
    /\ \A i \in 1 .. fi_nelements : Contents[i] = fi_queue[Round(fi_head, i - 1, fi_size)]

(* The walk of fi_destroy meets data only, at the slots counted round.     *)
LEMMA ContentsIs == FifoInv => ContentsRound
<1> SUFFICES ASSUME FifoInv PROVE ContentsRound
  OBVIOUS
<1>1. Ranges /\ TypeOK /\ OccupiedFromHead
  BY RangesOf DEF FifoInv
<1>2. fi_size \in Nat /\ fi_size > 0 /\ fi_head \in 0 .. fi_size - 1 /\ fi_nelements \in Nat
  BY <1>1 DEF Ranges
<1>3. ASSUME NEW i \in 1 .. fi_nelements
      PROVE  /\ (fi_head + i - 1) % fi_size = Round(fi_head, i - 1, fi_size)
             /\ fi_queue[Round(fi_head, i - 1, fi_size)] \in Data
  <2>1. i - 1 \in 0 .. fi_size - 1 /\ fi_head + i - 1 = fi_head + (i - 1)
    BY <1>1 DEF Ranges
  <2>2. /\ (fi_head + i - 1) % fi_size = Round(fi_head, i - 1, fi_size)
        /\ Round(fi_head, i - 1, fi_size) \in Slots
    BY <1>2, <2>1, RoundIsMod DEF Slots
  <2>3. Dist(Round(fi_head, i - 1, fi_size)) < fi_nelements
    BY <1>1, <2>1 DEF Ranges, Round, Dist
  <2>4. QED BY <1>1, <2>2, <2>3 DEF OccupiedFromHead, TypeOK
<1> DEFINE nth(i) == fi_queue[Round(fi_head, i - 1, fi_size)]
<1>4. Contents = [i \in 1 .. fi_nelements |-> nth(i)]
  BY <1>3 DEF Contents
<1>5. \A i \in 1 .. fi_nelements : nth(i) \in Data
  BY <1>3
<1> HIDE DEF nth
<1>6. Contents \in Seq(Data) /\ Len(Contents) = fi_nelements
  BY <1>2, <1>4, <1>5
<1>7. QED BY <1>4, <1>6 DEF nth, ContentsRound

(* fi_enq appends, whether or not the array has to grow.                   *)
LEMMA EnqAppends ==
    ASSUME FifoInv, NEW d \in Data, fi_enq(d)
    PROVE  Contents' = Append(Contents, d)
<1>1. Ranges /\ TypeOK /\ TailIsLast
  BY RangesOf DEF FifoInv
<1>2. FifoInv'
  BY EnqStep, GrowStep DEF fi_enq
<1>3. ContentsRound /\ ContentsRound'
  BY <1>2, ContentsIs, PTL
<1>4. fi_nelements' = fi_nelements + 1
  BY DEF fi_enq, Put
<1>5. /\ Append(Contents, d) \in Seq(Data)
      /\ Len(Append(Contents, d)) = fi_nelements + 1
      /\ \A i \in 1 .. fi_nelements : Append(Contents, d)[i] = Contents[i]
      /\ Append(Contents, d)[fi_nelements + 1] = d
  BY <1>1, <1>3, AppendProperties DEF ContentsRound, Ranges
<1>6. ASSUME NEW i \in 1 .. fi_nelements + 1
      PROVE  Contents'[i] = IF i = fi_nelements + 1 THEN d ELSE Contents[i]
  <2>1. CASE ~fi_full /\ Put(fi_head, fi_tail, fi_size, fi_queue, d)
    <3> DEFINE at == Round(fi_head, fi_nelements, fi_size)
    <3>1. fi_nelements < fi_size
      BY <2>1, <1>1 DEF fi_full, Ranges
    <3>2. at = IF fi_empty THEN fi_tail ELSE After(fi_tail, fi_size)
      <4>1. After(fi_tail, fi_size) = IF fi_tail + 1 = fi_size THEN 0 ELSE fi_tail + 1
        BY <1>1, AfterIs DEF Ranges
      <4>2. QED BY <1>1, <3>1, <4>1 DEF fi_empty, TailIsLast, Round, Ranges
    <3>3. /\ fi_head' = fi_head /\ fi_size' = fi_size /\ fi_queue' = [fi_queue EXCEPT ![at] = d]
      BY <2>1, <3>2 DEF Put
    <3>4. at \in Slots /\ Round(fi_head, i - 1, fi_size) \in Slots
      BY <1>1, <3>1 DEF Round, Ranges, Slots
    <3>5. Round(fi_head, i - 1, fi_size) = at <=> i = fi_nelements + 1
      BY <1>1, <3>1 DEF Round, Ranges
    <3> HIDE DEF at
    <3>6. Contents'[i] = fi_queue'[Round(fi_head, i - 1, fi_size)]
      BY <1>3, <1>4, <3>3 DEF ContentsRound
    <3>7. i # fi_nelements + 1 => Contents[i] = fi_queue[Round(fi_head, i - 1, fi_size)]
      BY <1>1, <1>3 DEF ContentsRound, Ranges
    <3>8. QED BY <1>1, <3>3, <3>4, <3>5, <3>6, <3>7 DEF TypeOK
  <2>2. CASE fi_full /\ Put(0, fi_size - 1, 2 * fi_size, Grown, d)
    <3>1. fi_nelements = fi_size /\ ~fi_empty
      BY <2>2, <1>1 DEF fi_full, fi_empty, Ranges
    <3>2. After(fi_size - 1, 2 * fi_size) = fi_size
      <4>1. 2 * fi_size \in Nat /\ 2 * fi_size > 0 /\ fi_size - 1 \in 0 .. 2 * fi_size - 1
        BY <1>1 DEF Ranges
      <4>2. QED BY <4>1, AfterIs, <1>1 DEF Ranges
    <3>3. fi_head' = 0 /\ fi_size' = 2 * fi_size /\ fi_queue' = [Grown EXCEPT ![fi_size] = d]
      BY <2>2, <3>1, <3>2 DEF Put
    <3>4. Round(0, i - 1, 2 * fi_size) = i - 1
      BY <1>1, <3>1 DEF Round, Ranges
    <3>5. Contents'[i] = fi_queue'[i - 1]
      BY <1>3, <1>4, <3>3, <3>4 DEF ContentsRound
    <3>6. CASE i = fi_size + 1
      <4>1. fi_size \in DOMAIN Grown /\ i - 1 = fi_size
        BY <1>1, <3>6 DEF Grown, Ranges
      <4>2. QED BY <3>1, <3>3, <3>5, <3>6, <4>1
    <3>7. CASE i # fi_size + 1
      <4>1. i \in 1 .. fi_nelements /\ i - 1 \in 0 .. fi_size - 1 /\ i - 1 # fi_size
        BY <1>1, <3>1, <3>7 DEF Ranges
      <4>2. Grown[i - 1] = fi_queue[(fi_head + (i - 1)) % fi_size]
        <5> DEFINE src(k) == fi_queue[(fi_head + k) % fi_size]
        <5>1. Grown = [k \in 0 .. 2 * fi_size - 1 |-> IF k < fi_size THEN src(k) ELSE NULL]
          BY <3>1 DEF Grown
        <5> HIDE DEF src
        <5>2. Grown[i - 1] = src(i - 1)
          BY <1>1, <4>1, <5>1 DEF Ranges
        <5>3. QED BY <5>2 DEF src
      <4>3. Grown[i - 1] = Contents[i]
        <5>1. fi_size \in Nat /\ fi_size > 0 /\ fi_head \in 0 .. fi_size - 1
          BY <1>1 DEF Ranges
        <5>2. (fi_head + (i - 1)) % fi_size = Round(fi_head, i - 1, fi_size)
          BY <4>1, <5>1, RoundIsMod
        <5>3. Contents[i] = fi_queue[Round(fi_head, i - 1, fi_size)]
          BY <1>3, <4>1 DEF ContentsRound
        <5>4. QED BY <4>2, <5>2, <5>3
      <4>4. QED BY <3>1, <3>3, <3>5, <3>7, <4>1, <4>3 DEF Grown
    <3>8. QED BY <3>6, <3>7
  <2>3. QED BY <2>1, <2>2 DEF fi_enq
<1>7. Contents' \in Seq(Data) /\ Len(Contents') = fi_nelements + 1
  BY <1>3, <1>4 DEF ContentsRound
<1>8. \A i \in 1 .. fi_nelements + 1 : Contents'[i] = Append(Contents, d)[i]
  BY <1>1, <1>5, <1>6 DEF Ranges
<1>9. QED BY <1>5, <1>7, <1>8, SeqEqual

(* fi_deq takes the first element off.                                     *)
LEMMA DeqTakesHead ==
    ASSUME FifoInv, fi_deq
    PROVE  /\ Contents # << >>
           /\ Contents' = Tail(Contents)
           /\ fi_queue[fi_head] = Head(Contents)
<1>1. Ranges /\ TypeOK
  BY RangesOf DEF FifoInv
<1>2. ContentsRound /\ ContentsRound'
  BY DeqStep, ContentsIs, PTL
<1>3. fi_nelements > 0 /\ fi_nelements' = fi_nelements - 1 /\ fi_size' = fi_size
  BY <1>1 DEF fi_deq, fi_empty, Ranges
<1>4. Contents # << >>
  BY <1>2, <1>3, <1>1 DEF ContentsRound, Ranges
<1>5. fi_queue[fi_head] = Head(Contents)
  <2>1. Contents[1] = fi_queue[Round(fi_head, 0, fi_size)]
    BY <1>1, <1>2, <1>3 DEF ContentsRound, Ranges
  <2>2. Round(fi_head, 0, fi_size) = fi_head
    BY <1>1 DEF Round, Ranges
  <2>3. QED BY <1>2, <1>4, <2>1, <2>2 DEF ContentsRound
<1>6. /\ Tail(Contents) \in Seq(Data)
      /\ Len(Tail(Contents)) = fi_nelements - 1
      /\ \A i \in 1 .. fi_nelements - 1 : Tail(Contents)[i] = Contents[i + 1]
  BY <1>2, <1>4, HeadTailProperties DEF ContentsRound
<1>7. ASSUME NEW i \in 1 .. fi_nelements - 1
      PROVE  Contents'[i] = Contents[i + 1]
  <2>1. After(fi_head, fi_size) = IF fi_head + 1 = fi_size THEN 0 ELSE fi_head + 1
    BY <1>1, AfterIs DEF Ranges
  <2>2. /\ fi_queue' = [fi_queue EXCEPT ![fi_head] = NULL]
        /\ fi_head' = IF fi_head + 1 = fi_size THEN 0 ELSE fi_head + 1
    BY <1>1, <2>1 DEF fi_deq, Cleared, NewHead, Ranges
  <2>3. /\ Round(fi_head', i - 1, fi_size) = Round(fi_head, i, fi_size)
        /\ Round(fi_head, i, fi_size) # fi_head
    BY <1>1, <2>2 DEF Round, Ranges
  <2>4. Contents'[i] = fi_queue'[Round(fi_head, i, fi_size)]
    BY <1>2, <1>3, <2>3 DEF ContentsRound
  <2>5. Contents[i + 1] = fi_queue[Round(fi_head, i, fi_size)]
    <3>1. i + 1 \in 1 .. fi_nelements /\ (i + 1) - 1 = i
      BY <1>1 DEF Ranges
    <3>2. QED BY <1>2, <3>1 DEF ContentsRound
  <2>6. Round(fi_head, i, fi_size) \in Slots
    BY <1>1 DEF Round, Ranges, Slots
  <2>7. QED BY <1>1, <2>2, <2>3, <2>4, <2>5, <2>6 DEF TypeOK
<1>8. Contents' \in Seq(Data) /\ Len(Contents') = fi_nelements - 1
  BY <1>2, <1>3 DEF ContentsRound
<1>9. Contents' = Tail(Contents)
  BY <1>6, <1>7, <1>8, SeqEqual
<1>10. QED BY <1>4, <1>5, <1>9

(* The empty array holds the empty sequence.                               *)
LEMMA EmptyContents ==
    /\ FifoInv => (Contents = << >> <=> fi_empty)
    /\ EmptyArray => Contents = << >>
<1>1. FifoInv => (Contents = << >> <=> fi_empty)
  BY ContentsIs, EmptySeq DEF ContentsRound, fi_empty
<1>2. EmptyArray => Contents = << >>
  BY <1>1, EmptyInv DEF EmptyArray, fi_empty
<1>3. QED BY <1>1, <1>2

(* Every step of the array is a step of the abstract queue.                *)
LEMMA QueueStep ==
    ASSUME FifoInv, [Next]_vars
    PROVE  [Queue!Next]_<<Contents, reply>>
<1> USE DEF Queue!Next, Queue!Reply, Reply
<1>1. ASSUME NEW d \in Data, fi_enq(d)
      PROVE  Queue!Enq
  BY <1>1, EnqAppends DEF Queue!Enq, fi_enq, Put
<1>2. ASSUME UNCHANGED <<fi_head, fi_tail, fi_size, fi_nelements, fi_queue>>
      PROVE  Contents' = Contents
  BY <1>2 DEF Contents
<1>3. CASE fi_enq_ENOMEM
  BY <1>2, <1>3 DEF fi_enq_ENOMEM, Queue!NoMemory
<1>4. CASE fi_deq
  BY <1>4, DeqTakesHead DEF fi_deq, Queue!Deq
<1>5. CASE fi_deq_ENOENT
  BY <1>2, <1>5, EmptyContents DEF fi_deq_ENOENT, Queue!DeqEmpty
<1>6. CASE fi_destroy
  <2>1. EmptyArray'
    BY <1>6 DEF fi_destroy, EmptyArray
  <2>2. ContentsRound'
    BY <2>1, EmptyInv, ContentsIs, PTL
  <2>3. Contents' = << >>
    BY <2>1, <2>2, EmptySeq DEF ContentsRound, EmptyArray
  <2>4. QED BY <1>6, <2>3 DEF fi_destroy, Queue!Destroy
<1>7. CASE UNCHANGED vars
  BY <1>2, <1>7 DEF vars
<1>8. QED BY <1>1, <1>3, <1>4, <1>5, <1>6, <1>7 DEF Next

(* The circular array implements DataQueue: data comes out in the order it *)
(* went in, through any wrapping and growing, a failed call changes        *)
(* nothing, and fi_destroy hands out each remaining element once.          *)
THEOREM ImplementsQueue == Spec => IsQueue
<1>1. Init => Queue!Init
  BY EmptyContents DEF Init, EmptyArray, Queue!Init, Queue!Reply, Reply
<1>2. QED BY <1>1, QueueStep, FifoInvariant, PTL DEF Spec, IsQueue, Queue!Spec

-----------------------------------------------------------------------------
(***************************************************************************)
(* Proofs about Heap, for any elements and weights, any sizes of the array *)
(* and any sequence of calls.                                              *)
(*                                                                         *)
(* HeapInv is not inductive.  It says nothing of the slot heap_insert has  *)
(* filled but not counted yet, of slot 0 while the last element is popped, *)
(* or of the element heap_pop has taken out: HeapIInv adds that the slots  *)
(* of an insertion are all written, that slot 0 is NULL as soon as the     *)
(* last element is out, and that nothing left in the heap beats the        *)
(* element that is on its way out.                                         *)
(*                                                                         *)
(* That nothing in a heap beats its top takes an induction over the array, *)
(* which is done on the first slot that would be a counterexample.         *)
(***************************************************************************)

\* The slots that hold an element, the one being put in included.
InUse == IF call = "insert" THEN h_nelements + 1 ELSE h_nelements

SlotsWritten == \A i \in 0 .. InUse - 1 : h_heap[i] \in Elem

EmptySlotNull == heap_empty /\ call # "insert" => h_heap[0] = NoElem

\* Nothing that is left in the heap beats the element heap_pop returns.
PoppedWasTop == call = "pop" => \A i \in Live : Weight[h_heap[i]] <= Weight[top]

\* The inductive invariant.
HeapIInv ==
    /\ HeapTypeOK
    /\ SlotsWritten
    /\ OrderExceptAtCursor
    /\ EmptySlotNull
    /\ PoppedWasTop

-----------------------------------------------------------------------------
(* Slots, parents and weights                                              *)

\* A set of natural numbers has a least element.
LEMMA LeastOf ==
    ASSUME NEW T, T \subseteq Nat, T # {}
    PROVE  \E x \in T : \A y \in T : x <= y
<1>. DEFINE R == {ss \in Nat \X Nat : ss[1] < ss[2]}
<1>1. OpToRel(<, Nat) = R
  BY Zenon DEF OpToRel
<1>2. IsWellFoundedOn(R, Nat)
  BY <1>1, NatLessThanWellFounded, Zenon
<1>. HIDE DEF R
<1>3. PICK x \in T : \A y \in T : <<y, x>> \notin R
  BY <1>2, WFMin
<1>4. \A y \in T : ~(y < x)
  BY <1>3 DEF R
<1>. QED  BY <1>4

\* The parent of a slot is before it; a slot has two children.
LEMMA ParentSlot ==
    ASSUME NEW j \in Nat \ {0}
    PROVE  /\ Parent(j) \in Nat /\ Parent(j) < j
           /\ \A i \in Nat : Parent(j) = i <=> j = 2 * i + 1 \/ j = 2 * i + 2
BY DEF Parent

\* The order in terms of the weights in the slots in use.
OrderOf(w, n, kind, at) ==
    \A j \in 1 .. n - 1 :
        /\ \/ w[j] <= w[Parent(j)]
           \/ kind = "insert" /\ j = at
           \/ kind = "pop" /\ Parent(j) = at
        /\ kind # "idle" /\ at > 0 /\ Parent(j) = at => w[j] <= w[Parent(at)]

Weights == [i \in 0 .. InUse - 1 |-> Weight[h_heap[i]]]

\* The weights of the slots in use are integers, and ordered as the heap is.
LEMMA OrderIsOfWeights ==
    HeapTypeOK /\ SlotsWritten =>
        /\ InUse \in Nat
        /\ Weights \in [0 .. InUse - 1 -> Int]
        /\ OrderExceptAtCursor <=> OrderOf(Weights, InUse, call, cursor)
<1>0. SUFFICES ASSUME HeapTypeOK, SlotsWritten
               PROVE  /\ InUse \in Nat
                      /\ Weights \in [0 .. InUse - 1 -> Int]
                      /\ OrderExceptAtCursor <=> OrderOf(Weights, InUse, call, cursor)
  OBVIOUS
<1>1. InUse \in Nat /\ h_nelements \in Nat
  BY <1>0 DEF HeapTypeOK, InUse
<1>2. \A i \in 0 .. InUse - 1 : Weights[i] = Weight[h_heap[i]] /\ Weights[i] \in Int
  BY <1>0, HeapAssumption DEF SlotsWritten, Weights
<1>3. \A j \in 1 .. InUse - 1 :
        /\ j \in 0 .. InUse - 1 /\ Parent(j) \in 0 .. InUse - 1
        /\ Parent(j) = cursor /\ cursor > 0 => Parent(cursor) \in 0 .. InUse - 1
  <2>1. SUFFICES ASSUME NEW j \in 1 .. InUse - 1
                 PROVE  /\ Parent(j) \in 0 .. InUse - 1
                        /\ Parent(j) = cursor /\ cursor > 0 => Parent(cursor) \in 0 .. InUse - 1
    BY <1>1
  <2>2. Parent(j) \in Nat /\ Parent(j) < j
    BY <1>1, ParentSlot
  <2>3. Parent(j) # 0 => Parent(Parent(j)) \in Nat /\ Parent(Parent(j)) < Parent(j)
    BY <2>2, ParentSlot
  <2>. QED  BY <1>1, <2>2, <2>3
<1>4. \A i, j \in 0 .. InUse - 1 : ~Beats(h_heap[j], h_heap[i]) <=> Weights[j] <= Weights[i]
  BY <1>2 DEF Beats
<1>5. OrderExceptAtCursor <=> OrderOf(Weights, InUse, call, cursor)
  BY <1>1, <1>3, <1>4 DEF OrderExceptAtCursor, OrderOf, InUse
<1>. QED  BY <1>1, <1>2, <1>5 DEF Weights

\* The same after a step.
LEMMA OrderIsOfWeightsNext ==
    HeapTypeOK' /\ SlotsWritten' =>
        (OrderExceptAtCursor' <=> OrderOf(Weights, InUse, call, cursor)')
<1>1. HeapTypeOK /\ SlotsWritten => (OrderExceptAtCursor <=> OrderOf(Weights, InUse, call, cursor))
  BY OrderIsOfWeights
<1>. QED  BY <1>1, PTL

(* heap_upheap: after a swap, only the element that rose may beat its      *)
(* parent.                                                                 *)
LEMMA UpheapOrder ==
    ASSUME NEW n \in Nat, NEW w \in [0 .. n - 1 -> Int], NEW at \in 1 .. n - 1,
           OrderOf(w, n, "insert", at), w[at] > w[Parent(at)]
    PROVE  OrderOf([w EXCEPT ![at] = w[Parent(at)], ![Parent(at)] = w[at]], n,
                   "insert", Parent(at))
<1>. DEFINE p == Parent(at)
            v == [w EXCEPT ![at] = w[p], ![p] = w[at]]
<1>1. p \in Nat /\ p < at
  BY ParentSlot
<1>. HIDE DEF p
<1>2. /\ v[p] = w[at] /\ v[at] = w[p]
      /\ \A i \in 0 .. n - 1 : i # p /\ i # at => v[i] = w[i]
  BY <1>1
<1>. HIDE DEF v
<1>3. \A j \in 1 .. n - 1 : Parent(j) \in 0 .. n - 1 /\ Parent(j) < j
  BY ParentSlot
<1>4. SUFFICES ASSUME NEW j \in 1 .. n - 1
               PROVE  /\ v[j] <= v[Parent(j)] \/ j = p
                      /\ p > 0 /\ Parent(j) = p => v[j] <= v[Parent(p)]
  BY DEF OrderOf, v, p
<1>5. /\ w[j] <= w[Parent(j)] \/ j = at
      /\ Parent(j) = at => w[j] <= w[p]
      /\ p > 0 => w[p] <= w[Parent(p)] /\ Parent(p) \in 0 .. n - 1 /\ Parent(p) < p
  BY <1>1, <1>3 DEF OrderOf, p
<1>6. \A i \in 0 .. n - 1 : w[i] \in Int
  OBVIOUS
<1>7. w[at] > w[p] /\ Parent(at) = p
  BY DEF p
<1>8. v[j] <= v[Parent(j)] \/ j = p
  <2>1. CASE j = at
    BY <1>1, <1>2, <1>6, <1>7, <2>1
  <2>2. CASE j # at /\ j # p
    BY <1>1, <1>2, <1>3, <1>5, <1>6, <1>7, <2>2, SMTT(30)
  <2>. QED  BY <2>1, <2>2
<1>9. p > 0 /\ Parent(j) = p => v[j] <= v[Parent(p)]
  BY <1>1, <1>2, <1>3, <1>5, <1>6, <1>7, SMTT(30)
<1>. QED  BY <1>8, <1>9

(* heap_downheap: after a swap with the larger child, only children of the *)
(* element that sank may beat their parent.                                *)
LEMMA DownheapOrder ==
    ASSUME NEW n \in Nat, NEW w \in [0 .. n - 1 -> Int], NEW at \in 0 .. n - 1,
           OrderOf(w, n, "pop", at),
           NEW s \in 1 .. n - 1, Parent(s) = at, w[s] > w[at],
           \A j \in 1 .. n - 1 : Parent(j) = at => w[j] <= w[s]
    PROVE  OrderOf([w EXCEPT ![at] = w[s], ![s] = w[at]], n, "pop", s)
<1>. DEFINE v == [w EXCEPT ![at] = w[s], ![s] = w[at]]
<1>1. at < s
  BY ParentSlot
<1>2. /\ v[at] = w[s] /\ v[s] = w[at]
      /\ \A i \in 0 .. n - 1 : i # at /\ i # s => v[i] = w[i]
  BY <1>1
<1>. HIDE DEF v
<1>3. \A j \in 1 .. n - 1 : Parent(j) \in 0 .. n - 1 /\ Parent(j) < j
  BY ParentSlot
<1>4. SUFFICES ASSUME NEW j \in 1 .. n - 1
               PROVE  /\ v[j] <= v[Parent(j)] \/ Parent(j) = s
                      /\ Parent(j) = s => v[j] <= v[at]
  BY DEF OrderOf, v
<1>5. /\ w[j] <= w[Parent(j)] \/ Parent(j) = at
      /\ at > 0 => w[s] <= w[Parent(at)] /\ Parent(at) \in 0 .. n - 1 /\ Parent(at) < at
      /\ Parent(j) = at => w[j] <= w[s]
  BY <1>1, <1>3 DEF OrderOf
<1>6. \A i \in 0 .. n - 1 : w[i] \in Int
  OBVIOUS
<1>7. v[j] <= v[Parent(j)] \/ Parent(j) = s
  <2>1. CASE j = s
    BY <1>1, <1>2, <1>6, <2>1
  <2>2. CASE j = at
    BY <1>1, <1>2, <1>3, <1>5, <1>6, <2>2, SMTT(30)
  <2>3. CASE j # s /\ j # at
    <3>1. v[j] = w[j] /\ Parent(j) \in 0 .. n - 1
      BY <1>2, <1>3, <2>3
    <3>2. CASE Parent(j) = at
      BY <1>2, <1>5, <3>1, <3>2
    <3>3. CASE Parent(j) # at /\ Parent(j) # s
      BY <1>2, <1>5, <3>1, <3>3
    <3>. QED  BY <3>2, <3>3
  <2>. QED  BY <2>1, <2>2, <2>3
<1>8. Parent(j) = s => v[j] <= v[at]
  BY <1>1, <1>2, <1>3, <1>5, <1>6
<1>. QED  BY <1>7, <1>8

(* Nothing in a heap beats its top: look at the first slot that would.     *)
LEMMA TopIsLargest ==
    ASSUME NEW n \in Nat, NEW w \in [0 .. n - 1 -> Int], OrderOf(w, n, "idle", 0),
           NEW i \in 0 .. n - 1
    PROVE  w[i] <= w[0]
<1>. DEFINE bad == {j \in 0 .. n - 1 : w[j] > w[0]}
<1>1. SUFFICES ASSUME bad # {}  PROVE FALSE
  OBVIOUS
<1>2. PICK j \in bad : \A k \in bad : j <= k
  <2>1. bad \subseteq Nat
    OBVIOUS
  <2>. HIDE DEF bad
  <2>. QED  BY <1>1, <2>1, LeastOf
<1>3. j \in 1 .. n - 1 /\ w[j] > w[0]
  BY <1>2
<1>4. Parent(j) \in 0 .. n - 1 /\ Parent(j) < j
  BY <1>3, ParentSlot
<1>5. w[j] <= w[Parent(j)]
  BY <1>3 DEF OrderOf
<1>6. Parent(j) \in bad
  BY <1>3, <1>4, <1>5
<1>. QED  BY <1>2, <1>4, <1>6

\* So the top slot of a heap at rest holds one of the elements with the
\* largest weight.
LEMMA RestingTop ==
    ASSUME HeapIInv, call = "idle", ~heap_empty
    PROVE  h_heap[0] \in Elem /\ \A i \in Live : Weight[h_heap[i]] <= Weight[h_heap[0]]
<1>1. /\ InUse = h_nelements /\ InUse \in Nat \ {0}
      /\ Weights \in [0 .. InUse - 1 -> Int]
      /\ OrderOf(Weights, InUse, "idle", 0)
  BY OrderIsOfWeights DEF HeapIInv, HeapTypeOK, InUse, heap_empty, OrderOf
<1>2. 0 \in 0 .. InUse - 1 /\ Live = 0 .. InUse - 1
  BY <1>1 DEF Live
<1>3. \A i \in Live : Weights[i] <= Weights[0]
  BY <1>1, <1>2, TopIsLargest
<1>. QED  BY <1>2, <1>3 DEF Weights, HeapIInv, SlotsWritten

-----------------------------------------------------------------------------
(* Each action keeps the invariant                                         *)

\* heap_insert: the new element is after all others, and has no children.
LEMMA InsertStep ==
    ASSUME HeapIInv, NEW e \in Elem, heap_insert(e)
    PROVE  HeapIInv'
<1>. DEFINE n == h_nelements
            size == IF Full THEN h_size + HeapStart ELSE h_size
<1>0. h_heap' = [i \in 0 .. size - 1 |->
                    IF i = n THEN e ELSE IF i < h_size THEN h_heap[i] ELSE Junk]
  BY DEF heap_insert
<1>1. /\ call = "idle" /\ h_size' = size
      /\ call' = "insert" /\ cursor' = n
      /\ UNCHANGED <<h_nelements, top, answer>>
  BY DEF heap_insert
<1>2. n \in Nat /\ h_size \in Nat \ {0} /\ size \in Nat \ {0} /\ n < size /\ n <= h_size /\ h_size <= size
  BY HeapAssumption DEF HeapIInv, HeapTypeOK, Full
<1>. HIDE DEF size
<1>3. \A i \in 0 .. n : h_heap'[i] = IF i = n THEN e ELSE h_heap[i]
  BY <1>0, <1>2
<1>4. \A i \in 0 .. n - 1 : h_heap[i] \in Elem
  BY DEF HeapIInv, HeapTypeOK, Live
<1>5. \A i \in 0 .. n : h_heap'[i] \in Elem
  BY <1>2, <1>3, <1>4
<1>6. HeapTypeOK'
  <2>1. h_heap' \in [0 .. size - 1 -> Elem \cup {NoElem, Junk}]
    BY <1>0, <1>2 DEF HeapIInv, HeapTypeOK
  <2>2. \A i \in Live' : h_heap'[i] \in Elem
    BY <1>1, <1>2, <1>5 DEF Live
  <2>3. call' # "pop" /\ top' \notin Elem
    BY <1>1 DEF HeapIInv, HeapTypeOK
  <2>. QED  BY <1>1, <1>2, <2>1, <2>2, <2>3 DEF HeapTypeOK
<1>7. SlotsWritten'
  BY <1>1, <1>2, <1>5 DEF SlotsWritten, InUse
<1>8. OrderExceptAtCursor'
  <2>1. /\ InUse = n /\ Weights \in [0 .. n - 1 -> Int] /\ OrderOf(Weights, n, "idle", cursor)
    BY <1>1, OrderIsOfWeights DEF HeapIInv, InUse
  <2>2. InUse' = n + 1 /\ Weights' \in [0 .. n -> Int]
    BY <1>1, <1>2, <1>5, HeapAssumption DEF InUse, Weights
  <2>3. \A i \in 0 .. n - 1 : Weights'[i] = Weights[i]
    BY <1>1, <1>2, <1>3, <2>1, <2>2 DEF Weights
  <2>4. OrderOf(Weights', n + 1, "insert", n)
    <3>1. SUFFICES ASSUME NEW j \in 1 .. n
                   PROVE  /\ Weights'[j] <= Weights'[Parent(j)] \/ j = n
                          /\ Parent(j) # n
      BY <1>2 DEF OrderOf
    <3>2. Parent(j) \in Nat /\ Parent(j) < j
      BY <1>2, ParentSlot
    <3>3. j # n => Weights[j] <= Weights[Parent(j)]
      BY <1>2, <2>1 DEF OrderOf
    <3>. QED  BY <1>2, <2>3, <3>2, <3>3
  <2>5. OrderOf(Weights, InUse, call, cursor)'
    BY <1>1, <1>2, <2>2, <2>4
  <2>. QED  BY <1>6, <1>7, <2>5, OrderIsOfWeightsNext
<1>. QED  BY <1>1, <1>6, <1>7, <1>8 DEF HeapIInv, EmptySlotNull, PoppedWasTop

\* A swap of two slots in use swaps their weights.
LEMMA SwapStep ==
    ASSUME HeapTypeOK, SlotsWritten, NEW i \in 0 .. InUse - 1, NEW j \in 0 .. InUse - 1,
           h_heap' = Swapped(i, j), UNCHANGED <<h_size, h_nelements, call>>
    PROVE  /\ h_heap' \in [0 .. h_size - 1 -> Elem \cup {NoElem, Junk}]
           /\ InUse' = InUse /\ SlotsWritten'
           /\ h_heap'[i] = h_heap[j] /\ h_heap'[j] = h_heap[i]
           /\ \A k \in 0 .. h_size - 1 : k # i /\ k # j => h_heap'[k] = h_heap[k]
           /\ Weights' = [Weights EXCEPT ![i] = Weights[j], ![j] = Weights[i]]
<1>1. InUse' = InUse /\ InUse \in Nat /\ InUse <= h_size
  BY DEF InUse, HeapTypeOK
<1>2. i \in 0 .. h_size - 1 /\ j \in 0 .. h_size - 1
  BY <1>1 DEF HeapTypeOK
<1>3. /\ h_heap' \in [0 .. h_size - 1 -> Elem \cup {NoElem, Junk}]
      /\ h_heap'[i] = h_heap[j] /\ h_heap'[j] = h_heap[i]
      /\ \A k \in 0 .. h_size - 1 : k # i /\ k # j => h_heap'[k] = h_heap[k]
  BY <1>2 DEF Swapped, HeapTypeOK
<1>4. \A k \in 0 .. InUse - 1 : h_heap'[k] = IF k = j THEN h_heap[i] ELSE IF k = i THEN h_heap[j] ELSE h_heap[k]
  BY <1>1, <1>3 DEF HeapTypeOK
<1>5. SlotsWritten'
  BY <1>1, <1>4 DEF SlotsWritten
<1>6. Weights' = [k \in 0 .. InUse - 1 |-> Weight[h_heap'[k]]]
  BY <1>1 DEF Weights
<1>7. Weights' = [Weights EXCEPT ![i] = Weights[j], ![j] = Weights[i]]
  BY <1>4, <1>6 DEF Weights
<1>. QED  BY <1>1, <1>3, <1>5, <1>7

(* heap_upheap: the new element rises by one slot, or has found its place. *)
LEMMA UpheapStep ==
    ASSUME HeapIInv, heap_upheap
    PROVE  HeapIInv'
<1>1. /\ call = "insert" /\ cursor \in Nat /\ h_nelements \in Nat /\ cursor <= h_nelements
      /\ h_nelements < h_size /\ h_size \in Nat /\ InUse = h_nelements + 1
      /\ top \notin Elem
  BY DEF heap_upheap, HeapIInv, HeapTypeOK, InUse
<1>2. /\ Weights \in [0 .. InUse - 1 -> Int]
      /\ OrderOf(Weights, InUse, "insert", cursor)
      /\ \A k \in 0 .. InUse - 1 : Weights[k] = Weight[h_heap[k]]
  BY <1>1, OrderIsOfWeights DEF HeapIInv, Weights
<1>3. CASE Rises
  <2>. DEFINE p == Parent(cursor)
  <2>1. /\ h_heap' = Swapped(cursor, p) /\ cursor' = p
        /\ UNCHANGED <<h_size, h_nelements, call, top, answer>>
    BY <1>3 DEF heap_upheap
  <2>2. cursor \in 1 .. InUse - 1 /\ p \in 0 .. InUse - 1 /\ p < cursor
    BY <1>1, <1>3, ParentSlot DEF Rises
  <2>3. /\ h_heap' \in [0 .. h_size - 1 -> Elem \cup {NoElem, Junk}]
        /\ InUse' = InUse /\ SlotsWritten'
        /\ Weights' = [Weights EXCEPT ![cursor] = Weights[p], ![p] = Weights[cursor]]
    BY <2>1, <2>2, SwapStep DEF HeapIInv
  <2>4. HeapTypeOK'
    <3>1. \A i \in 0 .. h_nelements : h_heap'[i] \in Elem
      BY <1>1, <2>3 DEF SlotsWritten
    <3>2. \A i \in Live' : h_heap'[i] \in Elem
      BY <1>1, <2>1, <3>1 DEF Live
    <3>3. cursor' \in 0 .. h_size' - 1 /\ cursor' <= h_nelements'
      BY <1>1, <2>1, <2>2
    <3>. QED  BY <1>1, <2>1, <2>3, <3>2, <3>3 DEF HeapTypeOK, HeapIInv
  <2>5. OrderOf(Weights, InUse, call, cursor)'
    <3>1. Weights[cursor] > Weights[p]
      BY <1>2, <1>3, <2>2 DEF Rises, Beats
    <3>2. InUse \in Nat
      BY <1>1
    <3>3. OrderOf([Weights EXCEPT ![cursor] = Weights[p], ![p] = Weights[cursor]], InUse, "insert", p)
      BY <1>2, <2>2, <3>1, <3>2, UpheapOrder
    <3>. QED  BY <1>1, <2>1, <2>3, <3>3
  <2>6. OrderExceptAtCursor'
    BY <2>3, <2>4, <2>5, OrderIsOfWeightsNext
  <2>. QED  BY <1>1, <2>1, <2>3, <2>4, <2>6 DEF HeapIInv, EmptySlotNull, PoppedWasTop
<1>4. CASE ~Rises
  <2>1. /\ h_nelements' = h_nelements + 1 /\ call' = "idle" /\ cursor' = 0
        /\ UNCHANGED <<h_heap, h_size, top>>
    BY <1>4 DEF heap_upheap
  <2>2. InUse' = InUse /\ SlotsWritten' /\ Weights' = Weights
    BY <1>1, <2>1 DEF InUse, SlotsWritten, Weights, HeapIInv
  <2>3. HeapTypeOK'
    BY <1>1, <2>1 DEF HeapTypeOK, HeapIInv, SlotsWritten, Live, InUse
  <2>4. OrderOf(Weights, InUse, "idle", 0)
    <3>1. SUFFICES ASSUME NEW j \in 1 .. InUse - 1  PROVE Weights[j] <= Weights[Parent(j)]
      BY DEF OrderOf
    <3>2. CASE j = cursor
      <4>1. Parent(j) \in 0 .. InUse - 1
        BY <1>1, ParentSlot
      <4>. QED  BY <1>1, <1>2, <1>4, <3>2, <4>1 DEF Rises, Beats
    <3>3. CASE j # cursor
      BY <1>2, <3>3 DEF OrderOf
    <3>. QED  BY <3>2, <3>3
  <2>5. OrderExceptAtCursor'
    BY <2>1, <2>2, <2>3, <2>4, OrderIsOfWeightsNext
  <2>. QED  BY <1>1, <2>1, <2>2, <2>3, <2>5 DEF HeapIInv, EmptySlotNull, PoppedWasTop, heap_empty
<1>. QED  BY <1>3, <1>4

(* heap_pop: the last element is put at the top; the one that was there is *)
(* beaten by none that is left.                                            *)
LEMMA PopStep ==
    ASSUME HeapIInv, heap_pop
    PROVE  HeapIInv'
<1>. DEFINE n == h_nelements
<1>1. /\ call = "idle" /\ n \in Nat \ {0} /\ n <= h_size /\ h_size \in Nat
      /\ top' = h_heap[0] /\ h_nelements' = n - 1 /\ call' = "pop" /\ cursor' = 0
      /\ h_size' = h_size /\ InUse = n /\ InUse' = n - 1
  BY DEF heap_pop, HeapIInv, HeapTypeOK, heap_empty, InUse
<1>2. /\ h_heap[0] \in Elem
      /\ \A i \in 0 .. n - 1 : h_heap[i] \in Elem /\ Weight[h_heap[i]] <= Weight[h_heap[0]]
  BY <1>1, RestingTop DEF heap_pop, HeapIInv, SlotsWritten, Live
<1>3. /\ h_heap' \in [0 .. h_size - 1 -> Elem \cup {NoElem, Junk}]
      /\ \A i \in 0 .. n - 2 : h_heap'[i] = IF i = 0 THEN h_heap[n - 1] ELSE h_heap[i]
      /\ h_heap'[n - 1] = NoElem
  <2>1. 0 \in 0 .. h_size - 1 /\ n - 1 \in 0 .. h_size - 1 /\ h_heap[n - 1] \in Elem
    BY <1>1, <1>2
  <2>2. h_heap' = [[h_heap EXCEPT ![0] = h_heap[n - 1]] EXCEPT ![n - 1] = NoElem]
    BY DEF heap_pop, Popped
  <2>. QED  BY <1>1, <2>1, <2>2 DEF HeapIInv, HeapTypeOK
<1>4. /\ \A i \in 0 .. n - 2 : h_heap'[i] \in Elem
      /\ \A i \in 0 .. n - 2 : Weight[h_heap'[i]] <= Weight[h_heap[0]]
  BY <1>1, <1>2, <1>3, SMTT(30)
<1>5. HeapTypeOK'
  <2>1. \A i \in Live' : h_heap'[i] \in Elem
    BY <1>1, <1>4 DEF Live
  <2>. QED  BY <1>1, <1>2, <1>3, <2>1 DEF HeapTypeOK, heap_empty
<1>6. SlotsWritten'
  BY <1>1, <1>4 DEF SlotsWritten
<1>7. OrderExceptAtCursor'
  <2>1. Weights \in [0 .. n - 1 -> Int] /\ OrderOf(Weights, n, "idle", cursor)
    BY <1>1, OrderIsOfWeights DEF HeapIInv
  <2>2. \A i \in 1 .. n - 2 : Weights'[i] = Weights[i]
    BY <1>1, <1>3 DEF Weights
  <2>3. OrderOf(Weights', n - 1, "pop", 0)
    <3>1. SUFFICES ASSUME NEW j \in 1 .. n - 2, Parent(j) # 0
                   PROVE  Weights'[j] <= Weights'[Parent(j)]
      BY <1>1 DEF OrderOf
    <3>2. Parent(j) \in Nat /\ Parent(j) < j
      BY <1>1, ParentSlot
    <3>3. Weights[j] <= Weights[Parent(j)]
      BY <1>1, <2>1 DEF OrderOf
    <3>. QED  BY <1>1, <2>2, <3>1, <3>2, <3>3
  <2>4. OrderOf(Weights, InUse, call, cursor)'
    BY <1>1, <2>3
  <2>. QED  BY <1>5, <1>6, <2>4, OrderIsOfWeightsNext
<1>8. EmptySlotNull'
  BY <1>1, <1>3 DEF EmptySlotNull, heap_empty
<1>9. PoppedWasTop'
  BY <1>1, <1>4 DEF PoppedWasTop, Live
<1>. QED  BY <1>5, <1>6, <1>7, <1>8, <1>9 DEF HeapIInv

\* The child heap_downheap looks at is a child of the cursor, in use, and no
\* child of the cursor beats it.
LEMMA SwapChildIsLargest ==
    ASSUME HeapIInv, call = "pop", 2 * cursor + 1 < h_nelements
    PROVE  /\ SwapChild \in 1 .. h_nelements - 1 /\ Parent(SwapChild) = cursor
           /\ \A j \in 1 .. h_nelements - 1 :
                Parent(j) = cursor => Weights[j] <= Weights[SwapChild]
<1>. DEFINE first == 2 * cursor + 1
<1>1. /\ cursor \in Nat /\ h_nelements \in Nat /\ InUse = h_nelements
      /\ first \in 1 .. h_nelements - 1
  BY DEF HeapIInv, HeapTypeOK, InUse
<1>2. /\ SwapChild \in {first, first + 1} /\ SwapChild \in 1 .. h_nelements - 1
      /\ SwapChild = first + 1 => ~Beats(h_heap[first], h_heap[first + 1])
      /\ SwapChild = first /\ first + 1 < h_nelements => Beats(h_heap[first], h_heap[first + 1])
  BY <1>1 DEF SwapChild
<1>. HIDE DEF first
<1>3. \A j \in 1 .. h_nelements - 1 : Parent(j) = cursor <=> j = first \/ j = first + 1
  <2>1. SUFFICES ASSUME NEW j \in 1 .. h_nelements - 1
                 PROVE  Parent(j) = cursor <=> j = first \/ j = first + 1
    OBVIOUS
  <2>2. j \in Nat \ {0}
    BY <1>1
  <2>3. Parent(j) = cursor <=> j = 2 * cursor + 1 \/ j = 2 * cursor + 2
    BY <1>1, <2>2, ParentSlot
  <2>. QED  BY <1>1, <2>3 DEF first
<1>4. /\ Weights \in [0 .. h_nelements - 1 -> Int]
      /\ \A k \in 0 .. h_nelements - 1 : Weights[k] = Weight[h_heap[k]]
  BY <1>1, OrderIsOfWeights DEF HeapIInv, Weights
<1>5. SUFFICES ASSUME NEW j \in 1 .. h_nelements - 1, j = first \/ j = first + 1
               PROVE  Weights[j] <= Weights[SwapChild]
  BY <1>2, <1>3
<1>6. Weights[j] \in Int /\ j \in 0 .. h_nelements - 1 /\ first \in 0 .. h_nelements - 1
  BY <1>1, <1>4
<1>7. CASE SwapChild = j
  BY <1>6, <1>7
<1>8. CASE SwapChild # j
  BY <1>1, <1>2, <1>4, <1>5, <1>6, <1>8 DEF Beats
<1>. QED  BY <1>7, <1>8

(* heap_downheap: the element put at the top sinks by one slot, or has     *)
(* found its place.                                                        *)
LEMMA DownheapStep ==
    ASSUME HeapIInv, heap_downheap
    PROVE  HeapIInv'
<1>. DEFINE n == h_nelements
            s == SwapChild
<1>1. /\ call = "pop" /\ n \in Nat /\ n <= h_size /\ h_size \in Nat \ {0} /\ InUse = n
      /\ cursor \in Nat /\ top \in Elem
  BY DEF heap_downheap, HeapIInv, HeapTypeOK, InUse
<1>2. /\ Weights \in [0 .. n - 1 -> Int] /\ OrderOf(Weights, n, "pop", cursor)
      /\ \A k \in 0 .. n - 1 : Weights[k] = Weight[h_heap[k]]
  BY <1>1, OrderIsOfWeights DEF HeapIInv, Weights
<1>3. CASE Sinks
  <2>1. /\ h_heap' = Swapped(cursor, s) /\ cursor' = s
        /\ UNCHANGED <<h_size, h_nelements, call, top, answer>>
    BY <1>3 DEF heap_downheap
  <2>2. /\ s \in 1 .. n - 1 /\ Parent(s) = cursor
        /\ \A j \in 1 .. n - 1 : Parent(j) = cursor => Weights[j] <= Weights[s]
    BY <1>1, <1>3, SwapChildIsLargest DEF Sinks
  <2>. HIDE DEF s
  <2>3. cursor \in 0 .. n - 1
    BY <1>1, <2>2, ParentSlot
  <2>4. /\ h_heap' \in [0 .. h_size - 1 -> Elem \cup {NoElem, Junk}]
        /\ InUse' = InUse /\ SlotsWritten'
        /\ h_heap'[cursor] = h_heap[s] /\ h_heap'[s] = h_heap[cursor]
        /\ \A k \in 0 .. h_size - 1 : k # cursor /\ k # s => h_heap'[k] = h_heap[k]
        /\ Weights' = [Weights EXCEPT ![cursor] = Weights[s], ![s] = Weights[cursor]]
    <3>1. s \in 0 .. InUse - 1 /\ cursor \in 0 .. InUse - 1
      BY <1>1, <2>2, <2>3
    <3>. QED  BY <2>1, <3>1, SwapStep DEF HeapIInv
  <2>5. HeapTypeOK'
    <3>1. \A i \in Live' : h_heap'[i] \in Elem
      BY <1>1, <2>1, <2>4 DEF SlotsWritten, Live
    <3>. QED  BY <1>1, <2>1, <2>2, <2>4, <3>1 DEF HeapTypeOK, heap_empty
  <2>6. OrderOf(Weights, InUse, call, cursor)'
    <3>1. Weights[s] > Weights[cursor]
      BY <1>1, <1>2, <1>3, <2>2, <2>3 DEF Sinks, Beats, s
    <3>2. OrderOf([Weights EXCEPT ![cursor] = Weights[s], ![s] = Weights[cursor]], n, "pop", s)
      BY <1>1, <1>2, <2>2, <2>3, <3>1, DownheapOrder
    <3>. QED  BY <1>1, <2>1, <2>4, <3>2
  <2>7. OrderExceptAtCursor'
    BY <2>4, <2>5, <2>6, OrderIsOfWeightsNext
  <2>8. EmptySlotNull'
    BY <1>1, <2>1, <2>3 DEF EmptySlotNull, heap_empty
  <2>9. PoppedWasTop'
    <3>1. \A i \in 0 .. n - 1 : Weight[h_heap[i]] <= Weight[top]
      BY <1>1 DEF HeapIInv, PoppedWasTop, Live
    <3>2. \A i \in 0 .. n - 1 : \E k \in 0 .. n - 1 : h_heap'[i] = h_heap[k]
      BY <1>1, <2>2, <2>3, <2>4
    <3>3. \A i \in 0 .. n - 1 : Weight[h_heap'[i]] <= Weight[top]
      BY <3>1, <3>2
    <3>. QED  BY <2>1, <3>3 DEF PoppedWasTop, Live
  <2>. QED  BY <2>4, <2>5, <2>7, <2>8, <2>9 DEF HeapIInv
<1>4. CASE ~Sinks
  <2>1. /\ call' = "idle" /\ cursor' = 0 /\ top' = NoElem
        /\ UNCHANGED <<h_heap, h_size, h_nelements>>
    BY <1>4 DEF heap_downheap
  <2>2. InUse' = InUse /\ SlotsWritten' /\ Weights' = Weights
    BY <1>1, <2>1 DEF InUse, SlotsWritten, Weights, HeapIInv
  <2>3. HeapTypeOK'
    BY <1>1, <2>1, HeapAssumption DEF HeapTypeOK, HeapIInv, Live
  <2>4. OrderOf(Weights, n, "idle", 0)
    <3>1. SUFFICES ASSUME NEW j \in 1 .. n - 1  PROVE Weights[j] <= Weights[Parent(j)]
      BY DEF OrderOf
    <3>2. CASE Parent(j) = cursor
      <4>1. j = 2 * cursor + 1 \/ j = 2 * cursor + 2
        BY <1>1, <3>2, ParentSlot
      <4>2. 2 * cursor + 1 < n /\ cursor \in 0 .. n - 1
        BY <1>1, <4>1
      <4>3. /\ s \in 1 .. n - 1
            /\ Weights[j] <= Weights[s] /\ ~Beats(h_heap[s], h_heap[cursor])
        BY <1>1, <1>4, <3>2, <4>2, SwapChildIsLargest DEF Sinks
      <4>. HIDE DEF s
      <4>4. Weights[s] \in Int /\ Weights[j] \in Int /\ Weights[cursor] \in Int
        BY <1>1, <1>2, <4>2, <4>3
      <4>5. Weights[s] <= Weights[cursor]
        BY <1>1, <1>2, <4>2, <4>3, <4>4 DEF Beats
      <4>. QED  BY <3>2, <4>3, <4>4, <4>5
    <3>3. CASE Parent(j) # cursor
      BY <1>2, <3>3 DEF OrderOf
    <3>. QED  BY <3>2, <3>3
  <2>5. OrderExceptAtCursor'
    BY <1>1, <2>1, <2>2, <2>3, <2>4, OrderIsOfWeightsNext
  <2>. QED  BY <1>1, <2>1, <2>2, <2>3, <2>5 DEF HeapIInv, EmptySlotNull, PoppedWasTop, heap_empty
<1>. QED  BY <1>3, <1>4

\* Calls that only answer.
LEMMA AnswerStep ==
    ASSUME HeapIInv, UNCHANGED <<h_heap, h_size, h_nelements, call, cursor, top>>
    PROVE  HeapIInv'
BY DEF HeapIInv, HeapTypeOK, SlotsWritten, InUse, OrderExceptAtCursor, EmptySlotNull,
       PoppedWasTop, heap_empty, Live, Beats, Parent

\* The empty heap of heap_create.
Created ==
    /\ h_heap = [i \in 0 .. HeapStart - 1 |-> NoElem]
    /\ h_size = HeapStart /\ h_nelements = 0
    /\ call = "idle" /\ cursor = 0 /\ top \notin Elem

\* It satisfies the invariant.
LEMMA CreatedHeap == Created => HeapIInv
<1>0. SUFFICES ASSUME Created  PROVE HeapIInv
  OBVIOUS
<1>1. HeapStart \in Nat \ {0}
  BY HeapAssumption
<1>2. HeapTypeOK /\ SlotsWritten
  BY <1>0, <1>1 DEF Created, HeapTypeOK, SlotsWritten, InUse, Live, heap_empty
<1>3. OrderExceptAtCursor
  BY <1>0 DEF Created, OrderExceptAtCursor
<1>4. EmptySlotNull /\ PoppedWasTop
  BY <1>0, <1>1 DEF Created, EmptySlotNull, PoppedWasTop
<1>. QED  BY <1>2, <1>3, <1>4 DEF HeapIInv

\* A heap at rest has its cursor at the top.
IdleCursor == call = "idle" => cursor = 0

\* heap_destroy, and heap_create again.
LEMMA DestroyStep ==
    ASSUME HeapIInv, IdleCursor, heap_destroy
    PROVE  HeapIInv'
<1>1. Created'
  BY DEF heap_destroy, Created, IdleCursor, HeapIInv, HeapTypeOK
<1>2. Created' => HeapIInv'
  BY CreatedHeap, PTL
<1>. QED  BY <1>1, <1>2

(* The inductive invariant holds in every reachable state.                 *)
THEOREM HeapInvariant == HeapSpec => [](HeapIInv /\ IdleCursor)
<1>1. HeapInit => HeapIInv /\ IdleCursor
  BY CreatedHeap, HeapAssumption DEF HeapInit, Created, IdleCursor
<1>2. HeapIInv /\ IdleCursor /\ [HeapNext]_heapvars => HeapIInv' /\ IdleCursor'
  <2>1. SUFFICES ASSUME HeapIInv, IdleCursor, [HeapNext]_heapvars  PROVE HeapIInv' /\ IdleCursor'
    OBVIOUS
  <2>2. IdleCursor'
    BY <2>1 DEF IdleCursor, HeapNext, heapvars, heap_insert, heap_insert_fails, heap_upheap,
                heap_pop, heap_downheap, heap_pop_empty, heap_top, heap_destroy
  <2>3. CASE heap_insert_fails \/ heap_pop_empty \/ heap_top \/ UNCHANGED heapvars
    BY <2>1, <2>2, <2>3, AnswerStep DEF heap_insert_fails, heap_pop_empty, heap_top, heapvars
  <2>. QED
    BY <2>1, <2>2, <2>3, InsertStep, UpheapStep, PopStep, DownheapStep, DestroyStep DEF HeapNext
<1>. QED  BY <1>1, <1>2, PTL DEF HeapSpec

(* At every moment of heap_insert and heap_pop, of every sequence of calls *)
(* and however often the array has grown, the array is a heap except at    *)
(* the cursor, only slots that were written are read, and heap_top of an   *)
(* empty heap is NULL.                                                     *)
THEOREM HeapIsOrdered == HeapSpec => []HeapInv
<1>1. HeapIInv => HeapInv
  BY DEF HeapIInv, HeapInv, EmptySlotNull, EmptyShowsNull
<1>. QED  BY <1>1, HeapInvariant, PTL

-----------------------------------------------------------------------------
(* The heap is a priority queue                                            *)

Holding(e, slots) == {i \in slots : h_heap[i] = e}

\* How often e is in the queue.
CountOf(e) ==
    IF call = "idle" THEN Cardinality(Holding(e, Live))
    ELSE IF call = "insert" THEN Cardinality(Holding(e, (0 .. h_nelements) \ {cursor}))
    ELSE Cardinality(Holding(e, Live)) + (IF e = top THEN 1 ELSE 0)

\* Slots are finitely many, whichever of them are taken.
LEMMA HoldingFinite ==
    ASSUME NEW n \in Int, NEW S, S \subseteq 0 .. n
    PROVE  IsFiniteSet(S) /\ Cardinality(S) \in Nat
<1>1. IsFiniteSet(0 .. n)
  BY FS_Interval
<1>. QED  BY <1>1, FS_Subset, FS_CardinalityType

\* The refinement mapping, element by element.
LEMMA CountIsCountOf == HeapTypeOK => Count = [e \in Elem |-> CountOf(e)]
<1>1. SUFFICES ASSUME HeapTypeOK  PROVE Count = [e \in Elem |-> CountOf(e)]
  OBVIOUS
<1>2. CASE call = "idle"
  BY <1>2 DEF Count, Counted, CountOf, Holding
<1>3. CASE call = "insert"
  BY <1>3 DEF Count, Counted, CountOf, Holding
<1>4. CASE call = "pop"
  <2>1. Count = [Counted(Live) EXCEPT ![top] = Counted(Live)[top] + 1] /\ top \in Elem
    BY <1>1, <1>4 DEF Count, HeapTypeOK
  <2>2. Counted(Live) = [e \in Elem |-> Cardinality(Holding(e, Live))]
    BY DEF Counted, Holding
  <2>3. \A e \in Elem : Cardinality(Holding(e, Live)) \in Nat
    <3>1. ASSUME NEW e \in Elem  PROVE Cardinality(Holding(e, Live)) \in Nat
      <4>1. h_nelements - 1 \in Int /\ Holding(e, Live) \subseteq 0 .. h_nelements - 1
        BY <1>1 DEF HeapTypeOK, Holding, Live
      <4>. QED  BY <4>1, HoldingFinite
    <3>. QED  BY <3>1
  <2>4. \A e \in Elem : CountOf(e) = Cardinality(Holding(e, Live)) + (IF e = top THEN 1 ELSE 0)
    BY <1>4 DEF CountOf
  <2>5. \A e \in Elem : CountOf(e) = IF e = top THEN Counted(Live)[top] + 1 ELSE Counted(Live)[e]
    BY <2>2, <2>3, <2>4
  <2>. QED  BY <2>1, <2>2, <2>5
<1>. QED  BY <1>1, <1>2, <1>3, <1>4 DEF HeapTypeOK

\* The same after a step.
LEMMA CountIsCountOfNext == HeapTypeOK' => Count' = [e \in Elem |-> CountOf(e)']
<1>1. HeapTypeOK' => (Count = [e \in Elem |-> CountOf(e)])'
  BY CountIsCountOf, PTL
<1>. QED  BY <1>1

\* Moving an element from one slot to another that did not hold it keeps the
\* number of slots that do.
LEMMA MoveOne ==
    ASSUME NEW S, IsFiniteSet(S), NEW x \in S, NEW y, y \notin S
    PROVE  Cardinality((S \ {x}) \cup {y}) = Cardinality(S)
<1>1. IsFiniteSet(S \ {x}) /\ Cardinality(S \ {x}) = Cardinality(S) - 1
  BY FS_RemoveElement
<1>2. Cardinality((S \ {x}) \cup {y}) = Cardinality(S \ {x}) + 1
  BY <1>1, FS_AddElement
<1>. QED  BY <1>1, <1>2, FS_CardinalityType

\* An element that is counted is in a slot.
LEMMA CountedIsHeld ==
    ASSUME HeapIInv, call # "insert", NEW e \in Elem, CountOf(e) > 0
    PROVE  (\E i \in Live : h_heap[i] = e) \/ (call = "pop" /\ e = top)
<1>1. SUFFICES ASSUME \A i \in Live : h_heap[i] # e, call = "pop" => e # top
               PROVE  FALSE
  OBVIOUS
<1>2. Holding(e, Live) = {}
  BY <1>1 DEF Holding
<1>3. Cardinality(Holding(e, Live)) = 0
  BY <1>2, FS_EmptySet
<1>4. call \in {"idle", "pop"}
  BY DEF HeapIInv, HeapTypeOK
<1>5. CountOf(e) = 0
  BY <1>1, <1>3, <1>4 DEF CountOf
<1>. QED  BY <1>5

\* heap_insert up to heap_upheap: the new element is not counted yet.
LEMMA InsertCounts ==
    ASSUME HeapIInv, HeapIInv', NEW x \in Elem, heap_insert(x)
    PROVE  Count' = Count /\ answer' = answer
<1>1. /\ call = "idle" /\ call' = "insert" /\ h_nelements' = h_nelements
      /\ cursor' = h_nelements /\ answer' = answer /\ h_nelements \in Nat
  BY DEF heap_insert, HeapIInv, HeapTypeOK
<1>2. \A i \in 0 .. h_nelements - 1 : h_heap'[i] = h_heap[i]
  BY HeapAssumption DEF heap_insert, Full, HeapIInv, HeapTypeOK
<1>3. ASSUME NEW e \in Elem  PROVE CountOf(e)' = CountOf(e)
  <2>1. (0 .. h_nelements) \ {h_nelements} = 0 .. h_nelements - 1
    BY <1>1
  <2>2. {i \in (0 .. h_nelements) \ {h_nelements} : h_heap'[i] = e}
          = {i \in 0 .. h_nelements - 1 : h_heap[i] = e}
    BY <1>2, <2>1
  <2>. QED  BY <1>1, <2>2 DEF CountOf, Holding, Live
<1>4. Count = [e \in Elem |-> CountOf(e)] /\ Count' = [e \in Elem |-> CountOf(e)']
  BY CountIsCountOf, CountIsCountOfNext DEF HeapIInv
<1>. QED  BY <1>1, <1>3, <1>4

\* The slots up to n of the array h that hold e.
SlotsOf(h, n, e) == {k \in 0 .. n : h[k] = e}

\* An element that is exchanged with another is held by as many slots as before.
LEMMA SwapHolds ==
    ASSUME NEW e, NEW n \in Int, NEW h, NEW g, NEW i \in 0 .. n, NEW j \in 0 .. n,
           g[i] = h[j], g[j] = h[i], \A k \in 0 .. n : k # i /\ k # j => g[k] = h[k]
    PROVE  Cardinality(SlotsOf(g, n, e)) = Cardinality(SlotsOf(h, n, e))
<1>. USE DEF SlotsOf
<1>. DEFINE H == {k \in 0 .. n : h[k] = e}
            G == {k \in 0 .. n : g[k] = e}
<1>1. IsFiniteSet(H)
  BY HoldingFinite
<1>2. CASE h[i] = e <=> h[j] = e
  <2>1. G = H
    BY <1>2
  <2>. QED  BY <2>1
<1>3. CASE h[i] = e /\ h[j] # e
  <2>1. G = (H \ {i}) \cup {j}
    BY <1>3
  <2>2. i \in H /\ j \notin H
    BY <1>3
  <2>. HIDE DEF G, H
  <2>. QED  BY <1>1, <2>1, <2>2, MoveOne DEF G, H
<1>4. CASE h[i] # e /\ h[j] = e
  <2>1. G = (H \ {j}) \cup {i}
    BY <1>4
  <2>2. j \in H /\ i \notin H
    BY <1>4
  <2>. HIDE DEF G, H
  <2>. QED  BY <1>1, <2>1, <2>2, MoveOne DEF G, H
<1>. QED  BY <1>2, <1>3, <1>4

(* heap_upheap keeps the other elements while the new one rises; when it   *)
(* returns there is one more.                                              *)
LEMMA UpheapCounts ==
    ASSUME HeapIInv, HeapIInv', heap_upheap
    PROVE  (Count' = Count /\ answer' = answer) \/ \E x \in Elem : PQ!Insert(x)
<1>. DEFINE n == h_nelements
            c == cursor
            p == Parent(cursor)
<1>1. call = "insert" /\ c \in 0 .. n /\ n \in Nat /\ InUse = n + 1
  BY DEF heap_upheap, HeapIInv, HeapTypeOK, InUse
<1>2. Count = [e \in Elem |-> CountOf(e)] /\ Count' = [e \in Elem |-> CountOf(e)']
  BY CountIsCountOf, CountIsCountOfNext DEF HeapIInv
<1>3. CASE Rises
  <2>1. /\ h_heap' = Swapped(c, p) /\ cursor' = p
        /\ UNCHANGED <<h_size, h_nelements, call, top, answer>>
    BY <1>3 DEF heap_upheap
  <2>2. c \in Nat \ {0} /\ p \in Nat /\ p < c
    BY <1>1, <1>3, ParentSlot DEF Rises
  <2>3. c \in 0 .. InUse - 1 /\ p \in 0 .. InUse - 1 /\ n < h_size
    BY <1>1, <2>2 DEF HeapIInv, HeapTypeOK
  <2>4. /\ h_heap'[c] = h_heap[p] /\ h_heap'[p] = h_heap[c]
        /\ \A k \in 0 .. h_size - 1 : k # c /\ k # p => h_heap'[k] = h_heap[k]
    BY <2>1, <2>3, SwapStep DEF HeapIInv
  <2>5. \A k \in 0 .. n : k # c /\ k # p => h_heap'[k] = h_heap[k]
    <3>1. 0 .. n \subseteq 0 .. h_size - 1
      BY <1>1, <2>3 DEF HeapIInv, HeapTypeOK
    <3>. HIDE DEF p
    <3>. QED  BY <2>4, <3>1
  <2>. HIDE DEF p
  <2>6. ASSUME NEW e \in Elem  PROVE CountOf(e)' = CountOf(e)
    <3>. DEFINE H == {k \in (0 .. n) \ {c} : h_heap[k] = e}
                G == {k \in (0 .. n) \ {p} : h_heap'[k] = e}
    <3>1. CountOf(e) = Cardinality(H) /\ CountOf(e)' = Cardinality(G)
      BY <1>1, <2>1 DEF CountOf, Holding
    <3>2. IsFiniteSet(H)
      BY <1>1, HoldingFinite
    <3>3. p \in 0 .. n /\ c \in 0 .. n /\ p # c
      BY <1>1, <2>2
    <3>4. CASE h_heap[p] = e
      <4>1. G = (H \ {p}) \cup {c} /\ p \in H /\ c \notin H
        BY <2>4, <2>5, <3>3, <3>4
      <4>. HIDE DEF G, H
      <4>. QED  BY <3>1, <3>2, <4>1, MoveOne
    <3>5. CASE h_heap[p] # e
      <4>1. G = H
        BY <2>4, <2>5, <3>3, <3>5
      <4>. QED  BY <3>1, <4>1
    <3>. QED  BY <3>4, <3>5
  <2>. QED  BY <1>2, <2>1, <2>6
<1>4. CASE ~Rises
  <2>1. /\ h_nelements' = n + 1 /\ call' = "idle" /\ h_heap' = h_heap
        /\ answer' = Answer("ok", Nothing)
    BY <1>4 DEF heap_upheap
  <2>. DEFINE x == h_heap[c]
  <2>2. x \in Elem
    BY <1>1 DEF HeapIInv, SlotsWritten
  <2>3. ASSUME NEW e \in Elem  PROVE CountOf(e) \in Nat /\ CountOf(e)' = CountOf(e) + (IF e = x THEN 1 ELSE 0)
    <3>. DEFINE H == {k \in (0 .. n) \ {c} : h_heap[k] = e}
                G == {k \in 0 .. n : h_heap[k] = e}
    <3>1. CountOf(e) = Cardinality(H)
      BY <1>1 DEF CountOf, Holding
    <3>2. CountOf(e)' = Cardinality(G)
      <4>1. Live' = 0 .. n
        BY <1>1, <2>1 DEF Live
      <4>. QED  BY <2>1, <4>1 DEF CountOf, Holding
    <3>3. IsFiniteSet(H) /\ Cardinality(H) \in Nat
      BY <1>1, HoldingFinite
    <3>4. CASE e = x
      <4>1. G = H \cup {c} /\ c \notin H
        BY <1>1, <3>4
      <4>. HIDE DEF G, H
      <4>2. Cardinality(H \cup {c}) = Cardinality(H) + 1
        BY <3>3, <4>1, FS_AddElement
      <4>. QED  BY <3>1, <3>2, <3>3, <3>4, <4>1, <4>2
    <3>5. CASE e # x
      <4>1. G = H
        BY <1>1, <3>5
      <4>. QED  BY <3>1, <3>2, <3>3, <3>5, <4>1
    <3>. QED  BY <3>4, <3>5
  <2>. HIDE DEF x
  <2>4. Count' = [Count EXCEPT ![x] = @ + 1]
    BY <1>2, <2>2, <2>3
  <2>5. PQ!Insert(x)
    BY <2>1, <2>4 DEF PQ!Insert, PQ!Answer, PQ!Nothing, Answer, Nothing
  <2>. QED  BY <2>2, <2>5
<1>. QED  BY <1>3, <1>4

\* heap_pop up to heap_downheap: the element that is taken out still counts.
LEMMA PopCounts ==
    ASSUME HeapIInv, HeapIInv', heap_pop
    PROVE  Count' = Count /\ answer' = answer
<1>. DEFINE n == h_nelements
<1>1. /\ call = "idle" /\ call' = "pop" /\ n \in Nat \ {0} /\ n <= h_size /\ h_size \in Nat
      /\ h_nelements' = n - 1 /\ top' = h_heap[0] /\ answer' = answer
  BY DEF heap_pop, heap_empty, HeapIInv, HeapTypeOK
<1>2. \A i \in 0 .. n - 2 : h_heap'[i] = IF i = 0 THEN h_heap[n - 1] ELSE h_heap[i]
  <2>1. 0 \in 0 .. h_size - 1 /\ n - 1 \in 0 .. h_size - 1
    BY <1>1
  <2>2. h_heap' = [[h_heap EXCEPT ![0] = h_heap[n - 1]] EXCEPT ![n - 1] = NoElem]
    BY DEF heap_pop, Popped
  <2>. QED  BY <1>1, <2>1, <2>2 DEF HeapIInv, HeapTypeOK
<1>3. Count = [e \in Elem |-> CountOf(e)] /\ Count' = [e \in Elem |-> CountOf(e)']
  BY CountIsCountOf, CountIsCountOfNext DEF HeapIInv
<1>4. ASSUME NEW e \in Elem  PROVE CountOf(e)' = CountOf(e)
  <2>. DEFINE H == {k \in 0 .. n - 1 : h_heap[k] = e}
              G == {k \in 0 .. n - 2 : h_heap'[k] = e}
  <2>1. CountOf(e) = Cardinality(H)
    BY <1>1 DEF CountOf, Holding, Live
  <2>2. CountOf(e)' = Cardinality(G) + (IF e = h_heap[0] THEN 1 ELSE 0)
    <3>1. Live' = 0 .. n - 2
      BY <1>1 DEF Live
    <3>. QED  BY <1>1, <3>1 DEF CountOf, Holding
  <2>3. IsFiniteSet(H) /\ IsFiniteSet(G) /\ Cardinality(H) \in Nat /\ Cardinality(G) \in Nat
    BY <1>1, HoldingFinite
  <2>4. CASE e = h_heap[0]
    <3>1. 0 \in H
      BY <1>1, <2>4
    <3>2. Cardinality(H \ {0}) = Cardinality(H) - 1 /\ IsFiniteSet(H \ {0})
      <4>. HIDE DEF H
      <4>. QED  BY <2>3, <3>1, FS_RemoveElement
    <3>3. Cardinality(G) = Cardinality(H \ {0})
      <4>1. CASE n > 1 /\ h_heap[n - 1] = e
        <5>1. G = ((H \ {0}) \ {n - 1}) \cup {0} /\ n - 1 \in H \ {0} /\ 0 \notin H \ {0}
          BY <1>1, <1>2, <2>4, <4>1
        <5>. HIDE DEF G, H
        <5>. QED  BY <3>2, <5>1, MoveOne
      <4>2. CASE ~(n > 1 /\ h_heap[n - 1] = e)
        <5>1. G = H \ {0}
          BY <1>1, <1>2, <2>4, <4>2
        <5>. QED  BY <5>1
      <4>. QED  BY <4>1, <4>2
    <3>. QED  BY <2>1, <2>2, <2>3, <2>4, <3>2, <3>3
  <2>5. CASE e # h_heap[0]
    <3>1. CASE h_heap[n - 1] = e
      <4>1. G = (H \ {n - 1}) \cup {0} /\ n - 1 \in H /\ 0 \notin H
        BY <1>1, <1>2, <2>5, <3>1
      <4>. HIDE DEF G, H
      <4>. QED  BY <2>1, <2>2, <2>3, <2>5, <4>1, MoveOne
    <3>2. CASE h_heap[n - 1] # e
      <4>1. G = H
        BY <1>1, <1>2, <2>5, <3>2
      <4>. HIDE DEF G, H
      <4>. QED  BY <2>1, <2>2, <2>3, <2>5, <4>1
    <3>. QED  BY <3>1, <3>2
  <2>. QED  BY <2>4, <2>5
<1>. QED  BY <1>1, <1>3, <1>4

(* heap_downheap keeps all elements while it swaps; when it returns, the   *)
(* element that heap_pop returns is out, and nothing in the heap beat it.  *)
LEMMA DownheapCounts ==
    ASSUME HeapIInv, HeapIInv', heap_downheap
    PROVE  (Count' = Count /\ answer' = answer) \/ \E x \in Elem : PQ!Pop(x)
<1>. DEFINE n == h_nelements
            c == cursor
            s == SwapChild
<1>1. call = "pop" /\ n \in Nat /\ InUse = n /\ top \in Elem /\ c \in Nat
  BY DEF heap_downheap, HeapIInv, HeapTypeOK, InUse
<1>2. Count = [e \in Elem |-> CountOf(e)] /\ Count' = [e \in Elem |-> CountOf(e)']
  BY CountIsCountOf, CountIsCountOfNext DEF HeapIInv
<1>3. CASE Sinks
  <2>1. /\ h_heap' = Swapped(c, s) /\ cursor' = s
        /\ UNCHANGED <<h_size, h_nelements, call, top, answer>>
    BY <1>3 DEF heap_downheap
  <2>2. s \in 1 .. n - 1 /\ Parent(s) = cursor
    BY <1>1, <1>3, SwapChildIsLargest DEF Sinks
  <2>. HIDE DEF s
  <2>3. c \in 0 .. InUse - 1 /\ s \in 0 .. InUse - 1 /\ n <= h_size
    BY <1>1, <2>2, ParentSlot DEF HeapIInv, HeapTypeOK
  <2>4. /\ h_heap'[c] = h_heap[s] /\ h_heap'[s] = h_heap[c]
        /\ \A k \in 0 .. h_size - 1 : k # c /\ k # s => h_heap'[k] = h_heap[k]
    BY <2>1, <2>3, SwapStep DEF HeapIInv
  <2>5. \A k \in 0 .. n - 1 : k # c /\ k # s => h_heap'[k] = h_heap[k]
    <3>1. 0 .. n - 1 \subseteq 0 .. h_size - 1
      BY <1>1, <2>3 DEF HeapIInv, HeapTypeOK
    <3>. QED  BY <2>4, <3>1
  <2>6. ASSUME NEW e \in Elem  PROVE CountOf(e)' = CountOf(e)
    <3>1. Live = 0 .. n - 1 /\ Live' = 0 .. n - 1
      BY <1>1, <2>1 DEF Live
    <3>2. n - 1 \in Int /\ c \in 0 .. n - 1 /\ s \in 0 .. n - 1
      BY <1>1, <2>3
    <3>3. Cardinality({k \in 0 .. n - 1 : h_heap'[k] = e}) = Cardinality({k \in 0 .. n - 1 : h_heap[k] = e})
      <4>1. /\ h_heap'[c] = h_heap[s] /\ h_heap'[s] = h_heap[c]
            /\ \A k \in 0 .. n - 1 : k # c /\ k # s => h_heap'[k] = h_heap[k]
        BY <2>4, <2>5
      <4>. DEFINE m == n - 1
      <4>2. m \in Int /\ c \in 0 .. m /\ s \in 0 .. m
        BY <3>2
      <4>3. \A k \in 0 .. m : k # c /\ k # s => h_heap'[k] = h_heap[k]
        BY <4>1
      <4>. HIDE DEF m
      <4>4. Cardinality(SlotsOf(h_heap', m, e)) = Cardinality(SlotsOf(h_heap, m, e))
        BY <4>1, <4>2, <4>3, SwapHolds
      <4>. QED  BY <4>4 DEF m, SlotsOf
    <3>. QED  BY <1>1, <2>1, <3>1, <3>3 DEF CountOf, Holding
  <2>. QED  BY <1>2, <2>1, <2>6
<1>4. CASE ~Sinks
  <2>1. /\ call' = "idle" /\ answer' = Answer("pop", Single(top))
        /\ UNCHANGED <<h_heap, h_nelements>>
    BY <1>4 DEF heap_downheap
  <2>2. ASSUME NEW e \in Elem
        PROVE  CountOf(e)' \in Nat /\ CountOf(e) = CountOf(e)' + (IF e = top THEN 1 ELSE 0)
    <3>1. Live' = Live /\ Live = 0 .. n - 1
      BY <2>1 DEF Live
    <3>2. CountOf(e)' = Cardinality(Holding(e, Live))
      BY <2>1, <3>1 DEF CountOf, Holding
    <3>3. CountOf(e) = Cardinality(Holding(e, Live)) + (IF e = top THEN 1 ELSE 0)
      BY <1>1 DEF CountOf
    <3>4. Cardinality(Holding(e, Live)) \in Nat
      <4>1. n - 1 \in Int /\ Holding(e, Live) \subseteq 0 .. n - 1
        BY <1>1, <3>1 DEF Holding
      <4>. QED  BY <4>1, HoldingFinite
    <3>. QED  BY <3>2, <3>3, <3>4
  <2>3. Count' = [Count EXCEPT ![top] = @ - 1]
    BY <1>1, <1>2, <2>2
  <2>4. Count[top] > 0
    BY <1>1, <1>2, <2>2
  <2>5. ASSUME NEW f \in Elem, Count[f] > 0  PROVE Weight[f] <= Weight[top]
    <3>1. CountOf(f) > 0
      BY <1>2, <2>5
    <3>2. (\E i \in Live : h_heap[i] = f) \/ f = top
      BY <1>1, <3>1, CountedIsHeld
    <3>3. Weight[f] \in Int
      BY HeapAssumption
    <3>. QED  BY <1>1, <3>2, <3>3 DEF HeapIInv, PoppedWasTop
  <2>6. PQ!Pop(top)
    BY <2>1, <2>3, <2>4, <2>5
    DEF PQ!Pop, PQ!IsTop, PQ!Answer, PQ!Single, PQ!Nothing, Answer, Single, Nothing
  <2>. QED  BY <1>1, <2>6
<1>. QED  BY <1>3, <1>4

\* A heap without elements is the empty queue, before and after a step.
LEMMA EmptyCounts == HeapTypeOK /\ call = "idle" /\ heap_empty => Count = Nothing
<1>1. SUFFICES ASSUME HeapTypeOK, call = "idle", heap_empty  PROVE Count = Nothing
  OBVIOUS
<1>2. ASSUME NEW e \in Elem  PROVE CountOf(e) = 0
  <2>1. Holding(e, Live) = {}
    BY <1>1 DEF Holding, Live, heap_empty
  <2>. QED  BY <1>1, <2>1, FS_EmptySet DEF CountOf
<1>. QED  BY <1>1, <1>2, CountIsCountOf DEF Nothing

\* A call that only answers takes nothing out and puts nothing in.
LEMMA AnswerCounts ==
    ASSUME UNCHANGED <<h_heap, h_size, h_nelements, call, cursor, top>>
    PROVE  Count' = Count
BY DEF Count, Counted, Live

\* heap_top, and heap_pop of an empty heap, show NULL or an element nothing in
\* the heap beats.
LEMMA ShownIsTop ==
    ASSUME HeapIInv, call = "idle", NEW kind, heap_empty \/ kind = "top", answer' = Shown(kind),
           UNCHANGED <<h_heap, h_size, h_nelements, call, cursor, top>>
    PROVE  PQ!Empty \/ \E e \in Elem : PQ!Top(e)
<1>1. Count' = Count
  BY AnswerCounts
<1>2. CASE heap_empty
  <2>1. Count = Nothing /\ h_heap[0] = NoElem
    BY <1>2, EmptyCounts DEF HeapIInv, EmptySlotNull
  <2>2. answer' = Answer("NULL", Nothing)
    BY <2>1 DEF Shown
  <2>. QED  BY <1>1, <2>1, <2>2 DEF PQ!Empty, PQ!Answer, PQ!Nothing, Answer, Nothing
<1>3. CASE ~heap_empty
  <2>. DEFINE e == h_heap[0]
  <2>1. e \in Elem /\ \A i \in Live : Weight[h_heap[i]] <= Weight[e]
    BY <1>3, RestingTop
  <2>2. answer' = Answer("top", Single(e))
    BY <1>3, <2>1, HeapAssumption DEF Shown
  <2>3. Count = [f \in Elem |-> CountOf(f)]
    BY CountIsCountOf DEF HeapIInv
  <2>4. Count[e] > 0
    <3>1. /\ h_nelements - 1 \in Int /\ Holding(e, Live) \subseteq 0 .. h_nelements - 1
          /\ 0 \in Holding(e, Live)
      BY <1>3 DEF HeapIInv, HeapTypeOK, heap_empty, Holding, Live
    <3>2. IsFiniteSet(Holding(e, Live)) /\ Cardinality(Holding(e, Live)) \in Nat
      BY <3>1, HoldingFinite
    <3>3. Cardinality(Holding(e, Live)) # 0
      BY <3>1, <3>2, FS_EmptySet
    <3>. QED  BY <2>1, <2>3, <3>2, <3>3 DEF CountOf
  <2>5. ASSUME NEW f \in Elem, Count[f] > 0  PROVE Weight[f] <= Weight[e]
    <3>1. CountOf(f) > 0
      BY <2>3, <2>5
    <3>2. \E i \in Live : h_heap[i] = f
      BY <3>1, CountedIsHeld
    <3>. QED  BY <2>1, <3>2
  <2>. HIDE DEF e
  <2>6. PQ!Top(e)
    BY <1>1, <2>2, <2>4, <2>5
    DEF PQ!Top, PQ!IsTop, PQ!Answer, PQ!Single, PQ!Nothing, Answer, Single, Nothing
  <2>. QED  BY <2>1, <2>6
<1>. QED  BY <1>2, <1>3

(* The heap is a priority queue: in the middle of no call, by no growth of *)
(* the array, no failure and no sequence of calls is an element lost,      *)
(* repeated, or popped while another one beats it.                         *)
THEOREM HeapIsPriorityQueue == HeapSpec => IsPriorityQueue
<1>1. HeapInit => PQ!Init
  <2>1. SUFFICES ASSUME HeapInit  PROVE PQ!Init
    OBVIOUS
  <2>2. HeapIInv
    BY <2>1, CreatedHeap, HeapAssumption DEF HeapInit, Created
  <2>3. Count = Nothing
    BY <2>1, <2>2, EmptyCounts DEF HeapIInv, HeapInit, heap_empty
  <2>. QED  BY <2>1, <2>3 DEF HeapInit, PQ!Init, PQ!Answer, PQ!Nothing, Answer, Nothing
<1>2. HeapIInv /\ HeapIInv' /\ [HeapNext]_heapvars => [PQ!Next]_<<Count, answer>>
  <2>1. SUFFICES ASSUME HeapIInv, HeapIInv', [HeapNext]_heapvars
                 PROVE  PQ!Next \/ (Count' = Count /\ answer' = answer)
    OBVIOUS
  <2>2. ASSUME NEW e \in Elem, heap_insert(e)  PROVE Count' = Count /\ answer' = answer
    BY <2>1, <2>2, InsertCounts
  <2>3. CASE heap_insert_fails
    <3>1. Count' = Count
      BY <2>3, AnswerCounts DEF heap_insert_fails
    <3>. QED  BY <2>3, <3>1 DEF heap_insert_fails, PQ!Next, PQ!NoMemory, PQ!Answer, PQ!Nothing,
                                Answer, Nothing
  <2>4. CASE heap_upheap
    BY <2>1, <2>4, UpheapCounts DEF PQ!Next
  <2>5. CASE heap_pop
    BY <2>1, <2>5, PopCounts
  <2>6. CASE heap_downheap
    BY <2>1, <2>6, DownheapCounts DEF PQ!Next
  <2>7. CASE heap_pop_empty \/ heap_top
    <3>1. PQ!Empty \/ \E e \in Elem : PQ!Top(e)
      BY <2>1, <2>7, ShownIsTop DEF heap_pop_empty, heap_top
    <3>. QED  BY <3>1 DEF PQ!Next
  <2>8. CASE heap_destroy
    <3>1. call = "idle" /\ call' = "idle" /\ heap_empty' /\ answer' = Answer("ok", Counted(Live))
      BY <2>8 DEF heap_destroy, heap_empty
    <3>2. (HeapTypeOK /\ call = "idle" /\ heap_empty => Count = Nothing)'
      BY EmptyCounts, PTL
    <3>3. Count' = Nothing /\ Count = Counted(Live)
      BY <2>1, <3>1, <3>2 DEF HeapIInv, Count, Nothing
    <3>. QED  BY <3>1, <3>3 DEF PQ!Next, PQ!Destroy, PQ!Answer, PQ!Nothing, Answer, Nothing
  <2>9. CASE UNCHANGED heapvars
    BY <2>9, AnswerCounts DEF heapvars
  <2>. QED  BY <2>1, <2>2, <2>3, <2>4, <2>5, <2>6, <2>7, <2>8, <2>9 DEF HeapNext
<1>. QED  BY <1>1, <1>2, HeapInvariant, PTL DEF HeapSpec, IsPriorityQueue, PQ!Spec

=============================================================================
