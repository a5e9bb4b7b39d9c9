--------------------------- MODULE HashTableProofs ---------------------------
(***************************************************************************)
(* Proofs about HashTable, for any data, hash function and start size, any *)
(* number of nodes, and malloc failing or leaving junk anywhere.  What its *)
(* lists do is in ListsProofs.                                             *)
(***************************************************************************)
EXTENDS HashTable, ListsProofs

-----------------------------------------------------------------------------
(* A table in memory                                                       *)

SlotValue == List \cup {NULL, Junk}
IsTable(T) == \E n \in Nat \ {0} : T \in [0 .. n - 1 -> SlotValue]

\* Slot i of T has the nodes c, in which are the data v.
SlotHas(M, T, i, c, v) ==
    /\ IF IsList(T[i]) THEN T[i].owns /\ Holds(M, T[i], c) ELSE c = << >>
    /\ v = ToSet(ItemsOf(M, c)) /\ Injective(ItemsOf(M, c))
    /\ \A d \in v : d \in Data /\ Slot(T, d) = i

\* Slot i of T has the nodes C[i], in which are the data V[i].
TableHas(M, T, C, V) ==
    /\ IsTable(T)
    /\ DOMAIN C = DOMAIN T /\ C = [i \in DOMAIN T |-> C[i]] /\ V = [i \in DOMAIN T |-> V[i]]
    /\ \A i \in DOMAIN T : SlotHas(M, T, i, C[i], V[i])
    /\ \A i, j \in DOMAIN T : i # j => ToSet(C[i]) \cap ToSet(C[j]) = {}

NodesIn(C) == UNION {ToSet(C[i]) : i \in DOMAIN C}
ItemsIn(V) == UNION {V[i] : i \in DOMAIN V}

\* The slots are numbered from 0, and a hash leads to one of them.
LEMMA TableSize ==
    ASSUME NEW T, IsTable(T)
    PROVE  /\ Size(T) \in Nat \ {0} /\ DOMAIN T = 0 .. Size(T) - 1 /\ T \in [DOMAIN T -> SlotValue]
           /\ \A d \in Data : Slot(T, d) \in DOMAIN T
<1>1. PICK n \in Nat \ {0} : T \in [0 .. n - 1 -> SlotValue]
  BY DEF IsTable
<1>2. Cardinality(0 .. n - 1) = n
  <2>1. Cardinality(0 .. n - 1) = IF 0 > n - 1 THEN 0 ELSE (n - 1) - 0 + 1
    BY FS_Interval
  <2>. QED  BY <2>1
<1>3. Size(T) = n
  BY <1>1, <1>2 DEF Size
<1>4. \A d \in Data : Hash[d] \in Nat
  BY HashAssumption
<1>5. \A d \in Data : Hash[d] % n \in 0 .. n - 1
  BY <1>4
<1>. QED  BY <1>1, <1>3, <1>5 DEF Slot

\* A slot with a list in it.
LEMMA ListOrNot ==
    ASSUME NEW x \in SlotValue
    PROVE  /\ IsList(x) <=> x \in List
           /\ ~IsList(x) <=> x = NULL \/ x = Junk
           /\ NULL # Junk
BY ListsAssumption, HashAssumption DEF SlotValue, IsList

\* What is known of a slot.
LEMMA SlotIs ==
    ASSUME NEW M \in Memory, NEW T, NEW C, NEW V, TableHas(M, T, C, V), NEW i \in DOMAIN T
    PROVE  /\ C[i] \in Seq(Node) /\ Len(C[i]) \in Nat /\ ToSet(C[i]) \subseteq M.used
           /\ ItemsOf(M, C[i]) \in Seq(Data) /\ Len(ItemsOf(M, C[i])) = Len(C[i])
           /\ DOMAIN ItemsOf(M, C[i]) = 1 .. Len(C[i])
           /\ Injective(ItemsOf(M, C[i])) /\ V[i] = ToSet(ItemsOf(M, C[i]))
           /\ V[i] \subseteq Data /\ \A d \in V[i] : Slot(T, d) = i
           /\ IsList(T[i]) => /\ Holds(M, T[i], C[i]) /\ T[i].owns
                              /\ Chain(M, T[i]) = C[i] /\ Items(M, T[i]) = ItemsOf(M, C[i])
           /\ ~IsList(T[i]) => C[i] = << >> /\ V[i] = {}
<1>1. SlotHas(M, T, i, C[i], V[i])
  BY DEF TableHas
<1>2. CASE IsList(T[i])
  BY <1>1, <1>2, ChainIs DEF SlotHas
<1>3. CASE ~IsList(T[i])
  <2>1. C[i] = << >>
    BY <1>1, <1>3 DEF SlotHas
  <2>2. ItemsOf(M, << >>) = << >>
    BY DEF ItemsOf
  <2>3. ToSet(<< >>) = {}
    BY DEF ToSet
  <2>4. << >> \in Seq(Node) /\ << >> \in Seq(Data) /\ Len(<< >>) = 0 /\ DOMAIN << >> = 1 .. 0
    OBVIOUS
  <2>5. Injective(<< >>)
    BY <2>4 DEF Injective
  <2>6. V[i] = {}
    BY <1>1, <2>1, <2>2, <2>3 DEF SlotHas
  <2>. QED  BY <1>3, <2>1, <2>2, <2>3, <2>4, <2>5, <2>6
<1>. QED  BY <1>2, <1>3

\* The data of two slots differ, because their hashes do.
LEMMA SlotsDiffer ==
    ASSUME NEW M \in Memory, NEW T, NEW C, NEW V, TableHas(M, T, C, V),
           NEW i \in DOMAIN T, NEW j \in DOMAIN T, i # j
    PROVE  V[i] \cap V[j] = {} /\ ToSet(C[i]) \cap ToSet(C[j]) = {}
<1>1. V[i] \cap V[j] = {}
  BY SlotIs
<1>. QED  BY <1>1 DEF TableHas

\* The table is as it was when its cells are, and are still allocated.
LEMMA TableUntouched ==
    ASSUME NEW M \in Memory, NEW R \in Memory, NEW T, NEW C, NEW V, TableHas(M, T, C, V),
           NodesIn(C) \subseteq R.used, \A n \in NodesIn(C) : R.cell[n] = M.cell[n]
    PROVE  TableHas(R, T, C, V)
<1>1. ASSUME NEW i \in DOMAIN T  PROVE SlotHas(R, T, i, C[i], V[i])
  <2>1. SlotHas(M, T, i, C[i], V[i])
    BY DEF TableHas
  <2>2. \A n \in ToSet(C[i]) : n \in NodesIn(C)
    BY DEF TableHas, NodesIn
  <2>3. CASE IsList(T[i])
    <3>1. Holds(M, T[i], C[i])
      BY <2>1, <2>3 DEF SlotHas
    <3>2. Holds(R, T[i], C[i]) /\ ItemsOf(R, C[i]) = ItemsOf(M, C[i])
      BY <2>2, <3>1, Untouched
    <3>. QED  BY <2>1, <2>3, <3>2 DEF SlotHas
  <2>4. CASE ~IsList(T[i])
    <3>1. C[i] = << >>
      BY <2>1, <2>4 DEF SlotHas
    <3>2. ItemsOf(M, << >>) = << >> /\ ItemsOf(R, << >>) = << >>
      BY DEF ItemsOf
    <3>. QED  BY <2>1, <2>4, <3>1, <3>2 DEF SlotHas
  <2>. QED  BY <2>3, <2>4
<1>. QED  BY <1>1 DEF TableHas

(***************************************************************************)
(* The table with the nodes C in M has become T with the nodes D and the   *)
(* data W in R; no other allocated node has changed.                       *)
(***************************************************************************)
TableBecomes(M, C, R, T, D, W) ==
    /\ R \in Memory /\ R.fault = M.fault
    /\ R.used = (M.used \ NodesIn(C)) \cup NodesIn(D)
    /\ NodesIn(D) \cap (M.used \ NodesIn(C)) = {}
    /\ \A n \in M.used \ NodesIn(C) : R.cell[n] = M.cell[n]
    /\ TableHas(R, T, D, W)

\* The nodes of a table are allocated.
LEMMA NodesAllocated ==
    ASSUME NEW M \in Memory, NEW T, NEW C, NEW V, TableHas(M, T, C, V)
    PROVE  NodesIn(C) \subseteq M.used /\ ItemsIn(V) \subseteq Data
<1>1. DOMAIN C = DOMAIN T /\ DOMAIN V = DOMAIN T
  BY DEF TableHas
<1>. QED  BY <1>1, SlotIs DEF NodesIn, ItemsIn

\* A slot gets the list k, with the nodes e and the items s.
SlotBecomes(M, T, C, i, R, k, e, s) ==
    /\ Becomes(M, C[i], R, k, e, s)
    /\ k.owns /\ Injective(s) /\ \A d \in ToSet(s) : Slot(T, d) = i

\* Then the others are as they were.
LEMMA SlotChanges ==
    ASSUME NEW M \in Memory, NEW T, NEW C, NEW V, TableHas(M, T, C, V), NEW i \in DOMAIN T,
           NEW R, NEW k, NEW e, NEW s, SlotBecomes(M, T, C, i, R, k, e, s)
    PROVE  \E D, W : /\ TableBecomes(M, C, R, [T EXCEPT ![i] = k], D, W)
                     /\ ItemsIn(W) = (ItemsIn(V) \ V[i]) \cup ToSet(s)
<1>. DEFINE U == [T EXCEPT ![i] = k]
            D == [C EXCEPT ![i] = e]
            W == [V EXCEPT ![i] = ToSet(s)]
<1>1. /\ R \in Memory /\ Holds(R, k, e) /\ ItemsOf(R, e) = s /\ R.used = (M.used \ ToSet(C[i])) \cup ToSet(e)
      /\ ToSet(e) \cap (M.used \ ToSet(C[i])) = {}
      /\ \A n \in M.used \ ToSet(C[i]) : R.cell[n] = M.cell[n]
  BY DEF SlotBecomes, Becomes
<1>2. k \in List /\ k \in SlotValue /\ IsList(k)
  <2>1. k \in List
    BY <1>1 DEF Holds
  <2>. QED  BY <2>1, ListOrNot DEF SlotValue
<1>3. /\ DOMAIN C = DOMAIN T /\ DOMAIN V = DOMAIN T /\ DOMAIN U = DOMAIN T
      /\ DOMAIN D = DOMAIN T /\ DOMAIN W = DOMAIN T
  BY DEF TableHas
<1>4. IsTable(U)
  <2>1. PICK n \in Nat \ {0} : T \in [0 .. n - 1 -> SlotValue]
    BY DEF TableHas, IsTable
  <2>2. U \in [0 .. n - 1 -> SlotValue]
    BY <1>2, <2>1
  <2>. QED  BY <2>2 DEF IsTable
<1>5. \A d : Slot(U, d) = Slot(T, d)
  BY <1>3 DEF Slot, Size
<1>6. U[i] = k /\ \A j \in DOMAIN T : j # i => U[j] = T[j]
  OBVIOUS
<1>7. D[i] = e /\ W[i] = ToSet(s) /\ \A j \in DOMAIN T : j # i => D[j] = C[j] /\ W[j] = V[j]
  BY <1>3
<1>8. D = [j \in DOMAIN T |-> D[j]] /\ W = [j \in DOMAIN T |-> W[j]]
  BY <1>3
<1>. HIDE DEF U, D, W
<1>9. SlotHas(R, U, i, D[i], W[i])
  <2>1. ToSet(s) \subseteq Data
    <3>1. s \in Seq(Data)
      BY <1>1, ChainIs
    <3>. QED  BY <3>1 DEF ToSet
  <2>2. \A d \in ToSet(s) : Slot(U, d) = i
    BY <1>5 DEF SlotBecomes
  <2>3. k.owns /\ Injective(s)
    BY DEF SlotBecomes
  <2>. QED  BY <1>1, <1>2, <1>6, <1>7, <2>1, <2>2, <2>3 DEF SlotHas
<1>10. ASSUME NEW j \in DOMAIN T, j # i
       PROVE  SlotHas(R, U, j, D[j], W[j]) /\ ToSet(D[j]) \cap ToSet(e) = {}
  <2>1. ToSet(C[j]) \subseteq M.used \ ToSet(C[i])
    BY <1>10, SlotIs, SlotsDiffer
  <2>2. ToSet(C[j]) \subseteq R.used /\ \A n \in ToSet(C[j]) : R.cell[n] = M.cell[n]
    BY <1>1, <2>1
  <2>3. SlotHas(M, T, j, C[j], V[j])
    BY DEF TableHas
  <2>4. CASE IsList(T[j])
    <3>1. Holds(R, T[j], C[j]) /\ ItemsOf(R, C[j]) = ItemsOf(M, C[j])
      BY <1>1, <2>2, <2>3, <2>4, Untouched DEF SlotHas
    <3>. QED  BY <1>1, <1>5, <1>6, <1>7, <1>10, <2>1, <2>3, <2>4, <3>1 DEF SlotHas
  <2>5. CASE ~IsList(T[j])
    <3>1. C[j] = << >>
      BY <2>3, <2>5 DEF SlotHas
    <3>2. ItemsOf(M, << >>) = << >> /\ ItemsOf(R, << >>) = << >>
      BY DEF ItemsOf
    <3>. QED  BY <1>1, <1>5, <1>6, <1>7, <1>10, <2>1, <2>3, <2>5, <3>1, <3>2 DEF SlotHas
  <2>. QED  BY <2>4, <2>5
<1>11. \A j, h \in DOMAIN T : j # h => ToSet(D[j]) \cap ToSet(D[h]) = {}
  <2>1. SUFFICES ASSUME NEW j \in DOMAIN T, NEW h \in DOMAIN T, j # h
                 PROVE  ToSet(D[j]) \cap ToSet(D[h]) = {}
    OBVIOUS
  <2>2. CASE j = i \/ h = i
    BY <1>7, <1>10, <2>1, <2>2
  <2>3. CASE j # i /\ h # i
    BY <1>7, <2>1, <2>3 DEF TableHas
  <2>. QED  BY <2>2, <2>3
<1>12. TableHas(R, U, D, W)
  BY <1>3, <1>4, <1>8, <1>9, <1>10, <1>11 DEF TableHas
<1>13. NodesIn(D) = (NodesIn(C) \ ToSet(C[i])) \cup ToSet(e)
  <2>1. \A j \in DOMAIN T : j # i => ToSet(C[j]) \cap ToSet(C[i]) = {}
    BY SlotsDiffer
  <2>. QED  BY <1>3, <1>7, <2>1 DEF NodesIn
<1>14. ItemsIn(W) = (ItemsIn(V) \ V[i]) \cup ToSet(s)
  <2>1. \A j \in DOMAIN T : j # i => V[j] \cap V[i] = {}
    BY SlotsDiffer
  <2>. QED  BY <1>3, <1>7, <2>1 DEF ItemsIn
<1>15. NodesIn(C) \subseteq M.used /\ ToSet(C[i]) \subseteq NodesIn(C) /\ R.fault = M.fault
  BY <1>3, NodesAllocated DEF NodesIn, SlotBecomes, Becomes
<1>16. TableBecomes(M, C, R, U, D, W)
  <2>1. /\ R.used = (M.used \ NodesIn(C)) \cup NodesIn(D)
        /\ NodesIn(D) \cap (M.used \ NodesIn(C)) = {}
        /\ \A n \in M.used \ NodesIn(C) : R.cell[n] = M.cell[n]
    BY <1>1, <1>13, <1>15
  <2>. QED  BY <1>1, <1>12, <1>15, <2>1 DEF TableBecomes
<1>. QED  BY <1>14, <1>16 DEF U

-----------------------------------------------------------------------------
(* Insertion                                                               *)

\* Two changes of a table, one after the other.
LEMMA TableBecomesTwice ==
    ASSUME NEW M, NEW C, NEW R, NEW T, NEW D, NEW W, TableBecomes(M, C, R, T, D, W),
           NEW Q, NEW U, NEW E, NEW X, TableBecomes(R, D, Q, U, E, X)
    PROVE  TableBecomes(M, C, Q, U, E, X)
<1>1. M.used \ NodesIn(C) = R.used \ NodesIn(D)
  BY DEF TableBecomes
<1>. QED  BY <1>1 DEF TableBecomes

\* A change of no cell of the table.
LEMMA TableStays ==
    ASSUME NEW M \in Memory, NEW T, NEW C, NEW V, TableHas(M, T, C, V),
           NEW R \in Memory, R.used = M.used, R.cell = M.cell, R.fault = M.fault
    PROVE  TableBecomes(M, C, R, T, C, V)
<1>1. NodesIn(C) \subseteq M.used
  BY NodesAllocated
<1>2. TableHas(R, T, C, V)
  BY <1>1, TableUntouched
<1>. QED  BY <1>1, <1>2 DEF TableBecomes

\* What _ht_insert does: it stops at a Junk slot, or d joins the table's data
\* when it was not there, or the table has the data it had.
Inserted(M, T, C, V, d, s) ==
    /\ s.err \in {"ok", "ENOMEM", "EEXIST"} /\ s.m.live = M.live /\ DOMAIN s.t = DOMAIN T
    /\ s.err = "ok" => d \notin ItemsIn(V)
    /\ s.err = "EEXIST" => d \in ItemsIn(V)
    /\ \E D, W : /\ TableBecomes(M, C, s.m, s.t, D, W)
                 /\ ItemsIn(W) = IF s.err = "ok" THEN ItemsIn(V) \cup {d} ELSE ItemsIn(V)

\* d is in the table exactly when it is in its slot.
LEMMA InItsSlot ==
    ASSUME NEW M \in Memory, NEW T, NEW C, NEW V, TableHas(M, T, C, V), NEW d \in Data
    PROVE  Slot(T, d) \in DOMAIN T /\ (d \in ItemsIn(V) <=> d \in V[Slot(T, d)])
<1>1. Slot(T, d) \in DOMAIN T /\ DOMAIN V = DOMAIN T
  BY TableSize DEF TableHas
<1>. QED  BY <1>1, SlotIs DEF ItemsIn

\* The list is there.
LEMMA IntoList ==
    ASSUME NEW M \in Memory, NEW T, NEW C, NEW V, TableHas(M, T, C, V), NEW d \in Data,
           NEW i, i = Slot(T, d), IsList(T[i])
    PROVE  Inserted(M, T, C, V, d, Into(Result(M, T[i], "ok"), T, i, d))
<1>. DEFINE r == ll_insert(M, T[i], d)
            s == Into(Result(M, T[i], "ok"), T, i, d)
            items == ItemsOf(M, C[i])
<1>1. i \in DOMAIN T /\ (d \in ItemsIn(V) <=> d \in V[i])
  BY InItsSlot
<1>2. /\ Holds(M, T[i], C[i]) /\ T[i].owns /\ V[i] = ToSet(items) /\ Injective(items)
      /\ items \in Seq(Data) /\ \A x \in V[i] : Slot(T, x) = i
  BY <1>1, SlotIs
<1>3. InsertOutcome(M, T[i], C[i], d, r)
  BY <1>2, InsertStep
<1>4. s = State(r.m, [T EXCEPT ![i] = r.l], r.err)
  BY DEF Into, Result
<1>. HIDE DEF r, s
<1>5. s.m = r.m /\ s.t = [T EXCEPT ![i] = r.l] /\ s.err = r.err /\ DOMAIN s.t = DOMAIN T
  BY <1>4 DEF State
<1>6. V[i] \subseteq ItemsIn(V)
  BY <1>1 DEF ItemsIn, TableHas
<1>7. [T EXCEPT ![i] = T[i]] = T
  <2>1. IsTable(T)
    BY DEF TableHas
  <2>. QED  BY <1>1, <2>1, TableSize
<1>8. CASE r.err = "ENOMEM" /\ r.m = M /\ r.l = T[i]
  <2>1. TableBecomes(M, C, M, T, C, V)
    BY TableStays
  <2>. QED  BY <1>5, <1>7, <1>8, <2>1 DEF Inserted, s
<1>9. CASE r.err = "EEXIST" /\ r.m = Spend(M) /\ M.budget > 0 /\ r.l = T[i] /\ d \in ToSet(items)
  <2>1. /\ Spend(M) \in Memory /\ Spend(M).used = M.used /\ Spend(M).fault = M.fault
        /\ Spend(M).cell = M.cell /\ Spend(M).live = M.live
    BY <1>9, SpendStep
  <2>2. TableBecomes(M, C, Spend(M), T, C, V)
    BY <2>1, TableStays
  <2>. QED  BY <1>1, <1>2, <1>5, <1>7, <1>9, <2>1, <2>2 DEF Inserted, s
<1>10. CASE /\ r.err = "ok" /\ d \notin ToSet(items) /\ r.l.owns = T[i].owns /\ r.m.live = M.live
            /\ \E e : Becomes(M, C[i], r.m, r.l, e, Append(items, d))
  <2>1. PICK e : Becomes(M, C[i], r.m, r.l, e, Append(items, d))
    BY <1>10
  <2>. DEFINE u == Append(items, d)
  <2>2. /\ u \in Seq(Data) /\ Len(u) = Len(items) + 1 /\ u[Len(items) + 1] = d
        /\ (\A j \in 1 .. Len(items) : u[j] = items[j]) /\ ToSet(u) = ToSet(items) \cup {d}
    BY <1>2, Added
  <2>3. Injective(u)
    <3>1. \A j \in 1 .. Len(items) : items[j] # d
      BY <1>2, <1>10 DEF ToSet
    <3>2. Len(items) \in Nat /\ \A j \in 1 .. Len(items) + 1 : j \in 1 .. Len(items) \/ j = Len(items) + 1
      BY <1>2
    <3>. HIDE DEF u
    <3>. QED  BY <1>2, <2>2, <3>1, <3>2 DEF Injective
  <2>4. \A x \in ToSet(u) : Slot(T, x) = i
    BY <1>2, <2>2
  <2>5. SlotBecomes(M, T, C, i, r.m, r.l, e, u)
    BY <1>2, <1>10, <2>1, <2>3, <2>4 DEF SlotBecomes
  <2>. HIDE DEF u
  <2>6. PICK D, W : /\ TableBecomes(M, C, r.m, [T EXCEPT ![i] = r.l], D, W)
                    /\ ItemsIn(W) = (ItemsIn(V) \ V[i]) \cup ToSet(u)
    BY <1>1, <2>5, SlotChanges
  <2>7. ItemsIn(W) = ItemsIn(V) \cup {d}
    BY <1>2, <1>6, <2>2, <2>6
  <2>. QED  BY <1>1, <1>2, <1>5, <1>10, <2>6, <2>7 DEF Inserted, s
<1>. QED  BY <1>3, <1>8, <1>9, <1>10 DEF InsertOutcome, s

\* _ht_insert.
LEMMA InsertIntoTable ==
    ASSUME NEW M \in Memory, NEW T, NEW C, NEW V, TableHas(M, T, C, V), NEW d \in Data
    PROVE  \/ _ht_insert(M, T, d) = State(M, T, "crash")
           \/ Inserted(M, T, C, V, d, _ht_insert(M, T, d))
<1>. DEFINE i == Slot(T, d)
            s == _ht_insert(M, T, d)
<1>1. i \in DOMAIN T /\ T[i] \in SlotValue /\ (d \in ItemsIn(V) <=> d \in V[i])
  BY InItsSlot, TableSize DEF TableHas
<1>2. CASE T[i] = Junk
  <2>1. s = State(M, T, "crash")
    BY <1>1, <1>2, ListOrNot DEF _ht_insert
  <2>. QED  BY <2>1
<1>3. CASE IsList(T[i])
  <2>1. s = Into(Result(M, T[i], "ok"), T, i, d)
    BY <1>3 DEF _ht_insert, IsList
  <2>. QED  BY <1>3, <2>1, IntoList
<1>4. CASE T[i] = NULL
  <2>1. s = Into(ll_create(M, TRUE), T, i, d)
    BY <1>1, <1>4, ListOrNot DEF _ht_insert
  <2>2. CASE ~(M.budget > 0)
    <3>1. s = State(M, T, "ENOMEM")
      BY <2>1, <2>2 DEF ll_create, Into, Result
    <3>2. TableBecomes(M, C, M, T, C, V)
      BY TableStays
    <3>. QED  BY <3>1, <3>2 DEF Inserted, State
  <2>3. CASE M.budget > 0
    <3>. DEFINE R == Spend(M)
                l == NewList(TRUE)
                U == [T EXCEPT ![i] = l]
    <3>1. /\ Becomes(M, << >>, R, l, << >>, << >>) /\ R.live = M.live /\ l.owns = TRUE
          /\ R \in Memory
      BY <2>3, NewListStep, SpendStep
    <3>2. C[i] = << >> /\ V[i] = {}
      BY <1>1, <1>4, SlotIs DEF IsList
    <3>3. ToSet(<< >>) = {} /\ Injective(<< >>)
      BY DEF ToSet, Injective
    <3>4. SlotBecomes(M, T, C, i, R, l, << >>, << >>)
      BY <3>1, <3>2, <3>3 DEF SlotBecomes
    <3>. HIDE DEF R, l, i
    <3>5. PICK D, W : /\ TableBecomes(M, C, R, U, D, W)
                      /\ ItemsIn(W) = (ItemsIn(V) \ V[i]) \cup ToSet(<< >>)
      BY <1>1, <3>4, SlotChanges
    <3>6. ItemsIn(W) = ItemsIn(V) /\ TableHas(R, U, D, W)
      BY <3>2, <3>3, <3>5 DEF TableBecomes
    <3>7. U[i] = l /\ DOMAIN U = DOMAIN T /\ Slot(U, d) = i
      BY <1>1 DEF Slot, Size, i
    <3>8. IsList(U[i])
      <4>1. l \in List
        BY DEF l, NewList, List
      <4>. QED  BY <3>7, <4>1, ListOrNot DEF SlotValue
    <3>9. Inserted(R, U, D, W, d, Into(Result(R, U[i], "ok"), U, i, d))
      BY <3>1, <3>6, <3>7, <3>8, IntoList
    <3>10. s = Into(Result(R, U[i], "ok"), U, i, d)
      <4>1. s = Into(Result(R, l, "ok"), T, i, d)
        BY <2>1, <2>3 DEF ll_create, R, l
      <4>2. \A x : [U EXCEPT ![i] = x] = [T EXCEPT ![i] = x]
        BY <1>1
      <4>. QED  BY <3>7, <4>1, <4>2 DEF Into, Result
    <3>. HIDE DEF s, U
    <3>11. Inserted(R, U, D, W, d, s)
      BY <3>9, <3>10
    <3>12. PICK E, X : /\ TableBecomes(R, D, s.m, s.t, E, X)
                       /\ ItemsIn(X) = IF s.err = "ok" THEN ItemsIn(W) \cup {d} ELSE ItemsIn(W)
      BY <3>11 DEF Inserted
    <3>13. TableBecomes(M, C, s.m, s.t, E, X)
      BY <3>5, <3>12, TableBecomesTwice
    <3>14. Inserted(M, T, C, V, d, s)
      BY <3>1, <3>6, <3>7, <3>11, <3>12, <3>13 DEF Inserted
    <3>. QED  BY <3>14 DEF s
  <2>. QED  BY <2>2, <2>3
<1>. QED  BY <1>1, <1>2, <1>3, <1>4, ListOrNot

-----------------------------------------------------------------------------
(* The loops: each stays in the sets P[0], P[1], ... that its body leads   *)
(* from one to the next                                                    *)

\* The loop of ht_destroy_table.
FreeCarries(P, T, keep) ==
    \A i \in 1 .. Size(T) : \A h \in P[i - 1] : FreeSlot(h, T[i - 1], keep) \in P[i]

\* It ends in the last of them.
LEMMA FreedIn ==
    ASSUME NEW M, NEW T, NEW keep, NEW P, M \in P[0],
           Size(T) \in Nat, FreeCarries(P, T, keep)
    PROVE  ht_destroy_table(M, T, keep).m \in P[Size(T)]
<1>. DEFINE n == Size(T)
            F == [i \in 1 .. n |-> [h \in P[i - 1] |-> FreeSlot(h, T[i - 1], keep)]]
            Solves(f) == f = [i \in 0 .. n |-> IF i = 0 THEN M ELSE FreeSlot(f[i - 1], T[i - 1], keep)]
<1>1. Carries(F, P, n)
  BY DEF Carries, FreeCarries
<1>2. \A i \in 1 .. n : i - 1 \in 0 .. n /\ i \in 0 .. n /\ i # 0
  OBVIOUS
<1>3. \E f : Solves(f)
  <2>1. PICK g : /\ g = [i \in 0 .. n |-> g[i]] /\ Iterates(g, M, F, n)
                 /\ \A i \in 0 .. n : g[i] \in P[i]
    <3>. HIDE DEF F
    <3>. QED  BY <1>1, IteratedIn
  <2>2. g[0] = M /\ \A i \in 1 .. n : g[i] = FreeSlot(g[i - 1], T[i - 1], keep)
    BY <1>2, <2>1 DEF Iterates
  <2>3. \A i \in 0 .. n : i = 0 \/ i \in 1 .. n
    OBVIOUS
  <2>4. Solves(g)
    BY <2>1, <2>2, <2>3
  <2>. QED  BY <2>4
<1>. DEFINE f == CHOOSE f : Solves(f)
<1>4. Solves(f)
  <2>. HIDE DEF Solves
  <2>. QED  BY <1>3
<1>5. ht_destroy_table(M, T, keep).m = f[n]
  BY DEF ht_destroy_table, State
<1>. HIDE DEF f
<1>6. f[0] = M /\ \A i \in 1 .. n : f[i] = FreeSlot(f[i - 1], T[i - 1], keep)
  <2>1. 0 \in 0 .. n
    OBVIOUS
  <2>. QED  BY <1>2, <1>4, <2>1
<1>7. \A i \in 1 .. n : f[i - 1] \in P[i - 1] => f[i] = F[i][f[i - 1]]
  BY <1>2, <1>6
<1>8. \A i \in 0 .. n : f[i] \in P[i]
  <2>. HIDE DEF F, Solves
  <2>. QED  BY <1>1, <1>6, <1>7, IteratesIn
<1>. QED  BY <1>5, <1>8

\* The loop of ht_iterate.
WalkCarries(P, M, T) ==
    \A i \in 1 .. Size(T) : \A h \in P[i - 1] : h \o ItemsAt(M, T[i - 1]) \in P[i]

\* It ends in the last of them.
LEMMA WalkedIn ==
    ASSUME NEW M, NEW T, NEW P, << >> \in P[0],
           Size(T) \in Nat, WalkCarries(P, M, T)
    PROVE  Walked(M, T) \in P[Size(T)]
<1>. DEFINE n == Size(T)
            F == [i \in 1 .. n |-> [h \in P[i - 1] |-> h \o ItemsAt(M, T[i - 1])]]
            Solves(f) == f = [i \in 0 .. n |-> IF i = 0 THEN << >> ELSE f[i - 1] \o ItemsAt(M, T[i - 1])]
<1>1. Carries(F, P, n)
  BY DEF Carries, WalkCarries
<1>2. \A i \in 1 .. n : i - 1 \in 0 .. n /\ i \in 0 .. n /\ i # 0
  OBVIOUS
<1>3. \E f : Solves(f)
  <2>1. PICK g : /\ g = [i \in 0 .. n |-> g[i]] /\ Iterates(g, << >>, F, n)
                 /\ \A i \in 0 .. n : g[i] \in P[i]
    <3>. HIDE DEF F
    <3>. QED  BY <1>1, IteratedIn
  <2>2. g[0] = << >> /\ \A i \in 1 .. n : g[i] = g[i - 1] \o ItemsAt(M, T[i - 1])
    BY <1>2, <2>1 DEF Iterates
  <2>3. \A i \in 0 .. n : i = 0 \/ i \in 1 .. n
    OBVIOUS
  <2>4. Solves(g)
    BY <2>1, <2>2, <2>3
  <2>. QED  BY <2>4
<1>. DEFINE f == CHOOSE f : Solves(f)
<1>4. Solves(f)
  <2>. HIDE DEF Solves
  <2>. QED  BY <1>3
<1>5. Walked(M, T) = f[n]
  BY DEF Walked
<1>. HIDE DEF f
<1>6. f[0] = << >> /\ \A i \in 1 .. n : f[i] = f[i - 1] \o ItemsAt(M, T[i - 1])
  <2>1. 0 \in 0 .. n
    OBVIOUS
  <2>. QED  BY <1>2, <1>4, <2>1
<1>7. \A i \in 1 .. n : f[i - 1] \in P[i - 1] => f[i] = F[i][f[i - 1]]
  BY <1>2, <1>6
<1>8. \A i \in 0 .. n : f[i] \in P[i]
  <2>. HIDE DEF F, Solves
  <2>. QED  BY <1>1, <1>6, <1>7, IteratesIn
<1>. QED  BY <1>5, <1>8

\* The loop of ht_check.
SumCarries(P, T) ==
    \A i \in 1 .. Size(T) : \A h \in P[i - 1] : h + (IF IsList(T[i - 1]) THEN T[i - 1].nnodes ELSE 0) \in P[i]

\* It ends in the last of them.
LEMMA SummedIn ==
    ASSUME NEW T, NEW P, 0 \in P[0],
           Size(T) \in Nat, SumCarries(P, T)
    PROVE  Nnodes(T) \in P[Size(T)]
<1>. DEFINE n == Size(T)
            F == [i \in 1 .. n |-> [h \in P[i - 1] |-> h + (IF IsList(T[i - 1]) THEN T[i - 1].nnodes ELSE 0)]]
            Solves(f) == f = [i \in 0 .. n |-> IF i = 0 THEN 0 ELSE f[i - 1] + (IF IsList(T[i - 1]) THEN T[i - 1].nnodes ELSE 0)]
<1>1. Carries(F, P, n)
  BY DEF Carries, SumCarries
<1>2. \A i \in 1 .. n : i - 1 \in 0 .. n /\ i \in 0 .. n /\ i # 0
  OBVIOUS
<1>3. \E f : Solves(f)
  <2>1. PICK g : /\ g = [i \in 0 .. n |-> g[i]] /\ Iterates(g, 0, F, n)
                 /\ \A i \in 0 .. n : g[i] \in P[i]
    <3>. HIDE DEF F
    <3>. QED  BY <1>1, IteratedIn
  <2>2. g[0] = 0 /\ \A i \in 1 .. n : g[i] = g[i - 1] + (IF IsList(T[i - 1]) THEN T[i - 1].nnodes ELSE 0)
    BY <1>2, <2>1 DEF Iterates
  <2>3. \A i \in 0 .. n : i = 0 \/ i \in 1 .. n
    OBVIOUS
  <2>4. Solves(g)
    BY <2>1, <2>2, <2>3
  <2>. QED  BY <2>4
<1>. DEFINE f == CHOOSE f : Solves(f)
<1>4. Solves(f)
  <2>. HIDE DEF Solves
  <2>. QED  BY <1>3
<1>5. Nnodes(T) = f[n]
  BY DEF Nnodes
<1>. HIDE DEF f
<1>6. f[0] = 0 /\ \A i \in 1 .. n : f[i] = f[i - 1] + (IF IsList(T[i - 1]) THEN T[i - 1].nnodes ELSE 0)
  <2>1. 0 \in 0 .. n
    OBVIOUS
  <2>. QED  BY <1>2, <1>4, <2>1
<1>7. \A i \in 1 .. n : f[i - 1] \in P[i - 1] => f[i] = F[i][f[i - 1]]
  BY <1>2, <1>6
<1>8. \A i \in 0 .. n : f[i] \in P[i]
  <2>. HIDE DEF F, Solves
  <2>. QED  BY <1>1, <1>6, <1>7, IteratesIn
<1>. QED  BY <1>5, <1>8

\* The loop of ht_resize.
MigrateCarries(P, M, T) ==
    \A i \in 1 .. Len(Walked(M, T)) : \A h \in P[i - 1] : ht_resize_migrate_cb(h, Walked(M, T)[i]) \in P[i]

\* It ends in the last of them.
LEMMA MigratedIn ==
    ASSUME NEW M, NEW T, NEW new, NEW P, State(M, new, "ok") \in P[0],
           Len(Walked(M, T)) \in Nat, MigrateCarries(P, M, T)
    PROVE  Migrated(M, T, new) \in P[Len(Walked(M, T))]
<1>. DEFINE n == Len(Walked(M, T))
            F == [i \in 1 .. n |-> [h \in P[i - 1] |-> ht_resize_migrate_cb(h, Walked(M, T)[i])]]
            Solves(f) == f = [i \in 0 .. n |-> IF i = 0 THEN State(M, new, "ok") ELSE ht_resize_migrate_cb(f[i - 1], Walked(M, T)[i])]
<1>1. Carries(F, P, n)
  BY DEF Carries, MigrateCarries
<1>2. \A i \in 1 .. n : i - 1 \in 0 .. n /\ i \in 0 .. n /\ i # 0
  OBVIOUS
<1>3. \E f : Solves(f)
  <2>1. PICK g : /\ g = [i \in 0 .. n |-> g[i]] /\ Iterates(g, State(M, new, "ok"), F, n)
                 /\ \A i \in 0 .. n : g[i] \in P[i]
    <3>. HIDE DEF F
    <3>. QED  BY <1>1, IteratedIn
  <2>2. g[0] = State(M, new, "ok") /\ \A i \in 1 .. n : g[i] = ht_resize_migrate_cb(g[i - 1], Walked(M, T)[i])
    BY <1>2, <2>1 DEF Iterates
  <2>3. \A i \in 0 .. n : i = 0 \/ i \in 1 .. n
    OBVIOUS
  <2>4. Solves(g)
    BY <2>1, <2>2, <2>3
  <2>. QED  BY <2>4
<1>. DEFINE f == CHOOSE f : Solves(f)
<1>4. Solves(f)
  <2>. HIDE DEF Solves
  <2>. QED  BY <1>3
<1>5. Migrated(M, T, new) = f[n]
  BY DEF Migrated
<1>. HIDE DEF f
<1>6. f[0] = State(M, new, "ok") /\ \A i \in 1 .. n : f[i] = ht_resize_migrate_cb(f[i - 1], Walked(M, T)[i])
  <2>1. 0 \in 0 .. n
    OBVIOUS
  <2>. QED  BY <1>2, <1>4, <2>1
<1>7. \A i \in 1 .. n : f[i - 1] \in P[i - 1] => f[i] = F[i][f[i - 1]]
  BY <1>2, <1>6
<1>8. \A i \in 0 .. n : f[i] \in P[i]
  <2>. HIDE DEF F, Solves
  <2>. QED  BY <1>1, <1>6, <1>7, IteratesIn
<1>. QED  BY <1>5, <1>8

-----------------------------------------------------------------------------
(* Destroying a table                                                      *)

\* R is M without the nodes C and, unless it is kept, the data V.
TableGone(M, C, V, keep, R) ==
    /\ R \in Memory /\ R.fault = M.fault
    /\ R.used = M.used \ NodesIn(C)
    /\ R.live = IF keep THEN M.live ELSE M.live \ ItemsIn(V)
    /\ \A n \in Node \ NodesIn(C) : R.cell[n] = M.cell[n]

\* Taking the destructor from a list changes nothing else.
LEMMA WithoutDestructor ==
    ASSUME NEW M, NEW l, NEW c, Holds(M, l, c), l.owns, NEW keep \in BOOLEAN
    PROVE  /\ Holds(M, [l EXCEPT !.owns = l.owns /\ ~keep], c)
           /\ [l EXCEPT !.owns = l.owns /\ ~keep].owns = ~keep
<1>. DEFINE k == [l EXCEPT !.owns = l.owns /\ ~keep]
<1>1. l \in List /\ (l.owns /\ ~keep) \in BOOLEAN /\ l.root \in Node \cup {NULL} /\ l.nnodes \in Nat
  BY DEF Holds, List
<1>2. k \in List /\ k.root = l.root /\ k.nnodes = l.nnodes /\ k.owns = (l.owns /\ ~keep)
  BY <1>1 DEF List
<1>. HIDE DEF k
<1>3. Holds(M, k, c) /\ k.owns = ~keep
  BY <1>2 DEF Holds
<1>. QED  BY <1>3 DEF k

(* ht_destroy_table frees every node of the table once, and its data only  *)
(* if it is not to be kept.                                                *)
LEMMA DestroyTableStep ==
    ASSUME NEW M \in Memory, NEW T, NEW C, NEW V, TableHas(M, T, C, V), NEW keep \in BOOLEAN,
           ~keep => ItemsIn(V) \subseteq M.live
    PROVE  TableGone(M, C, V, keep, ht_destroy_table(M, T, keep).m)
<1>. DEFINE n == Size(T)
            Nodes(i) == UNION {ToSet(C[j]) : j \in 0 .. i - 1}
            Datas(i) == UNION {V[j] : j \in 0 .. i - 1}
            Left(i) == {R \in Memory :
                          /\ R.fault = M.fault /\ R.used = M.used \ Nodes(i)
                          /\ R.live = IF keep THEN M.live ELSE M.live \ Datas(i)
                          /\ \A m \in Node \ Nodes(i) : R.cell[m] = M.cell[m]}
            P == [i \in 0 .. n |-> Left(i)]
<1>1. n \in Nat \ {0} /\ DOMAIN T = 0 .. n - 1 /\ DOMAIN C = 0 .. n - 1 /\ DOMAIN V = 0 .. n - 1
  BY TableSize DEF TableHas
<1>. HIDE DEF n
<1>2. M \in Left(0)
  <2>1. Nodes(0) = {} /\ Datas(0) = {}
    OBVIOUS
  <2>. HIDE DEF Nodes, Datas
  <2>. QED  BY <2>1
<1>3. ASSUME NEW i \in 1 .. n, NEW R \in Left(i - 1)
      PROVE  FreeSlot(R, T[i - 1], keep) \in Left(i)
  <2>. DEFINE x == i - 1
              Q == FreeSlot(R, T[i - 1], keep)
  <2>1. x \in DOMAIN T /\ \A j \in 0 .. x - 1 : j \in DOMAIN T /\ j # x
    BY <1>1
  <2>2. Nodes(i) = Nodes(x) \cup ToSet(C[x]) /\ Datas(i) = Datas(x) \cup V[x]
    <3>1. 0 .. i - 1 = (0 .. x - 1) \cup {x}
      OBVIOUS
    <3>. QED  BY <3>1
  <2>3. ToSet(C[x]) \cap Nodes(x) = {} /\ V[x] \cap Datas(x) = {}
    BY <2>1, SlotsDiffer
  <2>. HIDE DEF Nodes, Datas
  <2>4. R \in Memory /\ R \in Left(x)
    OBVIOUS
  <2>5. CASE ~IsList(T[x])
    <3>1. ToSet(C[x]) = {} /\ V[x] = {}
      <4>1. ToSet(<< >>) = {}
        BY DEF ToSet
      <4>. QED  BY <2>1, <2>5, <4>1, SlotIs
    <3>2. Q = R /\ Nodes(i) = Nodes(x) /\ Datas(i) = Datas(x)
      BY <2>2, <2>5, <3>1 DEF FreeSlot
    <3>. QED  BY <2>4, <3>2
  <2>6. CASE IsList(T[x])
    <3>. DEFINE k == [T[x] EXCEPT !.owns = T[x].owns /\ ~keep]
                c == C[x]
    <3>1. /\ Holds(M, T[x], c) /\ T[x].owns /\ ToSet(c) \subseteq M.used /\ ToSet(c) \subseteq Node
          /\ V[x] = ToSet(ItemsOf(M, c)) /\ Injective(ItemsOf(M, c))
      BY <2>1, <2>6, SlotIs, ChainIs
    <3>2. ToSet(c) \subseteq R.used /\ \A m \in ToSet(c) : R.cell[m] = M.cell[m]
      BY <2>3, <3>1
    <3>3. Holds(R, T[x], c) /\ ItemsOf(R, c) = ItemsOf(M, c)
      BY <2>4, <3>1, <3>2, Untouched
    <3>4. Holds(R, k, c) /\ k.owns = ~keep
      BY <3>1, <3>3, WithoutDestructor
    <3>5. V[x] \subseteq ItemsIn(V)
      BY <1>1, <2>1 DEF ItemsIn
    <3>6. ~keep => V[x] \subseteq R.live
      BY <2>3, <2>4, <3>5
    <3>. HIDE DEF k
    <3>7. OwnsItems(R, k, c)
      BY <3>1, <3>3, <3>4, <3>6 DEF OwnsItems
    <3>8. ListGone(R, k, c, ll_destroy(R, k))
      BY <2>4, <3>4, <3>7, DestroyStep
    <3>9. Q = ll_destroy(R, k)
      BY <2>6 DEF FreeSlot, k
    <3>. HIDE DEF Q
    <3>10. /\ Q \in Memory /\ Q.used = R.used \ ToSet(c) /\ Q.fault = R.fault
           /\ Q.live = Spared(R, k, V[x]) /\ \A m \in Node \ ToSet(c) : Q.cell[m] = R.cell[m]
      BY <3>1, <3>3, <3>8, <3>9 DEF ListGone
    <3>11. Q.live = IF keep THEN M.live ELSE M.live \ Datas(i)
      BY <2>2, <2>4, <3>4, <3>10 DEF Spared
    <3>12. Q.used = M.used \ Nodes(i) /\ \A m \in Node \ Nodes(i) : Q.cell[m] = M.cell[m]
      BY <2>2, <2>4, <3>10
    <3>13. Q \in Left(i)
      BY <2>4, <3>10, <3>11, <3>12
    <3>. QED  BY <3>13 DEF Q
  <2>. QED  BY <2>5, <2>6
<1>. HIDE DEF Left
<1>4. \A i \in 1 .. n : i - 1 \in 0 .. n /\ i \in 0 .. n
  BY <1>1
<1>5. FreeCarries(P, T, keep) /\ M \in P[0] /\ P[n] = Left(n)
  <2>1. 0 \in 0 .. n /\ n \in 0 .. n
    BY <1>1
  <2>. QED  BY <1>2, <1>3, <1>4, <2>1 DEF FreeCarries, n
<1>6. ht_destroy_table(M, T, keep).m \in Left(n)
  <2>. HIDE DEF P
  <2>. QED  BY <1>1, <1>5, FreedIn DEF n
<1>7. Nodes(n) = NodesIn(C) /\ Datas(n) = ItemsIn(V)
  BY <1>1 DEF NodesIn, ItemsIn
<1>. QED  BY <1>6, <1>7 DEF Left, TableGone

-----------------------------------------------------------------------------
(* Walking a table                                                         *)

\* What putting e after c gives.
LEMMA Joined ==
    ASSUME NEW S, NEW c \in Seq(S), NEW e \in Seq(S)
    PROVE  /\ c \o e \in Seq(S) /\ Len(c \o e) = Len(c) + Len(e)
           /\ \A i \in 1 .. Len(c) : (c \o e)[i] = c[i]
           /\ \A i \in 1 .. Len(e) : (c \o e)[Len(c) + i] = e[i]
           /\ \A i \in 1 .. Len(c \o e) : i \in 1 .. Len(c) \/ \E j \in 1 .. Len(e) : i = Len(c) + j
           /\ ToSet(c \o e) = ToSet(c) \cup ToSet(e)
<1>. DEFINE w == c \o e
<1>1. Len(c) \in Nat /\ Len(e) \in Nat /\ DOMAIN c = 1 .. Len(c) /\ DOMAIN e = 1 .. Len(e)
  OBVIOUS
<1>2. w \in Seq(S) /\ Len(w) = Len(c) + Len(e)
  OBVIOUS
<1>3. \A i \in 1 .. Len(c) : w[i] = c[i]
  OBVIOUS
<1>4. \A i \in 1 .. Len(e) : w[Len(c) + i] = e[i]
  OBVIOUS
<1>. HIDE DEF w
<1>5. \A i \in 1 .. Len(w) : i \in 1 .. Len(c) \/ \E j \in 1 .. Len(e) : i = Len(c) + j
  <2>1. SUFFICES ASSUME NEW i \in 1 .. Len(w), ~(i \in 1 .. Len(c))
                 PROVE  \E j \in 1 .. Len(e) : i = Len(c) + j
    OBVIOUS
  <2>2. i - Len(c) \in 1 .. Len(e) /\ i = Len(c) + (i - Len(c))
    BY <1>1, <1>2, <2>1
  <2>. QED  BY <2>2
<1>6. ToSet(w) = ToSet(c) \cup ToSet(e)
  <2>1. DOMAIN w = 1 .. Len(w)
    BY <1>2
  <2>2. (\A i \in 1 .. Len(c) : i \in 1 .. Len(w)) /\ \A i \in 1 .. Len(e) : Len(c) + i \in 1 .. Len(w)
    BY <1>1, <1>2
  <2>3. ASSUME NEW x \in ToSet(w)  PROVE x \in ToSet(c) \cup ToSet(e)
    <3>1. PICK i \in 1 .. Len(w) : x = w[i]
      BY <2>1 DEF ToSet
    <3>2. CASE i \in 1 .. Len(c)
      BY <1>1, <1>3, <3>1, <3>2 DEF ToSet
    <3>3. CASE \E j \in 1 .. Len(e) : i = Len(c) + j
      BY <1>1, <1>4, <3>1, <3>3 DEF ToSet
    <3>. QED  BY <1>5, <3>2, <3>3
  <2>4. ASSUME NEW x \in ToSet(c)  PROVE x \in ToSet(w)
    BY <1>1, <1>3, <2>1, <2>2 DEF ToSet
  <2>5. ASSUME NEW x \in ToSet(e)  PROVE x \in ToSet(w)
    BY <1>1, <1>4, <2>1, <2>2 DEF ToSet
  <2>. QED  BY <2>3, <2>4, <2>5
<1>. QED  BY <1>2, <1>3, <1>4, <1>5, <1>6 DEF w

\* w is what ht_iterate finds in the first n slots of T: the data, each once, and
\* the Junk.
Finds(w, T, V, n) ==
    /\ w \in Seq(Data \cup {Junk})
    /\ \A x : x \in ToSet(w) <=> \E j \in 0 .. n - 1 : x \in V[j] \/ (x = Junk /\ T[j] = Junk)
    /\ \A i, j \in 1 .. Len(w) : w[i] = w[j] /\ w[i] # Junk => i = j

\* What a slot adds to it.
LEMMA FindsMore ==
    ASSUME NEW M \in Memory, NEW T, NEW C, NEW V, TableHas(M, T, C, V),
           NEW n \in 1 .. Size(T), NEW w, Finds(w, T, V, n - 1)
    PROVE  Finds(w \o ItemsAt(M, T[n - 1]), T, V, n)
<1>. DEFINE k == n - 1
            e == ItemsAt(M, T[k])
            S == Data \cup {Junk}
            u == w \o e
<1>1. Size(T) \in Nat \ {0} /\ DOMAIN T = 0 .. Size(T) - 1 /\ T \in [DOMAIN T -> SlotValue]
  BY TableSize DEF TableHas
<1>2. k \in DOMAIN T /\ T[k] \in SlotValue /\ \A j \in 0 .. k - 1 : j \in DOMAIN T /\ j # k
  BY <1>1
<1>3. V[k] \subseteq Data /\ Junk \notin Data
  BY <1>2, SlotIs, HashAssumption
<1>4. /\ e \in Seq(S) /\ Injective(e)
      /\ \A x : x \in ToSet(e) <=> x \in V[k] \/ (x = Junk /\ T[k] = Junk)
  <2>1. CASE IsList(T[k])
    <3>1. e = Items(M, T[k]) /\ T[k] # Junk
      BY <2>1 DEF ItemsAt, IsList
    <3>2. e \in Seq(Data) /\ Injective(e) /\ ToSet(e) = V[k]
      BY <1>2, <2>1, <3>1, SlotIs
    <3>3. e \in Seq(S)
      BY <3>2
    <3>. QED  BY <3>1, <3>2, <3>3
  <2>2. CASE T[k] = Junk
    <3>1. e = <<Junk>> /\ V[k] = {}
      BY <1>2, <2>2, SlotIs DEF ItemsAt, IsList
    <3>2. <<Junk>> \in Seq(S) /\ ToSet(<<Junk>>) = {Junk} /\ Injective(<<Junk>>)
      BY DEF ToSet, Injective
    <3>. QED  BY <2>2, <3>1, <3>2
  <2>3. CASE T[k] = NULL
    <3>1. T[k] # Junk
      BY <1>2, <2>3, ListOrNot
    <3>2. e = << >> /\ V[k] = {}
      BY <1>2, <2>3, <3>1, SlotIs DEF ItemsAt, IsList
    <3>3. << >> \in Seq(S) /\ ToSet(<< >>) = {} /\ Injective(<< >>)
      BY DEF ToSet, Injective
    <3>. QED  BY <3>1, <3>2, <3>3
  <2>. QED  BY <1>2, <2>1, <2>2, <2>3, ListOrNot
<1>5. w \in Seq(S)
  BY DEF Finds
<1>6. /\ u \in Seq(S) /\ Len(u) = Len(w) + Len(e)
      /\ \A i \in 1 .. Len(w) : u[i] = w[i]
      /\ \A i \in 1 .. Len(e) : u[Len(w) + i] = e[i]
      /\ \A i \in 1 .. Len(u) : i \in 1 .. Len(w) \/ \E j \in 1 .. Len(e) : i = Len(w) + j
      /\ ToSet(u) = ToSet(w) \cup ToSet(e)
  <2>. HIDE DEF e, S
  <2>. QED  BY <1>4, <1>5, Joined
<1>. HIDE DEF u, e
<1>7. \A x : x \in ToSet(w) <=> \E j \in 0 .. k - 1 : x \in V[j] \/ (x = Junk /\ T[j] = Junk)
  BY DEF Finds
<1>8. \A x : x \in ToSet(u) <=> \E j \in 0 .. n - 1 : x \in V[j] \/ (x = Junk /\ T[j] = Junk)
  <2>1. \A j : j \in 0 .. n - 1 <=> j \in 0 .. k - 1 \/ j = k
    OBVIOUS
  <2>. QED  BY <1>4, <1>6, <1>7, <2>1
<1>9. \A x \in ToSet(w) : x # Junk => x \notin ToSet(e)
  <2>1. \A j \in 0 .. k - 1 : V[j] \cap V[k] = {}
    BY <1>2, SlotsDiffer
  <2>. QED  BY <1>4, <1>7, <2>1
<1>10. \A i, j \in 1 .. Len(u) : u[i] = u[j] /\ u[i] # Junk => i = j
  <2>1. SUFFICES ASSUME NEW i \in 1 .. Len(u), NEW j \in 1 .. Len(u), u[i] = u[j], u[i] # Junk
                 PROVE  i = j
    OBVIOUS
  <2>2. (\A a \in 1 .. Len(w) : w[a] \in ToSet(w)) /\ \A a \in 1 .. Len(e) : e[a] \in ToSet(e)
    BY <1>4, <1>5 DEF ToSet
  <2>3. CASE i \in 1 .. Len(w) /\ j \in 1 .. Len(w)
    BY <1>6, <2>1, <2>3 DEF Finds
  <2>4. CASE (\E a \in 1 .. Len(e) : i = Len(w) + a) /\ \E a \in 1 .. Len(e) : j = Len(w) + a
    BY <1>4, <1>5, <1>6, <2>1, <2>4 DEF Injective
  <2>5. CASE i \in 1 .. Len(w) /\ \E a \in 1 .. Len(e) : j = Len(w) + a
    BY <1>6, <1>9, <2>1, <2>2, <2>5
  <2>6. CASE j \in 1 .. Len(w) /\ \E a \in 1 .. Len(e) : i = Len(w) + a
    BY <1>6, <1>9, <2>1, <2>2, <2>6
  <2>. QED  BY <1>6, <2>3, <2>4, <2>5, <2>6
<1>11. Finds(u, T, V, n)
  BY <1>6, <1>8, <1>10 DEF Finds
<1>. QED  BY <1>11 DEF u, e

\* What ht_iterate finds in all of T.
LEMMA WalkedIs ==
    ASSUME NEW M \in Memory, NEW T, NEW C, NEW V, TableHas(M, T, C, V)
    PROVE  LET w == Walked(M, T) IN
           /\ w \in Seq(Data \cup {Junk}) /\ Len(w) \in Nat /\ DOMAIN w = 1 .. Len(w)
           /\ \A x : x \in ToSet(w) <=> x \in ItemsIn(V) \/ (x = Junk /\ HasJunk(T))
           /\ \A i, j \in 1 .. Len(w) : w[i] = w[j] /\ w[i] # Junk => i = j
<1>. DEFINE n == Size(T)
            w == Walked(M, T)
            P == [i \in 0 .. n |-> {u \in Seq(Data \cup {Junk}) : Finds(u, T, V, i)}]
<1>1. n \in Nat \ {0} /\ DOMAIN T = 0 .. n - 1 /\ DOMAIN V = DOMAIN T
  BY TableSize DEF TableHas
<1>2. << >> \in P[0]
  <2>1. << >> \in Seq(Data \cup {Junk}) /\ ToSet(<< >>) = {} /\ Len(<< >>) = 0
    BY DEF ToSet
  <2>2. Finds(<< >>, T, V, 0)
    BY <2>1 DEF Finds
  <2>. QED  BY <1>1, <2>1, <2>2
<1>3. WalkCarries(P, M, T)
  <2>1. SUFFICES ASSUME NEW i \in 1 .. n, NEW h \in P[i - 1]
                 PROVE  h \o ItemsAt(M, T[i - 1]) \in P[i]
    BY DEF WalkCarries
  <2>2. i - 1 \in 0 .. n /\ i \in 0 .. n
    BY <1>1
  <2>3. Finds(h, T, V, i - 1)
    BY <2>1, <2>2
  <2>4. Finds(h \o ItemsAt(M, T[i - 1]), T, V, i)
    BY <2>3, FindsMore
  <2>5. h \o ItemsAt(M, T[i - 1]) \in Seq(Data \cup {Junk})
    BY <2>4 DEF Finds
  <2>. QED  BY <2>2, <2>4, <2>5
<1>4. w \in P[n]
  <2>. HIDE DEF P
  <2>. QED  BY <1>1, <1>2, <1>3, WalkedIn
<1>5. Finds(w, T, V, n)
  BY <1>1, <1>4
<1>. HIDE DEF w
<1>6. /\ w \in Seq(Data \cup {Junk}) /\ Len(w) \in Nat /\ DOMAIN w = 1 .. Len(w)
      /\ \A i, j \in 1 .. Len(w) : w[i] = w[j] /\ w[i] # Junk => i = j
  BY <1>5 DEF Finds
<1>7. \A x : x \in ToSet(w) <=> x \in ItemsIn(V) \/ (x = Junk /\ HasJunk(T))
  <2>1. \A x : x \in ToSet(w) <=> \E j \in 0 .. n - 1 : x \in V[j] \/ (x = Junk /\ T[j] = Junk)
    BY <1>5 DEF Finds
  <2>. QED  BY <1>1, <2>1 DEF ItemsIn, HasJunk
<1>. QED  BY <1>6, <1>7 DEF w

\* As many things as there are places for them, when none is there twice.
LEMMA Counted ==
    ASSUME NEW S, NEW s \in Seq(S), Injective(s)
    PROVE  IsFiniteSet(ToSet(s)) /\ Cardinality(ToSet(s)) = Len(s)
<1>. DEFINE n == Len(s)
            X == ToSet(s)
<1>1. n \in Nat /\ DOMAIN s = 1 .. n
  OBVIOUS
<1>2. s \in Surjection(1 .. n, X) /\ s \in Injection(1 .. n, X)
  BY <1>1 DEF Surjection, Injection, IsInjective, Injective, ToSet
<1>3. IsFiniteSet(1 .. n) /\ Cardinality(1 .. n) = n
  <2>1. IsFiniteSet(1 .. n) /\ Cardinality(1 .. n) = IF 1 > n THEN 0 ELSE n - 1 + 1
    BY <1>1, FS_Interval, SMTT(30)
  <2>. QED  BY <1>1, <2>1
<1>4. IsFiniteSet(X) /\ Cardinality(X) = Cardinality(1 .. n)
  <2>. HIDE DEF X
  <2>. QED  BY <1>2, <1>3, FS_Surjection
<1>. QED  BY <1>3, <1>4

\* The data of a slot, counted.
LEMMA SlotCount ==
    ASSUME NEW M \in Memory, NEW T, NEW C, NEW V, TableHas(M, T, C, V), NEW i \in DOMAIN T
    PROVE  /\ IsFiniteSet(V[i])
           /\ Cardinality(V[i]) = IF IsList(T[i]) THEN T[i].nnodes ELSE 0
<1>1. CASE IsList(T[i])
  <2>. DEFINE s == ItemsOf(M, C[i])
  <2>1. Holds(M, T[i], C[i]) /\ s \in Seq(Data) /\ Len(s) = Len(C[i]) /\ Injective(s) /\ V[i] = ToSet(s)
    BY <1>1, SlotIs
  <2>2. T[i].nnodes = Len(C[i])
    BY <2>1 DEF Holds
  <2>. HIDE DEF s
  <2>. QED  BY <1>1, <2>1, <2>2, Counted
<1>2. CASE ~IsList(T[i])
  BY <1>2, SlotIs, FS_EmptySet
<1>. QED  BY <1>1, <1>2

(* What ht_check adds up is the number of elements of the table.           *)
LEMMA SumIs ==
    ASSUME NEW M \in Memory, NEW T, NEW C, NEW V, TableHas(M, T, C, V)
    PROVE  Nnodes(T) = Cardinality(ItemsIn(V)) /\ IsFiniteSet(ItemsIn(V))
<1>. DEFINE n == Size(T)
            Datas(i) == UNION {V[j] : j \in 0 .. i - 1}
            P == [i \in 0 .. n |-> {x \in Nat : x = Cardinality(Datas(i)) /\ IsFiniteSet(Datas(i))}]
            At(i) == IF IsList(T[i]) THEN T[i].nnodes ELSE 0
<1>1. n \in Nat \ {0} /\ DOMAIN T = 0 .. n - 1 /\ DOMAIN V = DOMAIN T
  BY TableSize DEF TableHas
<1>2. 0 \in P[0]
  <2>1. Datas(0) = {}
    OBVIOUS
  <2>2. Cardinality({}) = 0 /\ IsFiniteSet({})
    BY FS_EmptySet
  <2>. HIDE DEF Datas
  <2>. QED  BY <1>1, <2>1, <2>2
<1>3. SumCarries(P, T)
  <2>1. SUFFICES ASSUME NEW i \in 1 .. n, NEW h \in P[i - 1]  PROVE h + At(i - 1) \in P[i]
    BY DEF SumCarries
  <2>2. i - 1 \in 0 .. n /\ i \in 0 .. n /\ i - 1 \in DOMAIN T
    BY <1>1
  <2>3. Datas(i) = Datas(i - 1) \cup V[i - 1]
    <3>1. 0 .. i - 1 = (0 .. (i - 1) - 1) \cup {i - 1}
      OBVIOUS
    <3>. QED  BY <3>1
  <2>4. Datas(i - 1) \cap V[i - 1] = {}
    <3>1. \A j \in 0 .. (i - 1) - 1 : j \in DOMAIN T /\ j # i - 1
      BY <1>1
    <3>. QED  BY <2>2, <3>1, SlotsDiffer
  <2>. HIDE DEF Datas
  <2>5. h \in Nat /\ h = Cardinality(Datas(i - 1)) /\ IsFiniteSet(Datas(i - 1))
    BY <2>1, <2>2
  <2>6. IsFiniteSet(V[i - 1]) /\ Cardinality(V[i - 1]) = At(i - 1)
    BY <2>2, SlotCount
  <2>. HIDE DEF At
  <2>7. IsFiniteSet(Datas(i)) /\ Cardinality(Datas(i)) = Cardinality(Datas(i - 1)) + Cardinality(V[i - 1]) - Cardinality({})
    BY <2>3, <2>4, <2>5, <2>6, FS_Union
  <2>8. Cardinality({}) = 0 /\ Cardinality(V[i - 1]) \in Nat
    BY <2>6, FS_EmptySet, FS_CardinalityType
  <2>9. h + At(i - 1) = Cardinality(Datas(i)) /\ h + At(i - 1) \in Nat
    BY <2>5, <2>6, <2>7, <2>8
  <2>. QED  BY <2>2, <2>7, <2>9
<1>4. Nnodes(T) \in P[n]
  <2>. HIDE DEF P
  <2>. QED  BY <1>1, <1>2, <1>3, SummedIn
<1>5. Datas(n) = ItemsIn(V)
  BY <1>1 DEF ItemsIn
<1>. HIDE DEF Datas
<1>. QED  BY <1>1, <1>4, <1>5

-----------------------------------------------------------------------------
(* ht_resize                                                               *)

\* A table without lists.
LEMMA NewTable ==
    ASSUME NEW M \in Memory, NEW n \in Nat \ {0}, NEW T \in [0 .. n - 1 -> {NULL, Junk}]
    PROVE  \E C, V : TableHas(M, T, C, V) /\ NodesIn(C) = {} /\ ItemsIn(V) = {}
<1>. DEFINE C == [i \in 0 .. n - 1 |-> << >>]
            V == [i \in 0 .. n - 1 |-> {}]
<1>1. DOMAIN T = 0 .. n - 1 /\ IsTable(T)
  <2>1. T \in [0 .. n - 1 -> SlotValue]
    BY DEF SlotValue
  <2>. QED  BY <2>1 DEF IsTable
<1>2. ToSet(<< >>) = {} /\ Injective(<< >>) /\ ItemsOf(M, << >>) = << >>
  BY DEF ToSet, Injective, ItemsOf
<1>3. \A i \in 0 .. n - 1 : ~IsList(T[i]) /\ C[i] = << >> /\ V[i] = {}
  BY DEF IsList
<1>4. DOMAIN C = DOMAIN T /\ C = [i \in DOMAIN T |-> C[i]] /\ V = [i \in DOMAIN T |-> V[i]] /\ DOMAIN V = DOMAIN T
  BY <1>1
<1>. HIDE DEF C, V
<1>5. \A i \in DOMAIN T : SlotHas(M, T, i, C[i], V[i])
  BY <1>1, <1>2, <1>3 DEF SlotHas
<1>6. TableHas(M, T, C, V)
  BY <1>1, <1>2, <1>3, <1>4, <1>5 DEF TableHas
<1>7. NodesIn(C) = {} /\ ItemsIn(V) = {}
  BY <1>1, <1>2, <1>3, <1>4 DEF NodesIn, ItemsIn
<1>. QED  BY <1>6, <1>7

(* How far the move of the elements of w into a new table has come after i *)
(* of them: it has hit Junk, or it has made a table of nodes that were     *)
(* free, and that table has them all unless an insertion failed.           *)
MovedTo(M, w, i, s) ==
    \/ s.err = "crash"
    \/ /\ s.err \in {"ok", "ENOMEM", "EEXIST"} /\ s.m \in Memory
       /\ s.m.live = M.live
       /\ \E D, W : /\ TableBecomes(M, << >>, s.m, s.t, D, W)
                    /\ s.err = "ok" => /\ ItemsIn(W) = {w[j] : j \in 1 .. i}
                                       /\ \A j \in 1 .. i : w[j] # Junk

\* One more element.
LEMMA MovesOne ==
    ASSUME NEW M \in Memory, NEW w \in Seq(Data \cup {Junk}), NEW i \in 1 .. Len(w),
           NEW s, MovedTo(M, w, i - 1, s)
    PROVE  MovedTo(M, w, i, ht_resize_migrate_cb(s, w[i]))
<1>. DEFINE q == ht_resize_migrate_cb(s, w[i])
            x == w[i]
<1>1. \A j : j \in 1 .. i <=> j \in 1 .. i - 1 \/ j = i
  OBVIOUS
<1>2. x \in Data \cup {Junk} /\ Junk \notin Data
  BY HashAssumption
<1>3. CASE s.err # "ok"
  <2>1. q = s
    BY <1>3 DEF ht_resize_migrate_cb
  <2>. QED  BY <1>3, <2>1 DEF MovedTo
<1>4. CASE s.err = "ok" /\ x = Junk
  <2>1. q = State(s.m, s.t, "crash")
    BY <1>4 DEF ht_resize_migrate_cb
  <2>. QED  BY <2>1 DEF MovedTo, State
<1>5. CASE s.err = "ok" /\ x \in Data
  <2>1. q = _ht_insert(s.m, s.t, x) /\ x # Junk
    BY <1>2, <1>5 DEF ht_resize_migrate_cb
  <2>2. s.m \in Memory /\ s.m.live = M.live
    BY <1>5 DEF MovedTo
  <2>3. PICK D, W : /\ TableBecomes(M, << >>, s.m, s.t, D, W)
                    /\ ItemsIn(W) = {w[j] : j \in 1 .. i - 1}
                    /\ \A j \in 1 .. i - 1 : w[j] # Junk
    BY <1>5 DEF MovedTo
  <2>4. TableHas(s.m, s.t, D, W)
    BY <2>3 DEF TableBecomes
  <2>. HIDE DEF q, x
  <2>5. \/ q = State(s.m, s.t, "crash")
        \/ Inserted(s.m, s.t, D, W, x, q)
    BY <1>5, <2>1, <2>2, <2>4, InsertIntoTable
  <2>6. CASE q = State(s.m, s.t, "crash")
    <3>1. MovedTo(M, w, i, q)
      BY <2>6 DEF MovedTo, State
    <3>. QED  BY <3>1 DEF q, x
  <2>7. CASE Inserted(s.m, s.t, D, W, x, q)
    <3>1. PICK E, X : /\ TableBecomes(s.m, D, q.m, q.t, E, X)
                      /\ ItemsIn(X) = IF q.err = "ok" THEN ItemsIn(W) \cup {x} ELSE ItemsIn(W)
      BY <2>7 DEF Inserted
    <3>2. TableBecomes(M, << >>, q.m, q.t, E, X) /\ q.m \in Memory
      BY <2>3, <3>1, TableBecomesTwice DEF TableBecomes
    <3>3. q.err \in {"ok", "ENOMEM", "EEXIST"} /\ q.m.live = M.live
      BY <2>2, <2>7 DEF Inserted
    <3>4. q.err = "ok" => /\ ItemsIn(X) = {w[j] : j \in 1 .. i}
                          /\ \A j \in 1 .. i : w[j] # Junk
      BY <1>1, <2>1, <2>3, <3>1 DEF x
    <3>5. MovedTo(M, w, i, q)
      BY <3>2, <3>3, <3>4 DEF MovedTo
    <3>. QED  BY <3>5 DEF q, x
  <2>. QED  BY <2>5, <2>6, <2>7
<1>. QED  BY <1>2, <1>3, <1>4, <1>5

\* What _ht_insert returns is a memory, a table and an error.
LEMMA InsertIsState ==
    ASSUME NEW M, NEW T, NEW d
    PROVE  LET q == _ht_insert(M, T, d) IN q = State(q.m, q.t, q.err)
<1>1. \A r, i : LET q == Into(r, T, i, d) IN q = State(q.m, q.t, q.err)
  BY DEF Into, State
<1>2. State(M, T, "crash") = State(State(M, T, "crash").m, State(M, T, "crash").t, State(M, T, "crash").err)
  BY DEF State
<1>3. Junk # NULL
  BY HashAssumption
<1>. DEFINE i == Slot(T, d)
            q == _ht_insert(M, T, d)
<1>4. CASE T[i] = Junk
  <2>1. q = State(M, T, "crash")
    BY <1>3, <1>4 DEF _ht_insert
  <2>. QED  BY <1>2, <2>1
<1>5. CASE T[i] = NULL
  <2>1. q = Into(ll_create(M, TRUE), T, i, d)
    BY <1>3, <1>5 DEF _ht_insert
  <2>. QED  BY <1>1, <2>1
<1>6. CASE T[i] # Junk /\ T[i] # NULL
  <2>1. q = Into(Result(M, T[i], "ok"), T, i, d)
    BY <1>6 DEF _ht_insert
  <2>. QED  BY <1>1, <2>1
<1>. QED  BY <1>4, <1>5, <1>6

\* Memory, table of the size of new, and error.
TableState(new) ==
    [m : Memory, t : [DOMAIN new -> SlotValue], err : {"ok", "ENOMEM", "EEXIST", "crash"}]

\* The callback of ht_resize goes from such a state to such a state.
LEMMA MovesWithin ==
    ASSUME NEW M \in Memory, NEW w, NEW i, NEW new, NEW s \in TableState(new), MovedTo(M, w, i, s),
           NEW x \in Data \cup {Junk}
    PROVE  ht_resize_migrate_cb(s, x) \in TableState(new)
<1>. DEFINE q == ht_resize_migrate_cb(s, x)
<1>1. s.m \in Memory /\ s.t \in [DOMAIN new -> SlotValue]
  BY DEF TableState
<1>2. State(s.m, s.t, "crash") \in TableState(new)
  BY <1>1 DEF TableState, State
<1>3. CASE s.err # "ok"
  BY <1>3 DEF ht_resize_migrate_cb
<1>4. CASE s.err = "ok" /\ x = Junk
  BY <1>2, <1>4 DEF ht_resize_migrate_cb
<1>5. CASE s.err = "ok" /\ x \in Data /\ x # Junk
  <2>1. q = _ht_insert(s.m, s.t, x)
    BY <1>5 DEF ht_resize_migrate_cb
  <2>2. PICK D, W : TableBecomes(M, << >>, s.m, s.t, D, W)
    BY <1>5 DEF MovedTo
  <2>3. TableHas(s.m, s.t, D, W)
    BY <2>2 DEF TableBecomes
  <2>4. q = State(q.m, q.t, q.err)
    BY <2>1, InsertIsState
  <2>. HIDE DEF q
  <2>5. \/ q = State(s.m, s.t, "crash")
        \/ Inserted(s.m, s.t, D, W, x, q)
    BY <1>1, <1>5, <2>1, <2>3, InsertIntoTable
  <2>6. CASE Inserted(s.m, s.t, D, W, x, q)
    <3>1. PICK E, X : TableBecomes(s.m, D, q.m, q.t, E, X)
      BY <2>6 DEF Inserted
    <3>2. q.m \in Memory /\ IsTable(q.t)
      BY <3>1 DEF TableBecomes, TableHas
    <3>3. q.t \in [DOMAIN new -> SlotValue]
      <4>1. q.t \in [DOMAIN q.t -> SlotValue] /\ DOMAIN q.t = DOMAIN s.t
        BY <2>6, <3>2, TableSize DEF Inserted
      <4>. QED  BY <1>1, <4>1
    <3>4. q.err \in {"ok", "ENOMEM", "EEXIST"}
      BY <2>6 DEF Inserted
    <3>5. q \in TableState(new)
      BY <2>4, <3>2, <3>3, <3>4 DEF TableState, State
    <3>. QED  BY <3>5 DEF q
  <2>7. CASE q = State(s.m, s.t, "crash")
    BY <1>2, <2>7 DEF q
  <2>. QED  BY <2>5, <2>6, <2>7
<1>. QED  BY <1>3, <1>4, <1>5

\* The loop of ht_resize.
LEMMA MigrateStep ==
    ASSUME NEW M \in Memory, NEW T, NEW C, NEW V, TableHas(M, T, C, V),
           NEW n \in Nat \ {0}, NEW new \in [0 .. n - 1 -> {NULL, Junk}]
    PROVE  /\ Migrated(M, T, new) \in TableState(new)
           /\ MovedTo(M, Walked(M, T), Len(Walked(M, T)), Migrated(M, T, new))
<1>. DEFINE w == Walked(M, T)
            L == Len(w)
            P == [i \in 0 .. L |-> {s \in TableState(new) : MovedTo(M, w, i, s)}]
<1>1. w \in Seq(Data \cup {Junk}) /\ L \in Nat
  BY WalkedIs
<1>. HIDE DEF w
<1>2. State(M, new, "ok") \in TableState(new)
  <2>1. DOMAIN new = 0 .. n - 1 /\ new \in [0 .. n - 1 -> SlotValue]
    BY DEF SlotValue
  <2>. QED  BY <2>1 DEF TableState, State
<1>3. MovedTo(M, w, 0, State(M, new, "ok"))
  <2>. DEFINE s == State(M, new, "ok")
  <2>1. s.m = M /\ s.t = new /\ s.err = "ok"
    BY DEF State
  <2>. HIDE DEF s
  <2>2. PICK D, W : TableHas(M, new, D, W) /\ NodesIn(D) = {} /\ ItemsIn(W) = {}
    BY NewTable
  <2>3. NodesIn(<< >>) = {}
    BY DEF NodesIn
  <2>4. TableBecomes(M, << >>, M, new, D, W)
    BY <2>2, <2>3 DEF TableBecomes
  <2>5. ItemsIn(W) = {w[j] : j \in 1 .. 0} /\ \A j \in 1 .. 0 : w[j] # Junk
    BY <2>2
  <2>6. MovedTo(M, w, 0, s)
    BY <2>1, <2>4, <2>5 DEF MovedTo
  <2>. QED  BY <2>6 DEF s
<1>4. MigrateCarries(P, M, T)
  <2>1. SUFFICES ASSUME NEW i \in 1 .. L, NEW s \in P[i - 1]
                 PROVE  ht_resize_migrate_cb(s, w[i]) \in P[i]
    BY DEF MigrateCarries, w
  <2>2. i - 1 \in 0 .. L /\ i \in 0 .. L /\ w[i] \in Data \cup {Junk}
    BY <1>1
  <2>3. s \in TableState(new) /\ MovedTo(M, w, i - 1, s)
    BY <2>1, <2>2
  <2>4. MovedTo(M, w, i, ht_resize_migrate_cb(s, w[i]))
    BY <1>1, <2>3, MovesOne
  <2>5. ht_resize_migrate_cb(s, w[i]) \in TableState(new)
    BY <2>2, <2>3, MovesWithin
  <2>. QED  BY <2>2, <2>4, <2>5
<1>5. State(M, new, "ok") \in P[0]
  BY <1>1, <1>2, <1>3
<1>6. Migrated(M, T, new) \in P[L]
  <2>. HIDE DEF P
  <2>. QED  BY <1>1, <1>4, <1>5, MigratedIn DEF w
<1>7. Migrated(M, T, new) \in TableState(new) /\ MovedTo(M, w, L, Migrated(M, T, new))
  BY <1>1, <1>6
<1>. QED  BY <1>7 DEF w

\* Table T in memory M is all there is, with the data S.
IsAll(M, T, S) ==
    \E C, V : TableHas(M, T, C, V) /\ M.used = NodesIn(C) /\ ItemsIn(V) = S

\* What ht_resize leaves, unless it stops at Junk: the data it found, in a table
\* to which every node belongs.
Resizes(M, V, s) ==
    /\ s.m \in Memory /\ s.m.fault = M.fault /\ s.m.live = M.live
    /\ IsAll(s.m, s.t, ItemsIn(V))

\* The end of ht_resize: the new table has taken over.
LEMMA ResizeCommits ==
    ASSUME NEW M \in Memory, NEW T, NEW C, NEW V, TableHas(M, T, C, V), M.used = NodesIn(C),
           NEW s, s.err = "ok", MovedTo(M, Walked(M, T), Len(Walked(M, T)), s)
    PROVE  Resizes(M, V, Resized(T, s))
<1>. DEFINE w == Walked(M, T)
            h == ht_destroy_table(s.m, T, TRUE)
            r == Resized(T, s)
<1>1. /\ w \in Seq(Data \cup {Junk}) /\ DOMAIN w = 1 .. Len(w)
      /\ \A x : x \in ToSet(w) <=> x \in ItemsIn(V) \/ (x = Junk /\ HasJunk(T))
  BY WalkedIs
<1>2. Junk \notin ItemsIn(V)
  BY NodesAllocated, HashAssumption
<1>. HIDE DEF w
<1>3. s.m \in Memory /\ s.m.live = M.live
  BY DEF MovedTo
<1>4. PICK D, W : /\ TableBecomes(M, << >>, s.m, s.t, D, W)
                  /\ ItemsIn(W) = {w[j] : j \in 1 .. Len(w)}
                  /\ \A j \in 1 .. Len(w) : w[j] # Junk
  BY DEF MovedTo, w
<1>5. ItemsIn(W) = ItemsIn(V)
  <2>1. ItemsIn(W) = ToSet(w) /\ Junk \notin ToSet(w)
    BY <1>1, <1>4 DEF ToSet
  <2>. QED  BY <1>1, <1>2, <2>1
<1>6. NodesIn(<< >>) = {}
  BY DEF NodesIn
<1>7. /\ s.m.used = M.used \cup NodesIn(D) /\ NodesIn(D) \cap M.used = {} /\ s.m.fault = M.fault
      /\ \A n \in M.used : s.m.cell[n] = M.cell[n]
      /\ TableHas(s.m, s.t, D, W)
  BY <1>4, <1>6 DEF TableBecomes
<1>8. TableHas(s.m, T, C, V)
  BY <1>3, <1>7, TableUntouched
<1>9. TableGone(s.m, C, V, TRUE, h.m)
  BY <1>3, <1>8, DestroyTableStep
<1>10. r.m = h.m /\ r.t = s.t
  BY DEF Resized, ht_destroy_table, State
<1>. HIDE DEF h, r
<1>11. /\ h.m \in Memory /\ h.m.fault = M.fault /\ h.m.used = NodesIn(D) /\ h.m.live = M.live
       /\ \A n \in NodesIn(D) : h.m.cell[n] = s.m.cell[n]
  <2>1. NodesIn(D) \subseteq Node
    BY <1>3, <1>7, NodesAllocated DEF Memory
  <2>. QED  BY <1>3, <1>7, <1>9, <2>1 DEF TableGone
<1>12. TableHas(h.m, s.t, D, W)
  BY <1>3, <1>7, <1>11, TableUntouched
<1>13. Resizes(M, V, r)
  BY <1>5, <1>10, <1>11, <1>12 DEF Resizes, IsAll
<1>. QED  BY <1>13 DEF r

\* The end of ht_resize: the new table goes, and the old one is as it was.
LEMMA ResizeFails ==
    ASSUME NEW M \in Memory, NEW T, NEW C, NEW V, TableHas(M, T, C, V), M.used = NodesIn(C),
           NEW w, NEW i, NEW s, s.err \notin {"ok", "crash"}, MovedTo(M, w, i, s)
    PROVE  Resizes(M, V, Resized(T, s))
<1>. DEFINE h == ht_destroy_table(s.m, s.t, TRUE)
            r == Resized(T, s)
<1>1. s.m \in Memory /\ s.m.live = M.live
  BY DEF MovedTo
<1>2. PICK D, W : TableBecomes(M, << >>, s.m, s.t, D, W)
  BY DEF MovedTo
<1>3. NodesIn(<< >>) = {}
  BY DEF NodesIn
<1>4. /\ s.m.used = M.used \cup NodesIn(D) /\ NodesIn(D) \cap M.used = {} /\ s.m.fault = M.fault
      /\ \A n \in M.used : s.m.cell[n] = M.cell[n]
      /\ TableHas(s.m, s.t, D, W)
  BY <1>2, <1>3 DEF TableBecomes
<1>5. TableGone(s.m, D, W, TRUE, h.m)
  BY <1>1, <1>4, DestroyTableStep
<1>6. r.m = h.m /\ r.t = T
  BY DEF Resized, ht_destroy_table, State
<1>. HIDE DEF h, r
<1>7. /\ h.m \in Memory /\ h.m.fault = M.fault /\ h.m.used = NodesIn(C) /\ h.m.live = M.live
      /\ \A n \in NodesIn(C) : h.m.cell[n] = M.cell[n]
  <2>1. M.used \subseteq Node
    BY DEF Memory
  <2>. QED  BY <1>1, <1>4, <1>5, <2>1 DEF TableGone
<1>8. TableHas(h.m, T, C, V)
  BY <1>7, TableUntouched
<1>9. Resizes(M, V, r)
  BY <1>6, <1>7, <1>8 DEF Resizes, IsAll
<1>. QED  BY <1>9 DEF r

(* ht_resize: whether it succeeds, fails at once or half-way through, or   *)
(* stops at Junk, no data is lost and no node leaks.                       *)
LEMMA ResizeStep ==
    ASSUME NEW M \in Memory, NEW T, NEW C, NEW V, TableHas(M, T, C, V), M.used = NodesIn(C), NEW J
    PROVE  ht_resize(M, T, J).err = "crash" \/ Resizes(M, V, ht_resize(M, T, J))
<1>. DEFINE n == 2 * Size(T)
            new == [i \in 0 .. n - 1 |-> IF i \in J THEN Junk ELSE NULL]
            R == Spend(M)
            s == Migrated(R, T, new)
            q == ht_resize(M, T, J)
            NoMemory == M.budget = 0 \/ n > MaxTable
<1>1. Size(T) \in Nat \ {0}
  BY TableSize DEF TableHas
<1>2. n \in Nat \ {0} /\ new \in [0 .. n - 1 -> {NULL, Junk}]
  BY <1>1
<1>3. CASE NoMemory
  <2>1. q = State(M, T, "ENOMEM")
    BY <1>3 DEF ht_resize
  <2>2. q.m = M /\ q.t = T
    BY <2>1 DEF State
  <2>. HIDE DEF q
  <2>3. Resizes(M, V, q)
    BY <2>2 DEF Resizes, IsAll
  <2>. QED  BY <2>3 DEF q
<1>4. CASE ~NoMemory /\ s.err = "crash"
  BY <1>4 DEF ht_resize
<1>5. CASE ~NoMemory /\ s.err # "crash"
  <2>1. q = Resized(T, s)
    BY <1>5 DEF ht_resize
  <2>2. M.budget > 0
    BY <1>5 DEF Memory
  <2>3. /\ R \in Memory /\ R.used = M.used /\ R.fault = M.fault /\ R.cell = M.cell
        /\ R.live = M.live
    BY <2>2, SpendStep
  <2>. HIDE DEF R, n, new
  <2>4. TableHas(R, T, C, V)
    BY <2>3, TableUntouched
  <2>5. MovedTo(R, Walked(R, T), Len(Walked(R, T)), s)
    BY <1>2, <2>3, <2>4, MigrateStep
  <2>. HIDE DEF s, q
  <2>6. Resizes(R, V, q)
    BY <1>5, <2>1, <2>3, <2>4, <2>5, ResizeCommits, ResizeFails
  <2>7. Resizes(M, V, q)
    BY <2>3, <2>6 DEF Resizes
  <2>. QED  BY <2>7 DEF q
<1>. QED  BY <1>3, <1>4, <1>5

-----------------------------------------------------------------------------
(* The calls                                                               *)

(* The table is all there is in memory, the data in it are those that      *)
(* exist, and ht_nelements counts them.                                    *)
AllThere ==
    /\ mem \in Memory /\ ~mem.fault
    /\ IsAll(mem, ht_table, mem.live)
    /\ ht_nelements = Cardinality(mem.live)

TableIInv == status \in {"running", "crashed"} /\ (Running => AllThere)

\* State s is such a state, with the data S.
Sound(s, S) == s.m \in Memory /\ ~s.m.fault /\ s.m.live = S /\ IsAll(s.m, s.t, S)

\* The nodes and the cells are what matters.
LEMMA AllStays ==
    ASSUME NEW M \in Memory, NEW R \in Memory, R.used = M.used, R.cell = M.cell,
           NEW T, NEW S, IsAll(M, T, S)
    PROVE  IsAll(R, T, S)
<1>1. PICK C, V : TableHas(M, T, C, V) /\ M.used = NodesIn(C) /\ ItemsIn(V) = S
  BY DEF IsAll
<1>2. TableHas(R, T, C, V)
  BY <1>1, TableUntouched
<1>. QED  BY <1>1, <1>2 DEF IsAll

\* A memory with another budget, or with other data.
LEMMA OtherBudget ==
    ASSUME NEW M \in Memory, NEW b \in Nat
    PROVE  /\ [M EXCEPT !.budget = b] \in Memory
           /\ [M EXCEPT !.budget = b].used = M.used /\ [M EXCEPT !.budget = b].cell = M.cell
           /\ [M EXCEPT !.budget = b].live = M.live /\ [M EXCEPT !.budget = b].fault = M.fault
BY DEF Memory

\* What Contents is for a table that is all there is.
LEMMA ContentsAre ==
    ASSUME NEW M \in Memory, NEW T, NEW C, NEW V, TableHas(M, T, C, V)
    PROVE  /\ UNION {ToSet(Items(M, l)) : l \in ListsIn(T)} = ItemsIn(V)
           /\ UNION {ToSet(Chain(M, l)) : l \in ListsIn(T)} = NodesIn(C)
           /\ IsFiniteSet(ItemsIn(V)) /\ Cardinality(ItemsIn(V)) \in Nat
<1>1. DOMAIN V = DOMAIN T /\ DOMAIN C = DOMAIN T
  BY DEF TableHas
<1>2. ToSet(<< >>) = {}
  BY DEF ToSet
<1>3. UNION {ToSet(Items(M, l)) : l \in ListsIn(T)} = ItemsIn(V)
  <2>1. \A i \in DOMAIN T : IsList(T[i]) => ToSet(Items(M, T[i])) = V[i]
    BY SlotIs
  <2>2. \A i \in DOMAIN T : ~IsList(T[i]) => V[i] = {}
    BY SlotIs
  <2>. QED  BY <1>1, <2>1, <2>2 DEF ItemsIn, ListsIn
<1>4. UNION {ToSet(Chain(M, l)) : l \in ListsIn(T)} = NodesIn(C)
  <2>1. \A i \in DOMAIN T : IsList(T[i]) => Chain(M, T[i]) = C[i]
    BY SlotIs
  <2>2. \A i \in DOMAIN T : ~IsList(T[i]) => C[i] = << >>
    BY SlotIs
  <2>. QED  BY <1>1, <1>2, <2>1, <2>2 DEF NodesIn, ListsIn
<1>. QED  BY <1>3, <1>4, SumIs, FS_CardinalityType

\* The end of a call, in such a state or at Junk.
LEMMA EndsSoundly ==
    ASSUME NEW s, NEW n, NEW r, NEW S, Ends(s, n, r),
           s.err = "crash" \/ (Sound(s, S) /\ n = Cardinality(S))
    PROVE  \/ status' = "crashed"
           \/ Running' /\ AllThere' /\ Contents' = S /\ reply' = r
<1>1. CASE s.err = "crash"
  BY <1>1 DEF Ends
<1>2. CASE s.err # "crash"
  <2>. DEFINE R == [s.m EXCEPT !.budget = 0]
  <2>1. s.m \in Memory /\ ~s.m.fault /\ s.m.live = S /\ IsAll(s.m, s.t, S) /\ n = Cardinality(S)
    BY <1>2 DEF Sound
  <2>2. R \in Memory /\ R.used = s.m.used /\ R.cell = s.m.cell /\ R.live = S /\ R.fault = s.m.fault
    BY <2>1, OtherBudget
  <2>3. status' = "running" /\ mem' = R /\ ht_table' = s.t /\ ht_nelements' = n /\ reply' = r
    BY <1>2 DEF Ends
  <2>. HIDE DEF R
  <2>4. IsAll(R, s.t, S)
    BY <2>1, <2>2, AllStays
  <2>5. Running' /\ AllThere'
    BY <2>1, <2>2, <2>3, <2>4 DEF Running, AllThere
  <2>6. PICK C, V : TableHas(R, s.t, C, V) /\ R.used = NodesIn(C) /\ ItemsIn(V) = S
    BY <2>4 DEF IsAll
  <2>7. Contents' = S
    BY <2>2, <2>3, <2>6, ContentsAre DEF Contents
  <2>. QED  BY <2>3, <2>5, <2>7
<1>. QED  BY <1>1, <1>2

\* What is known when a call starts.
LEMMA Starts ==
    ASSUME AllThere
    PROVE  /\ Contents = mem.live /\ mem.live \subseteq Data /\ IsFiniteSet(mem.live)
           /\ ht_nelements \in Nat /\ Sound(State(mem, ht_table, "ok"), mem.live)
           /\ \E C, V : /\ TableHas(mem, ht_table, C, V) /\ mem.used = NodesIn(C)
                        /\ ItemsIn(V) = mem.live
<1>1. PICK C, V : TableHas(mem, ht_table, C, V) /\ mem.used = NodesIn(C) /\ ItemsIn(V) = mem.live
  BY DEF AllThere, IsAll
<1>2. /\ Contents = mem.live /\ IsFiniteSet(mem.live) /\ ht_nelements \in Nat
      /\ mem.live \subseteq Data
  BY <1>1, ContentsAre, NodesAllocated DEF Contents, AllThere
<1>3. Sound(State(mem, ht_table, "ok"), mem.live)
  BY DEF AllThere, Sound, State
<1>. QED  BY <1>1, <1>2, <1>3

\* A call that is followed by a step of a set, or stops at Junk.
Follows == status' = "crashed" \/ (Running' /\ AllThere' /\ Set!Next)

\* After an insertion that succeeded the data is the table's.
LEMMA KeptStep ==
    ASSUME NEW s, s.m \in Memory, NEW d \in Data, s = State(s.m, s.t, s.err)
    PROVE  LET k == Kept(s, d) IN
           /\ k.m \in Memory /\ k.m.used = s.m.used /\ k.m.cell = s.m.cell
           /\ k.m.fault = s.m.fault /\ k.m.live = s.m.live \cup {d}
           /\ k.t = s.t /\ k.err = s.err
<1>. DEFINE R == [s.m EXCEPT !.live = s.m.live \cup {d}]
<1>1. /\ R \in Memory /\ R.used = s.m.used /\ R.cell = s.m.cell
      /\ R.fault = s.m.fault /\ R.live = s.m.live \cup {d}
  BY DEF Memory
<1>2. Kept(s, d) = State(R, s.t, s.err)
  BY DEF Kept, State
<1>. HIDE DEF R
<1>. QED  BY <1>1, <1>2 DEF State

(* ht_insert adds what is not there, refuses what is, or runs out of       *)
(* memory and changes nothing that can be seen, whatever becomes of the    *)
(* resizing.                                                               *)
LEMMA InsertFollows ==
    ASSUME AllThere, NEW d \in Data, ht_insert(d)
    PROVE  Follows
<1>1. PICK b \in Budgets :
        LET s == _ht_insert([mem EXCEPT !.budget = b], ht_table, d)
            n == ht_nelements + 1
        IN  IF s.err # "ok" THEN Ends(s, ht_nelements, Reply("insert", d, s.err))
            ELSE IF ~ht_needs_resize(s.t, n) THEN Ends(Kept(s, d), n, Reply("insert", d, "ok"))
            ELSE \E J \in JunkSets(s.t) :
                   Ends(ht_resize(Kept(s, d).m, s.t, J), n, Reply("insert", d, "ok"))
  BY DEF ht_insert
<1>. DEFINE M == [mem EXCEPT !.budget = b]
            s == _ht_insert(M, ht_table, d)
            k == Kept(s, d)
            n == ht_nelements + 1
            S == mem.live
<1>2. b \in Nat
  BY DEF Budgets
<1>3. /\ Contents = S /\ IsFiniteSet(S) /\ ht_nelements \in Nat /\ ht_nelements = Cardinality(S)
      /\ mem \in Memory /\ ~mem.fault /\ IsAll(mem, ht_table, S)
  BY Starts DEF AllThere
<1>4. M \in Memory /\ M.used = mem.used /\ M.cell = mem.cell /\ M.live = S /\ M.fault = mem.fault
  BY <1>2, <1>3, OtherBudget
<1>5. \/ s.err # "ok" /\ Ends(s, ht_nelements, Reply("insert", d, s.err))
      \/ s.err = "ok" /\ Ends(k, n, Reply("insert", d, "ok"))
      \/ s.err = "ok" /\ \E J : Ends(ht_resize(k.m, s.t, J), n, Reply("insert", d, "ok"))
  BY <1>1
<1>. HIDE DEF M
<1>6. IsAll(M, ht_table, S)
  BY <1>3, <1>4, AllStays
<1>7. PICK C, V : TableHas(M, ht_table, C, V) /\ M.used = NodesIn(C) /\ ItemsIn(V) = S
  BY <1>6 DEF IsAll
<1>8. s = State(M, ht_table, "crash") \/ Inserted(M, ht_table, C, V, d, s)
  BY <1>4, <1>7, InsertIntoTable
<1>9. s = State(s.m, s.t, s.err)
  BY InsertIsState
<1>. HIDE DEF s
<1>10. CASE s = State(M, ht_table, "crash")
  <2>1. s.err = "crash"
    BY <1>10 DEF State
  <2>. QED  BY <1>5, <2>1 DEF Ends, Follows
<1>11. CASE Inserted(M, ht_table, C, V, d, s)
  <2>1. PICK D, W : /\ TableBecomes(M, C, s.m, s.t, D, W)
                    /\ ItemsIn(W) = IF s.err = "ok" THEN S \cup {d} ELSE S
    BY <1>7, <1>11 DEF Inserted
  <2>2. /\ s.m \in Memory /\ s.m.used = NodesIn(D) /\ s.m.live = S /\ ~s.m.fault
        /\ TableHas(s.m, s.t, D, W)
    BY <1>3, <1>4, <1>7, <1>11, <2>1 DEF TableBecomes, Inserted
  <2>3. CASE s.err # "ok"
    <3>1. Sound(s, S)
      BY <2>1, <2>2, <2>3 DEF Sound, IsAll
    <3>2. s.err = "ENOMEM" \/ (s.err = "EEXIST" /\ d \in S)
      BY <1>7, <1>11, <2>3 DEF Inserted
    <3>3. Ends(s, ht_nelements, Reply("insert", d, s.err))
      BY <1>5, <2>3
    <3>. HIDE DEF S
    <3>4. \/ status' = "crashed"
          \/ Running' /\ AllThere' /\ Contents' = S /\ reply' = Reply("insert", d, s.err)
      BY <1>3, <3>1, <3>3, EndsSoundly
    <3>5. CASE /\ Running' /\ AllThere' /\ Contents' = S /\ reply' = Reply("insert", d, s.err)
      <4>1. Set!NoMemory(d) \/ Set!InsertAgain(d)
        BY <1>3, <3>2, <3>5 DEF Set!NoMemory, Set!InsertAgain, Set!Reply, Reply
      <4>. QED  BY <3>5, <4>1 DEF Follows, Set!Next
    <3>. QED  BY <3>4, <3>5 DEF Follows
  <2>4. CASE s.err = "ok"
    <3>. DEFINE U == S \cup {d}
    <3>1. d \notin S
      BY <1>7, <1>11, <2>4 DEF Inserted
    <3>2. n = Cardinality(U)
      BY <1>3, <3>1, FS_AddElement
    <3>3. /\ k.m \in Memory /\ k.m.used = s.m.used /\ k.m.cell = s.m.cell /\ ~k.m.fault
          /\ k.m.live = U /\ k.t = s.t /\ k.err = "ok"
      BY <1>9, <2>2, <2>4, KeptStep
    <3>. HIDE DEF k
    <3>4. TableHas(k.m, s.t, D, W) /\ ItemsIn(W) = U /\ k.m.used = NodesIn(D)
      BY <2>1, <2>2, <2>4, <3>3, TableUntouched
    <3>5. Sound(k, U)
      BY <3>3, <3>4 DEF Sound, IsAll
    <3>. HIDE DEF U, n
    <3>6. ASSUME NEW J  PROVE LET q == ht_resize(k.m, s.t, J) IN q.err = "crash" \/ Sound(q, U)
      BY <3>3, <3>4, ResizeStep DEF Resizes, Sound
    <3>7. \E q : /\ Ends(q, n, Reply("insert", d, "ok"))
                 /\ q.err = "crash" \/ Sound(q, U)
      BY <1>5, <2>4, <3>5, <3>6
    <3>8. \/ status' = "crashed"
          \/ Running' /\ AllThere' /\ Contents' = U /\ reply' = Reply("insert", d, "ok")
      BY <3>2, <3>7, EndsSoundly
    <3>9. CASE Running' /\ AllThere' /\ Contents' = U /\ reply' = Reply("insert", d, "ok")
      <4>1. Set!Insert(d)
        BY <1>3, <3>1, <3>9 DEF Set!Insert, Set!Reply, Reply, U
      <4>. QED  BY <3>9, <4>1 DEF Follows, Set!Next
    <3>. QED  BY <3>8, <3>9 DEF Follows
  <2>. QED  BY <2>3, <2>4
<1>. QED  BY <1>8, <1>10, <1>11

\* ht_find says whether the data is there.
LEMMA FindFollows ==
    ASSUME AllThere, NEW d \in Data, ht_find(d)
    PROVE  Follows
<1>. DEFINE l == ListFor(d)
            i == Slot(ht_table, d)
            e == IF IsList(l) THEN ll_find(mem, l, d) ELSE "ENOENT"
            s == State(mem, ht_table, IF l = Junk THEN "crash" ELSE "ok")
            S == mem.live
<1>1. /\ Contents = S /\ ht_nelements = Cardinality(S) /\ mem \in Memory
      /\ Sound(State(mem, ht_table, "ok"), S)
  BY Starts DEF AllThere
<1>2. PICK C, V : TableHas(mem, ht_table, C, V) /\ ItemsIn(V) = S
  BY Starts
<1>3. i \in DOMAIN ht_table /\ l = ht_table[i] /\ (d \in S <=> d \in V[i])
  BY <1>1, <1>2, InItsSlot DEF ListFor
<1>4. e = IF d \in S THEN "ok" ELSE "ENOENT"
  <2>1. CASE IsList(l)
    <3>1. Holds(mem, l, C[i]) /\ V[i] = ToSet(ItemsOf(mem, C[i]))
      BY <1>1, <1>2, <1>3, <2>1, SlotIs
    <3>2. Position(mem, l, d) = 0 <=> d \notin V[i]
      BY <1>1, <3>1, PositionIs
    <3>. QED  BY <1>3, <2>1, <3>2 DEF ll_find
  <2>2. CASE ~IsList(l)
    <3>1. V[i] = {}
      BY <1>1, <1>2, <1>3, <2>2, SlotIs
    <3>. QED  BY <1>3, <2>2, <3>1
  <2>. QED  BY <2>1, <2>2
<1>5. s.err = "crash" \/ Sound(s, S)
  BY <1>1 DEF State
<1>6. Ends(s, ht_nelements, Reply("find", d, e))
  BY DEF ht_find
<1>. HIDE DEF s, e, S
<1>7. \/ status' = "crashed"
      \/ Running' /\ AllThere' /\ Contents' = S /\ reply' = Reply("find", d, e)
  <2>. DEFINE q == Reply("find", d, e)
              n == ht_nelements
  <2>1. s.err = "crash" \/ (Sound(s, S) /\ n = Cardinality(S))
    BY <1>1, <1>5
  <2>2. Ends(s, n, q)
    BY <1>6
  <2>. HIDE DEF q, n
  <2>3. status' = "crashed" \/ (Running' /\ AllThere' /\ Contents' = S /\ reply' = q)
    BY <2>1, <2>2, EndsSoundly, Zenon
  <2>. QED  BY <2>3 DEF q
<1>8. CASE Running' /\ AllThere' /\ Contents' = S /\ reply' = Reply("find", d, e)
  <2>1. reply' = Reply("find", d, IF d \in Contents THEN "ok" ELSE "ENOENT") /\ reply'.op = "find"
    BY <1>1, <1>4, <1>8 DEF Reply
  <2>2. Set!Find(d)
    BY <1>1, <1>8, <2>1 DEF Set!Find, Set!Reply, Reply
  <2>. QED  BY <1>8, <2>2 DEF Follows, Set!Next
<1>. QED  BY <1>7, <1>8 DEF Follows

\* A sequence without its p-th element.
LEMMA TakenOut ==
    ASSUME NEW S, NEW s \in Seq(S), NEW p \in 1 .. Len(s), Injective(s)
    PROVE  /\ RemoveAt(s, p) \in Seq(S) /\ Injective(RemoveAt(s, p))
           /\ ToSet(RemoveAt(s, p)) = ToSet(s) \ {s[p]}
<1>. DEFINE u == RemoveAt(s, p)
            L == Len(s)
<1>1. /\ u \in Seq(S) /\ Len(u) = L - 1
      /\ \A i \in 1 .. L - 1 : u[i] = IF i < p THEN s[i] ELSE s[i + 1]
      /\ ToSet(u) = ToSet(s) \ {s[p]}
  <2>1. \A i, j \in 1 .. Len(s) : s[i] = s[j] => i = j
    BY DEF Injective
  <2>2. u \in Seq(S) /\ Len(u) = L - 1
    BY RemovedAt
  <2>3. \A i \in 1 .. L - 1 : u[i] = IF i < p THEN s[i] ELSE s[i + 1]
    BY RemovedAt
  <2>4. ToSet(u) = ToSet(s) \ {s[p]}
    BY <2>1, RemovedAt
  <2>. QED  BY <2>2, <2>3, <2>4
<1>2. L \in Nat
  OBVIOUS
<1>. HIDE DEF u
<1>3. ASSUME NEW i \in 1 .. Len(u), NEW j \in 1 .. Len(u), u[i] = u[j]  PROVE i = j
  <2>1. i \in 1 .. L - 1 /\ j \in 1 .. L - 1
    BY <1>1
  <2>. DEFINE q(k) == IF k < p THEN k ELSE k + 1
  <2>2. u[i] = s[q(i)] /\ u[j] = s[q(j)] /\ q(i) \in 1 .. L /\ q(j) \in 1 .. L
    BY <1>1, <1>2, <2>1
  <2>3. q(i) = q(j)
    <3>. HIDE DEF q
    <3>. QED  BY <1>3, <2>2 DEF Injective
  <2>. QED  BY <1>2, <2>1, <2>3
<1>. QED  BY <1>1, <1>3 DEF Injective, u

\* Taking d from its list takes it from the table.
LEMMA RemoveFromTable ==
    ASSUME NEW M \in Memory, NEW T, NEW C, NEW V, TableHas(M, T, C, V), M.used = NodesIn(C),
           NEW S, ItemsIn(V) = S, M.live = S, ~M.fault, NEW d \in Data,
           NEW i, i = Slot(T, d), IsList(T[i]), NEW r, r = ll_remove(M, T[i], d)
    PROVE  \/ r.err = "ENOENT" /\ d \notin S /\ Sound(State(r.m, [T EXCEPT ![i] = r.l], r.err), S)
           \/ r.err = "ok" /\ d \in S /\ Sound(State(r.m, [T EXCEPT ![i] = r.l], r.err), S \ {d})
<1>. DEFINE items == ItemsOf(M, C[i])
            U == [T EXCEPT ![i] = r.l]
            s == State(r.m, U, r.err)
<1>1. i \in DOMAIN T /\ (d \in S <=> d \in V[i])
  BY InItsSlot
<1>2. /\ Holds(M, T[i], C[i]) /\ T[i].owns /\ V[i] = ToSet(items) /\ Injective(items)
      /\ items \in Seq(Data) /\ Len(items) = Len(C[i]) /\ \A x \in V[i] : Slot(T, x) = i
  BY <1>1, SlotIs
<1>3. V[i] \subseteq S
  BY <1>1 DEF ItemsIn, TableHas
<1>4. RemoveOutcome(M, T[i], C[i], d, r)
  BY <1>2, <1>3, RemoveStep
<1>5. s.m = r.m /\ s.t = U
  BY DEF State
<1>6. CASE r.err = "ENOENT" /\ r.m = M /\ r.l = T[i] /\ d \notin ToSet(items)
  <2>1. U = T
    <3>1. T = [j \in DOMAIN T |-> T[j]]
      BY TableSize DEF TableHas
    <3>. QED  BY <1>1, <1>6, <3>1
  <2>. HIDE DEF s, U
  <2>2. Sound(s, S)
    BY <1>5, <1>6, <2>1 DEF Sound, IsAll
  <2>. QED  BY <1>1, <1>2, <1>6, <2>2 DEF s, U
<1>7. ASSUME NEW p \in 1 .. Len(C[i]),
             /\ r.err = "ok" /\ items[p] = d
             /\ r.l.owns = T[i].owns /\ r.m.live = Spared(M, T[i], {d})
             /\ Becomes(M, C[i], r.m, r.l, RemoveAt(C[i], p), RemoveAt(items, p))
      PROVE  r.err = "ok" /\ d \in S /\ Sound(s, S \ {d})
  <2>. DEFINE u == RemoveAt(items, p)
              e == RemoveAt(C[i], p)
  <2>. HIDE DEF items, U, s
  <2>1. p \in 1 .. Len(items)
    BY <1>2
  <2>2. u \in Seq(Data) /\ Injective(u) /\ ToSet(u) = ToSet(items) \ {d}
    BY <1>2, <1>7, <2>1, TakenOut
  <2>4. d \in ToSet(items)
    <3>1. DOMAIN items = 1 .. Len(items)
      BY <1>2
    <3>. QED  BY <1>7, <2>1, <3>1 DEF ToSet
  <2>. HIDE DEF u, e
  <2>5. Becomes(M, C[i], r.m, r.l, e, u)
    BY <1>7 DEF u, e
  <2>6. SlotBecomes(M, T, C, i, r.m, r.l, e, u)
    BY <1>2, <1>7, <2>2, <2>5 DEF SlotBecomes
  <2>7. PICK D, W : /\ TableBecomes(M, C, r.m, U, D, W)
                    /\ ItemsIn(W) = (ItemsIn(V) \ V[i]) \cup ToSet(u)
    BY <1>1, <2>6, SlotChanges DEF U
  <2>8. ItemsIn(W) = S \ {d} /\ d \in S
    BY <1>2, <1>3, <2>2, <2>4, <2>7
  <2>9. r.m \in Memory /\ ~r.m.fault /\ r.m.used = NodesIn(D) /\ TableHas(r.m, U, D, W)
    BY <2>7 DEF TableBecomes
  <2>10. r.m.live = S \ {d}
    BY <1>2, <1>7 DEF Spared
  <2>. QED  BY <1>5, <1>7, <2>8, <2>9, <2>10 DEF Sound, IsAll
<1>. QED  BY <1>4, <1>6, <1>7 DEF RemoveOutcome

\* ht_remove takes out what is there.
LEMMA RemoveFollows ==
    ASSUME AllThere, NEW d \in Data, ht_remove(d)
    PROVE  Follows
<1>. DEFINE l == ListFor(d)
            i == Slot(ht_table, d)
            r == ll_remove(mem, l, d)
            s == IF IsList(l) THEN Removed(d)
                 ELSE State(mem, ht_table, IF l = Junk THEN "crash" ELSE "ENOENT")
            S == mem.live
<1>1. /\ Contents = S /\ ht_nelements = Cardinality(S) /\ mem \in Memory /\ ~mem.fault
      /\ IsFiniteSet(S) /\ ht_nelements \in Nat
  BY Starts DEF AllThere
<1>2. PICK C, V : TableHas(mem, ht_table, C, V) /\ mem.used = NodesIn(C) /\ ItemsIn(V) = S
  BY Starts
<1>3. i \in DOMAIN ht_table /\ l = ht_table[i] /\ (d \in S <=> d \in V[i])
  BY <1>1, <1>2, InItsSlot DEF ListFor
<1>4. Ends(s, Fewer(s.err), Reply("remove", d, s.err))
  BY DEF ht_remove
<1>5. \/ s.err = "crash"
      \/ s.err = "ENOENT" /\ d \notin S /\ Sound(s, S)
      \/ s.err = "ok" /\ d \in S /\ Sound(s, S \ {d})
  <2>1. CASE IsList(l)
    <3>1. s = State(r.m, [ht_table EXCEPT ![i] = r.l], r.err)
      BY <2>1 DEF Removed
    <3>2. s.err = r.err
      BY <3>1 DEF State
    <3>. HIDE DEF s, r
    <3>. QED  BY <1>1, <1>2, <1>3, <2>1, <3>1, <3>2, RemoveFromTable DEF r
  <2>2. CASE l = Junk
    BY <2>2 DEF IsList, State
  <2>3. CASE ~IsList(l) /\ l # Junk
    <3>1. s = State(mem, ht_table, "ENOENT")
      BY <2>3
    <3>2. V[i] = {}
      BY <1>1, <1>2, <1>3, <2>3, SlotIs
    <3>. HIDE DEF s
    <3>3. s.m = mem /\ s.t = ht_table /\ s.err = "ENOENT"
      BY <3>1 DEF State
    <3>. QED  BY <1>1, <1>2, <1>3, <3>2, <3>3 DEF Sound, IsAll
  <2>. QED  BY <2>1, <2>2, <2>3
<1>. HIDE DEF s, S
<1>6. CASE s.err = "crash"
  BY <1>4, <1>6 DEF Ends, Follows
<1>7. CASE s.err = "ENOENT" /\ d \notin S /\ Sound(s, S)
  <2>1. Fewer(s.err) = Cardinality(S)
    BY <1>1, <1>7 DEF Fewer
  <2>2. \/ status' = "crashed"
        \/ Running' /\ AllThere' /\ Contents' = S /\ reply' = Reply("remove", d, s.err)
    BY <1>4, <1>7, <2>1, EndsSoundly
  <2>3. CASE Running' /\ AllThere' /\ Contents' = S /\ reply' = Reply("remove", d, s.err)
    <3>1. reply' = Reply("remove", d, IF d \in Contents THEN "ok" ELSE "ENOENT") /\ reply'.op = "remove"
      BY <1>1, <1>7, <2>3 DEF Reply
    <3>2. Contents' = Contents \ {d}
      BY <1>1, <1>7, <2>3
    <3>3. Set!Remove(d)
      BY <3>1, <3>2 DEF Set!Remove, Set!Reply, Reply
    <3>. QED  BY <2>3, <3>3 DEF Follows, Set!Next
  <2>. QED  BY <2>2, <2>3 DEF Follows
<1>8. CASE s.err = "ok" /\ d \in S /\ Sound(s, S \ {d})
  <2>1. Fewer(s.err) = Cardinality(S \ {d})
    BY <1>1, <1>8, FS_RemoveElement DEF Fewer
  <2>2. \/ status' = "crashed"
        \/ Running' /\ AllThere' /\ Contents' = S \ {d} /\ reply' = Reply("remove", d, s.err)
    BY <1>4, <1>8, <2>1, EndsSoundly
  <2>3. CASE Running' /\ AllThere' /\ Contents' = S \ {d} /\ reply' = Reply("remove", d, s.err)
    <3>1. reply' = Reply("remove", d, IF d \in Contents THEN "ok" ELSE "ENOENT") /\ reply'.op = "remove"
      BY <1>1, <1>8, <2>3 DEF Reply
    <3>2. Contents' = Contents \ {d}
      BY <1>1, <2>3
    <3>3. Set!Remove(d)
      BY <3>1, <3>2 DEF Set!Remove, Set!Reply, Reply
    <3>. QED  BY <2>3, <3>3 DEF Follows, Set!Next
  <2>. QED  BY <2>2, <2>3 DEF Follows
<1>. QED  BY <1>5, <1>6, <1>7, <1>8

\* ht_destroy leaves nothing behind.
LEMMA DestroyFollows ==
    ASSUME AllThere, ht_destroy
    PROVE  Follows
<1>. DEFINE h == ht_destroy_table(mem, ht_table, FALSE)
            new == [i \in 0 .. HT_START_SIZE - 1 |-> NULL]
            s == [h EXCEPT !.t = new]
<1>1. mem \in Memory /\ ~mem.fault
  BY DEF AllThere
<1>2. PICK C, V : TableHas(mem, ht_table, C, V) /\ mem.used = NodesIn(C) /\ ItemsIn(V) = mem.live
  BY Starts
<1>3. TableGone(mem, C, V, FALSE, h.m)
  BY <1>1, <1>2, DestroyTableStep
<1>4. s.m = h.m /\ s.t = new /\ s.err = h.err
  BY DEF ht_destroy_table, State
<1>5. Ends(s, 0, Reply("create", NULL, "ok"))
  BY DEF ht_destroy
<1>. HIDE DEF h, s
<1>6. h.m \in Memory /\ ~h.m.fault /\ h.m.used = {} /\ h.m.live = {}
  BY <1>1, <1>2, <1>3 DEF TableGone
<1>7. Sound(s, {})
  <2>1. new \in [0 .. HT_START_SIZE - 1 -> {NULL, Junk}] /\ HT_START_SIZE \in Nat \ {0}
    BY HashAssumption
  <2>. HIDE DEF new
  <2>2. PICK D, W : TableHas(h.m, new, D, W) /\ NodesIn(D) = {} /\ ItemsIn(W) = {}
    BY <1>6, <2>1, NewTable
  <2>. QED  BY <1>4, <1>6, <2>2 DEF Sound, IsAll
<1>8. \/ status' = "crashed"
      \/ Running' /\ AllThere' /\ Contents' = {} /\ reply' = Reply("create", NULL, "ok")
  BY <1>5, <1>7, EndsSoundly, FS_EmptySet
<1>9. CASE Running' /\ AllThere' /\ Contents' = {} /\ reply' = Reply("create", NULL, "ok")
  <2>1. Set!Destroy
    BY <1>9 DEF Set!Destroy, Set!Reply, Reply
  <2>. QED  BY <1>9, <2>1 DEF Follows, Set!Next
<1>. QED  BY <1>8, <1>9 DEF Follows

\* Going round from slot i leads to slot j.
LEMMA GoingRound ==
    ASSUME NEW n \in Nat \ {0}, NEW i \in 0 .. n - 1, NEW j \in 0 .. n - 1
    PROVE  \E k \in 0 .. n - 1 : (i + k) % n = j
<1>. DEFINE k == IF i <= j THEN j - i ELSE (j - i) + n
            a == i + k
            q == a \div n
            r == a % n
<1>1. k \in 0 .. n - 1 /\ (a = j \/ a = j + n) /\ a \in Nat
  OBVIOUS
<1>. HIDE DEF k, a
<1>2. q \in Nat /\ r \in 0 .. n - 1 /\ a = n * q + r
  BY <1>1
<1>. HIDE DEF q, r
<1>3. q = 0 => r = j
  BY <1>1, <1>2
<1>4. q = 1 => r = j
  BY <1>1, <1>2
<1>5. ASSUME q >= 2  PROVE r = j
  <2>1. n * q >= n * 2
    BY <1>2, <1>5
  <2>2. n * 2 = n + n /\ n * q \in Nat
    BY <1>2
  <2>. QED  BY <1>1, <1>2, <2>1, <2>2
<1>6. r = j
  BY <1>2, <1>3, <1>4, <1>5
<1>. QED  BY <1>1, <1>6 DEF r, a

\* The slot at which ht_get_random stops is not empty.
LEMMA StopsSomewhere ==
    ASSUME NEW C, NEW V, TableHas(mem, ht_table, C, V), mem \in Memory, ItemsIn(V) # {},
           NEW i \in DOMAIN ht_table
    PROVE  \E j \in DOMAIN ht_table : Stops(i) = ht_table[j] /\ Occupied(ht_table[j])
<1>. DEFINE n == Size(ht_table)
            at(k) == (i + k) % n
            hits == {k \in 0 .. n - 1 : Occupied(ht_table[at(k)])}
<1>1. n \in Nat \ {0} /\ DOMAIN ht_table = 0 .. n - 1 /\ ht_table \in [DOMAIN ht_table -> SlotValue]
  BY TableSize DEF TableHas
<1>2. PICK j \in DOMAIN ht_table : V[j] # {}
  <2>1. DOMAIN V = DOMAIN ht_table
    BY DEF TableHas
  <2>. QED  BY <2>1 DEF ItemsIn
<1>3. Occupied(ht_table[j])
  <2>1. IsList(ht_table[j])
    BY <1>2, SlotIs
  <2>2. IsFiniteSet(V[j]) /\ Cardinality(V[j]) = ht_table[j].nnodes
    BY <2>1, SlotCount
  <2>3. ht_table[j].nnodes # 0
    BY <1>2, <2>2, FS_EmptySet
  <2>. QED  BY <2>1, <2>3 DEF Occupied, IsList, ll_empty
<1>. HIDE DEF n
<1>4. hits # {}
  <2>1. PICK k \in 0 .. n - 1 : (i + k) % n = j
    BY <1>1, GoingRound
  <2>. QED  BY <1>3, <2>1
<1>5. hits \subseteq Nat /\ Stops(i) = IF hits = {} THEN NULL ELSE ht_table[at(Min(hits))]
  BY DEF Stops, n
<1>6. Min(hits) \in hits
  <2>. HIDE DEF hits
  <2>. QED  BY <1>4, <1>5, MinIsLeast
<1>7. at(Min(hits)) \in DOMAIN ht_table
  <2>1. Min(hits) \in 0 .. n - 1
    BY <1>6
  <2>. HIDE DEF hits
  <2>. QED  BY <1>1, <2>1
<1>8. Occupied(ht_table[at(Min(hits))])
  BY <1>6
<1>. QED  BY <1>4, <1>5, <1>7, <1>8

\* ht_get_random returns an element of the table.
LEMMA RandomFollows ==
    ASSUME AllThere, ht_get_random \/ ht_get_random_ENOENT
    PROVE  Follows
<1>. DEFINE S == mem.live
            s == State(mem, ht_table, "ok")
<1>1. /\ Contents = S /\ ht_nelements = Cardinality(S) /\ mem \in Memory
      /\ IsFiniteSet(S) /\ Sound(s, S)
  BY Starts DEF AllThere
<1>. HIDE DEF s
<1>2. PICK C, V : TableHas(mem, ht_table, C, V) /\ ItemsIn(V) = S
  BY Starts
<1>3. ht_empty <=> S = {}
  BY <1>1, FS_EmptySet DEF ht_empty
<1>4. CASE ht_get_random_ENOENT
  <2>1. S = {} /\ 0 = Cardinality(S)
    BY <1>1, <1>3, <1>4, FS_EmptySet DEF ht_get_random_ENOENT
  <2>2. Ends(s, 0, Reply("random", NULL, "ENOENT"))
    BY <1>4 DEF ht_get_random_ENOENT, s
  <2>. HIDE DEF S
  <2>3. \/ status' = "crashed"
        \/ Running' /\ AllThere' /\ Contents' = S /\ reply' = Reply("random", NULL, "ENOENT")
    BY <1>1, <2>1, <2>2, EndsSoundly
  <2>4. CASE Running' /\ AllThere' /\ Contents' = S /\ reply' = Reply("random", NULL, "ENOENT")
    <3>1. Set!Random
      BY <1>1, <2>1, <2>4 DEF Set!Random, Set!Reply, Reply
    <3>. QED  BY <2>4, <3>1 DEF Follows, Set!Next
  <2>. QED  BY <2>3, <2>4 DEF Follows
<1>5. CASE ht_get_random
  <2>1. PICK i \in DOMAIN ht_table :
          IF IsList(Stops(i))
          THEN \E d \in RandomOf(mem, Stops(i)) : Ends(s, ht_nelements, Reply("random", d, "ok"))
          ELSE status' = IF Stops(i) = Junk THEN "crashed" ELSE "loops"
    BY <1>5 DEF ht_get_random, s
  <2>2. S # {}
    BY <1>3, <1>5 DEF ht_get_random
  <2>3. PICK j \in DOMAIN ht_table : Stops(i) = ht_table[j] /\ Occupied(ht_table[j])
    BY <1>1, <1>2, <2>2, StopsSomewhere
  <2>4. CASE ~IsList(ht_table[j])
    <3>1. ht_table[j] = Junk
      BY <2>3, <2>4 DEF Occupied, IsList
    <3>. QED  BY <2>1, <2>3, <2>4, <3>1 DEF Follows
  <2>5. CASE IsList(ht_table[j])
    <3>. DEFINE l == ht_table[j]
    <3>1. PICK d \in RandomOf(mem, l) : Ends(s, ht_nelements, Reply("random", d, "ok"))
      BY <2>1, <2>3, <2>5
    <3>2. d \in S
      <4>1. /\ Items(mem, l) = ItemsOf(mem, C[j]) /\ DOMAIN Items(mem, l) = 1 .. Len(C[j]) /\ Len(C[j]) \in Nat
            /\ V[j] = ToSet(Items(mem, l)) /\ Holds(mem, l, C[j])
        BY <1>1, <1>2, <2>5, SlotIs
      <4>2. l.nnodes = Len(C[j]) /\ l.nnodes # 0
        BY <2>3, <2>5, <4>1 DEF Holds, Occupied, ll_empty
      <4>3. PICK k \in 0 .. l.nnodes - 1 : d = Items(mem, l)[k + 1]
        BY <4>2 DEF RandomOf, ll_empty, ll_length
      <4>4. k + 1 \in DOMAIN Items(mem, l)
        BY <4>1, <4>2
      <4>5. d \in V[j]
        BY <4>1, <4>3, <4>4 DEF ToSet
      <4>6. DOMAIN V = DOMAIN ht_table
        BY <1>2 DEF TableHas
      <4>. QED  BY <1>2, <4>5, <4>6 DEF ItemsIn
    <3>. HIDE DEF S
    <3>3. \/ status' = "crashed"
          \/ Running' /\ AllThere' /\ Contents' = S /\ reply' = Reply("random", d, "ok")
      BY <1>1, <3>1, EndsSoundly
    <3>4. CASE Running' /\ AllThere' /\ Contents' = S /\ reply' = Reply("random", d, "ok")
      <4>1. Set!Random
        BY <1>1, <3>2, <3>4 DEF Set!Random, Set!Reply, Reply
      <4>. QED  BY <3>4, <4>1 DEF Follows, Set!Next
    <3>. QED  BY <3>3, <3>4 DEF Follows
  <2>. QED  BY <2>4, <2>5
<1>. QED  BY <1>4, <1>5

\* How many elements ht_iterate passes on, unless it stops at Junk.
LEMMA CallsAre ==
    ASSUME NEW w \in Seq(Data \cup {Junk}), NEW S, S \subseteq Data, IsFiniteSet(S),
           \A x : x # Junk => (x \in ToSet(w) <=> x \in S),
           \A i, j \in 1 .. Len(w) : w[i] = w[j] /\ w[i] # Junk => i = j,
           NEW d \in Data \cup {NULL}, Junk \notin ToSet(SubSeq(w, 1, Calls(w, d)))
    PROVE  IF d \in S THEN Calls(w, d) \in 1 .. Cardinality(S) ELSE Calls(w, d) = Cardinality(S)
<1>. DEFINE n == Calls(w, d)
            u == SubSeq(w, 1, n)
            D == Data \cup {Junk}
<1>1. Len(w) \in Nat /\ DOMAIN w = 1 .. Len(w) /\ Junk \notin Data /\ d # Junk
  BY HashAssumption
<1>2. (d \in S => n \in 1 .. Len(w) /\ w[n] = d) /\ (d \notin S => n = Len(w))
  BY <1>1 DEF Calls, ToSet
<1>3. n \in 0 .. Len(w)
  BY <1>1, <1>2
<1>. HIDE DEF n
<1>4. u \in Seq(D) /\ Len(u) = n /\ DOMAIN u = 1 .. n /\ \A i \in 1 .. n : u[i] = w[i]
  BY <1>1, <1>3
<1>5. Junk \notin ToSet(u)
  BY DEF n
<1>. HIDE DEF u, D
<1>6. \A i \in 1 .. n : i \in 1 .. Len(w) /\ u[i] # Junk
  BY <1>1, <1>3, <1>4, <1>5 DEF ToSet
<1>7. Injective(u)
  BY <1>4, <1>6 DEF Injective
<1>8. Cardinality(ToSet(u)) = n
  BY <1>4, <1>7, Counted
<1>9. ToSet(u) \subseteq S
  BY <1>1, <1>4, <1>6 DEF ToSet
<1>10. Cardinality(S) \in Nat /\ n <= Cardinality(S)
  BY <1>8, <1>9, FS_Subset, FS_CardinalityType
<1>11. d \notin S => S \subseteq ToSet(u)
  <2>1. ASSUME d \notin S, NEW x \in S  PROVE x \in ToSet(u)
    <3>1. n = Len(w) /\ x # Junk /\ x \in ToSet(w)
      BY <1>1, <1>2, <2>1
    <3>. QED  BY <1>1, <1>4, <3>1 DEF ToSet
  <2>. QED  BY <2>1
<1>12. d \notin S => n = Cardinality(S)
  BY <1>8, <1>9, <1>11
<1>. QED  BY <1>2, <1>10, <1>12 DEF n

\* ht_iterate passes every element once.
LEMMA IterateFollows ==
    ASSUME AllThere, NEW d \in Data \cup {NULL}, ht_iterate(d)
    PROVE  Follows
<1>. DEFINE w == Walked(mem, ht_table)
            n == Calls(w, d)
            S == mem.live
            s == State(mem, ht_table, IF Junk \in ToSet(SubSeq(w, 1, n)) THEN "crash" ELSE "ok")
<1>1. /\ Contents = S /\ ht_nelements = Cardinality(S) /\ mem \in Memory
      /\ IsFiniteSet(S) /\ S \subseteq Data /\ Sound(State(mem, ht_table, "ok"), S)
  BY Starts DEF AllThere
<1>2. PICK C, V : TableHas(mem, ht_table, C, V) /\ ItemsIn(V) = S
  BY Starts
<1>3. /\ w \in Seq(Data \cup {Junk})
      /\ \A x : x \in ToSet(w) <=> x \in S \/ (x = Junk /\ HasJunk(ht_table))
      /\ \A i, j \in 1 .. Len(w) : w[i] = w[j] /\ w[i] # Junk => i = j
  BY <1>1, <1>2, WalkedIs
<1>4. Ends(s, ht_nelements, Reply("iterate", d, n))
  BY DEF ht_iterate
<1>. HIDE DEF w
<1>5. CASE Junk \in ToSet(SubSeq(w, 1, n))
  BY <1>4, <1>5 DEF Ends, State, Follows
<1>6. CASE Junk \notin ToSet(SubSeq(w, 1, n))
  <2>. HIDE DEF S
  <2>1. IF d \in S THEN n \in 1 .. Cardinality(S) ELSE n = Cardinality(S)
    BY <1>1, <1>3, <1>6, CallsAre
  <2>. HIDE DEF n
  <2>2. s = State(mem, ht_table, "ok")
    BY <1>6
  <2>. HIDE DEF s
  <2>3. \/ status' = "crashed"
        \/ Running' /\ AllThere' /\ Contents' = S /\ reply' = Reply("iterate", d, n)
    BY <1>1, <1>4, <2>2, EndsSoundly
  <2>4. CASE Running' /\ AllThere' /\ Contents' = S /\ reply' = Reply("iterate", d, n)
    <3>1. reply'.op = "iterate" /\ reply'.data = d /\ reply'.res = n
      BY <2>4 DEF Reply
    <3>2. IF d \in Contents THEN reply'.res \in 1 .. Cardinality(Contents)
                             ELSE reply'.res = Cardinality(Contents)
      BY <1>1, <2>1, <3>1
    <3>3. Contents' = Contents
      BY <1>1, <2>4
    <3>4. Set!Iterate(d)
      BY <3>1, <3>2, <3>3 DEF Set!Iterate, Set!Cardinality, Cardinality
    <3>. QED  BY <2>4, <3>4 DEF Follows, Set!Next
  <2>. QED  BY <2>3, <2>4 DEF Follows
<1>. QED  BY <1>5, <1>6

-----------------------------------------------------------------------------
(* The theorems                                                            *)

\* An empty table is such a state.
LEMMA TableStarts == Init => TableIInv /\ Set!Init
<1>. SUFFICES ASSUME Init  PROVE TableIInv /\ Set!Init
  OBVIOUS
<1>1. mem \in Memory /\ mem.used = {} /\ mem.live = {} /\ mem.fault = FALSE
  <2>1. Blank \in Cell
    BY DEF Blank, Cell
  <2>. QED  BY <2>1 DEF Init, EmptyMemory, Memory
<1>2. ht_table \in [0 .. HT_START_SIZE - 1 -> {NULL, Junk}] /\ HT_START_SIZE \in Nat \ {0}
  BY HashAssumption DEF Init
<1>3. PICK C, V : TableHas(mem, ht_table, C, V) /\ NodesIn(C) = {} /\ ItemsIn(V) = {}
  BY <1>1, <1>2, NewTable
<1>4. AllThere
  BY <1>1, <1>3, FS_EmptySet DEF AllThere, IsAll, Init
<1>5. Contents = {}
  BY <1>1, <1>4, Starts
<1>. QED  BY <1>4, <1>5 DEF TableIInv, Init, Set!Init, Set!Reply, Reply

\* Every call keeps it, and is a step of a set or stops at Junk.
LEMMA TableSteps ==
    ASSUME TableIInv, Next
    PROVE  Follows
<1>1. AllThere
  BY DEF TableIInv, Next, Running
<1>2. ASSUME NEW d \in Data, ht_insert(d) \/ ht_find(d) \/ ht_remove(d)  PROVE Follows
  BY <1>1, <1>2, InsertFollows, FindFollows, RemoveFollows
<1>3. ASSUME NEW d \in Data \cup {NULL}, ht_iterate(d)  PROVE Follows
  BY <1>1, <1>3, IterateFollows
<1>. QED  BY <1>1, <1>2, <1>3, RandomFollows, DestroyFollows DEF Next

\* Whatever the program does, the table stays all there is, with its data, until
\* it stops at Junk.
THEOREM TableInvariant == Spec => []TableIInv
<1>1. TableIInv /\ [Next]_vars => TableIInv'
  <2>1. SUFFICES ASSUME TableIInv, [Next]_vars  PROVE TableIInv'
    OBVIOUS
  <2>2. CASE Next
    <3>1. Follows
      BY <2>1, <2>2, TableSteps
    <3>. QED  BY <3>1 DEF Follows, TableIInv, Running
  <2>3. CASE UNCHANGED vars
    BY <2>1, <2>3 DEF TableIInv, AllThere, Running, vars
  <2>. QED  BY <2>1, <2>2, <2>3
<1>2. Init => TableIInv
  BY TableStarts
<1>. QED  BY <1>1, <1>2, PTL DEF Spec

(* No node and no data object leaks or is freed twice, whether ht_resize   *)
(* succeeds, fails at its first malloc or half-way through.                *)
THEOREM TableOwnsItsData == Spec => []TableOwnsAll
<1>1. TableIInv => TableOwnsAll
  <2>1. SUFFICES ASSUME AllThere  PROVE TableOwnsAll
    BY DEF TableIInv, TableOwnsAll
  <2>2. PICK C, V : TableHas(mem, ht_table, C, V) /\ mem.used = NodesIn(C)
    BY <2>1, Starts
  <2>3. mem.used = UNION {ToSet(Chain(mem, l)) : l \in ListsIn(ht_table)}
    BY <2>1, <2>2, ContentsAre DEF AllThere
  <2>. QED  BY <2>1, <2>3, Starts DEF TableOwnsAll, AllThere
<1>. QED  BY <1>1, TableInvariant, PTL

(* Every element is once in the slot its hash has for the present size,    *)
(* and the assertions of ht_check and ll_check hold.                       *)
THEOREM ElementsHashedRight == Spec => []HashedRight
<1>1. TableIInv => HashedRight
  <2>1. SUFFICES ASSUME AllThere  PROVE HashedRight
    BY DEF TableIInv, HashedRight
  <2>2. PICK C, V : TableHas(mem, ht_table, C, V) /\ ItemsIn(V) = mem.live
    BY <2>1, Starts
  <2>3. ASSUME NEW i \in DOMAIN ht_table, IsList(ht_table[i])
        PROVE  /\ IsInjective(Items(mem, ht_table[i]))
               /\ \A d \in ToSet(Items(mem, ht_table[i])) : Slot(ht_table, d) = i
               /\ ll_check(mem, ht_table[i])
    <3>1. mem \in Memory
      BY <2>1 DEF AllThere
    <3>2. /\ Items(mem, ht_table[i]) = ItemsOf(mem, C[i]) /\ Chain(mem, ht_table[i]) = C[i]
          /\ DOMAIN ItemsOf(mem, C[i]) = 1 .. Len(C[i]) /\ Len(ItemsOf(mem, C[i])) = Len(C[i])
          /\ Injective(ItemsOf(mem, C[i])) /\ V[i] = ToSet(ItemsOf(mem, C[i]))
          /\ Holds(mem, ht_table[i], C[i]) /\ \A d \in V[i] : Slot(ht_table, d) = i
      BY <2>2, <2>3, <3>1, SlotIs
    <3>3. IsInjective(Items(mem, ht_table[i]))
      BY <3>2 DEF IsInjective, Injective
    <3>4. ll_check(mem, ht_table[i])
      BY <3>2 DEF ll_check, Holds
    <3>. QED  BY <3>2, <3>3, <3>4
  <2>4. Nnodes(ht_table) = ht_nelements
    BY <2>1, <2>2, SumIs DEF AllThere
  <2>5. \A l \in ListsIn(ht_table) : ll_check(mem, l)
    BY <2>3 DEF ListsIn
  <2>. QED  BY <2>3, <2>4, <2>5 DEF HashedRight
<1>. QED  BY <1>1, TableInvariant, PTL

\* The loop of ht_get_random never goes round for ever.
THEOREM RandomAlwaysReturns == Spec => []RandomReturns
<1>1. TableIInv => RandomReturns
  BY DEF TableIInv, RandomReturns
<1>. QED  BY <1>1, TableInvariant, PTL

(* Every call that returns is a step of a set: no insertion that made the  *)
(* table grow, or fail to grow, loses or repeats anything.                 *)
THEOREM ImplementsSet == Spec => IsSet
<1>1. TableIInv /\ [Next]_vars => [~Running' \/ Set!Next]_<<mem, ht_table, reply>>
  <2>1. SUFFICES ASSUME TableIInv, [Next]_vars
                 PROVE  [~Running' \/ Set!Next]_<<mem, ht_table, reply>>
    OBVIOUS
  <2>2. CASE Next
    <3>1. Follows
      BY <2>1, <2>2, TableSteps
    <3>. QED  BY <3>1 DEF Follows, Running
  <2>3. CASE UNCHANGED vars
    BY <2>3 DEF vars
  <2>. QED  BY <2>1, <2>2, <2>3
<1>2. Init => Set!Init
  BY TableStarts
<1>. QED  BY <1>1, <1>2, TableInvariant, PTL DEF Spec, IsSet

=============================================================================
