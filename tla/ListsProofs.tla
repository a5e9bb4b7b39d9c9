----------------------------- MODULE ListsProofs -----------------------------
(***************************************************************************)
(* What the operators of Lists do to a list and to the memory it is in, for*)
(* any number of nodes and any data; and, at the end, the proofs about     *)
(* LinkedList: every node is accounted for and the lists are independent   *)
(* sequences, for any number of lists, nodes and items.                    *)
(***************************************************************************)
EXTENDS LinkedList, FiniteSetTheorems, SequenceTheorems, WellFoundedInduction,
        TLAPS

-----------------------------------------------------------------------------
(* Induction, on the least counterexample, and recursion                   *)

\* A set of natural numbers has a least element.
LEMMA LeastOf ==
    ASSUME NEW T, T \subseteq Nat, T # {}
    PROVE  \E x \in T : \A y \in T : x <= y
<1>. DEFINE R == {ss \in Nat \X Nat : ss[1] < ss[2]}
<1>1. OpToRel(<, Nat) = R
  BY Zenon DEF OpToRel
<1>2. IsWellFoundedOn(R, Nat)
  BY <1>1, NatLessThanWellFounded, Zenon
<1>. HIDE DEF R
<1>3. PICK x \in T : \A y \in T : <<y, x>> \notin R
  BY <1>2, WFMin
<1>4. \A y \in T : ~(y < x)
  BY <1>3 DEF R
<1>. QED  BY <1>4

\* The least of a set of natural numbers is what Min returns.
LEMMA MinIsLeast ==
    ASSUME NEW T, T \subseteq Nat, T # {}
    PROVE  Min(T) \in T /\ \A y \in T : Min(T) <= y
<1>. DEFINE Least(x) == \A y \in T : x <= y
<1>1. \E x \in T : Least(x)
  BY LeastOf
<1>2. Min(T) = CHOOSE x \in T : Least(x)
  BY DEF Min
<1>. HIDE DEF Least
<1>3. Min(T) \in T /\ Least(Min(T))
  BY <1>1, <1>2
<1>. QED  BY <1>3 DEF Least

\* g starts with a and goes on with F, up to n.
Iterates(g, a, F, n) == g[0] = a /\ \A i \in 1 .. n : g[i] = F[i][g[i - 1]]

\* F leads from each of the sets P[0], P[1], ... to the next.
Carries(F, P, n) == \A i \in 1 .. n : \A h \in P[i - 1] : F[i][h] \in P[i]

\* Then such a g exists, in these sets.
LEMMA IteratedIn ==
    ASSUME NEW N \in Nat, NEW P, NEW a \in P[0], NEW F, Carries(F, P, N)
    PROVE  \E g : /\ g = [i \in 0 .. N |-> g[i]] /\ Iterates(g, a, F, N)
                  /\ \A i \in 0 .. N : g[i] \in P[i]
<1>. DEFINE Good(g, n) == /\ g = [i \in 0 .. n |-> g[i]] /\ Iterates(g, a, F, n)
                          /\ \A i \in 0 .. n : g[i] \in P[i]
            bad == {n \in 0 .. N : ~\E g : Good(g, n)}
<1>1. SUFFICES ASSUME bad # {}  PROVE FALSE
  <2>. HIDE DEF Good
  <2>1. N \in 0 .. N
    OBVIOUS
  <2>. QED  BY <2>1 DEF Good
<1>2. PICK n \in bad : \A k \in bad : n <= k
  <2>1. bad \subseteq Nat
    OBVIOUS
  <2>. HIDE DEF bad
  <2>. QED  BY <1>1, <2>1, LeastOf
<1>3. n \in 0 .. N /\ ~\E g : Good(g, n)
  BY <1>2
<1>4. CASE n = 0
  <2>. DEFINE g == [i \in 0 .. 0 |-> a]
  <2>1. g[0] = a /\ g = [i \in 0 .. 0 |-> g[i]] /\ \A i \in 0 .. 0 : i = 0
    OBVIOUS
  <2>2. Good(g, 0)
    <3>. HIDE DEF g
    <3>. QED  BY <2>1 DEF Iterates
  <2>. QED  BY <1>3, <1>4, <2>2
<1>5. CASE n > 0
  <2>1. n - 1 \in 0 .. N /\ n - 1 \notin bad /\ n \in 1 .. N
    BY <1>2, <1>3, <1>5
  <2>2. PICK g : Good(g, n - 1)
    <3>. HIDE DEF Good
    <3>. QED  BY <2>1
  <2>. DEFINE x == F[n][g[n - 1]]
              h == [i \in 0 .. n |-> IF i = n THEN x ELSE g[i]]
  <2>3. x \in P[n]
    <3>1. g[n - 1] \in P[n - 1]
      BY <2>1, <2>2
    <3>. QED  BY <2>1, <3>1 DEF Carries
  <2>4. h[n] = x /\ \A i \in 0 .. n - 1 : h[i] = g[i]
    BY <2>1
  <2>5. h = [i \in 0 .. n |-> h[i]]
    OBVIOUS
  <2>6. h[n] = F[n][h[n - 1]]
    BY <2>1, <2>4
  <2>. HIDE DEF h, x
  <2>7. Iterates(h, a, F, n)
    <3>1. ASSUME NEW i \in 1 .. n  PROVE h[i] = F[i][h[i - 1]]
      <4>1. CASE i = n
        BY <2>6, <4>1
      <4>2. CASE i # n
        <5>1. i \in 1 .. n - 1 /\ i \in 0 .. n - 1 /\ i - 1 \in 0 .. n - 1
          BY <2>1, <4>2
        <5>. QED  BY <2>2, <2>4, <5>1 DEF Iterates
      <4>. QED  BY <4>1, <4>2
    <3>2. h[0] = a
      <4>1. 0 \in 0 .. n - 1
        BY <2>1
      <4>. QED  BY <2>2, <2>4, <4>1 DEF Iterates
    <3>. QED  BY <3>1, <3>2 DEF Iterates
  <2>8. \A i \in 0 .. n : h[i] \in P[i]
    <3>1. \A i \in 0 .. n : i = n \/ i \in 0 .. n - 1
      BY <2>1
    <3>. QED  BY <2>2, <2>3, <2>4, <3>1
  <2>. QED  BY <1>3, <2>5, <2>7, <2>8
<1>. QED  BY <1>3, <1>4, <1>5

\* What goes on with F from a is in these sets.
LEMMA IteratesIn ==
    ASSUME NEW N \in Nat, NEW P, NEW a \in P[0], NEW F, Carries(F, P, N),
           NEW g, g[0] = a, \A i \in 1 .. N : g[i - 1] \in P[i - 1] => g[i] = F[i][g[i - 1]]
    PROVE  \A i \in 0 .. N : g[i] \in P[i]
<1>. DEFINE bad == {i \in 0 .. N : g[i] \notin P[i]}
<1>1. SUFFICES ASSUME bad # {}  PROVE FALSE
  OBVIOUS
<1>2. PICK i \in bad : \A k \in bad : i <= k
  <2>1. bad \subseteq Nat
    OBVIOUS
  <2>. HIDE DEF bad
  <2>. QED  BY <1>1, <2>1, LeastOf
<1>3. i \in 1 .. N /\ g[i] \notin P[i]
  BY <1>2
<1>4. i - 1 \in 0 .. N /\ i - 1 \notin bad
  BY <1>2, <1>3
<1>. QED  BY <1>3, <1>4 DEF Carries

\* The same with one set.
LEMMA Iterated ==
    ASSUME NEW D, NEW a \in D, NEW F \in [Nat -> [D -> D]], NEW N \in Nat
    PROVE  \E g \in [0 .. N -> D] : Iterates(g, a, F, N)
<1>. DEFINE P == [i \in Nat |-> D]
<1>1. a \in P[0] /\ \A i \in 1 .. N : P[i - 1] = D /\ P[i] = D /\ F[i] \in [D -> D]
  OBVIOUS
<1>2. Carries(F, P, N)
  BY <1>1 DEF Carries
<1>3. \A i \in 0 .. N : P[i] = D
  OBVIOUS
<1>. HIDE DEF P
<1>4. PICK g : /\ g = [i \in 0 .. N |-> g[i]] /\ Iterates(g, a, F, N)
               /\ \A i \in 0 .. N : g[i] \in P[i]
  BY <1>1, <1>2, IteratedIn
<1>. QED  BY <1>3, <1>4

-----------------------------------------------------------------------------
(* A list and its nodes                                                    *)

Cell == [data : Data \cup {NULL}, next : Node \cup {NULL}]
Memory ==
    [used : SUBSET Node, cell : [Node -> Cell], live : SUBSET Data, fault : BOOLEAN, budget : Nat]

\* What comes after the i-th node of a chain.
Succ(c, i) == IF i = Len(c) THEN NULL ELSE c[i + 1]

\* c is linked, in M.
Linear(M, c) ==
    /\ c \in Seq(Node)
    /\ \A i, j \in 1 .. Len(c) : c[i] = c[j] => i = j
    /\ \A i \in 1 .. Len(c) : M.cell[c[i]].next = Succ(c, i)

\* There are at least as many nodes as it has.
LEMMA LinearIsShort ==
    ASSUME NEW M, NEW c, Linear(M, c)
    PROVE  Len(c) \in 0 .. Cardinality(Node) /\ Cardinality(Node) \in Nat
<1>1. Len(c) \in Nat /\ c \in [1 .. Len(c) -> Node]
  BY DEF Linear
<1>2. IsFiniteSet(Node) /\ Cardinality(Node) \in Nat
  BY ListsAssumption, FS_CardinalityType
<1>3. IsFiniteSet(1 .. Len(c)) /\ Cardinality(1 .. Len(c)) = Len(c)
  BY <1>1, FS_Interval, SMTT(30)
<1>4. ~(Cardinality(Node) < Cardinality(1 .. Len(c)))
  BY <1>1, <1>2, <1>3, FS_PigeonHole DEF Linear
<1>. QED  BY <1>1, <1>2, <1>3, <1>4

(* The walk along ln_next finds it.                                        *)
LEMMA WalkFinds ==
    ASSUME NEW M \in Memory, NEW c, Linear(M, c)
    PROVE  Walk(M, Succ(c, 0)) = c
<1>. DEFINE N == Cardinality(Node)
            L == Len(c)
            NN == Node \cup {NULL}
            D == [NN -> Seq(Node)]
            Solves(f) ==
              f = [i \in 0 .. N |->
                    [m \in NN |-> IF i = 0 \/ m = NULL THEN << >>
                                  ELSE <<m>> \o f[i - 1][M.cell[m].next]]]
<1>1. L \in 0 .. N /\ N \in Nat /\ c \in Seq(Node)
  BY LinearIsShort DEF Linear
<1>2. \A m \in Node : M.cell[m].next \in NN
  BY DEF Memory, Cell
<1>. HIDE DEF N
<1>3. \E f : Solves(f)
  <2>. DEFINE a == [m \in NN |-> << >>]
              G(i, h) == [m \in NN |-> IF i = 0 \/ m = NULL THEN << >> ELSE <<m>> \o h[M.cell[m].next]]
              F == [i \in Nat |-> [h \in D |-> G(i, h)]]
  <2>1. a \in D
    OBVIOUS
  <2>2. ASSUME NEW i \in Nat, NEW h \in D  PROVE G(i, h) \in D
    <3>1. SUFFICES ASSUME NEW m \in Node  PROVE <<m>> \o h[M.cell[m].next] \in Seq(Node)
      OBVIOUS
    <3>2. h[M.cell[m].next] \in Seq(Node)
      BY <1>2
    <3>. QED  BY <3>2
  <2>3. F \in [Nat -> [D -> D]]
    <3>. HIDE DEF D, G
    <3>. QED  BY <2>2
  <2>4. PICK g \in [0 .. N -> D] : Iterates(g, a, F, N)
    <3>. HIDE DEF F, a, D
    <3>. QED  BY <1>1, <2>1, <2>3, Iterated
  <2>5. \A i \in 1 .. N : i \in Nat /\ i - 1 \in 0 .. N /\ i # 0
    BY <1>1
  <2>6. g[0] = a /\ \A i \in 1 .. N : g[i] = G(i, g[i - 1])
    <3>. HIDE DEF G, a, D
    <3>. QED  BY <2>4, <2>5 DEF Iterates
  <2>7. g[0] = G(0, g[0 - 1])
    BY <2>6
  <2>8. Solves(g)
    <3>1. g = [i \in 0 .. N |-> g[i]]
      BY <2>4
    <3>2. \A i \in 0 .. N : i = 0 \/ i \in 1 .. N
      BY <1>1
    <3>3. g = [i \in 0 .. N |-> G(i, g[i - 1])]
      <4>. HIDE DEF G, D
      <4>. QED  BY <2>6, <2>7, <3>1, <3>2
    <3>. QED  BY <3>3
  <2>. QED  BY <2>8
<1>. DEFINE f == CHOOSE f : Solves(f)
<1>4. Solves(f)
  <2>. HIDE DEF Solves
  <2>. QED  BY <1>3
<1>5. Walk(M, Succ(c, 0)) = f[N][Succ(c, 0)]
  BY DEF Walk, N
<1>. HIDE DEF f
<1>6. /\ \A i \in 0 .. N : f[i][NULL] = << >>
      /\ \A i \in 1 .. N : \A m \in Node : f[i][m] = <<m>> \o f[i - 1][M.cell[m].next]
  <2>1. \A i \in 0 .. N : f[i] = [m \in NN |-> IF i = 0 \/ m = NULL THEN << >>
                                             ELSE <<m>> \o f[i - 1][M.cell[m].next]]
    BY <1>4
  <2>2. \A i \in 0 .. N : f[i][NULL] = << >>
    BY <2>1
  <2>3. \A i \in 1 .. N : i \in 0 .. N /\ i # 0
    BY <1>1
  <2>4. \A m \in Node : m # NULL
    BY ListsAssumption
  <2>5. \A i \in 1 .. N : \A m \in Node : f[i][m] = <<m>> \o f[i - 1][M.cell[m].next]
    <3>1. SUFFICES ASSUME NEW i \in 1 .. N, NEW m \in Node
                   PROVE  f[i][m] = <<m>> \o f[i - 1][M.cell[m].next]
      OBVIOUS
    <3>2. i \in 0 .. N /\ i # 0 /\ m # NULL /\ m \in NN
      BY <2>3, <2>4
    <3>3. f[i] = [x \in NN |-> IF i = 0 \/ x = NULL THEN << >> ELSE <<x>> \o f[i - 1][M.cell[x].next]]
      BY <2>1, <3>2
    <3>. HIDE DEF NN
    <3>. QED  BY <3>2, <3>3
  <2>. QED  BY <2>2, <2>5
<1>. HIDE DEF Solves
<1>. DEFINE Right(k) == \A i \in k .. N : f[i][Succ(c, L - k)] = SubSeq(c, L - k + 1, L)
            bad == {k \in 0 .. L : ~Right(k)}
<1>7. bad = {}
  <2>1. SUFFICES ASSUME bad # {}  PROVE FALSE
    OBVIOUS
  <2>2. PICK k \in bad : \A x \in bad : k <= x
    <3>1. bad \subseteq Nat
      BY <1>1
    <3>. HIDE DEF bad
    <3>. QED  BY <2>1, <3>1, LeastOf
  <2>3. k \in 0 .. L /\ ~Right(k)
    BY <2>2
  <2>4. k # 0
    <3>1. Succ(c, L - 0) = NULL /\ SubSeq(c, L - 0 + 1, L) = << >>
      BY <1>1 DEF Succ
    <3>. QED  BY <1>1, <1>6, <2>3, <3>1
  <2>5. k - 1 \in 0 .. L /\ Right(k - 1)
    <3>. HIDE DEF Right
    <3>. QED  BY <1>1, <2>2, <2>3, <2>4
  <2>. DEFINE j == L - k + 1
  <2>6. j \in 1 .. L /\ L - k = j - 1 /\ L - (k - 1) = j
    BY <1>1, <2>3, <2>4
  <2>7. Succ(c, L - k) = c[j] /\ c[j] \in Node
    BY <1>1, <2>6 DEF Succ
  <2>8. M.cell[c[j]].next = Succ(c, j)
    BY <2>6 DEF Linear
  <2>9. SubSeq(c, j, L) = <<c[j]>> \o SubSeq(c, j + 1, L)
    BY <1>1, <2>6
  <2>10. ASSUME NEW i \in k .. N  PROVE f[i][Succ(c, L - k)] = SubSeq(c, j, L)
    <3>1. i \in 1 .. N /\ i - 1 \in k - 1 .. N
      BY <1>1, <2>3, <2>4
    <3>2. f[i - 1][Succ(c, j)] = SubSeq(c, j + 1, L)
      BY <2>5, <2>6, <3>1
    <3>3. f[i][c[j]] = <<c[j]>> \o f[i - 1][Succ(c, j)]
      BY <1>6, <2>7, <2>8, <3>1
    <3>. QED  BY <2>7, <2>9, <3>2, <3>3
  <2>. QED  BY <2>3, <2>10
<1>8. Right(L) /\ N \in L .. N /\ L - L = 0
  <2>. HIDE DEF Right
  <2>. QED  BY <1>1, <1>7
<1>9. SubSeq(c, 1, L) = c
  BY <1>1
<1>. QED  BY <1>5, <1>8, <1>9

\* The list l has the nodes c, all of them allocated and with data.
Holds(M, l, c) ==
    /\ l \in List
    /\ Linear(M, c)
    /\ l.nnodes = Len(c) /\ l.root = Succ(c, 0)
    /\ \A i \in 1 .. Len(c) : c[i] \in M.used /\ M.cell[c[i]].data \in Data

ItemsOf(M, c) == [i \in 1 .. Len(c) |-> M.cell[c[i]].data]

\* They are the chain of l, and what is in them its items.
LEMMA ChainIs ==
    ASSUME NEW M \in Memory, NEW l, NEW c, Holds(M, l, c)
    PROVE  /\ Chain(M, l) = c /\ Items(M, l) = ItemsOf(M, c)
           /\ ItemsOf(M, c) \in Seq(Data) /\ Len(ItemsOf(M, c)) = Len(c) /\ Len(c) \in Nat
           /\ DOMAIN ItemsOf(M, c) = 1 .. Len(c)
           /\ c \in Seq(Node) /\ ToSet(c) \subseteq M.used /\ ToSet(c) \subseteq Node
<1>1. Linear(M, c) /\ l.root = Succ(c, 0)
  BY DEF Holds
<1>2. Chain(M, l) = c
  BY <1>1, WalkFinds DEF Chain
<1>3. c \in Seq(Node) /\ Len(c) \in Nat /\ DOMAIN c = 1 .. Len(c)
  BY <1>1 DEF Linear
<1>4. Items(M, l) = ItemsOf(M, c)
  BY <1>2, <1>3 DEF Items, ItemsOf
<1>5. ItemsOf(M, c) \in Seq(Data) /\ Len(ItemsOf(M, c)) = Len(c) /\ DOMAIN ItemsOf(M, c) = 1 .. Len(c)
  <2>1. ItemsOf(M, c) \in [1 .. Len(c) -> Data]
    BY <1>3 DEF Holds, ItemsOf
  <2>. QED  BY <1>3, <2>1
<1>6. ToSet(c) \subseteq M.used /\ ToSet(c) \subseteq Node
  BY <1>3 DEF Holds, ToSet
<1>. QED  BY <1>2, <1>3, <1>4, <1>5, <1>6

\* A list is as it was when its cells are, and are still allocated.
LEMMA Untouched ==
    ASSUME NEW M \in Memory, NEW R \in Memory, NEW l, NEW c, Holds(M, l, c),
           ToSet(c) \subseteq R.used, \A n \in ToSet(c) : R.cell[n] = M.cell[n]
    PROVE  Holds(R, l, c) /\ ItemsOf(R, c) = ItemsOf(M, c)
<1>1. c \in Seq(Node) /\ DOMAIN c = 1 .. Len(c)
  BY DEF Holds, Linear
<1>2. \A i \in 1 .. Len(c) : c[i] \in ToSet(c)
  BY <1>1 DEF ToSet
<1>3. \A i \in 1 .. Len(c) : c[i] \in R.used /\ R.cell[c[i]] = M.cell[c[i]]
  BY <1>2
<1>. QED  BY <1>1, <1>3 DEF Holds, Linear, ItemsOf

\* Position is the place of d, if it is there.
LEMMA PositionIs ==
    ASSUME NEW M \in Memory, NEW l, NEW c, Holds(M, l, c), NEW d
    PROVE  /\ Position(M, l, d) \in 0 .. Len(c)
           /\ Position(M, l, d) = 0 <=> d \notin ToSet(ItemsOf(M, c))
           /\ Position(M, l, d) # 0 => ItemsOf(M, c)[Position(M, l, d)] = d
<1>. DEFINE s == ItemsOf(M, c)
            hits == {i \in DOMAIN s : s[i] = d}
<1>1. Items(M, l) = s /\ DOMAIN s = 1 .. Len(c) /\ Len(c) \in Nat
  BY ChainIs
<1>2. Position(M, l, d) = IF hits = {} THEN 0 ELSE Min(hits)
  BY <1>1 DEF Position
<1>3. hits \subseteq Nat /\ hits \subseteq 1 .. Len(c)
  BY <1>1
<1>4. hits = {} <=> d \notin ToSet(s)
  BY DEF ToSet
<1>5. hits # {} => Min(hits) \in hits
  <2>. HIDE DEF hits
  <2>. QED  BY <1>3, MinIsLeast
<1>. QED  BY <1>1, <1>2, <1>3, <1>4, <1>5

\* R is M but for the cells of S, and what is allocated.
OnlyCells(M, R, S) ==
    /\ R \in Memory
    /\ R.live = M.live /\ R.fault = M.fault
    /\ \A n \in Node \ S : R.cell[n] = M.cell[n]

-----------------------------------------------------------------------------
(* Sequences with one element more, or less                                *)

LEMMA Added ==
    ASSUME NEW S, NEW c \in Seq(S), NEW n \in S
    PROVE  /\ Append(c, n) \in Seq(S) /\ Len(Append(c, n)) = Len(c) + 1
           /\ Append(c, n)[Len(c) + 1] = n /\ \A i \in 1 .. Len(c) : Append(c, n)[i] = c[i]
           /\ ToSet(Append(c, n)) = ToSet(c) \cup {n}
<1>. DEFINE e == Append(c, n)
<1>1. Len(c) \in Nat /\ DOMAIN c = 1 .. Len(c)
  OBVIOUS
<1>2. e \in Seq(S) /\ Len(e) = Len(c) + 1 /\ e[Len(c) + 1] = n /\ \A i \in 1 .. Len(c) : e[i] = c[i]
  OBVIOUS
<1>3. DOMAIN e = 1 .. Len(c) + 1
  BY <1>2
<1>. HIDE DEF e
<1>4. ToSet(e) = ToSet(c) \cup {n}
  <2>1. \A i : i \in 1 .. Len(c) + 1 <=> (i \in 1 .. Len(c) \/ i = Len(c) + 1)
    BY <1>1
  <2>. QED  BY <1>1, <1>2, <1>3, <2>1 DEF ToSet
<1>. QED  BY <1>2, <1>4 DEF e

\* What putting n before c gives.
LEMMA Prefixed ==
    ASSUME NEW S, NEW c \in Seq(S), NEW n \in S
    PROVE  /\ <<n>> \o c \in Seq(S) /\ Len(<<n>> \o c) = Len(c) + 1
           /\ (<<n>> \o c)[1] = n /\ \A i \in 1 .. Len(c) : (<<n>> \o c)[i + 1] = c[i]
           /\ ToSet(<<n>> \o c) = ToSet(c) \cup {n}
<1>. DEFINE e == <<n>> \o c
<1>1. Len(c) \in Nat /\ DOMAIN c = 1 .. Len(c)
  OBVIOUS
<1>2. e \in Seq(S) /\ Len(e) = Len(c) + 1 /\ e[1] = n /\ \A i \in 1 .. Len(c) : e[i + 1] = c[i]
  OBVIOUS
<1>3. DOMAIN e = 1 .. Len(c) + 1
  BY <1>2
<1>. HIDE DEF e
<1>4. ToSet(e) = ToSet(c) \cup {n}
  <2>1. \A i \in 1 .. Len(c) + 1 : i = 1 \/ \E j \in 1 .. Len(c) : i = j + 1
    <3>1. \A i \in 1 .. Len(c) + 1 : i # 1 => i - 1 \in 1 .. Len(c) /\ i = (i - 1) + 1
      BY <1>1
    <3>. QED  BY <3>1
  <2>2. 1 \in 1 .. Len(c) + 1 /\ \A i \in 1 .. Len(c) : i + 1 \in 1 .. Len(c) + 1
    BY <1>1
  <2>3. ASSUME NEW i \in DOMAIN e  PROVE e[i] \in ToSet(c) \cup {n}
    <3>1. CASE i = 1
      BY <1>2, <3>1
    <3>2. CASE i # 1
      <4>1. PICK j \in 1 .. Len(c) : i = j + 1
        BY <1>3, <2>1, <3>2
      <4>2. e[i] = c[j] /\ j \in DOMAIN c
        BY <1>1, <1>2, <4>1
      <4>. QED  BY <4>2 DEF ToSet
    <3>. QED  BY <3>1, <3>2
  <2>4. n \in ToSet(e)
    BY <1>2, <1>3, <2>2 DEF ToSet
  <2>5. ASSUME NEW i \in DOMAIN c  PROVE c[i] \in ToSet(e)
    BY <1>1, <1>2, <1>3, <2>2 DEF ToSet
  <2>. QED  BY <2>3, <2>4, <2>5 DEF ToSet
<1>. QED  BY <1>2, <1>4 DEF e

\* What taking the p-th element out of c gives.
LEMMA RemovedAt ==
    ASSUME NEW S, NEW c \in Seq(S), NEW p \in 1 .. Len(c)
    PROVE  /\ RemoveAt(c, p) \in Seq(S) /\ Len(RemoveAt(c, p)) = Len(c) - 1
           /\ \A i \in 1 .. Len(c) - 1 : RemoveAt(c, p)[i] = IF i < p THEN c[i] ELSE c[i + 1]
           /\ (\A i, j \in 1 .. Len(c) : c[i] = c[j] => i = j)
              => ToSet(RemoveAt(c, p)) = ToSet(c) \ {c[p]}
<1>. DEFINE e == RemoveAt(c, p)
            L == Len(c)
            a == SubSeq(c, 1, p - 1)
            b == SubSeq(c, p + 1, L)
<1>1. L \in Nat /\ DOMAIN c = 1 .. L /\ p \in 1 .. L
  OBVIOUS
<1>2. e = a \o b
  BY DEF RemoveAt
<1>3. a \in Seq(S) /\ Len(a) = p - 1 /\ \A i \in 1 .. p - 1 : a[i] = c[i]
  BY <1>1
<1>4. b \in Seq(S) /\ Len(b) = L - p /\ \A i \in 1 .. L - p : b[i] = c[p + i]
  <2>1. \A i \in p + 1 .. L : c[i] \in S
    BY <1>1
  <2>2. /\ b \in Seq(S) /\ Len(b) = IF p + 1 <= L THEN L - (p + 1) + 1 ELSE 0
        /\ \A i \in 1 .. L - (p + 1) + 1 : b[i] = c[p + 1 + i - 1]
    BY <1>1, <2>1, SubSeqProperties
  <2>. HIDE DEF b
  <2>3. \A i \in 1 .. L - p : i \in 1 .. L - (p + 1) + 1 /\ p + 1 + i - 1 = p + i
    BY <1>1
  <2>4. Len(b) = L - p
    <3>1. p \in Int /\ L \in Int /\ p <= L
      BY <1>1
    <3>. HIDE DEF L
    <3>2. (IF p + 1 <= L THEN L - (p + 1) + 1 ELSE 0) = L - p
      BY <3>1
    <3>. QED  BY <2>2, <3>2
  <2>5. ASSUME NEW i \in 1 .. L - p  PROVE b[i] = c[p + i]
    BY <2>2, <2>3
  <2>. QED  BY <2>2, <2>4, <2>5
<1>. HIDE DEF a, b, e
<1>5. e \in Seq(S) /\ Len(e) = L - 1
  <2>1. e \in Seq(S) /\ Len(e) = Len(a) + Len(b)
    BY <1>2, <1>3, <1>4, ConcatProperties
  <2>. QED  BY <1>1, <1>3, <1>4, <2>1
<1>6. ASSUME NEW i \in 1 .. L - 1
      PROVE  e[i] = IF i < p THEN c[i] ELSE c[i + 1]
  <2>1. CASE i < p
    BY <1>1, <1>2, <1>3, <1>4, <2>1
  <2>2. CASE ~(i < p)
    <3>1. i \in p .. L - 1 /\ i - (p - 1) \in 1 .. L - p /\ p + (i - (p - 1)) = i + 1
      BY <1>1, <2>2
    <3>2. e[i] = b[i - (p - 1)]
      BY <1>1, <1>2, <1>3, <1>4, <2>2, <3>1
    <3>. QED  BY <1>4, <2>2, <3>1, <3>2
  <2>. QED  BY <2>1, <2>2
<1>7. DOMAIN e = 1 .. L - 1
  BY <1>5
<1>8. ASSUME \A i, j \in 1 .. L : c[i] = c[j] => i = j
      PROVE  ToSet(e) = ToSet(c) \ {c[p]}
  <2>1. ASSUME NEW i \in 1 .. L - 1
        PROVE  e[i] \in ToSet(c) /\ e[i] # c[p]
    <3>1. i \in 1 .. L /\ i + 1 \in 1 .. L /\ (i < p => i # p) /\ (~(i < p) => i + 1 # p)
      BY <1>1
    <3>. QED  BY <1>1, <1>6, <1>8, <3>1 DEF ToSet
  <2>2. ASSUME NEW i \in 1 .. L, i # p
        PROVE  \E j \in 1 .. L - 1 : e[j] = c[i]
    <3>1. CASE i < p
      <4>1. i \in 1 .. L - 1
        BY <1>1, <3>1
      <4>. QED  BY <1>6, <3>1, <4>1
    <3>2. CASE ~(i < p)
      <4>1. i - 1 \in 1 .. L - 1 /\ ~(i - 1 < p) /\ (i - 1) + 1 = i
        BY <1>1, <2>2, <3>2
      <4>2. e[i - 1] = c[(i - 1) + 1]
        BY <1>6, <4>1
      <4>. QED  BY <4>1, <4>2
    <3>. QED  BY <3>1, <3>2
  <2>3. ToSet(e) \subseteq ToSet(c) \ {c[p]}
    BY <1>7, <2>1 DEF ToSet
  <2>4. ASSUME NEW x \in ToSet(c), x # c[p]  PROVE x \in ToSet(e)
    <3>1. PICK i \in 1 .. L : x = c[i]
      BY <1>1 DEF ToSet
    <3>2. PICK j \in 1 .. L - 1 : e[j] = c[i]
      BY <2>2, <2>4, <3>1
    <3>. QED  BY <1>7, <3>1, <3>2 DEF ToSet
  <2>. QED  BY <2>3, <2>4
<1>. QED  BY <1>5, <1>6, <1>8 DEF e

-----------------------------------------------------------------------------
(* Insertion                                                               *)

\* A new node, with data in it.
LEMMA NodeIsNew ==
    ASSUME NEW M \in Memory, CanAllocate(M), NEW d \in Data, NEW next \in Node \cup {NULL}
    PROVE  /\ NewNode(M) \in Node \ M.used
           /\ OnlyCells(M, WithNode(M, NewNode(M), d, next), {NewNode(M)})
           /\ WithNode(M, NewNode(M), d, next).used = M.used \cup {NewNode(M)}
           /\ WithNode(M, NewNode(M), d, next).cell[NewNode(M)] = [data |-> d, next |-> next]
<1>. DEFINE n == NewNode(M)
            R == WithNode(M, n, d, next)
<1>1. n \in Node \ M.used
  <2>1. Node \ M.used \subseteq Nat /\ Node \ M.used # {}
    BY ListsAssumption DEF CanAllocate
  <2>. QED  BY <2>1, MinIsLeast DEF NewNode
<1>. HIDE DEF n
<1>2. /\ M.used \subseteq Node /\ M.cell \in [Node -> Cell] /\ M.live \subseteq Data
      /\ M.fault \in BOOLEAN /\ M.budget \in Nat /\ M.budget > 0
  BY DEF Memory, CanAllocate
<1>3. M.budget - 1 \in Nat
  BY <1>2
<1>4. R = [M EXCEPT !.budget = M.budget - 1, !.used = M.used \cup {n},
                    !.cell = [M.cell EXCEPT ![n] = [data |-> d, next |-> next]]]
  BY DEF WithNode, Spend, Memory
<1>. HIDE DEF R
<1>5. [data |-> d, next |-> next] \in Cell
  BY DEF Cell
<1>6. [M.cell EXCEPT ![n] = [data |-> d, next |-> next]] \in [Node -> Cell]
  BY <1>1, <1>2, <1>5
<1>7. /\ R \in Memory /\ R.used = M.used \cup {n} /\ R.live = M.live /\ R.fault = M.fault
      /\ R.cell = [M.cell EXCEPT ![n] = [data |-> d, next |-> next]]
  BY <1>1, <1>2, <1>3, <1>4, <1>6 DEF Memory
<1>8. R.cell[n] = [data |-> d, next |-> next] /\ \A m \in Node \ {n} : R.cell[m] = M.cell[m]
  BY <1>1, <1>2, <1>7
<1>. QED  BY <1>1, <1>7, <1>8 DEF OnlyCells, R, n

(* A list with the nodes c becomes the list k with the nodes e, in which s *)
(* is, and no other node changes: the new ones were free.                  *)
Becomes(M, c, R, k, e, s) ==
    /\ R \in Memory /\ R.fault = M.fault
    /\ R.used = (M.used \ ToSet(c)) \cup ToSet(e)
    /\ ToSet(e) \cap (M.used \ ToSet(c)) = {}
    /\ \A n \in M.used \ ToSet(c) : R.cell[n] = M.cell[n]
    /\ Holds(R, k, e) /\ ItemsOf(R, e) = s

(* Linked: the node n, in which d is, goes to the end of the list, and the *)
(* assertion that an empty chain is an empty list holds.                   *)
LEMMA LinkedStep ==
    ASSUME NEW M \in Memory, NEW l, NEW c, Holds(M, l, c), NEW n \in M.used \ ToSet(c), n \in Node,
           NEW d \in Data, M.cell[n] = [data |-> d, next |-> NULL]
    PROVE  LET r == Linked(M, l, n) IN
           /\ r.err = "ok" /\ r.l.owns = l.owns
           /\ r.m.used = M.used
           /\ OnlyCells(M, r.m, ToSet(c))
           /\ Holds(r.m, r.l, Append(c, n))
           /\ ItemsOf(r.m, Append(c, n)) = Append(ItemsOf(M, c), d)
<1>. DEFINE r == Linked(M, l, n)
            L == Len(c)
            e == Append(c, n)
            x == IF c = << >> THEN n ELSE l.root
            k == [l EXCEPT !.root = x, !.nnodes = L + 1]
            R == IF c = << >> THEN M
                 ELSE [M EXCEPT !.cell = [M.cell EXCEPT ![c[L]] = [M.cell[c[L]] EXCEPT !.next = n]]]
<1>1. /\ Chain(M, l) = c /\ c \in Seq(Node) /\ L \in Nat /\ DOMAIN c = 1 .. L
      /\ \A i \in 1 .. L : c[i] \in Node /\ c[i] # n
  BY ChainIs DEF ToSet
<1>2. /\ l \in List /\ l.nnodes = L /\ l.root = Succ(c, 0)
      /\ l.root \in Node \cup {NULL} /\ l.owns \in BOOLEAN
  BY DEF Holds, List
<1>3. /\ M.used \subseteq Node /\ M.cell \in [Node -> Cell] /\ M.live \subseteq Data
      /\ M.fault \in BOOLEAN /\ M.budget \in Nat
  BY DEF Memory
<1>4. k \in List /\ k.root = x /\ k.nnodes = L + 1 /\ k.owns = l.owns
  <2>1. x \in Node \cup {NULL} /\ L + 1 \in Nat
    BY <1>1, <1>2
  <2>. HIDE DEF x, L
  <2>. QED  BY <1>2, <2>1 DEF List
<1>5. r = Result(R, k, "ok")
  <2>1. CASE c = << >>
    <3>1. ll_empty(l)
      BY <1>2, <2>1 DEF ll_empty
    <3>2. [M EXCEPT !.fault = M.fault \/ ~ll_empty(l)] = M
      <4>1. (M.fault \/ ~ll_empty(l)) = M.fault
        BY <1>3, <3>1
      <4>. QED  BY <4>1 DEF Memory
    <3>3. k = [l EXCEPT !.root = n, !.nnodes = l.nnodes + 1]
      BY <1>2, <2>1
    <3>. QED  BY <1>1, <2>1, <3>2, <3>3 DEF Linked
  <2>2. CASE c # << >>
    <3>1. k = [l EXCEPT !.nnodes = l.nnodes + 1]
      BY <1>2, <2>2 DEF List
    <3>. QED  BY <1>1, <2>2, <3>1 DEF Linked, Last
  <2>. QED  BY <2>1, <2>2
<1>6. r.m = R /\ r.l = k /\ r.err = "ok"
  BY <1>5 DEF Result
<1>. HIDE DEF r, k
<1>7. /\ R \in Memory /\ R.used = M.used /\ R.live = M.live /\ R.fault = M.fault
      /\ \A m \in Node : m \notin ToSet(c) => R.cell[m] = M.cell[m]
      /\ \A i \in 1 .. L : R.cell[c[i]].data = M.cell[c[i]].data
      /\ \A i \in 1 .. L : R.cell[c[i]].next = IF i = L THEN n ELSE M.cell[c[i]].next
  <2>1. CASE c = << >>
    BY <1>1, <2>1
  <2>2. CASE c # << >>
    <3>. DEFINE z == [M.cell[c[L]] EXCEPT !.next = n]
                C == [M.cell EXCEPT ![c[L]] = z]
    <3>1. L \in 1 .. L
      BY <1>1, <2>2
    <3>2. z \in Cell /\ z.data = M.cell[c[L]].data /\ z.next = n
      BY <1>1, <1>3, <3>1 DEF Cell
    <3>. HIDE DEF z
    <3>3. C \in [Node -> Cell] /\ C[c[L]] = z /\ \A m \in Node : m # c[L] => C[m] = M.cell[m]
      BY <1>1, <1>3, <3>1, <3>2
    <3>4. R = [M EXCEPT !.cell = C]
      BY <2>2 DEF z
    <3>. HIDE DEF C, R
    <3>5. R \in Memory /\ R.used = M.used /\ R.live = M.live /\ R.fault = M.fault /\ R.cell = C
      BY <1>3, <3>3, <3>4 DEF Memory
    <3>6. c[L] \in ToSet(c)
      BY <1>1, <3>1 DEF ToSet
    <3>7. \A i \in 1 .. L : c[i] = c[L] => i = L
      BY <3>1 DEF Holds, Linear
    <3>8. ASSUME NEW i \in 1 .. L
          PROVE  /\ C[c[i]].data = M.cell[c[i]].data
                 /\ C[c[i]].next = IF i = L THEN n ELSE M.cell[c[i]].next
      BY <1>1, <3>2, <3>3, <3>7
    <3>. QED  BY <3>3, <3>5, <3>6, <3>8
  <2>. QED  BY <2>1, <2>2
<1>. HIDE DEF R
<1>8. /\ e \in Seq(Node) /\ Len(e) = L + 1 /\ e[L + 1] = n /\ e # << >>
      /\ \A i \in 1 .. L : e[i] = c[i]
  BY <1>1
<1>9. R.cell[n] = [data |-> d, next |-> NULL]
  BY <1>7
<1>. HIDE DEF e
<1>10. Linear(R, e)
  <2>1. \A i, j \in 1 .. L + 1 : e[i] = e[j] => i = j
    <3>1. \A i, j \in 1 .. L : c[i] = c[j] => i = j
      BY DEF Holds, Linear
    <3>2. \A i \in 1 .. L + 1 : i \in 1 .. L \/ i = L + 1
      BY <1>1
    <3>. QED  BY <1>1, <1>8, <3>1, <3>2
  <2>2. ASSUME NEW i \in 1 .. L + 1  PROVE R.cell[e[i]].next = Succ(e, i)
    <3>1. CASE i = L + 1
      BY <1>8, <1>9, <3>1 DEF Succ
    <3>2. CASE i \in 1 .. L
      <4>1. i # L + 1 /\ i + 1 \in 1 .. L + 1 /\ (i # L => i + 1 \in 1 .. L)
        BY <1>1, <3>2
      <4>2. Succ(e, i) = e[i + 1]
        BY <1>8, <4>1 DEF Succ
      <4>3. M.cell[c[i]].next = IF i = L THEN NULL ELSE c[i + 1]
        BY <3>2 DEF Holds, Linear, Succ
      <4>. QED  BY <1>7, <1>8, <3>2, <4>1, <4>2, <4>3
    <3>. QED  BY <1>1, <3>1, <3>2
  <2>. QED  BY <1>8, <2>1, <2>2 DEF Linear
<1>11. Holds(R, k, e)
  <2>1. k.root = Succ(e, 0)
    <3>1. 0 # L + 1
      BY <1>1
    <3>2. Succ(e, 0) = e[1]
      BY <1>8, <3>1 DEF Succ
    <3>3. CASE c = << >>
      BY <1>4, <1>8, <3>2, <3>3
    <3>4. CASE c # << >>
      <4>1. 1 \in 1 .. L /\ 0 # L
        BY <1>1, <3>4
      <4>. QED  BY <1>2, <1>4, <1>8, <3>2, <3>4, <4>1 DEF Succ
    <3>. QED  BY <3>3, <3>4
  <2>2. ASSUME NEW i \in 1 .. L + 1  PROVE e[i] \in R.used /\ R.cell[e[i]].data \in Data
    <3>1. CASE i = L + 1
      BY <1>7, <1>8, <1>9, <3>1
    <3>2. CASE i \in 1 .. L
      BY <1>7, <1>8, <3>2 DEF Holds
    <3>. QED  BY <1>1, <3>1, <3>2
  <2>. QED  BY <1>4, <1>8, <1>10, <2>1, <2>2 DEF Holds
<1>12. ItemsOf(R, e) = Append(ItemsOf(M, c), d)
  <2>. DEFINE s == ItemsOf(M, c)
              t == ItemsOf(R, e)
  <2>1. s \in Seq(Data) /\ Len(s) = L /\ \A i \in 1 .. L : s[i] = M.cell[c[i]].data
    BY ChainIs DEF ItemsOf
  <2>2. t \in Seq(Data) /\ Len(t) = L + 1 /\ \A i \in 1 .. L + 1 : t[i] = R.cell[e[i]].data
    BY <1>7, <1>8, <1>11, ChainIs DEF ItemsOf
  <2>. HIDE DEF s, t
  <2>3. /\ Append(s, d) \in Seq(Data) /\ Len(Append(s, d)) = L + 1 /\ Append(s, d)[L + 1] = d
        /\ \A i \in 1 .. L : Append(s, d)[i] = s[i]
    BY <2>1
  <2>4. ASSUME NEW i \in 1 .. L + 1  PROVE t[i] = Append(s, d)[i]
    <3>1. CASE i = L + 1
      BY <1>8, <1>9, <2>2, <2>3, <3>1
    <3>2. CASE i \in 1 .. L
      BY <1>7, <1>8, <2>1, <2>2, <2>3, <3>2
    <3>3. i = L + 1 \/ i \in 1 .. L
      BY <1>1
    <3>. QED  BY <3>1, <3>2, <3>3
  <2>. QED  BY <2>2, <2>3, <2>4, SeqEqual DEF s, t
<1>. QED  BY <1>4, <1>6, <1>7, <1>11, <1>12 DEF OnlyCells, r, e

\* What ll_insert does: nothing, without memory or with d there already; else it
\* appends d.
InsertOutcome(M, l, c, d, r) ==
    \/ r.err = "ENOMEM" /\ r.m = M /\ r.l = l
    \/ r.err = "EEXIST" /\ r.m = Spend(M) /\ M.budget > 0 /\ r.l = l /\ d \in ToSet(ItemsOf(M, c))
    \/ /\ r.err = "ok" /\ d \notin ToSet(ItemsOf(M, c))
       /\ r.l.owns = l.owns /\ r.m.live = M.live
       /\ \E e : Becomes(M, c, r.m, r.l, e, Append(ItemsOf(M, c), d))

\* ll_insert appends an item that is not there, or leaves the list alone.
LEMMA InsertStep ==
    ASSUME NEW M \in Memory, NEW l, NEW c, Holds(M, l, c), NEW d \in Data
    PROVE  InsertOutcome(M, l, c, d, ll_insert(M, l, d))
<1>. DEFINE n == NewNode(M)
            R == WithNode(M, n, d, NULL)
            p == Position(M, l, d)
            r == ll_insert(M, l, d)
<1>1. p \in 0 .. Len(c) /\ (p = 0 <=> d \notin ToSet(ItemsOf(M, c))) /\ Len(c) \in Nat
  BY PositionIs, ChainIs
<1>2. p > 0 <=> d \in ToSet(ItemsOf(M, c))
  BY <1>1
<1>3. CASE ~CanAllocate(M)
  <2>1. r = Result(M, l, "ENOMEM")
    BY <1>3 DEF ll_insert
  <2>2. r.err = "ENOMEM" /\ r.m = M /\ r.l = l
    BY <2>1 DEF Result
  <2>. QED  BY <2>2 DEF InsertOutcome
<1>4. CASE CanAllocate(M) /\ p > 0
  <2>1. r = Result(Spend(M), l, "EEXIST")
    BY <1>4 DEF ll_insert
  <2>2. r.err = "EEXIST" /\ r.m = Spend(M) /\ r.l = l
    BY <2>1 DEF Result
  <2>3. M.budget > 0
    BY <1>4 DEF CanAllocate
  <2>. QED  BY <1>2, <1>4, <2>2, <2>3 DEF InsertOutcome
<1>5. CASE CanAllocate(M) /\ ~(p > 0)
  <2>1. r = Linked(R, l, n)
    BY <1>5 DEF ll_insert
  <2>2. /\ n \in Node \ M.used /\ OnlyCells(M, R, {n}) /\ R.used = M.used \cup {n}
        /\ R.cell[n] = [data |-> d, next |-> NULL]
    BY <1>5, NodeIsNew
  <2>. HIDE DEF n, R, r
  <2>3. R \in Memory /\ ToSet(c) \subseteq M.used /\ ToSet(c) \subseteq Node
    BY <2>2, ChainIs DEF OnlyCells
  <2>4. n \in R.used \ ToSet(c) /\ n \in Node
    BY <2>2, <2>3
  <2>5. \A m \in ToSet(c) : R.cell[m] = M.cell[m]
    BY <2>2, <2>3 DEF OnlyCells
  <2>6. Holds(R, l, c) /\ ItemsOf(R, c) = ItemsOf(M, c)
    BY <2>2, <2>3, <2>5, Untouched
  <2>7. /\ r.err = "ok" /\ r.l.owns = l.owns /\ r.m.used = R.used /\ OnlyCells(R, r.m, ToSet(c))
        /\ Holds(r.m, r.l, Append(c, n))
        /\ ItemsOf(r.m, Append(c, n)) = Append(ItemsOf(R, c), d)
    BY <2>1, <2>2, <2>3, <2>4, <2>6, LinkedStep
  <2>. DEFINE e == Append(c, n)
  <2>8. ToSet(e) = ToSet(c) \cup {n}
    <3>1. c \in Seq(Node)
      BY ChainIs
    <3>. QED  BY <2>2, <3>1, Added
  <2>. HIDE DEF e
  <2>9. /\ r.m \in Memory /\ r.m.fault = M.fault /\ r.m.live = M.live
        /\ \A m \in M.used \ ToSet(c) : r.m.cell[m] = M.cell[m]
    <3>1. M.used \subseteq Node
      BY DEF Memory
    <3>. QED  BY <2>2, <2>7, <3>1 DEF OnlyCells
  <2>10. Becomes(M, c, r.m, r.l, e, Append(ItemsOf(M, c), d))
    BY <2>2, <2>3, <2>6, <2>7, <2>8, <2>9 DEF Becomes, e
  <2>. QED  BY <1>2, <1>5, <2>7, <2>9, <2>10 DEF InsertOutcome, r
<1>. QED  BY <1>3, <1>4, <1>5

\* What ll_insert_head does: with d there already, the new node is in no list.
InsertHeadOutcome(M, l, c, d, r) ==
    \/ r.err = "ENOMEM" /\ r.m = M /\ r.l = l
    \/ /\ r.err = "EEXIST" /\ r.l = l /\ d \in ToSet(ItemsOf(M, c))
       /\ \E n \in Node \ M.used : OnlyCells(M, r.m, {n}) /\ r.m.used = M.used \cup {n}
    \/ /\ r.err = "ok" /\ d \notin ToSet(ItemsOf(M, c))
       /\ r.l.owns = l.owns /\ r.m.live = M.live
       /\ \E e : Becomes(M, c, r.m, r.l, e, <<d>> \o ItemsOf(M, c))

Headed(l, n) == [l EXCEPT !.root = n, !.nnodes = @ + 1]
IsHead(M, l, c, n, d) ==
    /\ Holds(M, Headed(l, n), <<n>> \o c) /\ Headed(l, n).owns = l.owns
    /\ ItemsOf(M, <<n>> \o c) = <<d>> \o ItemsOf(M, c)

\* The node n, in which d is and which points at the list, is its new first node.
LEMMA HeadStep ==
    ASSUME NEW M \in Memory, NEW l, NEW c, Holds(M, l, c), NEW n \in M.used \ ToSet(c), n \in Node,
           NEW d \in Data, M.cell[n] = [data |-> d, next |-> l.root]
    PROVE  IsHead(M, l, c, n, d)
<1>. DEFINE L == Len(c)
            e == <<n>> \o c
            k == Headed(l, n)
<1>1. /\ c \in Seq(Node) /\ L \in Nat /\ DOMAIN c = 1 .. L
      /\ \A i \in 1 .. L : c[i] \in Node /\ c[i] # n
  BY ChainIs DEF ToSet
<1>2. l \in List /\ l.nnodes = L /\ l.root = Succ(c, 0) /\ l.owns \in BOOLEAN
  BY DEF Holds, List
<1>3. k \in List /\ k.root = n /\ k.nnodes = L + 1 /\ k.owns = l.owns
  <2>1. k = [l EXCEPT !.root = n, !.nnodes = L + 1] /\ L + 1 \in Nat
    BY <1>1, <1>2 DEF Headed
  <2>. HIDE DEF k, L
  <2>. QED  BY <1>2, <2>1 DEF List
<1>4. e \in Seq(Node) /\ Len(e) = L + 1 /\ e[1] = n /\ \A i \in 1 .. L : e[i + 1] = c[i]
  BY <1>1, Prefixed
<1>. HIDE DEF e, k
<1>5. \A i \in 1 .. L + 1 : i = 1 \/ \E j \in 1 .. L : i = j + 1
  <2>1. \A i \in 1 .. L + 1 : i # 1 => i - 1 \in 1 .. L /\ i = (i - 1) + 1
    BY <1>1
  <2>. QED  BY <2>1
<1>6. \A i, j \in 1 .. L + 1 : e[i] = e[j] => i = j
  <2>1. \A i, j \in 1 .. L : c[i] = c[j] => i = j
    BY DEF Holds, Linear
  <2>2. SUFFICES ASSUME NEW i \in 1 .. L + 1, NEW j \in 1 .. L + 1, e[i] = e[j]  PROVE i = j
    OBVIOUS
  <2>3. CASE i = 1
    BY <1>1, <1>4, <1>5, <2>2, <2>3
  <2>4. CASE j = 1
    BY <1>1, <1>4, <1>5, <2>2, <2>4
  <2>5. CASE i # 1 /\ j # 1
    <3>1. PICK x \in 1 .. L : i = x + 1
      BY <1>5, <2>5
    <3>2. PICK y \in 1 .. L : j = y + 1
      BY <1>5, <2>5
    <3>. QED  BY <1>4, <2>1, <2>2, <3>1, <3>2
  <2>. QED  BY <2>3, <2>4, <2>5
<1>7. ASSUME NEW i \in 1 .. L + 1
      PROVE  /\ M.cell[e[i]].next = Succ(e, i)
             /\ e[i] \in M.used /\ M.cell[e[i]].data \in Data
  <2>1. CASE i = 1
    <3>1. Succ(e, 1) = Succ(c, 0)
      <4>1. CASE L = 0
        BY <1>4, <4>1 DEF Succ
      <4>2. CASE L # 0
        <5>1. 1 \in 1 .. L /\ 1 # L + 1 /\ e[1 + 1] = c[1]
          BY <1>1, <1>4, <4>2
        <5>2. Succ(e, 1) = e[1 + 1] /\ Succ(c, 0) = c[0 + 1]
          BY <1>4, <4>2, <5>1 DEF Succ
        <5>. QED  BY <5>1, <5>2
      <4>. QED  BY <4>1, <4>2
    <3>. QED  BY <1>2, <1>4, <2>1, <3>1
  <2>2. CASE i # 1
    <3>1. PICK j \in 1 .. L : i = j + 1
      BY <1>5, <2>2
    <3>2. /\ M.cell[c[j]].next = Succ(c, j)
          /\ c[j] \in M.used /\ M.cell[c[j]].data \in Data
      BY DEF Holds, Linear
    <3>3. e[i] = c[j]
      BY <1>4, <3>1
    <3>4. Succ(e, i) = Succ(c, j)
      <4>1. CASE j = L
        BY <1>4, <3>1, <4>1 DEF Succ
      <4>2. CASE j # L
        <5>1. j + 1 \in 1 .. L /\ i # L + 1 /\ j \in Nat
          <6>1. L \in Nat /\ j \in 1 .. L /\ i = j + 1
            BY <1>1, <3>1
          <6>. HIDE DEF L
          <6>. QED  BY <4>2, <6>1
        <5>2. e[(j + 1) + 1] = c[j + 1]
          BY <1>4, <5>1
        <5>. QED  BY <1>4, <3>1, <4>2, <5>1, <5>2 DEF Succ
      <4>. QED  BY <4>1, <4>2
    <3>. QED  BY <3>2, <3>3, <3>4
  <2>. QED  BY <2>1, <2>2
<1>8. Holds(M, k, e)
  <2>1. Linear(M, e)
    BY <1>4, <1>6, <1>7 DEF Linear
  <2>2. k.root = Succ(e, 0)
    <3>1. 0 # L + 1
      BY <1>1
    <3>. QED  BY <1>3, <1>4, <3>1 DEF Succ
  <2>. QED  BY <1>3, <1>4, <1>7, <2>1, <2>2 DEF Holds
<1>9. ItemsOf(M, e) = <<d>> \o ItemsOf(M, c)
  <2>. DEFINE s == ItemsOf(M, c)
              t == ItemsOf(M, e)
              u == <<d>> \o s
  <2>1. s \in Seq(Data) /\ Len(s) = L /\ \A i \in 1 .. L : s[i] = M.cell[c[i]].data
    BY ChainIs DEF ItemsOf
  <2>2. t \in Seq(Data) /\ Len(t) = L + 1 /\ \A i \in 1 .. L + 1 : t[i] = M.cell[e[i]].data
    BY <1>4, <1>8, ChainIs DEF ItemsOf
  <2>. HIDE DEF s, t
  <2>3. u \in Seq(Data) /\ Len(u) = L + 1 /\ u[1] = d /\ \A i \in 1 .. L : u[i + 1] = s[i]
    BY <2>1, Prefixed
  <2>. HIDE DEF u
  <2>4. ASSUME NEW i \in 1 .. L + 1  PROVE t[i] = u[i]
    <3>1. CASE i = 1
      BY <1>4, <2>2, <2>3, <3>1
    <3>2. CASE i # 1
      <4>1. PICK j \in 1 .. L : i = j + 1
        BY <1>5, <3>2
      <4>2. e[i] = c[j] /\ u[i] = s[j]
        BY <1>4, <2>3, <4>1
      <4>3. s[j] = M.cell[c[j]].data /\ t[i] = M.cell[e[i]].data
        BY <2>1, <2>2
      <4>. QED  BY <4>2, <4>3
    <3>. QED  BY <3>1, <3>2
  <2>5. t = u
    BY <2>2, <2>3, <2>4, SeqEqual
  <2>. QED  BY <2>5 DEF s, t, u
<1>. QED  BY <1>3, <1>8, <1>9 DEF IsHead, e, k

\* ll_insert_head prepends an item that is not there, or leaves the list alone and
\* forgets the node it had allocated.
LEMMA InsertHeadStep ==
    ASSUME NEW M \in Memory, NEW l, NEW c, Holds(M, l, c), NEW d \in Data
    PROVE  InsertHeadOutcome(M, l, c, d, ll_insert_head(M, l, d))
<1>. DEFINE n == NewNode(M)
            p == Position(M, l, d)
            r == ll_insert_head(M, l, d)
<1>1. p \in 0 .. Len(c) /\ (p = 0 <=> d \notin ToSet(ItemsOf(M, c))) /\ Len(c) \in Nat
  BY PositionIs, ChainIs
<1>2. p > 0 <=> d \in ToSet(ItemsOf(M, c))
  BY <1>1
<1>3. CASE ~CanAllocate(M)
  <2>1. r = Result(M, l, "ENOMEM")
    BY <1>3 DEF ll_insert_head
  <2>2. r.err = "ENOMEM" /\ r.m = M /\ r.l = l
    BY <2>1 DEF Result
  <2>. QED  BY <2>2 DEF InsertHeadOutcome
<1>4. CASE CanAllocate(M) /\ p > 0
  <2>. DEFINE R == WithNode(M, n, d, NULL)
  <2>1. r = Result(R, l, "EEXIST")
    BY <1>4 DEF ll_insert_head
  <2>2. n \in Node \ M.used /\ OnlyCells(M, R, {n}) /\ R.used = M.used \cup {n}
    BY <1>4, NodeIsNew
  <2>. HIDE DEF R, n, r
  <2>3. r.err = "EEXIST" /\ r.m = R /\ r.l = l
    BY <2>1 DEF Result
  <2>. QED  BY <1>2, <1>4, <2>2, <2>3 DEF InsertHeadOutcome, r
<1>5. CASE CanAllocate(M) /\ ~(p > 0)
  <2>. DEFINE R == WithNode(M, n, d, l.root)
              k == Headed(l, n)
              e == <<n>> \o c
  <2>0. l.root \in Node \cup {NULL}
    BY DEF Holds, List
  <2>1. r = Result(R, k, "ok")
    BY <1>5 DEF ll_insert_head, Headed
  <2>2. /\ n \in Node \ M.used /\ OnlyCells(M, R, {n}) /\ R.used = M.used \cup {n}
        /\ R.cell[n] = [data |-> d, next |-> l.root]
    BY <1>5, <2>0, NodeIsNew
  <2>. HIDE DEF n, R, r
  <2>3. R \in Memory /\ ToSet(c) \subseteq M.used /\ ToSet(c) \subseteq Node /\ c \in Seq(Node)
    BY <2>2, ChainIs DEF OnlyCells
  <2>4. n \in R.used \ ToSet(c) /\ n \in Node
    BY <2>2, <2>3
  <2>5. \A m \in ToSet(c) : R.cell[m] = M.cell[m]
    BY <2>2, <2>3 DEF OnlyCells
  <2>6. Holds(R, l, c) /\ ItemsOf(R, c) = ItemsOf(M, c)
    BY <2>2, <2>3, <2>5, Untouched
  <2>7. Holds(R, k, e) /\ ItemsOf(R, e) = <<d>> \o ItemsOf(R, c) /\ k.owns = l.owns
    <3>1. IsHead(R, l, c, n, d)
      BY <2>2, <2>3, <2>4, <2>6, HeadStep
    <3>. QED  BY <3>1 DEF IsHead
  <2>8. ToSet(e) = ToSet(c) \cup {n}
    BY <2>2, <2>3, Prefixed
  <2>. HIDE DEF e, k
  <2>9. r.m = R /\ r.l = k /\ r.err = "ok"
    BY <2>1 DEF Result
  <2>10. R.fault = M.fault /\ R.live = M.live /\ \A m \in M.used \ ToSet(c) : R.cell[m] = M.cell[m]
    <3>1. M.used \subseteq Node
      BY DEF Memory
    <3>. QED  BY <2>2, <3>1 DEF OnlyCells
  <2>11. Becomes(M, c, R, k, e, <<d>> \o ItemsOf(M, c))
    BY <2>2, <2>3, <2>6, <2>7, <2>8, <2>10 DEF Becomes
  <2>. QED  BY <1>2, <1>5, <2>7, <2>9, <2>10, <2>11 DEF InsertHeadOutcome, r
<1>. QED  BY <1>3, <1>4, <1>5

-----------------------------------------------------------------------------
(* Removal                                                                 *)

\* What llo_destroy_data_fn, if there is one, leaves of the data.
Spared(M, l, S) == IF l.owns THEN M.live \ S ELSE M.live

\* R is M without the node n of l.
NodeGone(M, l, n, R) ==
    /\ R \in Memory
    /\ R.used = M.used \ {n} /\ R.fault = M.fault /\ R.live = Spared(M, l, {M.cell[n].data})
    /\ \A m \in Node \ {n} : R.cell[m] = M.cell[m]

\* ll_destroy_node frees a node in use, and its data once, without a fault.
LEMMA DestroyNodeStep ==
    ASSUME NEW M \in Memory, NEW l \in List, NEW n \in M.used, M.cell[n].data \in Data,
           l.owns => M.cell[n].data \in M.live
    PROVE  NodeGone(M, l, n, ll_destroy_node(M, l, n))
<1>. DEFINE d == M.cell[n].data
            A == DestroyData(M, l, d)
            R == FreeNode(A, n)
<1>1. /\ M.used \subseteq Node /\ n \in Node /\ M.cell \in [Node -> Cell] /\ M.live \subseteq Data
      /\ M.fault \in BOOLEAN /\ M.budget \in Nat /\ l.owns \in BOOLEAN
  BY DEF Memory, List
<1>2. /\ A \in Memory /\ A.used = M.used /\ A.fault = M.fault /\ A.cell = M.cell
      /\ A.live = Spared(M, l, {d})
  <2>1. CASE l.owns
    <3>1. A = [M EXCEPT !.live = M.live \ {d}, !.fault = M.fault \/ d \notin M.live]
      BY <2>1 DEF DestroyData
    <3>2. (M.fault \/ d \notin M.live) = M.fault
      BY <1>1, <2>1
    <3>3. A = [M EXCEPT !.live = M.live \ {d}, !.fault = M.fault]
      BY <3>1, <3>2
    <3>4. Spared(M, l, {d}) = M.live \ {d}
      BY <2>1 DEF Spared
    <3>. HIDE DEF A, d
    <3>. QED  BY <1>1, <3>3, <3>4 DEF Memory
  <2>2. CASE ~l.owns
    BY <2>2 DEF DestroyData, Spared
  <2>. QED  BY <2>1, <2>2
<1>. HIDE DEF A, d
<1>3. R = [A EXCEPT !.used = A.used \ {n}, !.cell = [A.cell EXCEPT ![n] = Blank], !.fault = A.fault]
  <2>1. (A.fault \/ n \notin A.used) = A.fault
    BY <1>1, <1>2
  <2>. QED  BY <2>1 DEF FreeNode
<1>. HIDE DEF R
<1>4. Blank \in Cell
  BY DEF Blank, Cell
<1>5. [A.cell EXCEPT ![n] = Blank] \in [Node -> Cell]
  BY <1>1, <1>2, <1>4
<1>6. A.used \subseteq Node /\ A.live \subseteq Data /\ A.fault \in BOOLEAN /\ A.budget \in Nat
  BY <1>2 DEF Memory
<1>7. /\ R \in Memory /\ R.used = A.used \ {n} /\ R.live = A.live /\ R.fault = A.fault
      /\ R.cell = [A.cell EXCEPT ![n] = Blank]
  BY <1>2, <1>3, <1>5, <1>6 DEF Memory
<1>8. \A m \in Node \ {n} : R.cell[m] = M.cell[m]
  BY <1>1, <1>2, <1>7
<1>9. ll_destroy_node(M, l, n) = R
  BY DEF ll_destroy_node, R, A, d
<1>. QED  BY <1>2, <1>7, <1>8, <1>9 DEF NodeGone, d

\* What ll_remove does.
RemoveOutcome(M, l, c, d, r) ==
    \/ r.err = "ENOENT" /\ r.m = M /\ r.l = l /\ d \notin ToSet(ItemsOf(M, c))
    \/ \E p \in 1 .. Len(c) :
         /\ r.err = "ok" /\ ItemsOf(M, c)[p] = d
         /\ r.l.owns = l.owns /\ r.m.live = Spared(M, l, {d})
         /\ Becomes(M, c, r.m, r.l, RemoveAt(c, p), RemoveAt(ItemsOf(M, c), p))

\* The memory after Unlinked: the node before the p-th one points past it.
LEMMA UnlinkedStep ==
    ASSUME NEW M \in Memory, NEW l, NEW c, Holds(M, l, c), NEW p \in 1 .. Len(c)
    PROVE  LET r == Unlinked(M, l, p) IN
           /\ r.m \in Memory /\ r.m.used = M.used /\ r.m.live = M.live /\ r.m.fault = M.fault
           /\ r.err = "ok" /\ r.l \in List /\ r.l.nnodes = l.nnodes - 1 /\ r.l.owns = l.owns
           /\ r.l.root = IF p = 1 THEN Succ(c, 1) ELSE l.root
           /\ \A m \in Node : m \notin ToSet(c) => r.m.cell[m] = M.cell[m]
           /\ \A i \in 1 .. Len(c) :
                /\ r.m.cell[c[i]].data = M.cell[c[i]].data
                /\ r.m.cell[c[i]].next = IF i = p - 1 THEN Succ(c, p) ELSE Succ(c, i)
<1>. DEFINE L == Len(c)
            r == Unlinked(M, l, p)
            next == M.cell[c[p]].next
<1>1. /\ Chain(M, l) = c /\ c \in Seq(Node) /\ L \in Nat /\ DOMAIN c = 1 .. L
      /\ \A i \in 1 .. L : c[i] \in Node
  BY ChainIs
<1>2. \A i \in 1 .. L : M.cell[c[i]].next = Succ(c, i)
  BY DEF Holds, Linear
<1>3. next = Succ(c, p) /\ next \in Node \cup {NULL}
  <2>1. M.cell[c[p]] \in Cell
    BY <1>1 DEF Memory
  <2>. QED  BY <1>2, <2>1 DEF Cell
<1>4. l \in List /\ l.nnodes - 1 \in Nat
  BY <1>1 DEF Holds
<1>5. CASE p = 1
  <2>. DEFINE k == [l EXCEPT !.root = next, !.nnodes = l.nnodes - 1]
  <2>1. r = Result(M, k, "ok")
    BY <1>1, <1>5 DEF Unlinked
  <2>. HIDE DEF next, r
  <2>2. k \in List /\ k.root = next /\ k.nnodes = l.nnodes - 1 /\ k.owns = l.owns
    BY <1>3, <1>4 DEF List
  <2>. HIDE DEF k
  <2>3. r.m = M /\ r.l = k /\ r.err = "ok"
    BY <2>1 DEF Result
  <2>4. \A i \in 1 .. L : i # p - 1
    BY <1>5
  <2>. QED  BY <1>2, <1>3, <1>5, <2>2, <2>3, <2>4 DEF r
<1>6. CASE p # 1
  <2>. DEFINE q == p - 1
              k == [l EXCEPT !.nnodes = l.nnodes - 1]
              x == [M.cell[c[q]] EXCEPT !.next = next]
              C == [M.cell EXCEPT ![c[q]] = x]
              R == [M EXCEPT !.cell = C]
  <2>1. q \in 1 .. L
    BY <1>1, <1>6
  <2>2. r = Result(R, k, "ok")
    BY <1>1, <1>6 DEF Unlinked
  <2>. HIDE DEF q, next, r
  <2>3. k \in List /\ k.root = l.root /\ k.nnodes = l.nnodes - 1 /\ k.owns = l.owns
    BY <1>4 DEF List
  <2>4. M.cell \in [Node -> Cell] /\ c[q] \in Node /\ M.cell[c[q]] \in Cell
    BY <1>1, <2>1 DEF Memory
  <2>5. x \in Cell /\ x.data = M.cell[c[q]].data /\ x.next = next
    BY <1>3, <2>4 DEF Cell
  <2>. HIDE DEF x
  <2>6. C \in [Node -> Cell] /\ C[c[q]] = x /\ \A m \in Node : m # c[q] => C[m] = M.cell[m]
    BY <2>4, <2>5
  <2>. HIDE DEF C, k
  <2>7. R \in Memory /\ R.used = M.used /\ R.live = M.live /\ R.fault = M.fault /\ R.cell = C
    BY <2>6 DEF Memory
  <2>. HIDE DEF R
  <2>8. r.m = R /\ r.l = k /\ r.err = "ok"
    BY <2>2 DEF Result
  <2>9. c[q] \in ToSet(c)
    BY <1>1, <2>1 DEF ToSet
  <2>10. \A i \in 1 .. L : c[i] = c[q] <=> i = q
    BY <2>1 DEF Holds, Linear
  <2>11. ASSUME NEW i \in 1 .. L
         PROVE  /\ C[c[i]].data = M.cell[c[i]].data
                /\ C[c[i]].next = IF i = q THEN Succ(c, p) ELSE Succ(c, i)
    BY <1>1, <1>2, <1>3, <2>5, <2>6, <2>10
  <2>. QED  BY <1>6, <2>3, <2>6, <2>7, <2>8, <2>9, <2>11 DEF r, q
<1>. QED  BY <1>5, <1>6

\* ll_remove unlinks the node of the item, at any place of the list, and frees it.
LEMMA RemoveStep ==
    ASSUME NEW M \in Memory, NEW l, NEW c, Holds(M, l, c), NEW d,
           l.owns => ToSet(ItemsOf(M, c)) \subseteq M.live
    PROVE  RemoveOutcome(M, l, c, d, ll_remove(M, l, d))
<1>. DEFINE p == Position(M, l, d)
            r == ll_remove(M, l, d)
            s == ItemsOf(M, c)
            L == Len(c)
<1>1. /\ p \in 0 .. L /\ (p = 0 <=> d \notin ToSet(s)) /\ (p # 0 => s[p] = d)
      /\ L \in Nat /\ Chain(M, l) = c /\ c \in Seq(Node) /\ DOMAIN c = 1 .. L
      /\ s \in Seq(Data) /\ Len(s) = L /\ ToSet(c) \subseteq M.used
  BY PositionIs, ChainIs
<1>2. CASE p = 0
  <2>1. r = Result(M, l, "ENOENT")
    BY <1>2 DEF ll_remove
  <2>2. r.err = "ENOENT" /\ r.m = M /\ r.l = l
    BY <2>1 DEF Result
  <2>. QED  BY <1>1, <1>2, <2>2 DEF RemoveOutcome
<1>3. CASE p # 0
  <2>. DEFINE u == Unlinked(M, l, p)
              U == u.m
              k == u.l
              n == c[p]
              R == ll_destroy_node(U, l, n)
              e == RemoveAt(c, p)
              t == RemoveAt(s, p)
  <2>1. p \in 1 .. L
    BY <1>1, <1>3
  <2>. HIDE DEF p
  <2>2. /\ U \in Memory /\ U.used = M.used /\ U.live = M.live /\ U.fault = M.fault
        /\ u.err = "ok" /\ k \in List /\ k.nnodes = l.nnodes - 1 /\ k.owns = l.owns
        /\ k.root = IF p = 1 THEN Succ(c, 1) ELSE l.root
        /\ \A m \in Node : m \notin ToSet(c) => U.cell[m] = M.cell[m]
        /\ \A i \in 1 .. L :
             /\ U.cell[c[i]].data = M.cell[c[i]].data
             /\ U.cell[c[i]].next = IF i = p - 1 THEN Succ(c, p) ELSE Succ(c, i)
    BY <2>1, UnlinkedStep
  <2>3. r = [u EXCEPT !.m = R]
    BY <1>1, <1>3 DEF ll_remove, p
  <2>4. r.m = R /\ r.l = k /\ r.err = "ok"
    <3>1. \E a, b, x : u = Result(a, b, x)
      BY DEF Unlinked
    <3>2. DOMAIN u = {"m", "l", "err"}
      BY <3>1 DEF Result
    <3>. HIDE DEF u, R
    <3>. QED  BY <2>2, <2>3, <3>2
  <2>. HIDE DEF u, R, r
  <2>5. n \in M.used /\ n \in ToSet(c) /\ n \in Node /\ M.cell[n].data = d /\ d \in Data
    <3>1. n \in ToSet(c)
      BY <1>1, <2>1 DEF ToSet
    <3>2. M.cell[n].data = s[p] /\ s[p] \in Data
      BY <1>1, <2>1 DEF ItemsOf
    <3>3. s[p] = d
      BY <1>1, <1>3 DEF p
    <3>4. M.used \subseteq Node
      BY DEF Memory
    <3>. QED  BY <1>1, <3>1, <3>2, <3>3, <3>4
  <2>6. NodeGone(U, l, n, R) /\ U.cell[n].data = d
    <3>1. U.cell[n].data = d
      BY <2>1, <2>2, <2>5
    <3>2. l.owns => d \in U.live
      <4>1. d \in ToSet(s)
        BY <1>1, <1>3 DEF p
      <4>. QED  BY <2>2, <4>1
    <3>3. l \in List
      BY DEF Holds
    <3>. QED  BY <2>2, <2>5, <3>1, <3>2, <3>3, DestroyNodeStep DEF R
  <2>7. /\ R \in Memory /\ R.used = M.used \ {n} /\ R.fault = M.fault /\ R.live = Spared(M, l, {d})
        /\ \A m \in Node \ {n} : R.cell[m] = U.cell[m]
    BY <2>2, <2>6 DEF NodeGone, Spared
  <2>8. \A i, j \in 1 .. L : c[i] = c[j] => i = j
    BY DEF Holds, Linear
  <2>9. /\ e \in Seq(Node) /\ Len(e) = L - 1 /\ ToSet(e) = ToSet(c) \ {n}
        /\ \A i \in 1 .. L - 1 : e[i] = IF i < p THEN c[i] ELSE c[i + 1]
    <3>1. c \in Seq(Node)
      BY <1>1
    <3>. QED  BY <2>1, <2>8, <3>1, RemovedAt
  <2>. HIDE DEF e
  \* The i-th node of the new chain is the q-th of the old one.
  <2>. DEFINE q(i) == IF i < p THEN i ELSE i + 1
  <2>10. ASSUME NEW i \in 1 .. L - 1
         PROVE  /\ q(i) \in 1 .. L /\ q(i) # p /\ e[i] = c[q(i)] /\ c[q(i)] # n
                /\ R.cell[e[i]] = U.cell[c[q(i)]]
    <3>1. q(i) \in 1 .. L /\ q(i) # p
      BY <1>1, <2>1
    <3>2. e[i] = c[q(i)]
      BY <2>9
    <3>. HIDE DEF q
    <3>3. c[q(i)] # n /\ c[q(i)] \in Node
      BY <1>1, <2>1, <2>8, <3>1
    <3>. QED  BY <2>7, <3>1, <3>2, <3>3
  <2>11. ASSUME NEW i \in 1 .. L - 1  PROVE R.cell[e[i]].next = Succ(e, i)
    <3>1. R.cell[e[i]].next = IF q(i) = p - 1 THEN Succ(c, p) ELSE Succ(c, q(i))
      <4>. HIDE DEF q
      <4>. QED  BY <2>2, <2>10
    <3>2. i = L - 1 \/ i + 1 \in 1 .. L - 1
      <4>1. L \in Nat
        BY <1>1
      <4>. HIDE DEF L
      <4>. QED  BY <4>1
    <3>3. Succ(e, i) = IF i = L - 1 THEN NULL ELSE c[q(i + 1)]
      BY <2>9, <3>2 DEF Succ
    <3>4. CASE i < p - 1
      <4>1. q(i) = i /\ i # p - 1 /\ i # L /\ i # L - 1 /\ q(i + 1) = i + 1
        BY <1>1, <2>1, <3>4
      <4>. QED  BY <3>1, <3>3, <4>1 DEF Succ
    <3>5. CASE i = p - 1
      <4>1. q(i) = p - 1 /\ (i = L - 1 <=> p = L) /\ q(i + 1) = p + 1
        BY <1>1, <2>1, <3>5
      <4>. QED  BY <3>1, <3>3, <4>1 DEF Succ
    <3>6. CASE i > p - 1
      <4>1. q(i) = i + 1 /\ i + 1 # p - 1 /\ (i = L - 1 <=> i + 1 = L) /\ q(i + 1) = (i + 1) + 1
        BY <1>1, <2>1, <3>6
      <4>. QED  BY <3>1, <3>3, <4>1 DEF Succ
    <3>. QED  BY <1>1, <2>1, <3>4, <3>5, <3>6
  <2>12. \A i, j \in 1 .. L - 1 : e[i] = e[j] => i = j
    <3>1. SUFFICES ASSUME NEW i \in 1 .. L - 1, NEW j \in 1 .. L - 1, e[i] = e[j]  PROVE i = j
      OBVIOUS
    <3>2. q(i) = q(j)
      <4>. HIDE DEF q
      <4>. QED  BY <2>8, <2>10, <3>1
    <3>. QED  BY <2>1, <3>2
  <2>13. Linear(R, e)
    BY <2>9, <2>11, <2>12 DEF Linear
  <2>14. k.root = Succ(e, 0)
    <3>1. l.root = Succ(c, 0)
      BY DEF Holds
    <3>2. 0 = L - 1 \/ 1 \in 1 .. L - 1
      BY <1>1, <2>1
    <3>3. Succ(e, 0) = IF 0 = L - 1 THEN NULL ELSE c[q(1)]
      BY <2>9, <3>2 DEF Succ
    <3>4. CASE p = 1
      <4>1. (0 = L - 1 <=> 1 = L) /\ q(1) = 1 + 1
        BY <1>1, <3>4
      <4>. QED  BY <2>2, <3>3, <3>4, <4>1 DEF Succ
    <3>5. CASE p # 1
      <4>1. 0 # L - 1 /\ 0 # L /\ q(1) = 1
        BY <1>1, <2>1, <3>5
      <4>2. c[q(1)] = Succ(c, 0)
        BY <4>1 DEF Succ
      <4>. QED  BY <2>2, <3>1, <3>3, <3>5, <4>1, <4>2
    <3>. QED  BY <3>4, <3>5
  <2>15. Holds(R, k, e)
    <3>1. ASSUME NEW i \in 1 .. L - 1
          PROVE  e[i] \in R.used /\ R.cell[e[i]].data \in Data
      <4>1. \A j \in 1 .. L : c[j] \in M.used /\ M.cell[c[j]].data \in Data
        BY DEF Holds
      <4>. HIDE DEF q
      <4>. QED  BY <2>2, <2>7, <2>10, <4>1, SMTT(30)
    <3>2. l.nnodes = L
      BY DEF Holds
    <3>. QED  BY <2>2, <2>9, <2>13, <2>14, <3>1, <3>2 DEF Holds
  <2>16. ItemsOf(R, e) = t
    <3>. DEFINE v == ItemsOf(R, e)
    <3>1. t \in Seq(Data) /\ Len(t) = L - 1 /\ \A i \in 1 .. L - 1 : t[i] = IF i < p THEN s[i] ELSE s[i + 1]
      <4>1. p \in 1 .. Len(s)
        BY <1>1, <2>1
      <4>. HIDE DEF s
      <4>. QED  BY <1>1, <4>1, RemovedAt
    <3>2. v \in Seq(Data) /\ Len(v) = L - 1 /\ \A i \in 1 .. L - 1 : v[i] = R.cell[e[i]].data
      BY <2>7, <2>9, <2>15, ChainIs DEF ItemsOf
    <3>3. \A i \in 1 .. L : s[i] = M.cell[c[i]].data
      BY DEF ItemsOf
    <3>. HIDE DEF v, t, s
    <3>4. ASSUME NEW i \in 1 .. L - 1  PROVE v[i] = t[i]
      <4>1. t[i] = s[q(i)]
        BY <3>1
      <4>. HIDE DEF q
      <4>. QED  BY <2>2, <2>10, <3>2, <3>3, <4>1, SMTT(30)
    <3>5. v = t
      BY <3>1, <3>2, <3>4, SeqEqual
    <3>. QED  BY <3>5 DEF v
  <2>17. Becomes(M, c, R, k, e, t)
    <3>1. \A m \in M.used \ ToSet(c) : R.cell[m] = M.cell[m]
      <4>1. M.used \subseteq Node
        BY DEF Memory
      <4>. QED  BY <2>2, <2>5, <2>7, <4>1
    <3>2. R.used = (M.used \ ToSet(c)) \cup ToSet(e)
      BY <1>1, <2>5, <2>7, <2>9
    <3>. QED  BY <2>7, <2>9, <2>15, <2>16, <3>1, <3>2 DEF Becomes
  <2>18. s[p] = d
    BY <1>1, <1>3 DEF p
  <2>. QED  BY <2>1, <2>2, <2>4, <2>7, <2>17, <2>18 DEF RemoveOutcome, r, e
<1>. QED  BY <1>2, <1>3

-----------------------------------------------------------------------------
(* ll_destroy and ll_create_copy                                           *)

Injective(s) == \A i, j \in 1 .. Len(s) : s[i] = s[j] => i = j

\* What a list that destroys its data relies on.
OwnsItems(M, l, c) == l.owns => ToSet(ItemsOf(M, c)) \subseteq M.live /\ Injective(ItemsOf(M, c))

\* R is M without the list l, its nodes c and, if it owns them, its data.
ListGone(M, l, c, R) ==
    /\ R \in Memory
    /\ R.used = M.used \ ToSet(c) /\ R.fault = M.fault
    /\ R.live = Spared(M, l, ToSet(ItemsOf(M, c)))
    /\ \A n \in Node \ ToSet(c) : R.cell[n] = M.cell[n]

\* ll_destroy frees every node of the list, and its data if it owns them, once.
LEMMA DestroyStep ==
    ASSUME NEW M \in Memory, NEW l, NEW c, Holds(M, l, c), OwnsItems(M, l, c)
    PROVE  ListGone(M, l, c, ll_destroy(M, l))
<1>. DEFINE L == Len(c)
            s == ItemsOf(M, c)
            First(i) == {c[j] : j \in 1 .. i}
            Before(i) == {s[j] : j \in 1 .. i}
            Left(i) == {R \in Memory :
                          /\ R.used = M.used \ First(i) /\ R.fault = M.fault
                          /\ R.live = Spared(M, l, Before(i))
                          /\ \A n \in Node \ First(i) : R.cell[n] = M.cell[n]}
            P == [i \in 0 .. L |-> Left(i)]
            F == [i \in 1 .. L |-> [R \in Left(i - 1) |-> ll_destroy_node(R, l, c[i])]]
            Solves(f) == f = [i \in 0 .. L |-> IF i = 0 THEN M ELSE ll_destroy_node(f[i - 1], l, c[i])]
<1>1. /\ Chain(M, l) = c /\ L \in Nat /\ c \in Seq(Node) /\ DOMAIN c = 1 .. L
      /\ s \in Seq(Data) /\ DOMAIN s = 1 .. L /\ Len(s) = L
  BY ChainIs
<1>2. /\ l \in List
      /\ \A i \in 1 .. L : c[i] \in Node /\ c[i] \in M.used /\ s[i] = M.cell[c[i]].data /\ s[i] \in Data
      /\ \A i, j \in 1 .. L : c[i] = c[j] => i = j
  BY <1>1 DEF Holds, Linear, ItemsOf
<1>. HIDE DEF s
<1>3. M \in Left(0)
  <2>1. First(0) = {} /\ Before(0) = {}
    OBVIOUS
  <2>2. Spared(M, l, {}) = M.live
    BY DEF Spared
  <2>. HIDE DEF First, Before
  <2>. QED  BY <2>1, <2>2
<1>4. ASSUME NEW i \in 1 .. L, NEW R \in Left(i - 1)
      PROVE  ll_destroy_node(R, l, c[i]) \in Left(i)
  <2>. DEFINE Q == ll_destroy_node(R, l, c[i])
  <2>1. First(i) = First(i - 1) \cup {c[i]} /\ Before(i) = Before(i - 1) \cup {s[i]}
    <3>1. 1 .. i = (1 .. i - 1) \cup {i}
      OBVIOUS
    <3>. QED  BY <3>1
  <2>2. \A j \in 1 .. i - 1 : j \in 1 .. L /\ j # i
    BY <1>1
  <2>3. c[i] \notin First(i - 1)
    BY <1>2, <2>2
  <2>4. l.owns => s[i] \in M.live /\ s[i] \notin Before(i - 1)
    <3>1. l.owns => s[i] \in M.live
      BY <1>1 DEF OwnsItems, ToSet, s
    <3>2. l.owns => \A j \in 1 .. L : s[i] = s[j] => i = j
      BY <1>1 DEF OwnsItems, Injective, s
    <3>. QED  BY <2>2, <3>1, <3>2
  <2>. HIDE DEF First, Before
  <2>5. /\ R \in Memory /\ c[i] \in R.used /\ R.cell[c[i]] = M.cell[c[i]]
        /\ l.owns => s[i] \in R.live
    BY <1>2, <2>3, <2>4 DEF Spared
  <2>6. NodeGone(R, l, c[i], Q)
    BY <1>2, <2>5, DestroyNodeStep
  <2>. HIDE DEF Q
  <2>7. Q.live = Spared(M, l, Before(i))
    <3>1. Q.live = Spared(R, l, {s[i]}) /\ R.live = Spared(M, l, Before(i - 1))
      BY <1>2, <2>5, <2>6 DEF NodeGone
    <3>. QED  BY <2>1, <3>1 DEF Spared
  <2>8. Q.used = M.used \ First(i) /\ \A n \in Node \ First(i) : Q.cell[n] = M.cell[n]
    BY <2>1, <2>6 DEF NodeGone
  <2>. QED  BY <2>6, <2>7, <2>8 DEF NodeGone, Q
<1>. HIDE DEF Left
<1>5. \A i \in 1 .. L : i - 1 \in 0 .. L /\ i \in 0 .. L /\ i # 0
  BY <1>1
<1>6. Carries(F, P, L) /\ M \in P[0]
  <2>1. 0 \in 0 .. L
    BY <1>1
  <2>. QED  BY <1>3, <1>4, <1>5, <2>1 DEF Carries
<1>7. \E f : Solves(f)
  <2>1. PICK g : /\ g = [i \in 0 .. L |-> g[i]] /\ Iterates(g, M, F, L)
                 /\ \A i \in 0 .. L : g[i] \in P[i]
    <3>. HIDE DEF F, P
    <3>. QED  BY <1>1, <1>6, IteratedIn
  <2>2. \A i \in 1 .. L : g[i] = ll_destroy_node(g[i - 1], l, c[i])
    BY <1>5, <2>1 DEF Iterates
  <2>3. \A i \in 0 .. L : g[i] = IF i = 0 THEN M ELSE ll_destroy_node(g[i - 1], l, c[i])
    <3>1. \A i \in 0 .. L : i = 0 \/ i \in 1 .. L
      BY <1>1
    <3>2. g[0] = M
      BY <2>1 DEF Iterates
    <3>. QED  BY <2>2, <3>1, <3>2
  <2>4. Solves(g)
    BY <2>1, <2>3
  <2>. QED  BY <2>4
<1>. DEFINE f == CHOOSE f : Solves(f)
<1>8. Solves(f)
  <2>. HIDE DEF Solves
  <2>. QED  BY <1>7
<1>9. ll_destroy(M, l) = f[L]
  BY <1>1 DEF ll_destroy
<1>. HIDE DEF f
<1>10. f[L] \in Left(L)
  <2>1. f[0] = M /\ \A i \in 1 .. L : f[i] = ll_destroy_node(f[i - 1], l, c[i])
    <3>1. 0 \in 0 .. L
      BY <1>1
    <3>. QED  BY <1>5, <1>8, <3>1
  <2>2. \A i \in 1 .. L : f[i - 1] \in P[i - 1] => f[i] = F[i][f[i - 1]]
    BY <1>5, <2>1
  <2>3. L \in 0 .. L
    BY <1>1
  <2>4. \A i \in 0 .. L : f[i] \in P[i]
    <3>. HIDE DEF F, P, Solves
    <3>. QED  BY <1>1, <1>6, <2>1, <2>2, IteratesIn, SMTT(30)
  <2>. QED  BY <2>3, <2>4
<1>11. First(L) = ToSet(c) /\ Before(L) = ToSet(s)
  BY <1>1 DEF ToSet
<1>. QED  BY <1>9, <1>10, <1>11 DEF ListGone, Left, s

\* Two changes of a list, one after the other.
LEMMA BecomesTwice ==
    ASSUME NEW M, NEW c, NEW R, NEW k, NEW e, NEW s, Becomes(M, c, R, k, e, s),
           NEW T, NEW l, NEW g, NEW t, Becomes(R, e, T, l, g, t)
    PROVE  Becomes(M, c, T, l, g, t)
<1>1. M.used \ ToSet(c) = R.used \ ToSet(e)
  BY DEF Becomes
<1>. QED  BY <1>1 DEF Becomes

\* A call of malloc touches nothing.
LEMMA SpendStep ==
    ASSUME NEW M \in Memory, M.budget > 0
    PROVE  /\ Spend(M) \in Memory /\ Spend(M).used = M.used /\ Spend(M).fault = M.fault
           /\ Spend(M).cell = M.cell /\ Spend(M).live = M.live
<1>1. M.budget - 1 \in Nat
  BY DEF Memory
<1>. QED  BY <1>1 DEF Spend, Memory

\* A new list has no nodes.
LEMMA NewListStep ==
    ASSUME NEW M \in Memory, M.budget > 0, NEW owns \in BOOLEAN
    PROVE  /\ Becomes(M, << >>, Spend(M), NewList(owns), << >>, << >>)
           /\ Spend(M).live = M.live /\ NewList(owns).owns = owns
<1>1. /\ Spend(M) \in Memory /\ Spend(M).used = M.used /\ Spend(M).fault = M.fault
      /\ Spend(M).cell = M.cell /\ Spend(M).live = M.live
  BY SpendStep
<1>2. /\ NewList(owns) \in List /\ NewList(owns).nnodes = 0 /\ NewList(owns).root = NULL
      /\ NewList(owns).owns = owns
  BY DEF NewList, List
<1>3. ToSet(<< >>) = {} /\ << >> \in Seq(Node) /\ Len(<< >>) = 0
  BY DEF ToSet
<1>4. Linear(Spend(M), << >>)
  BY <1>3 DEF Linear
<1>5. Holds(Spend(M), NewList(owns), << >>)
  BY <1>2, <1>3, <1>4 DEF Holds, Succ
<1>6. ItemsOf(Spend(M), << >>) = << >>
  BY <1>3 DEF ItemsOf
<1>. QED  BY <1>1, <1>2, <1>3, <1>5, <1>6 DEF Becomes

\* What ll_insert returns is a memory, a list and an error.
LEMMA InsertIsResult ==
    ASSUME NEW M, NEW l, NEW d
    PROVE  ll_insert(M, l, d) =
             Result(ll_insert(M, l, d).m, ll_insert(M, l, d).l, ll_insert(M, l, d).err)
<1>1. \E a, b, e : ll_insert(M, l, d) = Result(a, b, e)
  <2>1. CASE ~CanAllocate(M)
    BY <2>1 DEF ll_insert
  <2>2. CASE CanAllocate(M) /\ Position(M, l, d) > 0
    BY <2>2 DEF ll_insert
  <2>3. CASE CanAllocate(M) /\ ~(Position(M, l, d) > 0)
    BY <2>3 DEF ll_insert, Linked
  <2>. QED  BY <2>1, <2>2, <2>3
<1>. QED  BY <1>1 DEF Result

\* The loop of ll_create_copy, from the result a.
Copied(a, s) ==
    LET copied[i \in 0 .. Len(s)] == IF i = 0 THEN a ELSE ll_create_copy_cb(copied[i - 1], s[i])
    IN  copied[Len(s)]

CopyCarries(P, s) ==
    \A i \in 1 .. Len(s) : \A r \in P[i - 1] : ll_create_copy_cb(r, s[i]) \in P[i]

\* The loop of ll_create_copy stays in the sets that its body stays in.
LEMMA CopiedIn ==
    ASSUME NEW s, Len(s) \in Nat, NEW P, NEW a \in P[0], CopyCarries(P, s)
    PROVE  Copied(a, s) \in P[Len(s)]
<1>. DEFINE L == Len(s)
            F == [i \in 1 .. L |-> [r \in P[i - 1] |-> ll_create_copy_cb(r, s[i])]]
            Solves(f) == f = [i \in 0 .. L |-> IF i = 0 THEN a ELSE ll_create_copy_cb(f[i - 1], s[i])]
<1>1. Carries(F, P, L)
  BY DEF Carries, CopyCarries
<1>2. \A i \in 1 .. L : i - 1 \in 0 .. L /\ i \in 0 .. L /\ i # 0
  OBVIOUS
<1>3. \E f : Solves(f)
  <2>1. PICK g : /\ g = [i \in 0 .. L |-> g[i]] /\ Iterates(g, a, F, L)
                 /\ \A i \in 0 .. L : g[i] \in P[i]
    <3>. HIDE DEF F
    <3>. QED  BY <1>1, IteratedIn
  <2>2. \A i \in 1 .. L : g[i] = ll_create_copy_cb(g[i - 1], s[i])
    BY <1>2, <2>1 DEF Iterates
  <2>3. \A i \in 0 .. L : g[i] = IF i = 0 THEN a ELSE ll_create_copy_cb(g[i - 1], s[i])
    <3>1. \A i \in 0 .. L : i = 0 \/ i \in 1 .. L
      OBVIOUS
    <3>2. g[0] = a
      BY <2>1 DEF Iterates
    <3>. QED  BY <2>2, <3>1, <3>2
  <2>4. Solves(g)
    BY <2>1, <2>3
  <2>. QED  BY <2>4
<1>. DEFINE f == CHOOSE f : Solves(f)
<1>4. Solves(f)
  <2>. HIDE DEF Solves
  <2>. QED  BY <1>3
<1>5. Copied(a, s) = f[L]
  BY DEF Copied
<1>. HIDE DEF f
<1>6. f[0] = a /\ \A i \in 1 .. L : f[i] = ll_create_copy_cb(f[i - 1], s[i])
  <2>1. 0 \in 0 .. L
    OBVIOUS
  <2>. QED  BY <1>2, <1>4, <2>1
<1>7. \A i \in 1 .. L : f[i - 1] \in P[i - 1] => f[i] = F[i][f[i - 1]]
  BY <1>2, <1>6
<1>8. \A i \in 0 .. L : f[i] \in P[i]
  <2>. HIDE DEF F, Solves
  <2>. QED  BY <1>1, <1>6, <1>7, IteratesIn
<1>. QED  BY <1>5, <1>8

\* What ll_create_copy does: it makes an equal list of new nodes, or leaves no trace.
CopyOutcome(M, s, r) ==
    \/ /\ r.err = "ok" /\ ~r.l.owns /\ r.m.live = M.live
       /\ \E e : Becomes(M, << >>, r.m, r.l, e, s)
    \/ /\ r.err = "ENOMEM" /\ r.l = NULL
       /\ r.m.used = M.used /\ OnlyCells(M, r.m, Node \ M.used)

\* ll_create_copy makes an equal list of nodes of its own; when malloc fails at any
\* of its calls, every node it had made is free again.
LEMMA CopyStep ==
    ASSUME NEW M \in Memory, NEW l, NEW c, Holds(M, l, c), ~l.owns, Injective(ItemsOf(M, c))
    PROVE  CopyOutcome(M, ItemsOf(M, c), ll_create_copy(M, l))
<1>. DEFINE s == ItemsOf(M, c)
            L == Len(s)
            new == ll_create(M, l.owns)
            copy == Copied(new, s)
            r == ll_create_copy(M, l)
<1>1. s \in Seq(Data) /\ L \in Nat /\ DOMAIN s = 1 .. L /\ Items(M, l) = s
  BY ChainIs
<1>2. l.owns = FALSE
  BY DEF Holds, List
<1>3. r = IF new.err # "ok" \/ copy.err = "ok" THEN copy
          ELSE Result(ll_destroy(copy.m, copy.l), NULL, "ENOMEM")
  BY <1>1 DEF ll_create_copy, Copied
<1>. HIDE DEF s, copy, r
<1>4. CASE ~(M.budget > 0)
  <2>. DEFINE P == [i \in 0 .. L |-> {new}]
  <2>1. new = Result(M, NULL, "ENOMEM")
    BY <1>4 DEF ll_create
  <2>2. new.err = "ENOMEM" /\ new.m = M /\ new.l = NULL
    BY <2>1 DEF Result
  <2>. HIDE DEF new
  <2>3. CopyCarries(P, s) /\ new \in P[0] /\ P[L] = {new}
    <3>1. \A x : ll_create_copy_cb(new, x) = new
      BY <2>2 DEF ll_create_copy_cb
    <3>2. \A i \in 1 .. L : i - 1 \in 0 .. L /\ i \in 0 .. L
      BY <1>1
    <3>3. 0 \in 0 .. L /\ L \in 0 .. L
      BY <1>1
    <3>. QED  BY <3>1, <3>2, <3>3 DEF CopyCarries
  <2>4. copy = new
    <3>1. copy \in P[L]
      <4>. HIDE DEF P
      <4>. QED  BY <1>1, <2>3, CopiedIn DEF copy
    <3>. QED  BY <2>3, <3>1
  <2>5. r.err = "ENOMEM" /\ r.l = NULL /\ r.m = M
    BY <1>3, <2>2, <2>4
  <2>6. OnlyCells(M, M, Node \ M.used)
    BY DEF OnlyCells
  <2>. QED  BY <2>5, <2>6 DEF CopyOutcome, r, s
<1>5. CASE M.budget > 0
  <2>. DEFINE Made(q, i) ==
                /\ ~q.l.owns /\ q.m.live = M.live
                /\ \E e : Becomes(M, << >>, q.m, q.l, e, SubSeq(s, 1, i))
              Going(i) == {q \in [m : Memory, l : List, err : {"ok", "ENOMEM"}] :
                             IF q.err = "ok" THEN Made(q, i) ELSE \E j \in 0 .. i : Made(q, j)}
              P == [i \in 0 .. L |-> Going(i)]
  <2>1. new = Result(Spend(M), NewList(FALSE), "ok")
    BY <1>2, <1>5 DEF ll_create
  <2>2. new.err = "ok" /\ new.m = Spend(M) /\ new.l = NewList(FALSE)
    BY <2>1 DEF Result
  <2>3. /\ Becomes(M, << >>, new.m, new.l, << >>, << >>)
        /\ new.m.live = M.live /\ ~new.l.owns
    <3>. HIDE DEF new
    <3>. QED  BY <1>5, <2>2, NewListStep
  <2>. HIDE DEF new
  <2>4. new \in Going(0)
    <3>1. SubSeq(s, 1, 0) = << >>
      BY <1>1
    <3>2. new.m \in Memory /\ new.l \in List
      BY <2>3 DEF Becomes, Holds
    <3>3. new \in [m : Memory, l : List, err : {"ok", "ENOMEM"}]
      BY <2>1, <2>2, <3>2 DEF Result
    <3>4. Made(new, 0)
      BY <2>3, <3>1
    <3>. HIDE DEF Made
    <3>. QED  BY <2>2, <3>3, <3>4
  <2>5. ASSUME NEW i \in 1 .. L, NEW q \in Going(i - 1)
        PROVE  ll_create_copy_cb(q, s[i]) \in Going(i)
    <3>. DEFINE z == ll_insert(q.m, q.l, s[i])
    <3>1. i - 1 \in 0 .. i /\ \A j \in 0 .. i - 1 : j \in 0 .. i
      BY <1>1
    <3>2. q \in [m : Memory, l : List, err : {"ok", "ENOMEM"}]
      OBVIOUS
    <3>3. CASE q.err # "ok"
      <4>1. ll_create_copy_cb(q, s[i]) = q
        BY <3>3 DEF ll_create_copy_cb
      <4>2. \E j \in 0 .. i - 1 : Made(q, j)
        <5>. HIDE DEF Made
        <5>. QED  BY <3>3
      <4>. HIDE DEF Made
      <4>. QED  BY <3>1, <3>2, <3>3, <4>1, <4>2
    <3>4. CASE q.err = "ok"
      <4>1. ll_create_copy_cb(q, s[i]) = z /\ z = Result(z.m, z.l, z.err)
        BY <3>4, InsertIsResult DEF ll_create_copy_cb
      <4>2. Made(q, i - 1)
        <5>. HIDE DEF Made
        <5>. QED  BY <3>4
      <4>3. PICK e : Becomes(M, << >>, q.m, q.l, e, SubSeq(s, 1, i - 1))
        BY <4>2
      <4>4. /\ q.m \in Memory /\ Holds(q.m, q.l, e) /\ ItemsOf(q.m, e) = SubSeq(s, 1, i - 1)
            /\ s[i] \in Data
        BY <1>1, <3>2, <4>3 DEF Becomes
      <4>. HIDE DEF z, Made, Going
      <4>5. InsertOutcome(q.m, q.l, e, s[i], z)
        BY <4>4, InsertStep DEF z
      <4>6. s[i] \notin ToSet(SubSeq(s, 1, i - 1))
        <5>. DEFINE t == SubSeq(s, 1, i - 1)
        <5>1. \A j \in 1 .. i - 1 : j \in 1 .. L /\ j # i
          BY <1>1
        <5>2. DOMAIN t = 1 .. i - 1 /\ \A j \in 1 .. i - 1 : t[j] = s[j]
          BY <1>1
        <5>3. \A j \in 1 .. L : s[i] = s[j] => i = j
          BY DEF Injective, s
        <5>. HIDE DEF t
        <5>. QED  BY <5>1, <5>2, <5>3 DEF ToSet, t
      <4>7. CASE z.err = "ENOMEM" /\ z.m = q.m /\ z.l = q.l
        <5>1. Made(z, i - 1)
          BY <4>2, <4>7 DEF Made
        <5>2. z \in [m : Memory, l : List, err : {"ok", "ENOMEM"}]
          BY <3>2, <4>1, <4>7 DEF Result
        <5>3. z.err # "ok"
          BY <4>7
        <5>. QED  BY <3>1, <4>1, <5>1, <5>2, <5>3 DEF Going
      <4>8. CASE /\ z.err = "ok" /\ z.l.owns = q.l.owns /\ z.m.live = q.m.live
                 /\ \E g : Becomes(q.m, e, z.m, z.l, g, Append(ItemsOf(q.m, e), s[i]))
        <5>1. PICK g : Becomes(q.m, e, z.m, z.l, g, Append(SubSeq(s, 1, i - 1), s[i]))
          BY <4>4, <4>8
        <5>2. Append(SubSeq(s, 1, i - 1), s[i]) = SubSeq(s, 1, i)
          BY <1>1
        <5>3. Becomes(M, << >>, z.m, z.l, g, SubSeq(s, 1, i))
          <6>1. Becomes(q.m, e, z.m, z.l, g, SubSeq(s, 1, i))
            BY <5>1, <5>2, Zenon
          <6>. DEFINE qm == q.m
                      ql == q.l
                      zm == z.m
                      zl == z.l
                      a == SubSeq(s, 1, i - 1)
                      b == SubSeq(s, 1, i)
                      o == << >>
          <6>2. Becomes(M, o, qm, ql, e, a) /\ Becomes(qm, e, zm, zl, g, b)
            BY <4>3, <6>1
          <6>. HIDE DEF qm, ql, zm, zl, a, b, o
          <6>3. Becomes(M, o, zm, zl, g, b)
            BY <6>2, BecomesTwice
          <6>. QED  BY <6>3 DEF zm, zl, b, o
        <5>4. Made(z, i)
          BY <4>2, <4>8, <5>3 DEF Made
        <5>5. z.m \in Memory /\ z.l \in List
          BY <5>3 DEF Becomes, Holds
        <5>6. z \in [m : Memory, l : List, err : {"ok", "ENOMEM"}]
          BY <4>1, <4>8, <5>5 DEF Result
        <5>. QED  BY <4>1, <4>8, <5>4, <5>6 DEF Going
      <4>. QED  BY <4>4, <4>5, <4>6, <4>7, <4>8 DEF InsertOutcome
    <3>. QED  BY <3>3, <3>4
  <2>6. copy \in Going(L)
    <3>. HIDE DEF Going
    <3>1. \A i \in 1 .. L : i - 1 \in 0 .. L /\ i \in 0 .. L
      BY <1>1
    <3>2. 0 \in 0 .. L /\ L \in 0 .. L
      BY <1>1
    <3>3. new \in P[0] /\ P[L] = Going(L)
      BY <2>4, <3>2
    <3>4. CopyCarries(P, s)
      BY <2>5, <3>1 DEF CopyCarries
    <3>5. copy \in P[L]
      <4>. HIDE DEF P
      <4>. QED  BY <1>1, <3>3, <3>4, CopiedIn DEF copy
    <3>. QED  BY <3>3, <3>5
  <2>7. CASE copy.err = "ok"
    <3>1. Made(copy, L)
      <4>. HIDE DEF Made
      <4>. QED  BY <2>6, <2>7
    <3>2. SubSeq(s, 1, L) = s
      BY <1>1
    <3>3. r = copy
      BY <1>3, <2>7
    <3>. QED  BY <2>7, <3>1, <3>2, <3>3 DEF CopyOutcome, r, s
  <2>8. CASE copy.err # "ok"
    <3>. DEFINE R == ll_destroy(copy.m, copy.l)
    <3>1. r = Result(R, NULL, "ENOMEM")
      BY <1>3, <2>2, <2>8
    <3>2. PICK j \in 0 .. L : Made(copy, j)
      <4>. HIDE DEF Made
      <4>. QED  BY <2>6, <2>8
    <3>3. PICK e : Becomes(M, << >>, copy.m, copy.l, e, SubSeq(s, 1, j))
      BY <3>2
    <3>4. copy.m \in Memory /\ Holds(copy.m, copy.l, e)
      BY <3>3 DEF Becomes
    <3>5. OwnsItems(copy.m, copy.l, e)
      BY <3>2 DEF OwnsItems
    <3>6. ListGone(copy.m, copy.l, e, R)
      BY <3>4, <3>5, DestroyStep
    <3>. HIDE DEF R, r
    <3>7. r.m = R /\ r.l = NULL /\ r.err = "ENOMEM"
      BY <3>1 DEF Result
    <3>8. ToSet(<< >>) = {} /\ M.used \subseteq Node
      BY DEF ToSet, Memory
    <3>9. /\ copy.m.used = M.used \cup ToSet(e) /\ ToSet(e) \cap M.used = {}
          /\ \A n \in M.used : copy.m.cell[n] = M.cell[n]
          /\ copy.m.fault = M.fault /\ copy.m.live = M.live /\ ~copy.l.owns
      BY <3>2, <3>3, <3>8 DEF Becomes
    <3>10. R.used = M.used /\ \A n \in M.used : R.cell[n] = M.cell[n]
      BY <3>6, <3>8, <3>9 DEF ListGone
    <3>11. R \in Memory /\ R.live = M.live /\ R.fault = M.fault
      BY <3>6, <3>9 DEF ListGone, Spared
    <3>. QED  BY <3>7, <3>10, <3>11 DEF CopyOutcome, OnlyCells, r
  <2>. QED  BY <2>7, <2>8
<1>. QED  BY <1>4, <1>5

-----------------------------------------------------------------------------
(* The specification of LinkedList                                         *)


(***************************************************************************)
(* The inductive invariant.  That a list is as it was after a call on      *)
(* another one needs that they have no node in common; that the copy of a  *)
(* list does not fail with EEXIST needs that its items differ.             *)
(***************************************************************************)
ListTypeOK ==
    /\ memory \in Memory
    /\ lists \in [Name -> List \cup {NULL}]
    /\ lost \subseteq Node

Listed(i) ==
    Exists(i) =>
        /\ Holds(memory, lists[i], ChainOf(i)) /\ ~lists[i].owns
        /\ Injective(Held[i]) /\ ToSet(Held[i]) \subseteq Item

Separate ==
    /\ \A i, j \in Name : i # j => ToSet(ChainOf(i)) \cap ToSet(ChainOf(j)) = {}
    /\ \A i \in Name : ToSet(ChainOf(i)) \cap lost = {}

ListIInv ==
    /\ ListTypeOK
    /\ \A i \in Name : Listed(i)
    /\ Separate
    /\ memory.used = (UNION {ToSet(ChainOf(i)) : i \in Name}) \cup lost
    /\ memory.fault = FALSE

\* What is known of a list that exists.
LEMMA ExistingList ==
    ASSUME ListIInv, NEW i \in Name, Exists(i)
    PROVE  /\ memory \in Memory /\ Holds(memory, lists[i], ChainOf(i))
           /\ ~lists[i].owns /\ lists[i] \in List /\ lists[i] # NULL
           /\ Held[i] = ItemsOf(memory, ChainOf(i)) /\ Held[i] \in Seq(Data) /\ Held[i] # NULL
           /\ Len(Held[i]) = lists[i].nnodes /\ Len(Held[i]) \in Nat /\ DOMAIN Held[i] = 1 .. Len(Held[i])
           /\ Injective(Held[i]) /\ ToSet(Held[i]) \subseteq Item
<1>1. /\ memory \in Memory /\ Holds(memory, lists[i], ChainOf(i)) /\ ~lists[i].owns
      /\ Injective(Held[i]) /\ ToSet(Held[i]) \subseteq Item
  BY DEF ListIInv, ListTypeOK, Listed
<1>2. Held[i] = Items(memory, lists[i])
  BY DEF Held
<1>3. /\ Items(memory, lists[i]) = ItemsOf(memory, ChainOf(i))
      /\ ItemsOf(memory, ChainOf(i)) \in Seq(Data)
      /\ Len(ItemsOf(memory, ChainOf(i))) = Len(ChainOf(i)) /\ Len(ChainOf(i)) \in Nat
  BY <1>1, ChainIs
<1>4. lists[i] \in List /\ lists[i].nnodes = Len(ChainOf(i)) /\ lists[i] # NULL
  BY <1>1, ListsAssumption DEF Holds
<1>. QED  BY <1>1, <1>2, <1>3, <1>4, ListsAssumption

\* Changing the number of allocations that succeed changes no list.
LEMMA Rebudgeted ==
    ASSUME NEW M \in Memory, NEW b \in Nat
    PROVE  /\ [M EXCEPT !.budget = b] \in Memory
           /\ [M EXCEPT !.budget = b].used = M.used /\ [M EXCEPT !.budget = b].cell = M.cell
           /\ [M EXCEPT !.budget = b].live = M.live /\ [M EXCEPT !.budget = b].fault = M.fault
           /\ [M EXCEPT !.budget = b].budget = b
BY DEF Memory

(***************************************************************************)
(* The step of one list: list i becomes k with the nodes e, and the nodes X*)
(* are lost.  Every call is such a step.                                   *)
(***************************************************************************)
Changed(i, R, k, e, X) ==
    /\ R \in Memory /\ R.fault = FALSE
    /\ R.used = (memory.used \ ToSet(ChainOf(i))) \cup ToSet(e) \cup X
    /\ ToSet(e) \cap (memory.used \ ToSet(ChainOf(i))) = {}
    /\ X \subseteq Node /\ X \cap memory.used = {} /\ X \cap ToSet(e) = {}
    /\ \A n \in memory.used \ ToSet(ChainOf(i)) : R.cell[n] = memory.cell[n]
    /\ \/ k = NULL /\ e = << >>
       \/ /\ Holds(R, k, e) /\ ~k.owns
          /\ Injective(ItemsOf(R, e)) /\ ToSet(ItemsOf(R, e)) \subseteq Item

Leaves(i, R, k, X) ==
    memory' = [R EXCEPT !.budget = 0] /\ lists' = [lists EXCEPT ![i] = k] /\ lost' = lost \cup X

\* A call that touches the nodes of one list and free nodes only keeps the
\* invariant, and what the other lists hold.
LEMMA OneListChanges ==
    ASSUME ListIInv, NEW i \in Name, NEW R, NEW k, NEW e, NEW X, Changed(i, R, k, e, X),
           Leaves(i, R, k, X)
    PROVE  ListIInv' /\ Held' = [Held EXCEPT ![i] = IF k = NULL THEN NULL ELSE ItemsOf(R, e)]
<1>. DEFINE Q == memory'
            c == ChainOf(i)
            v == IF k = NULL THEN NULL ELSE ItemsOf(R, e)
<1>. USE DEF Leaves
<1>1. Q \in Memory /\ Q.used = R.used /\ Q.cell = R.cell /\ Q.fault = FALSE
  BY Rebudgeted DEF Changed
<1>2. lists'[i] = k /\ \A j \in Name : j # i => lists'[j] = lists[j]
  BY DEF ListIInv, ListTypeOK
<1>3. NULL \notin List /\ ToSet(<< >>) = {}
  BY ListsAssumption DEF ToSet
<1>4. memory \in Memory /\ memory.used \subseteq Node
  BY DEF ListIInv, ListTypeOK, Memory
<1>0. /\ \A x : x \in memory.used <=> (\E j \in Name : x \in ToSet(ChainOf(j))) \/ x \in lost
      /\ Separate
  <2>1. memory.used = (UNION {ToSet(ChainOf(j)) : j \in Name}) \cup lost /\ Separate
    BY DEF ListIInv
  <2>2. \A x : x \in UNION {ToSet(ChainOf(j)) : j \in Name} <=> \E j \in Name : x \in ToSet(ChainOf(j))
    OBVIOUS
  <2>. QED  BY <2>1, <2>2
<1>5. \A j \in Name : ToSet(ChainOf(j)) \subseteq memory.used
  BY <1>0
<1>6. k # NULL => Holds(Q, k, e) /\ ItemsOf(Q, e) = ItemsOf(R, e) /\ k \in List
  <2>1. SUFFICES ASSUME k # NULL
                 PROVE  Holds(Q, k, e) /\ ItemsOf(Q, e) = ItemsOf(R, e) /\ k \in List
    OBVIOUS
  <2>2. Holds(R, k, e) /\ R \in Memory
    BY <2>1 DEF Changed
  <2>3. ToSet(e) \subseteq R.used
    BY <2>2, ChainIs
  <2>. HIDE DEF Q
  <2>. QED  BY <1>1, <2>2, <2>3, Untouched DEF Holds
<1>7. ChainOf(i)' = e /\ (k # NULL => Items(Q, k) = ItemsOf(R, e))
  <2>1. CASE k = NULL
    <3>1. ~Holds(R, k, e)
      BY <1>3, <2>1 DEF Holds
    <3>. QED  BY <1>2, <2>1, <3>1 DEF ChainOf, Exists, Changed
  <2>2. CASE k # NULL
    <3>. HIDE DEF Q
    <3>1. Chain(Q, k) = e /\ Items(Q, k) = ItemsOf(R, e)
      BY <1>1, <1>6, <2>2, ChainIs
    <3>. QED  BY <1>2, <2>2, <3>1 DEF ChainOf, Exists, Q
  <2>. QED  BY <2>1, <2>2
<1>8. ASSUME NEW j \in Name, j # i
      PROVE  /\ ChainOf(j)' = ChainOf(j) /\ Exists(j)' = Exists(j)
             /\ Exists(j) => /\ Items(Q, lists[j]) = Items(memory, lists[j])
                             /\ Holds(Q, lists[j], ChainOf(j))
  <2>1. CASE ~Exists(j)
    BY <1>2, <1>8, <2>1 DEF ChainOf, Exists
  <2>2. CASE Exists(j)
    <3>1. Holds(memory, lists[j], ChainOf(j)) /\ ToSet(ChainOf(j)) \cap ToSet(c) = {}
      BY <1>8, <2>2, ExistingList DEF ListIInv, Separate
    <3>2. ToSet(ChainOf(j)) \subseteq memory.used \ ToSet(c)
      BY <1>5, <3>1
    <3>3. ToSet(ChainOf(j)) \subseteq Q.used /\ \A n \in ToSet(ChainOf(j)) : Q.cell[n] = memory.cell[n]
      BY <1>1, <3>2 DEF Changed
    <3>. HIDE DEF Q
    <3>4. Holds(Q, lists[j], ChainOf(j)) /\ ItemsOf(Q, ChainOf(j)) = ItemsOf(memory, ChainOf(j))
      BY <1>1, <1>4, <3>1, <3>3, Untouched
    <3>5. Chain(Q, lists[j]) = ChainOf(j) /\ Items(Q, lists[j]) = Items(memory, lists[j])
      BY <1>1, <1>4, <3>1, <3>4, ChainIs
    <3>. QED  BY <1>2, <1>8, <2>2, <3>4, <3>5 DEF ChainOf, Exists, Q
  <2>. QED  BY <2>1, <2>2
<1>9. Held' = [Held EXCEPT ![i] = v]
  <2>1. Held'[i] = v
    BY <1>2, <1>7 DEF Held, Exists
  <2>2. \A j \in Name : j # i => Held'[j] = Held[j]
    BY <1>2, <1>8 DEF Held, Exists
  <2>3. Held = [j \in Name |-> Held[j]] /\ Held' = [j \in Name |-> Held'[j]]
    BY DEF Held
  <2>. HIDE DEF v
  <2>. QED  BY <2>1, <2>2, <2>3
<1>10. ListTypeOK'
  <2>1. k \in List \cup {NULL}
    BY <1>6
  <2>2. lost' \subseteq Node
    BY DEF ListIInv, ListTypeOK, Changed
  <2>. QED  BY <1>1, <2>1, <2>2 DEF ListIInv, ListTypeOK
<1>11. ASSUME NEW j \in Name  PROVE Listed(j)'
  <2>1. CASE j = i
    <3>1. SUFFICES ASSUME k # NULL  PROVE Listed(i)'
      BY <1>2, <2>1 DEF Listed, Exists
    <3>2. Held'[i] = ItemsOf(R, e)
      BY <1>2, <1>7, <3>1 DEF Held, Exists
    <3>. QED  BY <1>2, <1>6, <1>7, <3>1, <3>2 DEF Listed, Changed
  <2>2. CASE j # i
    <3>1. SUFFICES ASSUME Exists(j)  PROVE Listed(j)'
      BY <1>8, <2>2 DEF Listed
    <3>2. Held'[j] = Held[j]
      BY <1>2, <1>8, <2>2 DEF Held, Exists
    <3>3. ~lists[j].owns /\ Injective(Held[j]) /\ ToSet(Held[j]) \subseteq Item
      BY <3>1, ExistingList
    <3>. QED  BY <1>2, <1>8, <2>2, <3>1, <3>2, <3>3 DEF Listed
  <2>. QED  BY <2>1, <2>2
<1>12. Separate'
  <2>1. ASSUME NEW j \in Name, j # i
        PROVE  /\ ToSet(ChainOf(j)) \subseteq memory.used \ ToSet(c)
               /\ ToSet(ChainOf(j)) \cap lost = {}
    BY <1>5, <2>1 DEF ListIInv, Separate
  <2>2. ToSet(e) \cap lost = {}
    <3>1. lost \subseteq memory.used \ ToSet(c)
      BY <1>0 DEF Separate
    <3>. QED  BY <3>1 DEF Changed
  <2>3. \A j \in Name : ToSet(ChainOf(j)') \cap lost' = {}
    BY <1>7, <1>8, <2>1, <2>2 DEF Changed
  <2>4. ASSUME NEW j \in Name, NEW m \in Name, j # m
        PROVE  ToSet(ChainOf(j)') \cap ToSet(ChainOf(m)') = {}
    <3>1. CASE j = i
      BY <1>7, <1>8, <2>1, <2>4, <3>1 DEF Changed
    <3>2. CASE m = i
      BY <1>7, <1>8, <2>1, <2>4, <3>2 DEF Changed
    <3>3. CASE j # i /\ m # i
      BY <1>8, <2>4, <3>3 DEF ListIInv, Separate
    <3>. QED  BY <3>1, <3>2, <3>3
  <2>. QED  BY <2>3, <2>4 DEF Separate
<1>13. Q.used = (UNION {ToSet(ChainOf(j)') : j \in Name}) \cup lost'
  <2>1. Q.used = (memory.used \ ToSet(c)) \cup ToSet(e) \cup X
    BY <1>1 DEF Changed
  <2>2. \A x : x \in Q.used <=> (\E j \in Name : x \in ToSet(ChainOf(j)')) \/ x \in lost'
    <3>1. ASSUME NEW x \in Q.used
          PROVE  (\E j \in Name : x \in ToSet(ChainOf(j)')) \/ x \in lost'
      <4>1. CASE x \in ToSet(e) \cup X
        BY <1>7, <4>1
      <4>2. CASE x \in memory.used \ ToSet(c)
        <5>1. CASE x \in lost
          BY <5>1
        <5>2. CASE x \notin lost
          <6>1. PICK j \in Name : x \in ToSet(ChainOf(j))
            BY <1>0, <4>2, <5>2
          <6>2. j # i
            BY <4>2, <6>1
          <6>. QED  BY <1>8, <6>1, <6>2
        <5>. QED  BY <5>1, <5>2
      <4>. QED  BY <2>1, <4>1, <4>2
    <3>2. ASSUME NEW x \in lost'  PROVE x \in Q.used
      BY <1>0, <2>1 DEF Separate
    <3>3. ASSUME NEW j \in Name, NEW x \in ToSet(ChainOf(j)')  PROVE x \in Q.used
      <4>1. CASE j = i
        BY <1>7, <2>1, <4>1
      <4>2. CASE j # i
        BY <1>0, <1>8, <2>1, <4>2 DEF Separate
      <4>. QED  BY <4>1, <4>2
    <3>. HIDE DEF Q
    <3>. QED  BY <3>1, <3>2, <3>3
  <2>. DEFINE U == UNION {ToSet(ChainOf(j)') : j \in Name}
  <2>3. \A x : x \in U <=> \E j \in Name : x \in ToSet(ChainOf(j)')
    OBVIOUS
  <2>. HIDE DEF Q, U
  <2>4. Q.used = U \cup lost'
    BY <2>2, <2>3
  <2>. QED  BY <2>4 DEF U
<1>. QED  BY <1>1, <1>9, <1>10, <1>11, <1>12, <1>13 DEF ListIInv

\* A call that changes no list, but may lose nodes.
LEMMA NoListChanges ==
    ASSUME ListIInv, NEW i \in Name, NEW R \in Memory, NEW X,
           X \subseteq Node, X \cap memory.used = {}, R.used = memory.used \cup X, R.fault = FALSE,
           \A n \in memory.used : R.cell[n] = memory.cell[n], Leaves(i, R, lists[i], X)
    PROVE  ListIInv' /\ Held' = Held
<1>. DEFINE c == ChainOf(i)
            k == lists[i]
            v == IF k = NULL THEN NULL ELSE ItemsOf(R, c)
<1>0. Leaves(i, R, k, X)
  OBVIOUS
<1>1. ToSet(c) \subseteq memory.used
  BY DEF ListIInv
<1>2. CASE ~Exists(i)
  <2>1. Changed(i, R, k, c, X)
    BY <1>1, <1>2 DEF Changed, ChainOf, Exists
  <2>2. v = Held[i]
    BY <1>2 DEF Held, Exists
  <2>3. Held = [Held EXCEPT ![i] = Held[i]]
    BY DEF Held
  <2>4. ListIInv' /\ Held' = [Held EXCEPT ![i] = v]
    <3>. HIDE DEF c, k
    <3>. QED  BY <1>0, <2>1, OneListChanges
  <2>. QED  BY <2>2, <2>3, <2>4
<1>3. CASE Exists(i)
  <2>1. /\ memory \in Memory /\ Holds(memory, k, c) /\ ~k.owns /\ k # NULL
        /\ Held[i] = ItemsOf(memory, c) /\ Injective(Held[i]) /\ ToSet(Held[i]) \subseteq Item
    BY <1>3, ExistingList
  <2>2. ToSet(c) \subseteq R.used /\ \A n \in ToSet(c) : R.cell[n] = memory.cell[n]
    BY <1>1
  <2>3. Holds(R, k, c) /\ ItemsOf(R, c) = Held[i]
    <3>. HIDE DEF c, k
    <3>. QED  BY <2>1, <2>2, Untouched
  <2>4. Changed(i, R, k, c, X)
    BY <1>1, <2>1, <2>3 DEF Changed
  <2>5. v = Held[i]
    BY <2>1, <2>3
  <2>6. Held = [Held EXCEPT ![i] = Held[i]]
    BY DEF Held
  <2>7. ListIInv' /\ Held' = [Held EXCEPT ![i] = v]
    <3>. HIDE DEF c, k
    <3>. QED  BY <1>0, <2>4, OneListChanges
  <2>. QED  BY <2>5, <2>6, <2>7
<1>. QED  BY <1>2, <1>3

\* A call that changes no list and loses nothing.
LEMMA NothingChanges ==
    ASSUME ListIInv, NEW i \in Name, NEW R \in Memory, R.used = memory.used, R.fault = FALSE,
           \A n \in memory.used : R.cell[n] = memory.cell[n], Leaves(i, R, lists[i], {})
    PROVE  ListIInv' /\ Held' = Held
<1>. DEFINE X == {}
<1>1. X \subseteq Node /\ X \cap memory.used = {} /\ R.used = memory.used \cup X
      /\ Leaves(i, R, lists[i], X)
  OBVIOUS
<1>. HIDE DEF X
<1>. QED  BY <1>1, NoListChanges

\* A call that changes list i, as the operators of Lists do.
NewContent(i, G, R, k, e, s) ==
    /\ G.used = memory.used /\ G.cell = memory.cell /\ G.fault = FALSE
    /\ Becomes(G, ChainOf(i), R, k, e, s) /\ ~k.owns
    /\ Injective(s) /\ ToSet(s) \subseteq Item
    /\ Leaves(i, R, k, {})

\* The same for a call after which the list holds s.
LEMMA ListBecomes ==
    ASSUME ListIInv, NEW i \in Name, NEW G, NEW R, NEW k, NEW e, NEW s, NewContent(i, G, R, k, e, s)
    PROVE  ListIInv' /\ Held' = [Held EXCEPT ![i] = s]
<1>. USE DEF NewContent
<1>1. Changed(i, R, k, e, {})
  BY DEF Becomes, Changed
<1>2. k # NULL /\ ItemsOf(R, e) = s
  BY ListsAssumption DEF Becomes, Holds
<1>4. ListIInv' /\ Held' = [Held EXCEPT ![i] = IF k = NULL THEN NULL ELSE ItemsOf(R, e)]
  BY <1>1, OneListChanges
<1>. QED  BY <1>2, <1>4

\* The memory a call starts with.
LEMMA GivenIs ==
    ASSUME ListIInv, NEW b \in Nat
    PROVE  /\ Given(b) \in Memory /\ Given(b).used = memory.used /\ Given(b).cell = memory.cell
           /\ Given(b).fault = FALSE /\ Given(b).live = memory.live /\ Given(b).budget = b
           /\ \A i \in Name : Exists(i) => /\ Holds(Given(b), lists[i], ChainOf(i))
                                           /\ ItemsOf(Given(b), ChainOf(i)) = Held[i]
<1>1. memory \in Memory /\ memory.fault = FALSE
  BY DEF ListIInv, ListTypeOK
<1>2. /\ Given(b) \in Memory /\ Given(b).used = memory.used /\ Given(b).cell = memory.cell
      /\ Given(b).fault = FALSE /\ Given(b).live = memory.live /\ Given(b).budget = b
  BY <1>1, Rebudgeted DEF Given
<1>3. ASSUME NEW i \in Name, Exists(i)
      PROVE  /\ Holds(Given(b), lists[i], ChainOf(i))
             /\ ItemsOf(Given(b), ChainOf(i)) = Held[i]
  <2>1. Holds(memory, lists[i], ChainOf(i)) /\ Held[i] = ItemsOf(memory, ChainOf(i))
    BY <1>3, ExistingList
  <2>2. ToSet(ChainOf(i)) \subseteq memory.used
    BY DEF ListIInv
  <2>. QED  BY <1>1, <1>2, <2>1, <2>2, Untouched
<1>. QED  BY <1>2, <1>3

\* Sequences without repetitions stay so.
LEMMA StaysInjective ==
    ASSUME NEW s \in Seq(Data), Injective(s), NEW d \in Data
    PROVE  /\ d \notin ToSet(s) => Injective(Append(s, d)) /\ Injective(<<d>> \o s)
           /\ \A p \in 1 .. Len(s) : Injective(RemoveAt(s, p)) /\ ToSet(RemoveAt(s, p)) \subseteq ToSet(s)
<1>. DEFINE L == Len(s)
<1>1. L \in Nat /\ DOMAIN s = 1 .. L
  OBVIOUS
<1>2. ASSUME d \notin ToSet(s)  PROVE Injective(Append(s, d))
  <2>. DEFINE t == Append(s, d)
  <2>1. Len(t) = L + 1 /\ t[L + 1] = d /\ \A i \in 1 .. L : t[i] = s[i]
    OBVIOUS
  <2>2. \A i \in 1 .. L : s[i] # d
    BY <1>1, <1>2 DEF ToSet
  <2>3. \A i \in 1 .. L + 1 : i = L + 1 \/ i \in 1 .. L
    BY <1>1
  <2>. HIDE DEF t
  <2>4. Injective(t)
    BY <2>1, <2>2, <2>3 DEF Injective
  <2>. QED  BY <2>4 DEF t
<1>3. ASSUME d \notin ToSet(s)  PROVE Injective(<<d>> \o s)
  <2>. DEFINE t == <<d>> \o s
  <2>1. Len(t) = L + 1 /\ t[1] = d /\ \A i \in 1 .. L : t[i + 1] = s[i]
    BY Prefixed
  <2>2. \A i \in 1 .. L : s[i] # d
    BY <1>1, <1>3 DEF ToSet
  <2>3. \A i \in 1 .. L + 1 : i = 1 \/ \E j \in 1 .. L : i = j + 1
    <3>1. \A i \in 1 .. L + 1 : i # 1 => i - 1 \in 1 .. L /\ i = (i - 1) + 1
      BY <1>1
    <3>. QED  BY <3>1
  <2>. HIDE DEF t
  <2>4. SUFFICES ASSUME NEW i \in 1 .. L + 1, NEW j \in 1 .. L + 1, t[i] = t[j]  PROVE i = j
    BY <2>1 DEF Injective, t
  <2>5. CASE i = 1
    BY <2>1, <2>2, <2>3, <2>4, <2>5
  <2>6. CASE j = 1
    BY <2>1, <2>2, <2>3, <2>4, <2>6
  <2>7. CASE i # 1 /\ j # 1
    <3>1. PICK x \in 1 .. L : i = x + 1
      BY <2>3, <2>7
    <3>2. PICK y \in 1 .. L : j = y + 1
      BY <2>3, <2>7
    <3>. QED  BY <2>1, <2>4, <3>1, <3>2 DEF Injective
  <2>. QED  BY <2>5, <2>6, <2>7
<1>4. ASSUME NEW p \in 1 .. Len(s)
      PROVE  Injective(RemoveAt(s, p)) /\ ToSet(RemoveAt(s, p)) \subseteq ToSet(s)
  <2>. DEFINE t == RemoveAt(s, p)
              q(i) == IF i < p THEN i ELSE i + 1
  <2>1. /\ Len(t) = L - 1
        /\ \A i \in 1 .. L - 1 : t[i] = IF i < p THEN s[i] ELSE s[i + 1]
        /\ ToSet(t) = ToSet(s) \ {s[p]}
    BY RemovedAt, SMTT(30) DEF Injective
  <2>. HIDE DEF t
  <2>2. SUFFICES ASSUME NEW i \in 1 .. L - 1, NEW j \in 1 .. L - 1, t[i] = t[j]  PROVE i = j
    BY <2>1 DEF Injective, t
  <2>3. t[i] = s[q(i)] /\ t[j] = s[q(j)] /\ q(i) \in 1 .. L /\ q(j) \in 1 .. L
    BY <1>1, <2>1
  <2>4. q(i) = q(j)
    <3>. HIDE DEF q
    <3>. QED  BY <2>2, <2>3 DEF Injective
  <2>. QED  BY <2>4
<1>. QED  BY <1>2, <1>3, <1>4

-----------------------------------------------------------------------------
(* One lemma per operation: the invariant is kept, and the step is one of  *)
(* DataList's.                                                             *)

\* What a call that returns r leaves, and what it returns.
LEMMA ReturnsLeaves ==
    ASSUME NEW i, NEW r, NEW d, Returns(i, r, d), UNCHANGED lost
    PROVE  /\ Leaves(i, r.m, r.l, {})
           /\ r.err \in {"ok", "ENOMEM"} => result' = Res(r.err, NULL)
           /\ r.err \in {"EEXIST", "ENOENT"} => result' = Res(r.err, <<i, d>>)
BY DEF Returns, Leaves

\* The list i of DataList becomes s when that of LinkedList does.
LEMMA HeldBecomes ==
    ASSUME NEW i \in Name, NEW s, Held' = [Held EXCEPT ![i] = s]
    PROVE  Seqs!Becomes(i, s)
<1>1. DOMAIN Held = Name
  BY DEF Held
<1>2. Held'[i] = s /\ \A j \in Name \ {i} : Held'[j] = Held[j]
  BY <1>1
<1>. QED  BY <1>2 DEF Seqs!Becomes, Seqs!Others

\* A call that fails for want of memory.
LEMMA NoMemoryStep ==
    ASSUME Held' = Held, result' = Res("ENOMEM", NULL)
    PROVE  Seqs!Next
<1>1. Seqs!NoMemory
  BY DEF Seqs!NoMemory, Seqs!Answers, Seqs!Res, Res
<1>. QED  BY <1>1 DEF Seqs!Next

\* A list exists in both specifications or in neither.
LEMMA ExistsMaps ==
    ASSUME ListIInv, NEW i \in Name
    PROVE  Seqs!Exists(i) <=> Exists(i)
<1>1. CASE Exists(i)
  BY <1>1, ExistingList DEF Seqs!Exists
<1>2. CASE ~Exists(i)
  BY <1>2 DEF Seqs!Exists, Held
<1>. QED  BY <1>1, <1>2

\* What DataList calls having d.
LEMMA HasMaps ==
    ASSUME NEW i, NEW d
    PROVE  Seqs!Has(i, d) <=> d \in ToSet(Held[i])
BY DEF Seqs!Has, Seqs!ToSet, ToSet

\* ll_create.
LEMMA CreateMaps ==
    ASSUME ListIInv, NEW i \in Name, NEW b \in 0 .. 1, Create(i, b)
    PROVE  ListIInv' /\ Seqs!Next
<1>. DEFINE G == Given(b)
            r == ll_create(G, FALSE)
<1>1. /\ ~Exists(i) /\ Leaves(i, r.m, r.l, {}) /\ lists[i] = NULL
      /\ r.err \in {"ok", "ENOMEM"} => result' = Res(r.err, NULL)
  BY ReturnsLeaves DEF Create, Exists
<1>2. /\ G \in Memory /\ G.used = memory.used /\ G.cell = memory.cell /\ G.fault = FALSE
      /\ G.budget = b
  <2>1. b \in Nat
    OBVIOUS
  <2>. QED  BY <2>1, GivenIs
<1>. HIDE DEF G
<1>3. CASE b = 0
  <2>1. r = Result(G, NULL, "ENOMEM")
    BY <1>2, <1>3 DEF ll_create
  <2>. HIDE DEF r
  <2>2. r.m = G /\ r.l = NULL /\ r.err = "ENOMEM"
    BY <2>1 DEF Result
  <2>3. ListIInv' /\ Held' = Held
    <3>1. Leaves(i, G, lists[i], {})
      BY <1>1, <2>2
    <3>. QED  BY <1>2, <3>1, NothingChanges
  <2>. QED  BY <1>1, <2>2, <2>3, NoMemoryStep
<1>4. CASE b = 1
  <2>1. r = Result(Spend(G), NewList(FALSE), "ok")
    BY <1>2, <1>4 DEF ll_create
  <2>. HIDE DEF r
  <2>2. r.m = Spend(G) /\ r.l = NewList(FALSE) /\ r.err = "ok"
    BY <2>1 DEF Result
  <2>3. Becomes(G, ChainOf(i), r.m, r.l, << >>, << >>) /\ ~r.l.owns
    <3>1. ChainOf(i) = << >>
      BY <1>1 DEF ChainOf
    <3>2. G.budget > 0
      BY <1>2, <1>4
    <3>3. /\ Becomes(G, << >>, Spend(G), NewList(FALSE), << >>, << >>)
          /\ NewList(FALSE).owns = FALSE
      <4>. DEFINE no == FALSE
      <4>1. no \in BOOLEAN
        OBVIOUS
      <4>. HIDE DEF no
      <4>2. Becomes(G, << >>, Spend(G), NewList(no), << >>, << >>) /\ NewList(no).owns = no
        BY <1>2, <3>2, <4>1, NewListStep
      <4>. QED  BY <4>2 DEF no
    <3>. QED  BY <2>2, <3>1, <3>3
  <2>4. Injective(<< >>) /\ ToSet(<< >>) \subseteq Item
    BY DEF Injective, ToSet
  <2>5. ListIInv' /\ Held' = [Held EXCEPT ![i] = << >>]
    <3>. DEFINE o == << >>
    <3>1. NewContent(i, G, r.m, r.l, o, o)
      BY <1>1, <1>2, <2>3, <2>4 DEF NewContent
    <3>. HIDE DEF o
    <3>2. ListIInv' /\ Held' = [Held EXCEPT ![i] = o]
      BY <3>1, ListBecomes
    <3>. QED  BY <3>2 DEF o
  <2>6. Seqs!Done /\ Seqs!Create(i)
    BY <1>1, <2>2, <2>5, HeldBecomes, ExistsMaps DEF Seqs!Done, Seqs!Create, Seqs!Res, Res
  <2>. QED  BY <2>5, <2>6 DEF Seqs!Next
<1>. QED  BY <1>3, <1>4

\* ll_destroy.
LEMMA DestroyMaps ==
    ASSUME ListIInv, NEW i \in Name, Destroy(i)
    PROVE  ListIInv' /\ Seqs!Next
<1>. DEFINE R == ll_destroy(memory, lists[i])
            r == Result(R, NULL, "ok")
            c == ChainOf(i)
<1>1. Exists(i) /\ Leaves(i, r.m, r.l, {}) /\ (r.err \in {"ok", "ENOMEM"} => result' = Res(r.err, NULL))
  BY ReturnsLeaves DEF Destroy
<1>2. r.m = R /\ r.l = NULL /\ r.err = "ok"
  BY DEF Result
<1>3. memory \in Memory /\ memory.fault = FALSE /\ Holds(memory, lists[i], c) /\ ~lists[i].owns
  BY <1>1, ExistingList DEF ListIInv
<1>4. ListGone(memory, lists[i], c, R)
  <2>1. OwnsItems(memory, lists[i], c)
    BY <1>3 DEF OwnsItems
  <2>. QED  BY <1>3, <2>1, DestroyStep
<1>. HIDE DEF R, r
<1>5. Changed(i, R, NULL, << >>, {})
  <2>1. ToSet(<< >>) = {} /\ memory.used \subseteq Node
    BY <1>3 DEF ToSet, Memory
  <2>. QED  BY <1>3, <1>4, <2>1 DEF Changed, ListGone
<1>6. ListIInv' /\ Held' = [Held EXCEPT ![i] = NULL]
  BY <1>1, <1>2, <1>5, OneListChanges
<1>7. Seqs!Done /\ Seqs!Destroy(i)
  BY <1>1, <1>2, <1>6, HeldBecomes, ExistsMaps DEF Seqs!Done, Seqs!Destroy, Seqs!Res, Res
<1>. QED  BY <1>6, <1>7 DEF Seqs!Next

\* ll_create_copy.
LEMMA CopyMaps ==
    ASSUME ListIInv, NEW i \in Name, NEW j \in Name, NEW b \in Nat, Copy(i, j, b)
    PROVE  ListIInv' /\ Seqs!Next
<1>. DEFINE G == Given(b)
            r == ll_create_copy(G, lists[i])
            s == Held[i]
<1>1. /\ Exists(i) /\ ~Exists(j) /\ lists[j] = NULL /\ Leaves(j, r.m, r.l, {})
      /\ r.err \in {"ok", "ENOMEM"} => result' = Res(r.err, NULL)
  BY ReturnsLeaves DEF Copy, Exists
<1>2. /\ G \in Memory /\ G.used = memory.used /\ G.cell = memory.cell /\ G.fault = FALSE
      /\ Holds(G, lists[i], ChainOf(i)) /\ ItemsOf(G, ChainOf(i)) = s
  BY <1>1, GivenIs
<1>3. ~lists[i].owns /\ Injective(s) /\ ToSet(s) \subseteq Item
  BY <1>1, ExistingList
<1>. HIDE DEF G, s
<1>4. CopyOutcome(G, s, r)
  BY <1>2, <1>3, CopyStep
<1>. HIDE DEF r
<1>5. CASE /\ r.err = "ENOMEM" /\ r.l = NULL
           /\ r.m.used = G.used /\ OnlyCells(G, r.m, Node \ G.used)
  <2>1. /\ r.m \in Memory /\ r.m.used = memory.used /\ r.m.fault = FALSE
        /\ \A n \in memory.used : r.m.cell[n] = memory.cell[n]
    <3>1. memory.used \subseteq Node
      BY <1>2 DEF Memory
    <3>. QED  BY <1>2, <1>5, <3>1 DEF OnlyCells
  <2>2. Leaves(j, r.m, lists[j], {})
    BY <1>1, <1>5
  <2>3. ListIInv' /\ Held' = Held
    BY <2>1, <2>2, NothingChanges
  <2>. QED  BY <1>1, <1>5, <2>3, NoMemoryStep
<1>6. CASE /\ r.err = "ok" /\ ~r.l.owns
           /\ \E e : Becomes(G, << >>, r.m, r.l, e, s)
  <2>1. ChainOf(j) = << >>
    BY <1>1 DEF ChainOf
  <2>2. PICK e : Becomes(G, ChainOf(j), r.m, r.l, e, s)
    BY <1>6, <2>1
  <2>3. NewContent(j, G, r.m, r.l, e, s)
    BY <1>1, <1>2, <1>3, <1>6, <2>2 DEF NewContent
  <2>4. ListIInv' /\ Held' = [Held EXCEPT ![j] = s]
    BY <2>3, ListBecomes
  <2>5. Seqs!Becomes(j, Held[i])
    BY <2>4, HeldBecomes DEF s
  <2>6. Seqs!Done /\ Seqs!Copy(i, j)
    BY <1>1, <1>6, <2>5, ExistsMaps DEF Seqs!Done, Seqs!Copy, Seqs!Res, Res
  <2>. QED  BY <2>4, <2>6 DEF Seqs!Next
<1>. QED  BY <1>4, <1>5, <1>6 DEF CopyOutcome

\* ll_insert.
LEMMA InsertMaps ==
    ASSUME ListIInv, NEW i \in Name, NEW d \in Item, NEW b \in Nat, Insert(i, d, b)
    PROVE  ListIInv' /\ Seqs!Next
<1>. DEFINE G == Given(b)
            r == ll_insert(G, lists[i], d)
            s == Held[i]
            c == ChainOf(i)
<1>1. /\ Exists(i) /\ Leaves(i, r.m, r.l, {})
      /\ r.err \in {"ok", "ENOMEM"} => result' = Res(r.err, NULL)
      /\ r.err \in {"EEXIST", "ENOENT"} => result' = Res(r.err, <<i, d>>)
  BY ReturnsLeaves DEF Insert
<1>2. /\ G \in Memory /\ G.used = memory.used /\ G.cell = memory.cell /\ G.fault = FALSE
      /\ Holds(G, lists[i], c) /\ ItemsOf(G, c) = s /\ d \in Data
  BY <1>1, GivenIs, ItemAssumption
<1>3. ~lists[i].owns /\ Injective(s) /\ ToSet(s) \subseteq Item /\ s \in Seq(Data)
  BY <1>1, ExistingList
<1>. HIDE DEF G
<1>4. InsertOutcome(G, lists[i], c, d, r)
  BY <1>2, InsertStep
<1>. HIDE DEF r
<1>5. CASE r.err = "ENOMEM" /\ r.m = G /\ r.l = lists[i]
  <2>1. ListIInv' /\ Held' = Held
    BY <1>1, <1>2, <1>5, NothingChanges
  <2>. QED  BY <1>1, <1>5, <2>1, NoMemoryStep
<1>6. CASE r.err = "EEXIST" /\ r.m = Spend(G) /\ G.budget > 0 /\ r.l = lists[i] /\ d \in ToSet(s)
  <2>1. /\ Spend(G) \in Memory /\ Spend(G).used = memory.used /\ Spend(G).fault = FALSE
        /\ Spend(G).cell = memory.cell
    BY <1>2, <1>6, SpendStep
  <2>2. ListIInv' /\ Held' = Held
    BY <1>1, <1>6, <2>1, NothingChanges
  <2>3. Seqs!InsertAgain(i, d)
    BY <1>1, <1>6, <2>2, ExistsMaps, HasMaps
    DEF Seqs!InsertAgain, Seqs!Answers, Seqs!Res, Res
  <2>. QED  BY <2>2, <2>3 DEF Seqs!Next
<1>7. CASE /\ r.err = "ok" /\ d \notin ToSet(s) /\ r.l.owns = lists[i].owns
           /\ \E e : Becomes(G, c, r.m, r.l, e, Append(s, d))
  <2>1. PICK e : Becomes(G, c, r.m, r.l, e, Append(s, d))
    BY <1>7
  <2>2. Injective(Append(s, d)) /\ ToSet(Append(s, d)) \subseteq Item
    <3>1. Injective(Append(s, d))
      BY <1>2, <1>3, <1>7, StaysInjective
    <3>2. ToSet(Append(s, d)) = ToSet(s) \cup {d}
      BY <1>2, <1>3, Added
    <3>. QED  BY <1>3, <3>1, <3>2
  <2>3. NewContent(i, G, r.m, r.l, e, Append(s, d))
    BY <1>1, <1>2, <1>3, <1>7, <2>1, <2>2 DEF NewContent
  <2>4. ListIInv' /\ Held' = [Held EXCEPT ![i] = Append(s, d)]
    BY <2>3, ListBecomes
  <2>5. Seqs!Done /\ Seqs!Insert(i, d)
    BY <1>1, <1>7, <2>4, HeldBecomes, ExistsMaps, HasMaps DEF Seqs!Done, Seqs!Insert, Seqs!Res, Res
  <2>. QED  BY <2>4, <2>5 DEF Seqs!Next
<1>. QED  BY <1>2, <1>4, <1>5, <1>6, <1>7 DEF InsertOutcome

\* ll_insert_head.
LEMMA InsertHeadMaps ==
    ASSUME ListIInv, NEW i \in Name, NEW d \in Item, NEW b \in Nat, InsertHead(i, d, b)
    PROVE  ListIInv' /\ Seqs!Next
<1>. DEFINE G == Given(b)
            r == ll_insert_head(G, lists[i], d)
            s == Held[i]
            c == ChainOf(i)
            t == <<d>> \o s
<1>1. /\ Exists(i)
      /\ r.err # "EEXIST" => Leaves(i, r.m, r.l, {})
      /\ r.err = "EEXIST" => Leaves(i, r.m, r.l, r.m.used \ memory.used)
      /\ r.err \in {"ok", "ENOMEM"} => result' = Res(r.err, NULL)
      /\ r.err = "EEXIST" => result' = Res(r.err, <<i, d>>)
  BY DEF InsertHead, Returns, Leaves
<1>2. /\ G \in Memory /\ G.used = memory.used /\ G.cell = memory.cell /\ G.fault = FALSE
      /\ Holds(G, lists[i], c) /\ ItemsOf(G, c) = s /\ d \in Data
  BY <1>1, GivenIs, ItemAssumption
<1>3. ~lists[i].owns /\ Injective(s) /\ ToSet(s) \subseteq Item /\ s \in Seq(Data)
  BY <1>1, ExistingList
<1>. HIDE DEF G
<1>4. InsertHeadOutcome(G, lists[i], c, d, r)
  BY <1>2, InsertHeadStep
<1>. HIDE DEF r
<1>5. CASE r.err = "ENOMEM" /\ r.m = G /\ r.l = lists[i]
  <2>1. ListIInv' /\ Held' = Held
    BY <1>1, <1>2, <1>5, NothingChanges
  <2>. QED  BY <1>1, <1>5, <2>1, NoMemoryStep
<1>6. CASE /\ r.err = "EEXIST" /\ r.l = lists[i] /\ d \in ToSet(s)
           /\ \E n \in Node \ G.used : OnlyCells(G, r.m, {n}) /\ r.m.used = G.used \cup {n}
  <2>1. PICK n \in Node \ memory.used : OnlyCells(G, r.m, {n}) /\ r.m.used = memory.used \cup {n}
    BY <1>2, <1>6
  <2>. DEFINE X == r.m.used \ memory.used
  <2>2. /\ r.m \in Memory /\ r.m.fault = FALSE /\ X \subseteq Node /\ X \cap memory.used = {}
        /\ r.m.used = memory.used \cup X /\ \A m \in memory.used : r.m.cell[m] = memory.cell[m]
    <3>1. memory.used \subseteq Node
      BY <1>2 DEF Memory
    <3>. QED  BY <1>2, <2>1, <3>1 DEF OnlyCells
  <2>3. Leaves(i, r.m, lists[i], X)
    BY <1>1, <1>6
  <2>. HIDE DEF X
  <2>4. ListIInv' /\ Held' = Held
    BY <2>2, <2>3, NoListChanges
  <2>5. Seqs!InsertAgain(i, d)
    BY <1>1, <1>6, <2>4, ExistsMaps, HasMaps
    DEF Seqs!InsertAgain, Seqs!Answers, Seqs!Res, Res
  <2>. QED  BY <2>4, <2>5 DEF Seqs!Next
<1>7. CASE /\ r.err = "ok" /\ d \notin ToSet(s) /\ r.l.owns = lists[i].owns
           /\ \E e : Becomes(G, c, r.m, r.l, e, t)
  <2>1. PICK e : Becomes(G, c, r.m, r.l, e, t)
    BY <1>7
  <2>2. Injective(t) /\ ToSet(t) \subseteq Item
    BY <1>2, <1>3, <1>7, StaysInjective, Prefixed
  <2>. HIDE DEF t
  <2>3. NewContent(i, G, r.m, r.l, e, t)
    BY <1>1, <1>2, <1>3, <1>7, <2>1, <2>2 DEF NewContent
  <2>4. ListIInv' /\ Held' = [Held EXCEPT ![i] = t]
    BY <2>3, ListBecomes
  <2>5. Seqs!Becomes(i, t)
    BY <2>4, HeldBecomes
  <2>6. Seqs!Done /\ Seqs!InsertHead(i, d)
    BY <1>1, <1>7, <2>5, ExistsMaps, HasMaps DEF Seqs!Done, Seqs!InsertHead, Seqs!Res, Res, t
  <2>. QED  BY <2>4, <2>6 DEF Seqs!Next
<1>. QED  BY <1>2, <1>4, <1>5, <1>6, <1>7 DEF InsertHeadOutcome

\* ll_remove.
LEMMA DeleteMaps ==
    ASSUME ListIInv, NEW i \in Name, NEW d \in Item, Delete(i, d)
    PROVE  ListIInv' /\ Seqs!Next
<1>. DEFINE r == ll_remove(memory, lists[i], d)
            s == Held[i]
            c == ChainOf(i)
<1>1. /\ Exists(i) /\ Leaves(i, r.m, r.l, {})
      /\ r.err \in {"ok", "ENOMEM"} => result' = Res(r.err, NULL)
      /\ r.err \in {"EEXIST", "ENOENT"} => result' = Res(r.err, <<i, d>>)
  BY ReturnsLeaves DEF Delete
<1>2. /\ memory \in Memory /\ memory.fault = FALSE /\ Holds(memory, lists[i], c)
      /\ ItemsOf(memory, c) = s /\ DOMAIN s = 1 .. Len(s) /\ Len(s) = Len(c)
  <2>1. memory.fault = FALSE
    BY DEF ListIInv
  <2>2. /\ memory \in Memory /\ Holds(memory, lists[i], c)
        /\ ItemsOf(memory, c) = s /\ DOMAIN s = 1 .. Len(s)
    BY <1>1, ExistingList
  <2>3. Len(ItemsOf(memory, c)) = Len(c)
    BY <2>2, ChainIs
  <2>. QED  BY <2>1, <2>2, <2>3
<1>3. ~lists[i].owns /\ Injective(s) /\ ToSet(s) \subseteq Item /\ s \in Seq(Data) /\ d \in Data
  BY <1>1, ExistingList, ItemAssumption
<1>4. RemoveOutcome(memory, lists[i], c, d, r)
  BY <1>2, <1>3, RemoveStep
<1>. HIDE DEF r
<1>5. CASE r.err = "ENOENT" /\ r.m = memory /\ r.l = lists[i] /\ d \notin ToSet(s)
  <2>1. ListIInv' /\ Held' = Held
    BY <1>1, <1>2, <1>5, NothingChanges
  <2>2. Seqs!NotFound(i, d)
    BY <1>1, <1>5, <2>1, ExistsMaps, HasMaps DEF Seqs!NotFound, Seqs!Answers, Seqs!Res, Res
  <2>. QED  BY <2>1, <2>2 DEF Seqs!Next
<1>6. ASSUME NEW p \in 1 .. Len(c), r.err = "ok", s[p] = d, r.l.owns = lists[i].owns,
             Becomes(memory, c, r.m, r.l, RemoveAt(c, p), RemoveAt(s, p))
      PROVE  ListIInv' /\ Seqs!Next
  <2>. DEFINE e == RemoveAt(c, p)
              t == RemoveAt(s, p)
  <2>1. Injective(t) /\ ToSet(t) \subseteq Item
    BY <1>2, <1>3, StaysInjective
  <2>2. NewContent(i, memory, r.m, r.l, e, t)
    BY <1>1, <1>2, <1>3, <1>6, <2>1 DEF NewContent
  <2>. HIDE DEF e, t
  <2>3. ListIInv' /\ Held' = [Held EXCEPT ![i] = t]
    BY <2>2, ListBecomes
  <2>4. Seqs!Becomes(i, Seqs!RemoveAt(Held[i], p))
    <3>1. Seqs!RemoveAt(Held[i], p) = t
      BY DEF Seqs!RemoveAt, RemoveAt, t
    <3>. QED  BY <2>3, <3>1, HeldBecomes
  <2>5. p \in DOMAIN Held[i] /\ Held[i][p] = d
    BY <1>2, <1>6
  <2>6. Seqs!Done /\ Seqs!Delete(i, d)
    BY <1>1, <1>6, <2>4, <2>5, ExistsMaps DEF Seqs!Done, Seqs!Delete, Seqs!Res, Res
  <2>. QED  BY <2>3, <2>6 DEF Seqs!Next
<1>. QED  BY <1>2, <1>4, <1>5, <1>6 DEF RemoveOutcome

\* Nothing changes in a call that only looks.
LEMMA Looking ==
    ASSUME ListIInv, UNCHANGED <<memory, lists, lost>>
    PROVE  ListIInv' /\ Held' = Held
<1>1. \A i : ChainOf(i)' = ChainOf(i)
  BY DEF ChainOf, Exists
<1>2. Held' = Held
  BY DEF Held, Exists
<1>. QED  BY <1>1, <1>2 DEF ListIInv, ListTypeOK, Listed, Separate, Exists

\* ll_find.
LEMMA FindMaps ==
    ASSUME ListIInv, NEW i \in Name, NEW d \in Item, Find(i, d)
    PROVE  ListIInv' /\ Seqs!Next
<1>1. Exists(i) /\ ListIInv' /\ Held' = Held /\ result' = Res(ll_find(memory, lists[i], d), <<i, d>>)
  BY Looking DEF Find
<1>2. Position(memory, lists[i], d) = 0 <=> d \notin ToSet(Held[i])
  BY <1>1, ExistingList, PositionIs
<1>3. CASE d \in ToSet(Held[i])
  <2>1. result' = Res("ok", <<i, d>>)
    BY <1>1, <1>2, <1>3 DEF ll_find
  <2>2. Seqs!Find(i, d)
    BY <1>1, <1>3, <2>1, ExistsMaps, HasMaps DEF Seqs!Find, Seqs!Answers, Seqs!Res, Res
  <2>. QED  BY <1>1, <2>2 DEF Seqs!Next
<1>4. CASE d \notin ToSet(Held[i])
  <2>1. result' = Res("ENOENT", <<i, d>>)
    BY <1>1, <1>2, <1>4 DEF ll_find
  <2>2. Seqs!NotFound(i, d)
    BY <1>1, <1>4, <2>1, ExistsMaps, HasMaps DEF Seqs!NotFound, Seqs!Answers, Seqs!Res, Res
  <2>. QED  BY <1>1, <2>2 DEF Seqs!Next
<1>. QED  BY <1>3, <1>4

\* What ll_first, ll_last and ll_get_random find.
LEMMA PeekFinds ==
    ASSUME ListIInv, NEW i \in Name, NEW kind, NEW found, Peek(i, kind, found)
    PROVE  /\ Exists(i) /\ ListIInv' /\ Held' = Held
           /\ \/ NULL \in found /\ result' = Res("ENOENT", <<i, NULL>>)
              \/ \E d \in found : d # NULL /\ result' = Res("ok", <<i, kind, d>>)
           /\ Items(memory, lists[i]) = Held[i] /\ Held[i] \in Seq(Item)
           /\ ll_empty(lists[i]) <=> Held[i] = << >>
           /\ ll_length(lists[i]) = Len(Held[i])
           /\ \A k \in 1 .. Len(Held[i]) : Held[i][k] \in Item /\ Held[i][k] # NULL
<1>1. /\ Exists(i) /\ UNCHANGED <<memory, lists, lost>>
      /\ \E d \in found : result' = IF d = NULL THEN Res("ENOENT", <<i, NULL>>) ELSE Res("ok", <<i, kind, d>>)
  BY DEF Peek
<1>2. ListIInv' /\ Held' = Held
  BY <1>1, Looking
<1>3. /\ Held[i] \in Seq(Data) /\ Len(Held[i]) = lists[i].nnodes
      /\ DOMAIN Held[i] = 1 .. Len(Held[i]) /\ ToSet(Held[i]) \subseteq Item
  BY <1>1, ExistingList
<1>4. Items(memory, lists[i]) = Held[i]
  BY <1>1 DEF Held
<1>5. \A k \in 1 .. Len(Held[i]) : Held[i][k] \in Item /\ Held[i][k] # NULL
  BY <1>3, ItemAssumption, ListsAssumption DEF ToSet
<1>6. Held[i] \in Seq(Item)
  BY <1>3, <1>5
<1>7. Held[i] = << >> <=> Len(Held[i]) = 0
  BY <1>3
<1>. QED  BY <1>1, <1>2, <1>3, <1>4, <1>5, <1>6, <1>7 DEF ll_empty, ll_length

\* ll_first, ll_last and ll_get_random of an empty list.
LEMMA NoneThereMaps ==
    ASSUME ListIInv, NEW i \in Name, Exists(i), Held[i] = << >>, Held' = Held,
           result' = Res("ENOENT", <<i, NULL>>)
    PROVE  Seqs!Next
<1>1. Seqs!NoneThere(i)
  BY ExistsMaps DEF Seqs!NoneThere, Seqs!Answers, Seqs!Res, Res
<1>. QED  BY <1>1 DEF Seqs!Next

\* ll_first.
LEMMA FirstMaps ==
    ASSUME ListIInv, NEW i \in Name, ll_first(i)
    PROVE  ListIInv' /\ Seqs!Next
<1>. DEFINE f == FirstOf(memory, lists[i])
<1>1. /\ Exists(i) /\ ListIInv' /\ Held' = Held
      /\ \/ NULL \in {f} /\ result' = Res("ENOENT", <<i, NULL>>)
         \/ \E d \in {f} : d # NULL /\ result' = Res("ok", <<i, "first", d>>)
      /\ Items(memory, lists[i]) = Held[i] /\ Held[i] \in Seq(Item)
      /\ ll_empty(lists[i]) <=> Held[i] = << >>
      /\ \A k \in 1 .. Len(Held[i]) : Held[i][k] \in Item /\ Held[i][k] # NULL
  <2>. DEFINE found == {f}
  <2>1. Peek(i, "first", found)
    BY DEF ll_first
  <2>. HIDE DEF found
  <2>2. \/ NULL \in found /\ result' = Res("ENOENT", <<i, NULL>>)
        \/ \E d \in found : d # NULL /\ result' = Res("ok", <<i, "first", d>>)
    BY <2>1, PeekFinds
  <2>. QED  BY <2>1, <2>2, PeekFinds DEF found
<1>2. CASE Held[i] = << >>
  <2>1. f = NULL
    BY <1>1, <1>2 DEF FirstOf
  <2>. QED  BY <1>1, <1>2, <2>1, NoneThereMaps
<1>3. CASE Held[i] # << >>
  <2>1. f = Held[i][1] /\ 1 \in 1 .. Len(Held[i])
    BY <1>1, <1>3 DEF FirstOf
  <2>2. f \in Item /\ f # NULL /\ Head(Held[i]) = f
    BY <1>1, <1>3, <2>1
  <2>. HIDE DEF f
  <2>3. result' = Res("ok", <<i, "first", f>>)
    BY <1>1, <2>2
  <2>4. Seqs!First(i)
    BY <1>1, <1>3, <2>2, <2>3, ExistsMaps DEF Seqs!First, Seqs!Answers, Seqs!Nonempty, Seqs!Res, Res
  <2>. QED  BY <1>1, <2>4 DEF Seqs!Next
<1>. QED  BY <1>2, <1>3

\* ll_last.
LEMMA LastMaps ==
    ASSUME ListIInv, NEW i \in Name, ll_last(i)
    PROVE  ListIInv' /\ Seqs!Next
<1>. DEFINE f == LastOf(memory, lists[i])
<1>1. /\ Exists(i) /\ ListIInv' /\ Held' = Held
      /\ \/ NULL \in {f} /\ result' = Res("ENOENT", <<i, NULL>>)
         \/ \E d \in {f} : d # NULL /\ result' = Res("ok", <<i, "last", d>>)
      /\ Items(memory, lists[i]) = Held[i] /\ Held[i] \in Seq(Item)
      /\ ll_empty(lists[i]) <=> Held[i] = << >>
      /\ \A k \in 1 .. Len(Held[i]) : Held[i][k] \in Item /\ Held[i][k] # NULL
  <2>. DEFINE found == {f}
  <2>1. Peek(i, "last", found)
    BY DEF ll_last
  <2>. HIDE DEF found
  <2>2. \/ NULL \in found /\ result' = Res("ENOENT", <<i, NULL>>)
        \/ \E d \in found : d # NULL /\ result' = Res("ok", <<i, "last", d>>)
    BY <2>1, PeekFinds
  <2>. QED  BY <2>1, <2>2, PeekFinds DEF found
<1>2. CASE Held[i] = << >>
  <2>1. f = NULL
    BY <1>1, <1>2 DEF LastOf
  <2>. QED  BY <1>1, <1>2, <2>1, NoneThereMaps
<1>3. CASE Held[i] # << >>
  <2>1. f = Last(Held[i]) /\ Last(Held[i]) = Held[i][Len(Held[i])] /\ Len(Held[i]) \in 1 .. Len(Held[i])
    BY <1>1, <1>3 DEF LastOf, Last
  <2>2. f \in Item /\ f # NULL /\ Seqs!Last(Held[i]) = f
    BY <1>1, <2>1 DEF Seqs!Last
  <2>. HIDE DEF f
  <2>3. result' = Res("ok", <<i, "last", f>>)
    BY <1>1, <2>2
  <2>4. Seqs!Final(i)
    BY <1>1, <1>3, <2>2, <2>3, ExistsMaps DEF Seqs!Final, Seqs!Answers, Seqs!Nonempty, Seqs!Res, Res
  <2>. QED  BY <1>1, <2>4 DEF Seqs!Next
<1>. QED  BY <1>2, <1>3

\* ll_get_random.
LEMMA RandomMaps ==
    ASSUME ListIInv, NEW i \in Name, ll_get_random(i)
    PROVE  ListIInv' /\ Seqs!Next
<1>. DEFINE F == RandomOf(memory, lists[i])
            s == Held[i]
<1>1. /\ Exists(i) /\ ListIInv' /\ Held' = Held
      /\ \/ NULL \in F /\ result' = Res("ENOENT", <<i, NULL>>)
         \/ \E d \in F : d # NULL /\ result' = Res("ok", <<i, "random", d>>)
      /\ Items(memory, lists[i]) = s /\ s \in Seq(Item)
      /\ ll_empty(lists[i]) <=> s = << >>
      /\ ll_length(lists[i]) = Len(s)
      /\ \A k \in 1 .. Len(s) : s[k] \in Item /\ s[k] # NULL
  BY PeekFinds DEF ll_get_random
<1>2. CASE s = << >>
  <2>1. F = {NULL}
    BY <1>1, <1>2 DEF RandomOf
  <2>. QED  BY <1>1, <1>2, <2>1, NoneThereMaps
<1>3. CASE s # << >>
  <2>1. F = {s[k + 1] : k \in 0 .. Len(s) - 1}
    BY <1>1, <1>3 DEF RandomOf
  <2>2. \A k \in 0 .. Len(s) - 1 : k + 1 \in 1 .. Len(s)
    BY <1>1
  <2>3. \A d \in F : d \in Item /\ d # NULL /\ d \in ToSet(s)
    <3>1. DOMAIN s = 1 .. Len(s)
      BY <1>1
    <3>. QED  BY <1>1, <2>1, <2>2, <3>1 DEF ToSet
  <2>. HIDE DEF F
  <2>4. PICK d \in F : result' = Res("ok", <<i, "random", d>>)
    BY <1>1, <2>3
  <2>5. Seqs!Random(i)
    BY <1>1, <2>3, <2>4, ExistsMaps, HasMaps DEF Seqs!Random, Seqs!Answers, Seqs!Res, Res
  <2>. QED  BY <1>1, <2>5 DEF Seqs!Next
<1>. QED  BY <1>2, <1>3

-----------------------------------------------------------------------------
(* The theorems                                                            *)

LEMMA ListStep ==
    ASSUME ListIInv, ListNext
    PROVE  ListIInv' /\ Seqs!Next
<1>1. PICK i \in Name :
        \/ Destroy(i) \/ ll_first(i) \/ ll_last(i) \/ ll_get_random(i)
        \/ \E d \in Item : Delete(i, d) \/ Find(i, d)
        \/ \E b \in 0 .. 1 : Create(i, b) \/ \E d \in Item : Insert(i, d, b) \/ InsertHead(i, d, b)
        \/ \E j \in Name, b \in CopyBudgets : Copy(i, j, b)
  BY DEF ListNext
<1>2. CASE Destroy(i)
  BY <1>2, DestroyMaps
<1>3. CASE ll_first(i)
  BY <1>3, FirstMaps
<1>4. CASE ll_last(i)
  BY <1>4, LastMaps
<1>5. CASE ll_get_random(i)
  BY <1>5, RandomMaps
<1>6. ASSUME NEW d \in Item, Delete(i, d)  PROVE ListIInv' /\ Seqs!Next
  BY <1>6, DeleteMaps
<1>7. ASSUME NEW d \in Item, Find(i, d)  PROVE ListIInv' /\ Seqs!Next
  BY <1>7, FindMaps
<1>8. \A b \in 0 .. 1 : b \in Nat
  OBVIOUS
<1>9. ASSUME NEW b \in 0 .. 1, Create(i, b)  PROVE ListIInv' /\ Seqs!Next
  BY <1>9, CreateMaps
<1>10. ASSUME NEW b \in 0 .. 1, NEW d \in Item, Insert(i, d, b)  PROVE ListIInv' /\ Seqs!Next
  BY <1>8, <1>10, InsertMaps
<1>11. ASSUME NEW b \in 0 .. 1, NEW d \in Item, InsertHead(i, d, b)  PROVE ListIInv' /\ Seqs!Next
  BY <1>8, <1>11, InsertHeadMaps
<1>12. ASSUME NEW j \in Name, NEW b \in CopyBudgets, Copy(i, j, b)  PROVE ListIInv' /\ Seqs!Next
  <2>1. Cardinality(Item) \in Nat
    BY ItemAssumption, FS_CardinalityType
  <2>2. b \in Nat
    BY <2>1 DEF CopyBudgets
  <2>. QED  BY <1>12, <2>2, CopyMaps
<1>. QED  BY <1>1, <1>2, <1>3, <1>4, <1>5, <1>6, <1>7, <1>9, <1>10, <1>11, <1>12

\* A step that changes nothing.
LEMMA ListStutter ==
    ASSUME ListIInv, UNCHANGED listvars
    PROVE  ListIInv' /\ UNCHANGED <<Held, result>>
<1>1. UNCHANGED <<memory, lists, lost>> /\ result' = result
  BY DEF listvars
<1>. QED  BY <1>1, Looking

\* There is no list at first.
LEMMA ListStart ==
    ASSUME ListInit
    PROVE  ListIInv /\ Seqs!Init
<1>1. \A i \in Name : ~Exists(i) /\ ChainOf(i) = << >> /\ Held[i] = NULL
  BY DEF ListInit, Exists, ChainOf, Held
<1>2. ToSet(<< >>) = {}
  BY DEF ToSet
<1>3. memory \in Memory /\ memory.used = {} /\ memory.fault = FALSE
  <2>1. [n \in Node |-> Blank] \in [Node -> Cell]
    BY DEF Blank, Cell
  <2>. QED  BY <2>1 DEF ListInit, EmptyMemory, Memory
<1>4. ListIInv
  BY <1>1, <1>2, <1>3 DEF ListIInv, ListTypeOK, Listed, Separate, ListInit
<1>5. Held = [i \in Name |-> NULL]
  BY DEF ListInit, Held, Exists
<1>. QED  BY <1>4, <1>5 DEF ListInit, Seqs!Init, Seqs!Res, Res

(***************************************************************************)
(* The invariant of the lists holds.                                       *)
(***************************************************************************)
THEOREM ListInvariant == ListSpec => []ListIInv
<1>1. ListInit => ListIInv
  BY ListStart
<1>2. ListIInv /\ [ListNext]_listvars => ListIInv'
  BY ListStep, ListStutter
<1>. QED  BY <1>1, <1>2, PTL DEF ListSpec

(***************************************************************************)
(* Every node that malloc gave out is in exactly one list, except those    *)
(* ll_insert_head forgot: whatever fails in ll_insert or ll_create_copy, no*)
(* node leaks, is freed twice or is shared, and ll_check passes.           *)
(***************************************************************************)
THEOREM NodesAreAccounted == ListSpec => []NodesAccounted
<1>1. ListIInv => NodesAccounted
  <2>1. SUFFICES ASSUME ListIInv  PROVE NodesAccounted
    OBVIOUS
  <2>2. ASSUME NEW i \in Name, Exists(i)  PROVE ll_check(memory, lists[i])
    <3>1. Holds(memory, lists[i], ChainOf(i))
      BY <2>1, <2>2, ExistingList
    <3>2. ChainOf(i) = Chain(memory, lists[i])
      BY <2>2 DEF ChainOf
    <3>. QED  BY <3>1, <3>2 DEF Holds, ll_check
  <2>. QED  BY <2>1, <2>2 DEF ListIInv, Separate, NodesAccounted
<1>. QED  BY <1>1, ListInvariant, PTL

(***************************************************************************)
(* The lists are independent sequences without repetitions: a copy shares  *)
(* nothing with its original, and a call that fails changes nothing.       *)
(***************************************************************************)
THEOREM ImplementsLists == ListSpec => AreLists
<1>1. ListInit => Seqs!Init
  BY ListStart
<1>2. ListIInv /\ [ListNext]_listvars => [Seqs!Next]_<<Held, result>>
  BY ListStep, ListStutter
<1>. QED  BY <1>1, <1>2, ListInvariant, PTL DEF ListSpec, AreLists, Seqs!Spec

=============================================================================
