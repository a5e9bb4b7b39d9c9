---------------------------- MODULE BTreeProofs ----------------------------
(***************************************************************************)
(* Proofs about BTree: every node of the tree stays sound, for any file,   *)
(* any block and any use.                                                  *)
(***************************************************************************)
EXTENDS BTree, SequenceTheorems, WellFoundedInduction, TLAPS

Blks == 0 .. NBlocks - 1

Record == [k : Nat, v : Nat]

LEMMA Blocks ==
    /\ NBlocks \in Nat /\ NBlocks > 2 /\ Blks \subseteq Nat
    /\ NodeBlks = Blks \ {SMBlk, BMBlk} /\ NodeBlks \subseteq Blks
    /\ SMBlk \in Blks /\ BMBlk \in Blks /\ RootBlk \in NodeBlks
    /\ 0 \notin NodeBlks /\ SMBlk # BMBlk
BY BTreeAssumption DEF Blks, NodeBlks, SMBlk, BMBlk, RootBlk

LEMMA Sizes ==
    /\ KeySz \in Nat /\ MaxInline \in Nat /\ PtrSz \in Nat /\ InfoSz \in Nat
    /\ InfoSz <= MaxInline
BY BTreeAssumption

-----------------------------------------------------------------------------
(* Induction and recursion                                                 *)

\* A set of natural numbers has a least element.
LEMMA LeastOf ==
    ASSUME NEW T, T \subseteq Nat, T # {}
    PROVE  \E x \in T : \A y \in T : x <= y
<1>. DEFINE R == {ss \in Nat \X Nat : ss[1] < ss[2]}
<1>1. OpToRel(<, Nat) = R
  BY Zenon DEF OpToRel
<1>2. IsWellFoundedOn(R, Nat)
  BY <1>1, NatLessThanWellFounded, Zenon
<1>. HIDE DEF R
<1>3. PICK x \in T : \A y \in T : <<y, x>> \notin R
  BY <1>2, WFMin
<1>4. \A y \in T : ~(y < x)
  BY <1>3 DEF R
<1>. QED  BY <1>4

LEMMA MinIsLeast ==
    ASSUME NEW T, T \subseteq Nat, T # {}
    PROVE  Min(T) \in T /\ \A y \in T : Min(T) <= y
<1>. DEFINE Least(x) == \A y \in T : x <= y
<1>1. \E x \in T : Least(x)
  BY LeastOf
<1>2. Min(T) = CHOOSE x \in T : Least(x)
  BY DEF Min
<1>. HIDE DEF Least
<1>3. Min(T) \in T /\ Least(Min(T))
  BY <1>1, <1>2
<1>. QED  BY <1>3 DEF Least

\* A set that has 0, and i if it has i - 1, has the numbers up to N.
LEMMA Climb ==
    ASSUME NEW N \in Nat, NEW P, 0 \in P, \A i \in 1 .. N : i - 1 \in P => i \in P
    PROVE  \A i \in 0 .. N : i \in P
<1>. DEFINE missing == {i \in 0 .. N : i \notin P}
<1>1. SUFFICES ASSUME missing # {}  PROVE FALSE
  OBVIOUS
<1>2. PICK i \in missing : \A k \in missing : i <= k
  <2>1. missing \subseteq Nat
    OBVIOUS
  <2>. HIDE DEF missing
  <2>. QED  BY <1>1, <2>1, LeastOf
<1>3. i \in 1 .. N /\ i \notin P
  BY <1>2
<1>4. i - 1 \in 0 .. N /\ ~(i <= i - 1)
  BY <1>3
<1>. QED  BY <1>2, <1>3, <1>4

-----------------------------------------------------------------------------
(* The size of a sequence of records                                       *)

LEMMA SizeOfRecord ==
    ASSUME NEW leaf \in BOOLEAN, NEW r \in Record
    PROVE  btr_size(leaf, r) \in Nat
BY Sizes DEF btr_size, Record

LEMMA KeyIs ==
    ASSUME NEW r \in Record
    PROVE  r.k \in Nat /\ r.v \in Nat
BY DEF Record

\* f has the sizes of the first records of s.
Sums(leaf, s, f) ==
    f[0] = 0 /\ \A i \in 1 .. Len(s) : f[i] = f[i - 1] + btr_size(leaf, s[i])

\* There is such a function, up to any n.
LEMMA SumsExist ==
    ASSUME NEW leaf, NEW s \in Seq(Record)
    PROVE  \E f : Sums(leaf, s, f) /\ SizeOf(leaf, s) = f[Len(s)]
<1>. DEFINE L == Len(s)
            Next1(f, i) == IF i = 0 THEN 0 ELSE f[i - 1] + btr_size(leaf, s[i])
            Solves(f, k) == f = [i \in 0 .. k |-> Next1(f, i)]
            P == {k \in 0 .. L : \E f : Solves(f, k)}
<1>1. L \in Nat
  OBVIOUS
<1>2. SizeOf(leaf, s) = (CHOOSE f : Solves(f, L))[L]
  BY DEF SizeOf
<1>3. \A f, g : Next1(f, 0) = 0 /\ \A i : f[i - 1] = g[i - 1] => Next1(f, i) = Next1(g, i)
  OBVIOUS
<1>4. \A f : \A i \in 1 .. L : Next1(f, i) = f[i - 1] + btr_size(leaf, s[i])
  OBVIOUS
<1>. HIDE DEF Next1
<1>5. 0 \in P
  <2>. DEFINE g == [i \in 0 .. 0 |-> Next1(0, 0)]
  <2>1. Solves(g, 0)
    BY <1>3
  <2>. HIDE DEF Solves, g
  <2>. QED  BY <1>1, <2>1
<1>6. ASSUME NEW k \in 1 .. L, k - 1 \in P  PROVE k \in P
  <2>1. PICK f : Solves(f, k - 1)
    BY <1>6
  <2>. DEFINE g == [i \in 0 .. k |-> IF i = k THEN Next1(f, k) ELSE f[i]]
  <2>2. \A i \in 0 .. k - 1 : g[i] = f[i] /\ f[i] = Next1(f, i)
    BY <2>1
  <2>3. \A i \in 0 .. k : g[i] = Next1(g, i)
    <3>1. g[k] = Next1(g, k)
      BY <1>3, <2>2
    <3>2. ASSUME NEW i \in 1 .. k - 1  PROVE g[i] = Next1(g, i)
      <4>1. i - 1 \in 0 .. k - 1 /\ i \in 0 .. k - 1
        OBVIOUS
      <4>2. g[i - 1] = f[i - 1] /\ g[i] = Next1(f, i)
        BY <2>2, <4>1
      <4>. HIDE DEF g
      <4>. QED  BY <1>3, <4>2
    <3>3. g[0] = Next1(g, 0)
      BY <1>3, <2>2
    <3>. QED  BY <3>1, <3>2, <3>3
  <2>4. Solves(g, k)
    BY <2>3
  <2>. HIDE DEF Solves, g
  <2>. QED  BY <1>1, <2>4
<1>7. \E f : Solves(f, L)
  <2>. HIDE DEF Solves
  <2>1. \A k \in 0 .. L : k \in P
    <3>. HIDE DEF P, L
    <3>. QED  BY <1>1, <1>5, <1>6, Climb
  <2>. QED  BY <1>1, <2>1
<1>. DEFINE f == CHOOSE f : Solves(f, L)
<1>8. Solves(f, L)
  <2>. HIDE DEF Solves
  <2>. QED  BY <1>7
<1>9. \A i \in 0 .. L : f[i] = Next1(f, i)
  <2>. HIDE DEF f
  <2>. QED  BY <1>8
<1>10. Sums(leaf, s, f)
  <2>. HIDE DEF f
  <2>. QED  BY <1>1, <1>3, <1>4, <1>9 DEF Sums
<1>. QED  BY <1>2, <1>10

\* Its values are natural numbers, and it has no other.
LEMMA SumsAre ==
    ASSUME NEW leaf \in BOOLEAN, NEW s \in Seq(Record), NEW f, Sums(leaf, s, f)
    PROVE  \A i \in 0 .. Len(s) : f[i] \in Nat
<1>. DEFINE P == {i \in 0 .. Len(s) : f[i] \in Nat}
<1>1. Len(s) \in Nat /\ 0 \in P
  BY DEF Sums
<1>2. ASSUME NEW i \in 1 .. Len(s), i - 1 \in P  PROVE i \in P
  BY <1>1, <1>2, SizeOfRecord DEF Sums
<1>. HIDE DEF P
<1>3. \A i \in 0 .. Len(s) : i \in P
  BY <1>1, <1>2, Climb
<1>. QED  BY <1>3 DEF P

LEMMA SizeIsNat ==
    ASSUME NEW leaf \in BOOLEAN, NEW s \in Seq(Record)
    PROVE  SizeOf(leaf, s) \in Nat
<1>1. PICK f : Sums(leaf, s, f) /\ SizeOf(leaf, s) = f[Len(s)]
  BY SumsExist
<1>. QED  BY <1>1, SumsAre

\* Two sequences, one behind the other, and their size.
Joins(u, s, t) == u = s \o t

IsJoined(u, s, t) ==
    /\ u \in Seq(Record) /\ Len(u) = Len(s) + Len(t) /\ Len(s) \in Nat /\ Len(t) \in Nat
    /\ \A i \in 1 .. Len(s) : u[i] = s[i]
    /\ \A i \in 1 .. Len(t) : u[Len(s) + i] = t[i]

LEMMA Joined ==
    ASSUME NEW s \in Seq(Record), NEW t \in Seq(Record), NEW u, Joins(u, s, t)
    PROVE  IsJoined(u, s, t)
BY DEF Joins, IsJoined

LEMMA SizeOfConcat ==
    ASSUME NEW leaf \in BOOLEAN, NEW s \in Seq(Record), NEW t \in Seq(Record),
           NEW u, Joins(u, s, t)
    PROVE  SizeOf(leaf, u) = SizeOf(leaf, s) + SizeOf(leaf, t)
<1>1. PICK f : Sums(leaf, s, f) /\ SizeOf(leaf, s) = f[Len(s)]
  BY SumsExist
<1>2. PICK g : Sums(leaf, t, g) /\ SizeOf(leaf, t) = g[Len(t)]
  BY SumsExist
<1>3. /\ u \in Seq(Record) /\ Len(u) = Len(s) + Len(t) /\ Len(s) \in Nat /\ Len(t) \in Nat
      /\ \A i \in 1 .. Len(s) : u[i] = s[i]
      /\ \A i \in 1 .. Len(t) : u[Len(s) + i] = t[i]
  BY Joined DEF IsJoined
<1>4. PICK h : Sums(leaf, u, h) /\ SizeOf(leaf, u) = h[Len(u)]
  BY <1>3, SumsExist
<1>. DEFINE P == {i \in 0 .. Len(s) : h[i] = f[i]}
            Q == {i \in 0 .. Len(t) : h[Len(s) + i] = f[Len(s)] + g[i]}
<1>6. \A i \in 0 .. Len(s) : i \in P
  <2>1. 0 \in P
    BY <1>1, <1>4, <1>3 DEF Sums
  <2>2. ASSUME NEW i \in 1 .. Len(s), i - 1 \in P  PROVE i \in P
    <3>1. i \in 1 .. Len(u) /\ i - 1 \in 0 .. Len(s)
      BY <1>3
    <3>2. h[i] = h[i - 1] + btr_size(leaf, u[i]) /\ f[i] = f[i - 1] + btr_size(leaf, s[i])
      BY <1>1, <1>4, <3>1 DEF Sums
    <3>. QED  BY <1>3, <2>2, <3>1, <3>2
  <2>. HIDE DEF P
  <2>. QED  BY <1>3, <2>1, <2>2, Climb
<1>7. \A i \in 0 .. Len(t) : i \in Q
  <2>1. 0 \in Q
    <3>1. h[Len(s)] = f[Len(s)] /\ f[Len(s)] \in Nat /\ g[0] = 0
      <4>1. Len(s) \in 0 .. Len(s)
        BY <1>3
      <4>2. Len(s) \in P /\ f[Len(s)] \in Nat
        BY <1>1, <1>6, <4>1, SumsAre
      <4>. QED  BY <1>2, <4>2 DEF Sums
    <3>. QED  BY <1>3, <3>1
  <2>2. ASSUME NEW i \in 1 .. Len(t), i - 1 \in Q  PROVE i \in Q
    <3>1. Len(s) + i \in 1 .. Len(u) /\ i - 1 \in 0 .. Len(t) /\ (Len(s) + i) - 1 = Len(s) + (i - 1)
      BY <1>3
    <3>2. h[Len(s) + i] = h[(Len(s) + i) - 1] + btr_size(leaf, u[Len(s) + i])
      BY <1>4, <3>1 DEF Sums
    <3>3. g[i] = g[i - 1] + btr_size(leaf, t[i]) /\ btr_size(leaf, t[i]) \in Nat
      BY <1>2, SizeOfRecord DEF Sums
    <3>4. g[i - 1] \in Nat /\ f[Len(s)] \in Nat
      BY <1>1, <1>2, <1>3, <3>1, SumsAre
    <3>. QED  BY <1>3, <2>2, <3>1, <3>2, <3>3, <3>4
  <2>. HIDE DEF Q
  <2>. QED  BY <1>3, <2>1, <2>2, Climb
<1>. QED  BY <1>1, <1>2, <1>4, <1>3, <1>7

LEMMA SizeOfOne ==
    ASSUME NEW leaf \in BOOLEAN, NEW r \in Record
    PROVE  SizeOf(leaf, <<r>>) = btr_size(leaf, r) /\ SizeOf(leaf, << >>) = 0
<1>1. <<r>> \in Seq(Record) /\ Len(<<r>>) = 1 /\ << >> \in Seq(Record) /\ Len(<< >>) = 0 /\ <<r>>[1] = r
  OBVIOUS
<1>2. PICK f : Sums(leaf, <<r>>, f) /\ SizeOf(leaf, <<r>>) = f[Len(<<r>>)]
  BY <1>1, SumsExist
<1>3. PICK g : Sums(leaf, << >>, g) /\ SizeOf(leaf, << >>) = g[Len(<< >>)]
  BY <1>1, SumsExist
<1>4. f[1] = f[1 - 1] + btr_size(leaf, r) /\ f[0] = 0
  BY <1>1, <1>2 DEF Sums
<1>. QED  BY <1>1, <1>2, <1>3, <1>4, SizeOfRecord DEF Sums

LEMMA SizeOfNone ==
    ASSUME NEW leaf \in BOOLEAN
    PROVE  SizeOf(leaf, << >>) = 0
<1>1. [k |-> 0, v |-> 0] \in Record
  BY DEF Record
<1>. QED  BY <1>1, SizeOfOne, Zenon

\* Sequences with records of the same sizes have the same size.
LEMMA SameSizes ==
    ASSUME NEW leaf \in BOOLEAN, NEW s \in Seq(Record), NEW t \in Seq(Record), Len(s) = Len(t),
           \A i \in 1 .. Len(s) : btr_size(leaf, s[i]) = btr_size(leaf, t[i])
    PROVE  SizeOf(leaf, s) = SizeOf(leaf, t)
<1>1. PICK f : Sums(leaf, s, f) /\ SizeOf(leaf, s) = f[Len(s)]
  BY SumsExist
<1>2. PICK g : Sums(leaf, t, g) /\ SizeOf(leaf, t) = g[Len(t)]
  BY SumsExist
<1>. DEFINE P == {i \in 0 .. Len(s) : f[i] = g[i]}
<1>3. Len(s) \in Nat /\ 0 \in P
  BY <1>1, <1>2 DEF Sums
<1>4. ASSUME NEW i \in 1 .. Len(s), i - 1 \in P  PROVE i \in P
  BY <1>1, <1>2, <1>4 DEF Sums
<1>. HIDE DEF P
<1>5. \A i \in 0 .. Len(s) : i \in P
  BY <1>3, <1>4, Climb
<1>6. Len(s) \in P
  BY <1>3, <1>5
<1>. QED  BY <1>1, <1>2, <1>6 DEF P

-----------------------------------------------------------------------------
(* Sequences of records                                                    *)

Ascending(s) == \A i \in 2 .. Len(s) : s[i - 1].k < s[i].k

\* The place of a key: the records before it have lower keys.
LEMMA AtIs ==
    ASSUME NEW s \in Seq(Record), NEW k \in Nat
    PROVE  /\ At(s, k) \in 1 .. Len(s) + 1
           /\ At(s, k) <= Len(s) => k <= s[At(s, k)].k
           /\ \A i \in 1 .. Len(s) : i < At(s, k) => s[i].k < k
           /\ \A i \in 1 .. Len(s) : s[i].k \in Nat
<1>. DEFINE T == {i \in 1 .. Len(s) : k <= s[i].k} \cup {Len(s) + 1}
<1>0. \A i \in 1 .. Len(s) : s[i] \in Record
  OBVIOUS
<1>1. Len(s) \in Nat /\ \A i \in 1 .. Len(s) : s[i].k \in Nat
  BY <1>0 DEF Record
<1>2. T \subseteq Nat /\ T # {}
  BY <1>1
<1>3. At(s, k) = Min(T)
  BY DEF At
<1>. DEFINE p == Min(T)
<1>4. p \in T /\ \A i \in T : p <= i
  <2>. HIDE DEF T
  <2>. QED  BY <1>2, MinIsLeast
<1>. HIDE DEF p
<1>5. p \in 1 .. Len(s) + 1 /\ (p <= Len(s) => k <= s[p].k)
  BY <1>1, <1>4
<1>6. ASSUME NEW i \in 1 .. Len(s), i < p  PROVE s[i].k < k
  <2>1. i \notin T
    BY <1>4, <1>5, <1>6
  <2>. QED  BY <1>1, <2>1
<1>. QED  BY <1>1, <1>3, <1>5, <1>6 DEF p

LEMMA RouteIs ==
    ASSUME NEW s \in Seq(Record), NEW k \in Nat
    PROVE  Route(s, k) \in 0 .. Len(s)
<1>. DEFINE T == {i \in 1 .. Len(s) : k < s[i].k} \cup {Len(s) + 1}
<1>1. Len(s) \in Nat
  OBVIOUS
<1>2. T \subseteq 1 .. Len(s) + 1 /\ T # {} /\ T \subseteq Nat
  BY <1>1
<1>3. Route(s, k) = Min(T) - 1
  BY DEF Route
<1>4. Min(T) \in T
  <2>. HIDE DEF T
  <2>. QED  BY <1>2, MinIsLeast
<1>5. Min(T) \in 1 .. Len(s) + 1
  BY <1>2, <1>4
<1>. HIDE DEF T
<1>. QED  BY <1>1, <1>3, <1>5

\* The parts before and from c on.
Cuts(s, c, e, d) == e = SubSeq(s, 1, c - 1) /\ d = SubSeq(s, c, Len(s))

IsCut(s, c, e, d) ==
    /\ e \in Seq(Record) /\ Len(e) = c - 1 /\ \A i \in 1 .. Len(e) : e[i] = s[i]
    /\ d \in Seq(Record) /\ Len(d) = Len(s) - c + 1 /\ \A i \in 1 .. Len(d) : d[i] = s[c - 1 + i]
    /\ Joins(s, e, d)
    /\ \A leaf \in BOOLEAN : SizeOf(leaf, s) = SizeOf(leaf, e) + SizeOf(leaf, d)
    /\ Ascending(s) => Ascending(e) /\ Ascending(d)

LEMMA CutAt ==
    ASSUME NEW s \in Seq(Record), NEW c \in 1 .. Len(s) + 1, NEW e, NEW d, Cuts(s, c, e, d)
    PROVE  IsCut(s, c, e, d)
<1>1. Len(s) \in Nat /\ c \in Nat /\ 1 <= c /\ c <= Len(s) + 1 /\ \A i \in 1 .. Len(s) : s[i] \in Record
  OBVIOUS
<1>2. /\ e \in Seq(Record) /\ Len(e) = IF 1 <= c - 1 THEN (c - 1) - 1 + 1 ELSE 0
      /\ \A i \in 1 .. (c - 1) - 1 + 1 : e[i] = s[1 + i - 1]
  <2>1. \A i \in 1 .. c - 1 : s[i] \in Record
    BY <1>1
  <2>2. 1 \in Int /\ c - 1 \in Int
    BY <1>1
  <2>. QED  BY <2>1, <2>2, SubSeqProperties DEF Cuts
<1>3. /\ d \in Seq(Record) /\ Len(d) = IF c <= Len(s) THEN Len(s) - c + 1 ELSE 0
      /\ \A i \in 1 .. Len(s) - c + 1 : d[i] = s[c + i - 1]
  <2>1. \A i \in c .. Len(s) : s[i] \in Record
    BY <1>1
  <2>2. c \in Int /\ Len(s) \in Int
    BY <1>1
  <2>. QED  BY <2>1, <2>2, SubSeqProperties DEF Cuts
<1>4. Len(e) = c - 1 /\ \A i \in 1 .. Len(e) : e[i] = s[i]
  BY <1>1, <1>2
<1>5. Len(d) = Len(s) - c + 1 /\ \A i \in 1 .. Len(d) : d[i] = s[c - 1 + i]
  BY <1>1, <1>3
<1>6. Joins(s, e, d)
  <2>. DEFINE u == e \o d
  <2>0. Joins(u, e, d)
    BY Zenon DEF Joins
  <2>. HIDE DEF u
  <2>6. IsJoined(u, e, d)
    BY <1>2, <1>3, <2>0, Joined, Zenon
  <2>1. /\ u \in Seq(Record) /\ Len(u) = Len(e) + Len(d)
        /\ \A i \in 1 .. Len(e) : u[i] = e[i]
        /\ \A i \in 1 .. Len(d) : u[Len(e) + i] = d[i]
    BY <2>6 DEF IsJoined
  <2>2. Len(s) = Len(u)
    BY <1>1, <1>4, <1>5, <2>1
  <2>3. ASSUME NEW i \in 1 .. Len(s)  PROVE s[i] = u[i]
    <3>1. CASE i <= Len(e)
      BY <1>1, <1>4, <1>5, <2>1, <3>1
    <3>2. CASE ~(i <= Len(e))
      <4>1. i - Len(e) \in 1 .. Len(d) /\ c - 1 + (i - Len(e)) = i /\ Len(e) + (i - Len(e)) = i
        BY <1>1, <1>4, <1>5, <3>2
      <4>2. u[i] = d[i - Len(e)]
        BY <2>1, <4>1
      <4>. QED  BY <1>5, <4>1, <4>2
    <3>. QED  BY <3>1, <3>2
  <2>4. s = u
    BY <2>1, <2>2, <2>3, SeqEqual
  <2>. QED  BY <2>0, <2>4
<1>7. \A leaf \in BOOLEAN : SizeOf(leaf, s) = SizeOf(leaf, e) + SizeOf(leaf, d)
  BY <1>2, <1>3, <1>6, SizeOfConcat, ZenonT(60)
<1>8. ASSUME Ascending(s)  PROVE Ascending(e) /\ Ascending(d)
  <2>1. ASSUME NEW i \in 2 .. Len(e)  PROVE e[i - 1].k < e[i].k
    <3>1. i - 1 \in 1 .. Len(e) /\ i \in 1 .. Len(e) /\ i \in 2 .. Len(s)
      BY <1>1, <1>4
    <3>. QED  BY <1>4, <1>8, <3>1 DEF Ascending
  <2>2. ASSUME NEW i \in 2 .. Len(d)  PROVE d[i - 1].k < d[i].k
    <3>1. /\ i - 1 \in 1 .. Len(d) /\ i \in 1 .. Len(d) /\ c - 1 + i \in 2 .. Len(s)
          /\ c - 1 + (i - 1) = (c - 1 + i) - 1
      BY <1>1, <1>5
    <3>. QED  BY <1>5, <1>8, <3>1 DEF Ascending
  <2>. QED  BY <2>1, <2>2 DEF Ascending
<1>. QED  BY <1>2, <1>3, <1>4, <1>5, <1>6, <1>7, <1>8 DEF IsCut

\* A record put in at p.
IsInserted(t, s, p, r) ==
    /\ t \in Seq(Record) /\ Len(t) = Len(s) + 1
    /\ \A i \in 1 .. Len(s) : i < p => t[i] = s[i]
    /\ t[p] = r
    /\ \A i \in 1 .. Len(s) : p <= i => t[i + 1] = s[i]
    /\ \A leaf \in BOOLEAN : SizeOf(leaf, t) = SizeOf(leaf, s) + btr_size(leaf, r)

LEMMA InsertedAt ==
    ASSUME NEW s \in Seq(Record), NEW p \in 1 .. Len(s) + 1, NEW r \in Record, NEW t,
           t = InsertAt(s, p, r)
    PROVE  IsInserted(t, s, p, r)
<1>. DEFINE e == SubSeq(s, 1, p - 1)
            d == SubSeq(s, p, Len(s))
            m == e \o <<r>>
<1>1. /\ e \in Seq(Record) /\ Len(e) = p - 1 /\ \A i \in 1 .. Len(e) : e[i] = s[i]
      /\ d \in Seq(Record) /\ Len(d) = Len(s) - p + 1 /\ \A i \in 1 .. Len(d) : d[i] = s[p - 1 + i]
      /\ \A leaf \in BOOLEAN : SizeOf(leaf, s) = SizeOf(leaf, e) + SizeOf(leaf, d)
  <2>1. Cuts(s, p, e, d)
    BY Zenon DEF Cuts
  <2>. HIDE DEF e, d
  <2>2. IsCut(s, p, e, d)
    BY <2>1, CutAt, Zenon
  <2>. QED  BY <2>2 DEF IsCut
<1>2. Joins(t, m, d) /\ Joins(m, e, <<r>>)
  BY Zenon DEF InsertAt, Joins
<1>. HIDE DEF e, d, m
<1>3. <<r>> \in Seq(Record) /\ Len(<<r>>) = 1 /\ <<r>>[1] = r
  OBVIOUS
<1>4. /\ m \in Seq(Record) /\ Len(m) = p
      /\ \A i \in 1 .. p : m[i] = IF i <= p - 1 THEN e[i] ELSE r
  <2>4. IsJoined(m, e, <<r>>)
    BY <1>1, <1>2, <1>3, Joined, Zenon
  <2>1. /\ m \in Seq(Record) /\ Len(m) = Len(e) + Len(<<r>>)
        /\ \A i \in 1 .. Len(e) : m[i] = e[i]
        /\ \A i \in 1 .. Len(<<r>>) : m[Len(e) + i] = <<r>>[i]
    BY <2>4 DEF IsJoined
  <2>2. Len(m) = p
    BY <1>1, <1>3, <2>1
  <2>3. ASSUME NEW i \in 1 .. p  PROVE m[i] = IF i <= p - 1 THEN e[i] ELSE r
    <3>1. IF i <= p - 1 THEN i \in 1 .. Len(e) ELSE i = Len(e) + 1 /\ 1 \in 1 .. Len(<<r>>)
      BY <1>1, <1>3
    <3>. QED  BY <1>1, <1>3, <2>1, <3>1
  <2>. QED  BY <2>1, <2>2, <2>3
<1>11. IsJoined(t, m, d)
  BY <1>1, <1>2, <1>4, Joined, Zenon
<1>5. /\ t \in Seq(Record) /\ Len(t) = Len(m) + Len(d)
      /\ \A i \in 1 .. Len(m) : t[i] = m[i]
      /\ \A i \in 1 .. Len(d) : t[Len(m) + i] = d[i]
  BY <1>11 DEF IsJoined
<1>6. Len(s) \in Nat /\ Len(t) = Len(s) + 1 /\ Len(m) + Len(d) = Len(s) + 1
  BY <1>1, <1>4, <1>5
<1>7. ASSUME NEW i \in 1 .. Len(s), i < p  PROVE t[i] = s[i]
  <2>1. i \in 1 .. Len(m) /\ i <= p - 1 /\ i \in 1 .. p /\ i \in 1 .. Len(e)
    BY <1>1, <1>4, <1>6, <1>7
  <2>. QED  BY <1>1, <1>4, <1>5, <2>1
<1>8. t[p] = r
  <2>1. p \in 1 .. Len(m) /\ ~(p <= p - 1) /\ p \in 1 .. p
    BY <1>1, <1>4, <1>6
  <2>. QED  BY <1>4, <1>5, <2>1
<1>9. ASSUME NEW i \in 1 .. Len(s), p <= i  PROVE t[i + 1] = s[i]
  <2>1. /\ (i + 1) - Len(m) \in 1 .. Len(d) /\ p - 1 + ((i + 1) - Len(m)) = i
        /\ Len(m) + ((i + 1) - Len(m)) = i + 1
    BY <1>1, <1>4, <1>6, <1>9
  <2>. DEFINE x == (i + 1) - Len(m)
  <2>2. x \in 1 .. Len(d) /\ p - 1 + x = i /\ Len(m) + x = i + 1
    BY <2>1
  <2>. HIDE DEF x
  <2>3. t[Len(m) + x] = d[x] /\ d[x] = s[p - 1 + x]
    BY <1>1, <1>5, <2>2
  <2>. QED  BY <2>2, <2>3
<1>10. ASSUME NEW leaf \in BOOLEAN  PROVE SizeOf(leaf, t) = SizeOf(leaf, s) + btr_size(leaf, r)
  <2>1. SizeOf(leaf, m) = SizeOf(leaf, e) + SizeOf(leaf, <<r>>)
    BY <1>1, <1>2, <1>3, SizeOfConcat, ZenonT(60)
  <2>2. SizeOf(leaf, t) = SizeOf(leaf, m) + SizeOf(leaf, d)
    BY <1>1, <1>2, <1>4, SizeOfConcat, ZenonT(60)
  <2>3. SizeOf(leaf, e) \in Nat /\ SizeOf(leaf, d) \in Nat /\ btr_size(leaf, r) \in Nat
    BY <1>1, SizeIsNat, SizeOfRecord
  <2>. QED  BY <1>1, <2>1, <2>2, <2>3, SizeOfOne
<1>. QED  BY <1>5, <1>6, <1>7, <1>8, <1>9, <1>10 DEF IsInserted

\* In its place, the keys stay in order.
LEMMA InOrderStill ==
    ASSUME NEW s \in Seq(Record), NEW r \in Record, Ascending(s),
           At(s, r.k) <= Len(s) => s[At(s, r.k)].k # r.k
    PROVE  Ascending(InsertAt(s, At(s, r.k), r))
<1>. DEFINE p == At(s, r.k)
            t == InsertAt(s, p, r)
<1>1. /\ p \in 1 .. Len(s) + 1
      /\ p <= Len(s) => r.k <= s[p].k
      /\ \A i \in 1 .. Len(s) : i < p => s[i].k < r.k
      /\ \A i \in 1 .. Len(s) : s[i].k \in Nat
      /\ r.k \in Nat
  <2>1. r.k \in Nat
    BY DEF Record
  <2>. QED  BY <2>1, AtIs
<1>2. p <= Len(s) => s[p].k # r.k
  OBVIOUS
<1>. HIDE DEF p
<1>3. /\ t \in Seq(Record) /\ Len(t) = Len(s) + 1
      /\ \A i \in 1 .. Len(s) : i < p => t[i] = s[i]
      /\ t[p] = r
      /\ \A i \in 1 .. Len(s) : p <= i => t[i + 1] = s[i]
  <2>1. IsInserted(t, s, p, r)
    BY <1>1, InsertedAt, Zenon
  <2>. QED  BY <2>1 DEF IsInserted
<1>. HIDE DEF t
<1>4. ASSUME NEW i \in 2 .. Len(t)  PROVE t[i - 1].k < t[i].k
  <2>0. Len(s) \in Nat /\ p \in Nat /\ i \in Nat /\ i <= Len(s) + 1 /\ 1 < i
    BY <1>1, <1>3
  <2>1. CASE i < p
    <3>1. i \in 1 .. Len(s) /\ i - 1 \in 1 .. Len(s) /\ i - 1 < p /\ i \in 2 .. Len(s)
      BY <1>1, <2>0, <2>1
    <3>. QED  BY <1>3, <2>1, <3>1 DEF Ascending
  <2>2. CASE i = p
    <3>1. i - 1 \in 1 .. Len(s) /\ i - 1 < p
      BY <1>1, <2>0, <2>2
    <3>. QED  BY <1>1, <1>3, <2>2, <3>1
  <2>3. CASE i = p + 1
    <3>1. p \in 1 .. Len(s) /\ p <= p /\ i - 1 = p /\ p <= Len(s)
      BY <1>1, <2>0, <2>3
    <3>2. t[i] = s[p] /\ t[i - 1] = r
      BY <1>3, <2>3, <3>1
    <3>. QED  BY <1>1, <1>2, <3>1, <3>2
  <2>4. CASE i > p + 1
    <3>1. /\ i - 1 \in 1 .. Len(s) /\ i - 2 \in 1 .. Len(s) /\ p <= i - 1 /\ p <= i - 2
          /\ (i - 1) + 1 = i /\ (i - 2) + 1 = i - 1 /\ i - 1 \in 2 .. Len(s) /\ (i - 1) - 1 = i - 2
      BY <1>1, <2>0, <2>4
    <3>2. t[i] = s[i - 1] /\ t[i - 1] = s[i - 2]
      BY <1>3, <3>1
    <3>. QED  BY <3>1, <3>2 DEF Ascending
  <2>. QED  BY <2>0, <2>1, <2>2, <2>3, <2>4
<1>. QED  BY <1>4 DEF Ascending, t, p

\* The record at p taken out.
LEMMA RemovedAt ==
    ASSUME NEW s \in Seq(Record), NEW p \in 1 .. Len(s), NEW t, t = RemoveAt(s, p)
    PROVE  /\ t \in Seq(Record) /\ Len(t) = Len(s) - 1
           /\ \A leaf \in BOOLEAN : SizeOf(leaf, s) = SizeOf(leaf, t) + btr_size(leaf, s[p])
           /\ Ascending(s) => Ascending(t)
<1>. DEFINE e == SubSeq(s, 1, p - 1)
            d == SubSeq(s, p + 1, Len(s))
            f == SubSeq(s, 1, p)
<1>0. Len(s) \in Nat /\ p \in Nat /\ 1 <= p /\ p <= Len(s) /\ s[p] \in Record
  OBVIOUS
<1>1. e \in Seq(Record) /\ Len(e) = p - 1 /\ \A i \in 1 .. Len(e) : e[i] = s[i]
  <2>1. p \in 1 .. Len(s) + 1
    BY <1>0
  <2>2. Cuts(s, p, e, SubSeq(s, p, Len(s)))
    BY Zenon DEF Cuts
  <2>. HIDE DEF e
  <2>3. IsCut(s, p, e, SubSeq(s, p, Len(s)))
    BY <2>1, <2>2, CutAt, Zenon
  <2>. QED  BY <2>3 DEF IsCut
<1>2. /\ d \in Seq(Record) /\ Len(d) = Len(s) - p /\ \A i \in 1 .. Len(d) : d[i] = s[p + i]
      /\ f \in Seq(Record)
      /\ \A leaf \in BOOLEAN : SizeOf(leaf, s) = SizeOf(leaf, f) + SizeOf(leaf, d)
  <2>1. p + 1 \in 1 .. Len(s) + 1 /\ (p + 1) - 1 = p /\ Len(s) - (p + 1) + 1 = Len(s) - p
    BY <1>0
  <2>2. Cuts(s, p + 1, f, d)
    BY <2>1 DEF Cuts
  <2>. HIDE DEF f, d
  <2>3. IsCut(s, p + 1, f, d)
    BY <2>1, <2>2, CutAt, Zenon
  <2>. QED  BY <2>1, <2>3 DEF IsCut
<1>3. Joins(t, e, d)
  BY Zenon DEF RemoveAt, Joins
<1>8. Joins(f, e, <<s[p]>>)
  <2>1. f = e \o <<s[p]>>
    BY <1>0
  <2>. HIDE DEF e, f
  <2>. QED  BY <2>1, Zenon DEF Joins
<1>. HIDE DEF e, d, f
<1>9. IsJoined(t, e, d)
  BY <1>1, <1>2, <1>3, Joined, Zenon
<1>4. /\ t \in Seq(Record) /\ Len(t) = Len(e) + Len(d)
      /\ \A i \in 1 .. Len(e) : t[i] = e[i]
      /\ \A i \in 1 .. Len(d) : t[Len(e) + i] = d[i]
  BY <1>9 DEF IsJoined
<1>5. ASSUME NEW leaf \in BOOLEAN  PROVE SizeOf(leaf, s) = SizeOf(leaf, t) + btr_size(leaf, s[p])
  <2>1. SizeOf(leaf, t) = SizeOf(leaf, e) + SizeOf(leaf, d)
    BY <1>1, <1>2, <1>3, SizeOfConcat, ZenonT(60)
  <2>2. SizeOf(leaf, f) = SizeOf(leaf, e) + SizeOf(leaf, <<s[p]>>)
    <3>1. e \in Seq(Record) /\ <<s[p]>> \in Seq(Record)
      BY <1>0, <1>1
    <3>. QED  BY <1>5, <1>8, <3>1, SizeOfConcat, ZenonT(60)
  <2>3. SizeOf(leaf, e) \in Nat /\ SizeOf(leaf, d) \in Nat /\ btr_size(leaf, s[p]) \in Nat
    BY <1>0, <1>1, <1>2, SizeIsNat, SizeOfRecord
  <2>. QED  BY <1>0, <1>2, <2>1, <2>2, <2>3, SizeOfOne
<1>6. ASSUME Ascending(s)  PROVE Ascending(t)
  <2>1. ASSUME NEW i \in 2 .. Len(t)  PROVE t[i - 1].k < t[i].k
    <3>0. i \in Nat /\ 1 < i /\ i <= Len(s) - 1 /\ Len(e) + Len(d) = Len(s) - 1
      BY <1>0, <1>1, <1>2, <1>4
    <3>1. CASE i < p
      <4>1. /\ i \in 1 .. Len(e) /\ i - 1 \in 1 .. Len(e) /\ i \in 2 .. Len(s)
        BY <1>0, <1>1, <3>0, <3>1
      <4>2. t[i] = e[i] /\ t[i - 1] = e[i - 1]
        BY <1>4, <4>1
      <4>. QED  BY <1>1, <1>6, <4>1, <4>2 DEF Ascending
    <3>2. CASE i = p
      <4>1. /\ i - 1 \in 1 .. Len(e) /\ i = Len(e) + 1 /\ 1 \in 1 .. Len(d) /\ i - 1 = p - 1
            /\ p \in 2 .. Len(s) /\ p + 1 \in 2 .. Len(s) /\ (p + 1) - 1 = p
        BY <1>0, <1>1, <1>2, <3>0, <3>2
      <4>2. t[i] = s[p + 1] /\ t[i - 1] = s[p - 1]
        BY <1>1, <1>2, <1>4, <3>2, <4>1
      <4>3. s[p - 1].k < s[p].k /\ s[p].k < s[p + 1].k
        BY <1>6, <4>1 DEF Ascending
      <4>4. s[p - 1].k \in Nat /\ s[p].k \in Nat /\ s[p + 1].k \in Nat
        <5>1. p - 1 \in 1 .. Len(s) /\ p + 1 \in 1 .. Len(s)
          BY <1>0, <3>0, <3>2, <4>1
        <5>2. s[p - 1] \in Record /\ s[p + 1] \in Record
          BY <5>1
        <5>. QED  BY <1>0, <5>2 DEF Record
      <4>. QED  BY <4>2, <4>3, <4>4
    <3>3. CASE i > p
      <4>1. /\ i - Len(e) \in 1 .. Len(d) /\ Len(e) + (i - Len(e)) = i
            /\ (i - 1) - Len(e) \in 1 .. Len(d) /\ Len(e) + ((i - 1) - Len(e)) = i - 1
            /\ p + (i - Len(e)) = i + 1 /\ p + ((i - 1) - Len(e)) = i
            /\ i + 1 \in 2 .. Len(s) /\ (i + 1) - 1 = i
        BY <1>0, <1>1, <1>2, <3>0, <3>3
      <4>2. t[i] = d[i - Len(e)] /\ t[i - 1] = d[(i - 1) - Len(e)]
        BY <1>4, <4>1
      <4>3. t[i] = s[i + 1] /\ t[i - 1] = s[i]
        BY <1>2, <4>1, <4>2
      <4>. QED  BY <1>6, <4>1, <4>3 DEF Ascending
    <3>. QED  BY <1>0, <3>0, <3>1, <3>2, <3>3
  <2>. QED  BY <2>1 DEF Ascending
<1>7. Len(t) = Len(s) - 1
  BY <1>0, <1>1, <1>2, <1>4
<1>. QED  BY <1>4, <1>5, <1>6, <1>7

-----------------------------------------------------------------------------
(* The inductive invariant                                                 *)

Node == [leaf : BOOLEAN, root : BOOLEAN, first : Nat, recs : Seq(Record), free : Int, nn : Int]

FaultCalls == {"none", "read", "copy", "bitmap", "node", "root", "index", "free", "record", "flush"}
Fault == [call : FaultCalls, at : Blks]

\* The states in which no assertion has failed.
State == [nd : [NodeBlks -> Node], alloc : SUBSET Blks, lost : SUBSET Blks, root : NodeBlks,
          dirty : SUBSET Blks, abort : {""}, fault : Fault]

\* The first index pointer takes its space with the first record.
Overhead(b) == (IF b.root THEN InfoSz ELSE 0) + (IF b.leaf \/ b.recs = << >> THEN 0 ELSE PtrSz)

Accounted(b) ==
    /\ b.free >= 0
    /\ b.free = MaxInline - Overhead(b) - SizeOf(b.leaf, b.recs)

Kids(b) == IF b.leaf THEN {} ELSE {Ptr(b, j) : j \in 0 .. Len(b.recs)} \ {0}

Once(b) ==
    ~b.leaf => \A i, j \in 0 .. Len(b.recs) : i # j /\ Ptr(b, i) = Ptr(b, j) => Ptr(b, i) = 0

Sound(b) == Accounted(b) /\ Ascending(b.recs) /\ Once(b)

\* A block that is not dirty has these in the file.  Whether it is the root may
\* differ: a root that splits without moving a record is not marked dirty.
Stored(b, c) == b.leaf = c.leaf /\ b.first = c.first /\ b.recs = c.recs /\ Accounted(b)

Synced(S, D) ==
    /\ BMBlk \notin S.dirty => D.alloc = S.alloc
    /\ SMBlk \notin S.dirty => D.root = S.root
    /\ \A n \in Live(S) \ S.dirty : Stored(D.nd[n], S.nd[n])

Good(S, D) ==
    /\ S \in State
    /\ {SMBlk, BMBlk, S.root} \subseteq S.alloc
    /\ \A n \in Live(S) : Sound(S.nd[n])
    /\ \A n \in Live(S) : Kids(S.nd[n]) \subseteq Live(S) \ {S.root}
    /\ \A n, m \in Live(S) : n # m => Kids(S.nd[n]) \cap Kids(S.nd[m]) = {}
    /\ Synced(S, D)

\* Index nodes without a record: new ones, in the middle of a split.
Empty(S) == {n \in Live(S) : ~S.nd[n].leaf /\ S.nd[n].recs = << >>}

\* Nodes no pointer leads to.
Orphan(S, p) == \A n \in Live(S) : p \notin Kids(S.nd[n])
Loose(S) == {p \in Live(S) \ {S.root} : Orphan(S, p)}

\* What an insertion into nodes of S that are there keeps: the nodes and what
\* they are, and the loose ones except X.
Extends(S, T, X) ==
    /\ S.alloc \subseteq T.alloc /\ T.root = S.root
    /\ \A n \in Live(S) : T.nd[n].leaf = S.nd[n].leaf
    /\ Loose(S) \ X \subseteq Loose(T)

LEMMA ExtendsTrans ==
    ASSUME NEW S, NEW T, NEW U, NEW X, NEW Y, Extends(S, T, X), Extends(T, U, Y)
    PROVE  Extends(S, U, X \cup Y)
BY DEF Extends, Live

LEMMA ExtendsSelf ==
    ASSUME NEW S, NEW X
    PROVE  Extends(S, S, X)
BY DEF Extends

\* The fields of a state.
LEMMA Fields ==
    ASSUME NEW S \in State
    PROVE  /\ S.nd \in [NodeBlks -> Node] /\ S.alloc \subseteq Blks /\ S.root \in NodeBlks
           /\ S.dirty \subseteq Blks /\ S.abort = "" /\ S.lost \subseteq Blks /\ S.fault \in Fault
           /\ Live(S) \subseteq NodeBlks /\ \A n \in Live(S) : S.nd[n] \in Node
BY DEF State, Live

LEMMA NodeFields ==
    ASSUME NEW b \in Node
    PROVE  /\ b.leaf \in BOOLEAN /\ b.root \in BOOLEAN /\ b.first \in Nat
           /\ b.recs \in Seq(Record) /\ b.free \in Int /\ b.nn \in Int
           /\ Len(b.recs) \in Nat /\ \A i \in 1 .. Len(b.recs) : b.recs[i] \in Record
<1>1. /\ b.leaf \in BOOLEAN /\ b.root \in BOOLEAN /\ b.first \in Nat
      /\ b.recs \in Seq(Record) /\ b.free \in Int /\ b.nn \in Int
  BY DEF Node
<1>. QED  BY <1>1

\* An aborted call.
Aborted(r) == r.err = "abort" /\ r.s.abort # ""

LEMMA AbortIs ==
    ASSUME NEW S \in State, NEW what, what # ""
    PROVE  Aborted(Abort(S, what))
BY DEF State, Abort, Fail, Done, Aborted

\* Node n becomes c, and is marked dirty.
Wrote(S, T, n, c) ==
    /\ T \in State
    /\ T.nd = [S.nd EXCEPT ![n] = c]
    /\ T.alloc = S.alloc /\ T.root = S.root
    /\ S.dirty \cup {n} \subseteq T.dirty

LEMMA WroteIs ==
    ASSUME NEW S, NEW D, Good(S, D), NEW n \in Live(S), NEW c \in Node, NEW E \in SUBSET Blks,
           NEW T, T = [S EXCEPT !.nd[n] = c, !.dirty = @ \cup {n} \cup E]
    PROVE  Wrote(S, T, n, c)
<1>1. S \in State /\ n \in NodeBlks /\ n \in Blks
  BY Blocks DEF Good, Live
<1>. QED  BY <1>1 DEF State, Wrote

\* Then the tree is still good, if the node is sound and has no new pointers
\* but to loose nodes.
IsOneNode(S, T, D, n, c, X) ==
    /\ Good(T, D) /\ Extends(S, T, X) /\ Live(T) = Live(S)
    /\ Empty(T) \subseteq Empty(S) \cup {n}
    /\ c.leaf \/ c.recs # << >> => Empty(T) = Empty(S) \ {n}
    /\ T.nd[n] = c /\ \A m \in Live(S) : m # n => T.nd[m] = S.nd[m]

LEMMA OneNode ==
    ASSUME NEW S, NEW D, NEW T, Good(S, D), NEW n \in Live(S), NEW c \in Node, Wrote(S, T, n, c),
           Sound(c), c.leaf = S.nd[n].leaf, NEW X \in SUBSET Loose(S),
           Kids(c) \subseteq Kids(S.nd[n]) \cup X
    PROVE  IsOneNode(S, T, D, n, c, X)
<1>1. S \in State /\ T \in State /\ n \in NodeBlks
  BY DEF Good, Live, Wrote
<1>2. Live(T) = Live(S) /\ T.root = S.root /\ T.alloc = S.alloc
  BY DEF Wrote, Live
<1>3. T.nd[n] = c /\ \A m \in Live(S) : m # n => T.nd[m] = S.nd[m]
  BY <1>1, Fields DEF Wrote
<1>4. Empty(T) \subseteq Empty(S) \cup {n} /\ (c.leaf \/ c.recs # << >> => Empty(T) = Empty(S) \ {n})
  BY <1>2, <1>3 DEF Empty
<1>5. ASSUME NEW m \in Live(S)  PROVE Kids(T.nd[m]) \subseteq Kids(S.nd[m]) \cup (IF m = n THEN X ELSE {})
  BY <1>3
<1>6. \A p \in X : p \in Live(S) /\ p # S.root /\ \A m \in Live(S) : p \notin Kids(S.nd[m])
  BY DEF Loose, Orphan
<1>7. \A m \in Live(T) : Sound(T.nd[m])
  BY <1>2, <1>3 DEF Good
<1>8. \A m \in Live(T) : Kids(T.nd[m]) \subseteq Live(T) \ {T.root}
  BY <1>2, <1>5, <1>6 DEF Good
<1>9. ASSUME NEW m \in Live(T), NEW l \in Live(T), m # l  PROVE Kids(T.nd[m]) \cap Kids(T.nd[l]) = {}
  <2>1. Kids(S.nd[m]) \cap Kids(S.nd[l]) = {}
    BY <1>2, <1>9 DEF Good
  <2>. QED  BY <1>2, <1>5, <1>6, <1>9, <2>1
<1>10. Synced(T, D)
  BY <1>2, <1>3 DEF Synced, Good, Wrote
<1>11. Good(T, D)
  BY <1>1, <1>2, <1>7, <1>8, <1>9, <1>10 DEF Good
<1>12. Extends(S, T, X)
  <2>1. \A m \in Live(S) : T.nd[m].leaf = S.nd[m].leaf
    BY <1>3
  <2>2. Loose(S) \ X \subseteq Loose(T)
    BY <1>2, <1>5 DEF Loose, Orphan
  <2>. QED  BY <1>2, <2>1, <2>2 DEF Extends
<1>. QED  BY <1>2, <1>3, <1>4, <1>11, <1>12 DEF IsOneNode

\* The same nodes, of which more are dirty.
SameTree(S, T) ==
    T \in State /\ T.nd = S.nd /\ T.root = S.root /\ T.alloc = S.alloc /\ S.dirty \subseteq T.dirty

IsSame(S, T, D) ==
    /\ Good(T, D) /\ Extends(S, T, {}) /\ Live(T) = Live(S) /\ Empty(T) = Empty(S)
    /\ Loose(T) = Loose(S) /\ T.nd = S.nd /\ T.root = S.root

LEMMA SameIs ==
    ASSUME NEW S, NEW D, Good(S, D), NEW T, SameTree(S, T)
    PROVE  IsSame(S, T, D)
<1>2. T \in State /\ T.nd = S.nd /\ T.root = S.root /\ T.alloc = S.alloc /\ S.dirty \subseteq T.dirty
  BY DEF SameTree
<1>3. Live(T) = Live(S) /\ Empty(T) = Empty(S) /\ Loose(T) = Loose(S)
  BY <1>2 DEF Live, Empty, Loose, Orphan
<1>4. Extends(S, T, {})
  BY <1>2, <1>3 DEF Extends
<1>5. Synced(T, D)
  BY <1>2, <1>3 DEF Good, Synced
<1>6. Good(T, D)
  BY <1>2, <1>3, <1>5 DEF Good
<1>. QED  BY <1>2, <1>3, <1>4, <1>6 DEF IsSame

\* Marking more blocks dirty changes nothing.
LEMMA MoreDirty ==
    ASSUME NEW S, NEW D, Good(S, D), NEW E \in SUBSET Blks, NEW T, T = [S EXCEPT !.dirty = @ \cup E]
    PROVE  /\ Good(T, D) /\ Extends(S, T, {}) /\ Live(T) = Live(S) /\ Empty(T) = Empty(S)
           /\ Loose(T) = Loose(S) /\ T.nd = S.nd /\ T.root = S.root
<1>1. SameTree(S, T)
  BY DEF Good, State, SameTree
<1>. QED  BY <1>1, SameIs DEF IsSame

\* Which call is to fail changes nothing, and neither does a block that is lost.
LEMMA StruckIs ==
    ASSUME NEW S, NEW D, Good(S, D), NEW f \in Fault
    PROVE  IsSame(S, Struck(S, f), D)
<1>1. SameTree(S, Struck(S, f))
  BY DEF Good, State, SameTree, Struck
<1>. QED  BY <1>1, SameIs

LEMMA BlockLost ==
    ASSUME NEW S, NEW D, Good(S, D), NEW m \in Blks,
           NEW T, T = [S EXCEPT !.lost = @ \cup {m}, !.dirty = @ \cup {BMBlk}]
    PROVE  IsSame(S, T, D)
<1>1. SameTree(S, T)
  BY Blocks DEF Good, State, SameTree
<1>. QED  BY <1>1, SameIs

-----------------------------------------------------------------------------
(* New nodes, the node count and the pointers                              *)

\* What is said of a node depends on nothing but these.
LEMMA SameNode ==
    ASSUME NEW b \in Node, NEW c \in Node, c.leaf = b.leaf, c.root = b.root, c.first = b.first,
           c.recs = b.recs, c.free = b.free
    PROVE  (Sound(b) => Sound(c)) /\ Kids(c) = Kids(b)
BY DEF Sound, Accounted, Overhead, Once, Kids, Ptr

LEMMA NewNodeIs ==
    ASSUME NEW leaf \in BOOLEAN, NEW root \in BOOLEAN
    PROVE  /\ NewNode(leaf, root) \in Node /\ Sound(NewNode(leaf, root)) /\ Kids(NewNode(leaf, root)) = {}
           /\ NewNode(leaf, root).leaf = leaf /\ NewNode(leaf, root).root = root
           /\ NewNode(leaf, root).recs = << >> /\ NewNode(leaf, root).first = 0
<1>. DEFINE b == NewNode(leaf, root)
<1>1. /\ b \in Node /\ b.leaf = leaf /\ b.root = root /\ b.recs = << >> /\ b.first = 0
      /\ b.free = MaxInline - (IF root THEN InfoSz ELSE 0)
  BY Sizes DEF NewNode, Node
<1>2. Len(b.recs) = 0 /\ SizeOf(leaf, << >>) = 0
  <2>1. << >> \in Seq(Record) /\ [k |-> 0, v |-> 0] \in Record
    BY DEF Record
  <2>. QED  BY <1>1, <2>1, SizeOfOne
<1>. HIDE DEF b
<1>3. Accounted(b)
  BY <1>1, <1>2, Sizes DEF Accounted, Overhead
<1>4. Ascending(b.recs) /\ Once(b)
  BY <1>1, <1>2 DEF Ascending, Once
<1>5. Kids(b) = {}
  BY <1>1, <1>2 DEF Kids, Ptr
<1>6. Sound(b)
  BY <1>3, <1>4 DEF Sound
<1>. QED  BY <1>1, <1>5, <1>6 DEF b

\* The block an allocation takes.
LEMMA FreeBlock ==
    ASSUME NEW S, NEW D, Good(S, D), FreeBlks(S) # {}
    PROVE  Min(FreeBlks(S)) \in NodeBlks /\ Min(FreeBlks(S)) \notin S.alloc
<1>1. FreeBlks(S) \subseteq Nat /\ FreeBlks(S) \subseteq Blks \ S.alloc
  BY Blocks DEF FreeBlks, Blks
<1>2. Min(FreeBlks(S)) \in FreeBlks(S)
  BY <1>1, MinIsLeast
<1>. QED  BY <1>1, <1>2, Blocks DEF Good

IsAllocated(S, T, D, m, leaf) ==
    /\ Good(T, D) /\ Extends(S, T, {})
    /\ m \in NodeBlks /\ m \notin S.alloc /\ m \notin Live(S) /\ Live(T) = Live(S) \cup {m}
    /\ m \in Loose(T)
    /\ T.nd = [S.nd EXCEPT ![m] = NewNode(leaf, FALSE)] /\ T.root = S.root
    /\ {m, BMBlk} \subseteq T.dirty
    /\ Empty(T) = Empty(S) \cup (IF leaf THEN {} ELSE {m})

LEMMA Allocated ==
    ASSUME NEW S, NEW D, Good(S, D), FreeBlks(S) # {}, NEW leaf \in BOOLEAN,
           NEW m, m = Min(FreeBlks(S))
    PROVE  IsAllocated(S, btn_alloc(S, leaf, FALSE), D, m, leaf)
<1>. DEFINE T == btn_alloc(S, leaf, FALSE)
            b == NewNode(leaf, FALSE)
<1>1. S \in State /\ m \in NodeBlks /\ m \notin S.alloc
  BY FreeBlock DEF Good
<1>2. b \in Node /\ Sound(b) /\ Kids(b) = {} /\ b.leaf = leaf /\ b.recs = << >>
  BY NewNodeIs
<1>. HIDE DEF b
<1>3. T = [S EXCEPT !.nd[m] = b, !.alloc = @ \cup {m}, !.dirty = @ \cup {m, BMBlk}]
  BY DEF btn_alloc, b
<1>4. /\ T \in State /\ T.nd = [S.nd EXCEPT ![m] = b] /\ T.root = S.root
      /\ T.alloc = S.alloc \cup {m} /\ T.dirty = S.dirty \cup {m, BMBlk}
  <2>1. m \in Blks /\ S.alloc \cup {m} \subseteq Blks /\ S.dirty \cup {m, BMBlk} \subseteq Blks
    BY <1>1, Blocks, Fields
  <2>2. [S.nd EXCEPT ![m] = b] \in [NodeBlks -> Node]
    BY <1>1, <1>2, Fields
  <2>. HIDE DEF T
  <2>3. /\ T.nd = [S.nd EXCEPT ![m] = b] /\ T.root = S.root
        /\ T.alloc = S.alloc \cup {m} /\ T.dirty = S.dirty \cup {m, BMBlk}
    BY <1>1, <1>3 DEF State
  <2>4. T \in State
    BY <1>1, <1>3, <2>1, <2>2 DEF State
  <2>. QED  BY <2>3, <2>4
<1>. HIDE DEF T
<1>5. m \notin Live(S) /\ Live(T) = Live(S) \cup {m}
  BY <1>1, <1>4 DEF Live
<1>6. T.nd[m] = b /\ \A l \in Live(S) : T.nd[l] = S.nd[l]
  BY <1>1, <1>4, <1>5, Fields
<1>7. \A l \in Live(T) : Sound(T.nd[l])
  BY <1>2, <1>5, <1>6 DEF Good
<1>8. \A l \in Live(T) : Kids(T.nd[l]) \subseteq Live(S) \ {S.root}
  BY <1>2, <1>5, <1>6 DEF Good
<1>9. \A l, k \in Live(T) : l # k => Kids(T.nd[l]) \cap Kids(T.nd[k]) = {}
  BY <1>2, <1>5, <1>6 DEF Good
<1>10. Synced(T, D)
  BY <1>4, <1>5, <1>6 DEF Synced, Good
<1>11. Good(T, D)
  BY <1>4, <1>5, <1>7, <1>8, <1>9, <1>10 DEF Good
<1>12. m \in Loose(T)
  BY <1>1, <1>4, <1>5, <1>8 DEF Loose, Orphan, Good
<1>13. Extends(S, T, {})
  <2>1. Loose(S) \subseteq Loose(T)
    BY <1>2, <1>4, <1>5, <1>6 DEF Loose, Orphan
  <2>. QED  BY <1>4, <1>6, <2>1 DEF Extends
<1>14. Empty(T) = Empty(S) \cup (IF leaf THEN {} ELSE {m})
  BY <1>2, <1>5, <1>6 DEF Empty
<1>. QED  BY <1>1, <1>4, <1>5, <1>11, <1>12, <1>13, <1>14 DEF IsAllocated, T, b

\* What btn_insert and those that call it return.
IsResult(r) == \E W : r \in [s : W, err : W, i1 : W, i2 : W, bip : W]

LEMMA Results ==
    ASSUME NEW S, NEW e
    PROVE  IsResult(Done(S)) /\ IsResult(Fail(S, e)) /\ IsResult(Abort(S, e))
<1>1. \A T : IsResult(Done(T))
  <2>1. ASSUME NEW T  PROVE IsResult(Done(T))
    <3>1. Done(T) \in [s : {T, "ok", NoRec, 0}, err : {T, "ok", NoRec, 0}, i1 : {T, "ok", NoRec, 0},
                       i2 : {T, "ok", NoRec, 0}, bip : {T, "ok", NoRec, 0}]
      BY DEF Done
    <3>. QED  BY <3>1, Zenon DEF IsResult
  <2>. QED  BY <2>1
<1>2. \A T : IsResult(Fail(T, e))
  <2>1. ASSUME NEW T  PROVE IsResult(Fail(T, e))
    <3>1. PICK W : Done(T) \in [s : W, err : W, i1 : W, i2 : W, bip : W]
      BY <1>1 DEF IsResult
    <3>. DEFINE V == W \cup {e}
    <3>2. Fail(T, e) \in [s : V, err : V, i1 : V, i2 : V, bip : V]
      BY <3>1 DEF Fail
    <3>. QED  BY <3>2, Zenon DEF IsResult
  <2>. QED  BY <2>1
<1>3. \A T : IsResult(Fail(T, "abort"))
  <2>1. ASSUME NEW T  PROVE IsResult(Fail(T, "abort"))
    <3>1. PICK W : Done(T) \in [s : W, err : W, i1 : W, i2 : W, bip : W]
      BY <1>1 DEF IsResult
    <3>. DEFINE V == W \cup {"abort"}
    <3>2. Fail(T, "abort") \in [s : V, err : V, i1 : V, i2 : V, bip : V]
      BY <3>1 DEF Fail
    <3>. QED  BY <3>2, Zenon DEF IsResult
  <2>. QED  BY <2>1
<1>. QED  BY <1>1, <1>2, <1>3, Zenon DEF Abort

\* An allocation that fails leaves the nodes alone.
IsFailed(S, D, r) ==
    r.err \in {"ENOSPC", "ENOMEM", "EIO"} /\ IsSame(S, r.s, D) /\ IsResult(r)

LEMMA FailIs ==
    ASSUME NEW S, NEW D, Good(S, D), NEW e \in {"ENOSPC", "ENOMEM", "EIO"}
    PROVE  IsFailed(S, D, Fail(S, e))
<1>1. Fail(S, e).s = S /\ Fail(S, e).err = e
  BY DEF Fail, Done
<1>2. IsSame(S, S, D)
  BY ExtendsSelf DEF IsSame
<1>. QED  BY <1>1, <1>2, Results DEF IsFailed

LEMMA FailedAllocIs ==
    ASSUME NEW S, NEW D, Good(S, D), NEW n
    PROVE  IsFailed(S, D, FailedAlloc(S, n))
<1>. DEFINE m == Min(FreeBlks(S))
            T == [S EXCEPT !.lost = @ \cup {m}, !.dirty = @ \cup {BMBlk}]
<1>1. CASE Fails(S, "bitmap", n) \/ FreeBlks(S) = {}
  BY <1>1, FailIs, Zenon DEF FailedAlloc
<1>2. CASE ~Fails(S, "bitmap", n) /\ FreeBlks(S) # {}
  <2>1. m \in Blks
    BY <1>2, FreeBlock, Blocks
  <2>2. FailedAlloc(S, n) = Fail(T, "EIO")
    BY <1>2 DEF FailedAlloc
  <2>. HIDE DEF m
  <2>3. IsSame(S, T, D)
    BY <2>1, BlockLost
  <2>. HIDE DEF T
  <2>4. Fail(T, "EIO").s = T /\ Fail(T, "EIO").err = "EIO"
    BY DEF Fail, Done
  <2>. QED  BY <2>2, <2>3, <2>4, Results DEF IsFailed
<1>. QED  BY <1>1, <1>2

\* Node contents that an update of the node count leaves alone.
SameRecs(S, T) ==
    /\ T.alloc = S.alloc
    /\ \A n \in Live(S) : /\ T.nd[n].leaf = S.nd[n].leaf /\ T.nd[n].first = S.nd[n].first
                          /\ T.nd[n].recs = S.nd[n].recs /\ T.nd[n].free = S.nd[n].free
                          /\ T.nd[n].root = S.nd[n].root

LEMMA Counted ==
    ASSUME NEW S, NEW D, Good(S, D), NEW d \in Int
    PROVE  /\ Good(AddNodes(S, d), D) /\ Extends(S, AddNodes(S, d), {})
           /\ Live(AddNodes(S, d)) = Live(S)
           /\ Empty(AddNodes(S, d)) = Empty(S) /\ SameRecs(S, AddNodes(S, d))
<1>. DEFINE T == AddNodes(S, d)
            b == S.nd[S.root]
            c == [b EXCEPT !.nn = @ + d]
<1>1. S \in State /\ S.root \in Live(S) /\ b \in Node
  <2>1. S \in State /\ S.root \in S.alloc
    BY DEF Good
  <2>. QED  BY <2>1 DEF State, Live
<1>. HIDE DEF b
<1>2. /\ c \in Node /\ c.leaf = b.leaf /\ c.root = b.root /\ c.first = b.first
      /\ c.recs = b.recs /\ c.free = b.free
  BY <1>1 DEF Node
<1>3. T = [S EXCEPT !.nd[S.root] = c, !.dirty = @ \cup {S.root} \cup {}]
  BY <1>1 DEF AddNodes, b, State
<1>. HIDE DEF c, T
<1>4. Wrote(S, T, S.root, c)
  BY <1>1, <1>2, <1>3, WroteIs
<1>5. Sound(b)
  BY <1>1 DEF b, Good
<1>6. Sound(c) /\ Kids(c) = Kids(b)
  BY <1>1, <1>2, <1>5, SameNode
<1>7. Good(T, D) /\ Extends(S, T, {}) /\ Live(T) = Live(S)
  <2>1. {} \in SUBSET Loose(S) /\ Kids(c) \subseteq Kids(S.nd[S.root]) \cup {} /\ c.leaf = S.nd[S.root].leaf
    BY <1>2, <1>6 DEF b
  <2>2. IsOneNode(S, T, D, S.root, c, {})
    BY <1>1, <1>2, <1>4, <1>6, <2>1, OneNode, Zenon
  <2>. QED  BY <2>2 DEF IsOneNode
<1>8. T.nd[S.root] = c /\ \A m \in Live(S) : m # S.root => T.nd[m] = S.nd[m]
  BY <1>1, <1>4, Fields DEF Wrote
<1>9. SameRecs(S, T) /\ T.alloc = S.alloc
  BY <1>2, <1>4, <1>8 DEF SameRecs, Wrote, b
<1>10. Empty(T) = Empty(S)
  BY <1>7, <1>9 DEF Empty, SameRecs
<1>. QED  BY <1>7, <1>9, <1>10 DEF T

\* A pointer that is 0 set to a loose node, or any to 0.
IsPointed(S, T, D, n, j, p) ==
    /\ Good(T, D) /\ Extends(S, T, {p}) /\ Live(T) = Live(S) /\ Empty(T) = Empty(S)
    /\ \E c \in Node : Wrote(S, T, n, c)
    /\ Ptr(S.nd[n], j) \notin Kids(T.nd[n]) \/ Ptr(S.nd[n], j) = p

LEMMA PointerSet ==
    ASSUME NEW S, NEW D, Good(S, D), NEW n \in Live(S), ~S.nd[n].leaf,
           NEW j \in 0 .. Len(S.nd[n].recs), NEW p, p = 0 \/ p \in Loose(S),
           NEW T, T = SetPtr(S, n, j, p)
    PROVE  IsPointed(S, T, D, n, j, p)
<1>. DEFINE b == S.nd[n]
            c == IF j = 0 THEN [b EXCEPT !.first = p] ELSE [b EXCEPT !.recs[j].v = p]
            q == IF j = 0 THEN b.recs ELSE [b.recs EXCEPT ![j].v = p]
<1>1. S \in State /\ b \in Node /\ n \in NodeBlks /\ p \in Nat /\ Sound(b) /\ ~b.leaf
  <2>1. S \in State /\ Loose(S) \subseteq Nat
    BY Blocks DEF Good, Loose, Live
  <2>2. S.nd[n] \in Node /\ n \in NodeBlks /\ Sound(S.nd[n])
    BY <2>1, Fields DEF Good
  <2>. QED  BY <2>1, <2>2
<1>0. b.leaf = FALSE
  BY <1>1 DEF Node
<1>2. /\ b.recs \in Seq(Record) /\ Len(b.recs) \in Nat /\ \A i \in 1 .. Len(b.recs) : b.recs[i] \in Record
  BY <1>1, NodeFields
<1>. HIDE DEF b
<1>3. /\ q \in Seq(Record) /\ Len(q) = Len(b.recs)
      /\ \A i \in 1 .. Len(q) : q[i].k = b.recs[i].k /\ q[i].v = IF i = j THEN p ELSE b.recs[i].v
  <2>1. CASE j = 0
    BY <1>2, <2>1
  <2>2. CASE j # 0
    <3>1. j \in 1 .. Len(b.recs) /\ b.recs[j] \in Record
      BY <1>2, <2>2 DEF b
    <3>. DEFINE r == [b.recs[j] EXCEPT !.v = p]
    <3>2. r \in Record /\ r.k = b.recs[j].k /\ r.v = p
      BY <1>1, <3>1 DEF Record
    <3>. HIDE DEF r
    <3>3. q = [b.recs EXCEPT ![j] = r]
      BY <2>2, <3>1 DEF r
    <3>. QED  BY <1>2, <3>1, <3>2, <3>3, ExceptSeq
  <2>. QED  BY <2>1, <2>2
<1>4. /\ c \in Node /\ c.leaf = b.leaf /\ c.root = b.root /\ c.recs = q /\ c.free = b.free
      /\ c.first = IF j = 0 THEN p ELSE b.first
  <2>1. CASE j = 0
    BY <1>1, <2>1 DEF Node
  <2>2. CASE j # 0
    <3>1. c = [b EXCEPT !.recs = q]
      BY <2>2
    <3>. HIDE DEF c, q
    <3>. QED  BY <1>1, <1>3, <2>2, <3>1 DEF Node
  <2>. QED  BY <2>1, <2>2
<1>5. T = [S EXCEPT !.nd[n] = c, !.dirty = @ \cup {n} \cup {}]
  BY <1>1 DEF SetPtr, State, b
<1>. HIDE DEF c, q
<1>6. Wrote(S, T, n, c)
  BY <1>4, <1>5, WroteIs
<1>7. \A i \in 0 .. Len(b.recs) : Ptr(c, i) = IF i = j THEN p ELSE Ptr(b, i)
  BY <1>2, <1>3, <1>4 DEF Ptr, b
<1>8. Sound(c)
  <2>1. SizeOf(FALSE, q) = SizeOf(FALSE, b.recs)
    <3>1. \A i \in 1 .. Len(q) : btr_size(FALSE, q[i]) = btr_size(FALSE, b.recs[i])
      BY DEF btr_size
    <3>. QED  BY <1>2, <1>3, <3>1, SameSizes
  <2>2. q = << >> <=> b.recs = << >>
    BY <1>2, <1>3
  <2>3. Accounted(c)
    BY <1>0, <1>1, <1>4, <2>1, <2>2 DEF Sound, Accounted, Overhead
  <2>4. Ascending(c.recs)
    <3>1. ASSUME NEW i \in 2 .. Len(q)  PROVE q[i - 1].k < q[i].k
      <4>1. i - 1 \in 1 .. Len(q) /\ i \in 1 .. Len(q) /\ b.recs[i - 1].k < b.recs[i].k
        BY <1>1, <1>2, <1>3 DEF Sound, Ascending
      <4>. QED  BY <1>3, <4>1
    <3>. QED  BY <1>4, <3>1 DEF Ascending
  <2>5. Once(c)
    <3>1. p # 0 => \A i \in 0 .. Len(b.recs) : Ptr(b, i) # p
      BY <1>1 DEF Loose, Orphan, Kids, b
    <3>. QED  BY <1>1, <1>3, <1>4, <1>7, <3>1 DEF Once, Sound
  <2>. QED  BY <2>3, <2>4, <2>5 DEF Sound
<1>. DEFINE X == {p} \ {0}
<1>9. X \in SUBSET Loose(S) /\ Kids(c) \subseteq Kids(S.nd[n]) \cup X /\ c.leaf = S.nd[n].leaf
  BY <1>1, <1>3, <1>4, <1>7 DEF Kids, b
<1>. HIDE DEF X
<1>10. /\ Good(T, D) /\ Extends(S, T, X) /\ Live(T) = Live(S)
       /\ c.leaf \/ c.recs # << >> => Empty(T) = Empty(S) \ {n}
  <2>1. IsOneNode(S, T, D, n, c, X)
    BY <1>4, <1>6, <1>8, <1>9, OneNode, Zenon
  <2>. QED  BY <2>1 DEF IsOneNode
<1>11. Extends(S, T, {p})
  BY <1>10 DEF Extends, X
<1>12. T.nd[n] = c /\ \A m \in Live(S) : m # n => T.nd[m] = S.nd[m]
  BY <1>1, <1>6, Fields DEF Wrote
<1>13. Empty(T) = Empty(S)
  <2>1. T.nd[n].leaf = S.nd[n].leaf /\ (T.nd[n].recs = << >> <=> S.nd[n].recs = << >>)
    BY <1>2, <1>3, <1>4, <1>12 DEF b
  <2>. QED  BY <1>10, <1>12, <2>1 DEF Empty
<1>14. Ptr(b, j) \notin Kids(c) \/ Ptr(b, j) = p
  BY <1>1, <1>3, <1>4, <1>7 DEF Sound, Once, Kids, b
<1>. QED  BY <1>4, <1>6, <1>10, <1>11, <1>12, <1>13, <1>14 DEF b, IsPointed

-----------------------------------------------------------------------------
(* A record put into a node that has room                                  *)

\* The pointer of an index record leads to a loose node; a leaf record is no
\* larger than bt_insert lets it be.
MayInsert(S, n, rec) ==
    /\ n \in Live(S) /\ rec \in Record
    /\ IF S.nd[n].leaf THEN btr_size(TRUE, rec) <= MaxInline ELSE rec.v \in Loose(S)

Linked(S, n, rec) == IF S.nd[n].leaf THEN {} ELSE {rec.v}

\* The call put the record into n and did not split it.
Put(S, D, n, X, r) ==
    /\ r.err = "ok" /\ r.i1 = NoRec /\ r.i2 = NoRec /\ r.bip = 0
    /\ Good(r.s, D) /\ Extends(S, r.s, X) /\ Live(r.s) = Live(S)
    /\ r.s.nd[n].recs # << >> /\ Empty(r.s) = Empty(S) \ {n}
    /\ \A m \in Live(S) : m # n => r.s.nd[m] = S.nd[m]

LEMMA DoneIs ==
    ASSUME NEW S
    PROVE  /\ Done(S).s = S /\ Done(S).err = "ok" /\ Done(S).i1 = NoRec /\ Done(S).i2 = NoRec
           /\ Done(S).bip = 0
BY DEF Done

\* A node that has the record is what the call makes of n.
LEMMA PutIs ==
    ASSUME NEW S, NEW D, NEW T, Good(S, D), NEW n \in Live(S), NEW c \in Node, Wrote(S, T, n, c),
           Sound(c), c.leaf = S.nd[n].leaf, NEW X \in SUBSET Loose(S),
           Kids(c) \subseteq Kids(S.nd[n]) \cup X, c.recs # << >>
    PROVE  Put(S, D, n, X, Done(T))
<1>1. IsOneNode(S, T, D, n, c, X)
  BY OneNode, Zenon
<1>. QED  BY <1>1, DoneIs DEF IsOneNode, Put

\* n is an empty index node, and its first two pointers are to be p and rec's.
MayStart(S, n, p, rec) ==
    /\ n \in Live(S) /\ ~S.nd[n].leaf /\ S.nd[n].recs = << >>
    /\ p = 0 \/ p \in Loose(S)
    /\ rec.v \in Loose(S) /\ rec.v # p

LEMMA FirstIndexRecord ==
    ASSUME NEW S, NEW D, Good(S, D), NEW n, NEW p, NEW rec \in Record, MayStart(S, n, p, rec),
           NEW r, r = btn_insert_first_index_record(S, n, p, rec)
    PROVE  Aborted(r) \/ Put(S, D, n, {p, rec.v} \ {0}, r)
<1>. DEFINE b == S.nd[n]
            z == btr_size(FALSE, rec)
            sz == z + PtrSz
            c == [b EXCEPT !.first = p, !.recs = <<rec>>, !.free = @ - sz]
            T == [S EXCEPT !.nd[n] = c, !.dirty = @ \cup {n}]
            X == {p, rec.v} \ {0}
<1>0. n \in Live(S) /\ (p = 0 \/ p \in Loose(S)) /\ rec.v \in Loose(S) /\ rec.v # p
  BY DEF MayStart
<1>1. S \in State /\ b \in Node /\ p \in Nat /\ Sound(b) /\ 0 \notin Loose(S)
  <2>1. S \in State /\ Loose(S) \subseteq Nat /\ 0 \notin Loose(S)
    BY Blocks DEF Good, Loose, Live
  <2>2. S.nd[n] \in Node /\ n \in NodeBlks /\ Sound(S.nd[n])
    BY <1>0, <2>1, Fields DEF Good
  <2>. QED  BY <1>0, <2>1, <2>2
<1>2. b.leaf = FALSE /\ b.recs = << >>
  BY <1>1 DEF Node, MayStart
<1>3. r = IF sz > b.free THEN Abort(S, "recsz <= btnp->btnp_freespace") ELSE Done(T)
  BY Zenon DEF btn_insert_first_index_record
<1>4. <<rec>> \in Seq(Record) /\ Len(<<rec>>) = 1 /\ <<rec>>[1] = rec /\ <<rec>> # << >>
  OBVIOUS
<1>7. z \in Nat
  BY SizeOfRecord, Zenon
<1>. HIDE DEF b, z
<1>5. CASE sz > b.free
  BY <1>1, <1>3, <1>5, AbortIs
<1>6. CASE ~(sz > b.free)
  <2>1. sz \in Nat /\ b.free \in Int
    BY <1>1, <1>7, Sizes, NodeFields
  <2>2. /\ c \in Node /\ c.leaf = FALSE /\ c.root = b.root /\ c.first = p /\ c.recs = <<rec>>
        /\ c.free = b.free - sz
    <3>. DEFINE x == b.free - sz
    <3>1. c = [b EXCEPT !.first = p, !.recs = <<rec>>, !.free = x] /\ x \in Int
      BY <2>1
    <3>2. <<rec>> \in Seq(Record)
      BY <1>4
    <3>. DEFINE y == <<rec>>
    <3>. HIDE DEF c, x, y
    <3>3. c = [b EXCEPT !.first = p, !.recs = y, !.free = x]
      BY <3>1 DEF y
    <3>4. y \in Seq(Record)
      BY <3>2 DEF y
    <3>5. c \in Node /\ c.leaf = b.leaf /\ c.root = b.root /\ c.first = p /\ c.recs = y /\ c.free = x
      BY <1>1, <3>1, <3>3, <3>4 DEF Node
    <3>. QED  BY <1>2, <3>5 DEF x, y
  <2>3. T = [S EXCEPT !.nd[n] = c, !.dirty = @ \cup {n} \cup {}]
    BY <1>1 DEF State
  <2>. HIDE DEF c, T
  <2>4. Wrote(S, T, n, c)
    BY <1>0, <2>2, <2>3, WroteIs
  <2>5. Accounted(c)
    <3>1. SizeOf(c.leaf, c.recs) = z
      BY <2>2, SizeOfOne, Zenon DEF z
    <3>2. SizeOf(b.leaf, b.recs) = 0
      BY <1>2, SizeOfOne, Zenon
    <3>3. Accounted(b) /\ b.root \in BOOLEAN
      BY <1>1, NodeFields DEF Sound
    <3>4. Overhead(c) = Overhead(b) + PtrSz /\ Overhead(b) \in Int
      BY <1>2, <1>4, <2>2, <3>3, Sizes DEF Overhead
    <3>. QED  BY <1>6, <1>7, <2>1, <2>2, <3>1, <3>2, <3>3, <3>4, Sizes DEF Accounted
  <2>6. Ptr(c, 0) = p /\ Ptr(c, 1) = rec.v
    BY <1>4, <2>2 DEF Ptr
  <2>7. Sound(c)
    <3>1. Ascending(c.recs)
      BY <1>4, <2>2 DEF Ascending
    <3>2. Once(c)
      <4>1. \A i \in 0 .. Len(c.recs) : i = 0 \/ i = 1
        <5>1. Len(c.recs) = 1
          BY <1>4, <2>2
        <5>. QED  BY <5>1
      <4>. QED  BY <1>0, <2>6, <4>1 DEF Once
    <3>. QED  BY <2>5, <3>1, <3>2 DEF Sound
  <2>8. X \in SUBSET Loose(S) /\ Kids(c) \subseteq Kids(S.nd[n]) \cup X /\ c.recs # << >>
    <3>1. \A i \in 0 .. Len(c.recs) : i = 0 \/ i = 1
      <4>1. Len(c.recs) = 1
        BY <1>4, <2>2
      <4>. QED  BY <4>1
    <3>. QED  BY <1>0, <1>4, <2>2, <2>6, <3>1 DEF Kids
  <2>. HIDE DEF X
  <2>9. c.leaf = S.nd[n].leaf
    BY <1>2, <2>2 DEF b
  <2>10. Put(S, D, n, X, Done(T))
    BY <1>0, <2>2, <2>4, <2>7, <2>8, <2>9, PutIs, Zenon
  <2>. QED  BY <1>3, <1>6, <2>10 DEF X
<1>. QED  BY <1>5, <1>6

\* The pointers of an index node with a record put in at p.
LEMMA PointersWith ==
    ASSUME NEW b \in Node, NEW c \in Node, ~b.leaf, ~c.leaf, NEW p \in 1 .. Len(b.recs) + 1,
           NEW rec \in Record, c.first = b.first, c.recs = InsertAt(b.recs, p, rec)
    PROVE  /\ Kids(c) \subseteq Kids(b) \cup {rec.v}
           /\ Once(b) /\ rec.v \notin Kids(b) => Once(c)
<1>. DEFINE s == b.recs
            t == c.recs
<1>1. s \in Seq(Record) /\ Len(s) \in Nat /\ p \in Nat /\ 1 <= p /\ p <= Len(s) + 1
  BY NodeFields
<1>2. /\ Len(t) = Len(s) + 1
      /\ \A i \in 1 .. Len(s) : i < p => t[i] = s[i]
      /\ t[p] = rec
      /\ \A i \in 1 .. Len(s) : p <= i => t[i + 1] = s[i]
  <2>1. IsInserted(t, s, p, rec)
    BY <1>1, InsertedAt, Zenon
  <2>. QED  BY <2>1 DEF IsInserted
<1>3. ASSUME NEW i \in 0 .. Len(t)
      PROVE  /\ i < p => i \in 0 .. Len(s) /\ Ptr(c, i) = Ptr(b, i)
             /\ i = p => Ptr(c, i) = rec.v
             /\ i > p => i - 1 \in 1 .. Len(s) /\ Ptr(c, i) = Ptr(b, i - 1)
  <2>1. CASE i < p
    <3>1. i = 0 \/ i \in 1 .. Len(s)
      BY <1>1, <1>2, <2>1
    <3>. QED  BY <1>1, <1>2, <2>1, <3>1 DEF Ptr
  <2>2. CASE i = p
    BY <1>1, <1>2, <2>2 DEF Ptr
  <2>3. CASE i > p
    <3>1. i - 1 \in 1 .. Len(s) /\ p <= i - 1 /\ (i - 1) + 1 = i /\ i # 0 /\ i - 1 # 0
      BY <1>1, <1>2, <2>3
    <3>2. t[i] = s[i - 1]
      BY <1>2, <3>1
    <3>. QED  BY <1>1, <2>3, <3>1, <3>2 DEF Ptr
  <2>. QED  BY <1>1, <2>1, <2>2, <2>3
<1>4. \A i \in 0 .. Len(t) : i \in Nat /\ (i < p \/ i = p \/ i > p)
  BY <1>1, <1>2
<1>5. Kids(c) \subseteq Kids(b) \cup {rec.v}
  <2>1. ASSUME NEW i \in 0 .. Len(t)  PROVE Ptr(c, i) = rec.v \/ \E j \in 0 .. Len(s) : Ptr(c, i) = Ptr(b, j)
    BY <1>3, <1>4
  <2>. QED  BY <2>1 DEF Kids
<1>6. ASSUME Once(b), rec.v \notin Kids(b)  PROVE Once(c)
  <2>1. \A j \in 0 .. Len(s) : Ptr(b, j) = rec.v => rec.v = 0
    BY <1>6 DEF Kids
  <2>2. ASSUME NEW i \in 0 .. Len(t), NEW j \in 0 .. Len(t), i < j, Ptr(c, i) = Ptr(c, j)
        PROVE  Ptr(c, i) = 0
    <3>1. CASE i = p \/ j = p
      <4>1. CASE i = p
        <5>1. j > p /\ Ptr(c, i) = rec.v /\ Ptr(c, j) = Ptr(b, j - 1) /\ j - 1 \in 0 .. Len(s)
          BY <1>1, <1>3, <1>4, <2>2, <4>1
        <5>. QED  BY <2>1, <2>2, <5>1
      <4>2. CASE j = p
        <5>1. i < p /\ Ptr(c, j) = rec.v /\ Ptr(c, i) = Ptr(b, i) /\ i \in 0 .. Len(s)
          BY <1>1, <1>3, <1>4, <2>2, <4>2
        <5>. QED  BY <2>1, <2>2, <5>1
      <4>. QED  BY <3>1, <4>1, <4>2
    <3>2. CASE i # p /\ j # p
      <4>. DEFINE x == IF i < p THEN i ELSE i - 1
                  y == IF j < p THEN j ELSE j - 1
      <4>1. x \in 0 .. Len(s) /\ Ptr(c, i) = Ptr(b, x)
        BY <1>1, <1>3, <1>4, <3>2
      <4>2. y \in 0 .. Len(s) /\ Ptr(c, j) = Ptr(b, y)
        BY <1>1, <1>3, <1>4, <3>2
      <4>3. x # y
        BY <1>1, <1>4, <2>2, <3>2
      <4>. HIDE DEF x, y
      <4>. QED  BY <1>6, <2>2, <4>1, <4>2, <4>3 DEF Once
    <3>. QED  BY <3>1, <3>2
  <2>3. ASSUME NEW i \in 0 .. Len(t), NEW j \in 0 .. Len(t), i # j, Ptr(c, i) = Ptr(c, j)
        PROVE  Ptr(c, i) = 0
    <3>1. i < j \/ j < i
      BY <1>4, <2>3
    <3>. QED  BY <2>2, <2>3, <3>1
  <2>. QED  BY <2>3 DEF Once
<1>. QED  BY <1>5, <1>6

LEMMA InsertHereIs ==
    ASSUME NEW S, NEW D, Good(S, D), NEW n, NEW rec, MayInsert(S, n, rec), ~MustSplit(S.nd[n], rec),
           NEW r, r = InsertHere(S, n, rec)
    PROVE  Aborted(r) \/ r = Fail(S, "EEXIST") \/ Put(S, D, n, Linked(S, n, rec), r)
<1>. DEFINE b == S.nd[n]
            i == At(b.recs, rec.k)
            c == [b EXCEPT !.recs = InsertAt(@, i, rec), !.free = @ - btr_size(b.leaf, rec)]
            T == [S EXCEPT !.nd[n] = c, !.dirty = @ \cup {n}]
            X == Linked(S, n, rec)
<1>1. /\ S \in State /\ b \in Node /\ Sound(b) /\ n \in Live(S) /\ rec \in Record /\ rec.k \in Nat
      /\ ~b.leaf => rec.v \in Loose(S)
  <2>1. S \in State /\ n \in Live(S) /\ rec \in Record
    BY DEF Good, MayInsert
  <2>2. S.nd[n] \in Node /\ Sound(S.nd[n])
    BY <2>1, Fields DEF Good
  <2>. QED  BY <2>1, <2>2 DEF MayInsert, Record
<1>2. 0 \notin Loose(S)
  BY Blocks DEF Loose, Live
<1>3. r = IF ~b.leaf /\ b.recs = << >> THEN btn_insert_first_index_record(S, n, 0, rec)
          ELSE IF i <= Len(b.recs) /\ b.recs[i].k = rec.k THEN Fail(S, "EEXIST")
          ELSE Done(T)
  BY Zenon DEF InsertHere
<1>4. CASE ~b.leaf /\ b.recs = << >>
  <2>1. rec.v \in Loose(S) /\ rec.v # 0 /\ {0, rec.v} \ {0} = X
    BY <1>1, <1>2, <1>4 DEF Linked
  <2>2. r = btn_insert_first_index_record(S, n, 0, rec)
    BY <1>3, <1>4
  <2>3. Aborted(r) \/ Put(S, D, n, {0, rec.v} \ {0}, r)
    <3>1. MayStart(S, n, 0, rec)
      BY <1>1, <1>4, <2>1 DEF MayStart
    <3>. QED  BY <1>1, <2>2, <3>1, FirstIndexRecord
  <2>. QED  BY <2>1, <2>3
<1>5. CASE ~(~b.leaf /\ b.recs = << >>) /\ i <= Len(b.recs) /\ b.recs[i].k = rec.k
  BY <1>3, <1>5
<1>6. CASE ~(~b.leaf /\ b.recs = << >>) /\ ~(i <= Len(b.recs) /\ b.recs[i].k = rec.k)
  <2>1. r = Done(T)
    BY <1>3, <1>6
  <2>2. btr_size(b.leaf, rec) <= b.free
    <3>1. btr_size(b.leaf, rec) \in Nat /\ b.free \in Int
      BY <1>1, NodeFields, SizeOfRecord
    <3>. QED  BY <1>6, <3>1 DEF MustSplit
  <2>3. i \in 1 .. Len(b.recs) + 1 /\ b.recs \in Seq(Record) /\ b.leaf \in BOOLEAN
    BY <1>1, NodeFields, AtIs
  <2>. DEFINE q == InsertAt(b.recs, i, rec)
  <2>4. /\ q \in Seq(Record) /\ Len(q) = Len(b.recs) + 1
        /\ \A leaf \in BOOLEAN : SizeOf(leaf, q) = SizeOf(leaf, b.recs) + btr_size(leaf, rec)
    <3>1. IsInserted(q, b.recs, i, rec)
      BY <1>1, <2>3, InsertedAt, Zenon
    <3>. QED  BY <3>1 DEF IsInserted
  <2>5. Ascending(q)
    BY <1>1, <1>6, <2>3, InOrderStill DEF Sound
  <2>6. /\ c \in Node /\ c.leaf = b.leaf /\ c.root = b.root /\ c.first = b.first
        /\ c.recs = q /\ c.free = b.free - btr_size(b.leaf, rec)
    <3>1. btr_size(b.leaf, rec) \in Nat
      BY <1>1, <2>3, SizeOfRecord
    <3>. HIDE DEF b, i, q
    <3>. DEFINE x == b.free - btr_size(b.leaf, rec)
    <3>2. c = [b EXCEPT !.recs = q, !.free = x]
      BY DEF q
    <3>3. x \in Int /\ q \in Seq(Record)
      BY <1>1, <2>4, <3>1, NodeFields
    <3>. HIDE DEF c, x
    <3>4. c \in Node /\ c.leaf = b.leaf /\ c.root = b.root /\ c.first = b.first /\ c.recs = q /\ c.free = x
      BY <1>1, <3>2, <3>3 DEF Node
    <3>. QED  BY <3>4 DEF x
  <2>7. T = [S EXCEPT !.nd[n] = c, !.dirty = @ \cup {n} \cup {}]
    <3>. HIDE DEF c
    <3>. QED  BY <1>1 DEF State
  <2>8. Linked(S, n, rec) = IF b.leaf THEN {} ELSE {rec.v}
    BY DEF Linked
  <2>9. b = S.nd[n]
    OBVIOUS
  <2>10. Len(b.recs) \in Nat
    BY <1>1, NodeFields
  <2>. HIDE DEF b, c, T, q, X
  <2>11. Wrote(S, T, n, c)
    BY <1>1, <2>6, <2>7, WroteIs
  <2>12. c.recs # << >>
    BY <2>4, <2>6, <2>10
  <2>13. Accounted(c)
    <3>1. Accounted(b) /\ b.free \in Int /\ btr_size(b.leaf, rec) \in Nat
      BY <1>1, <2>3, NodeFields, SizeOfRecord DEF Sound
    <3>2. Overhead(c) = Overhead(b)
      BY <1>6, <2>6, <2>12 DEF Overhead
    <3>3. Overhead(b) \in Int /\ SizeOf(b.leaf, b.recs) \in Nat
      BY <2>3, Sizes, SizeIsNat DEF Overhead
    <3>. QED  BY <2>2, <2>3, <2>4, <2>6, <3>1, <3>2, <3>3, Sizes DEF Accounted
  <2>14. Sound(c) /\ Kids(c) \subseteq Kids(b) \cup Linked(S, n, rec)
    <3>1. CASE b.leaf
      BY <2>5, <2>6, <2>13, <3>1 DEF Sound, Once, Kids
    <3>2. CASE ~b.leaf
      <4>1. rec.v \notin Kids(b)
        BY <1>1, <2>9, <3>2 DEF Loose, Orphan
      <4>2. Kids(c) \subseteq Kids(b) \cup {rec.v} /\ Once(c)
        <5>1. Once(b) /\ c.recs = InsertAt(b.recs, i, rec) /\ ~c.leaf
          BY <1>1, <2>6, <3>2 DEF Sound, q
        <5>. HIDE DEF i
        <5>. QED  BY <1>1, <2>3, <2>6, <3>2, <4>1, <5>1, PointersWith
      <4>. QED  BY <2>5, <2>6, <2>8, <2>13, <3>2, <4>2 DEF Sound
    <3>. QED  BY <3>1, <3>2
  <2>15. Linked(S, n, rec) \in SUBSET Loose(S)
    BY <1>1, <2>8
  <2>16. Put(S, D, n, Linked(S, n, rec), Done(T))
    BY <1>1, <2>6, <2>9, <2>11, <2>12, <2>14, <2>15, PutIs, Zenon
  <2>. QED  BY <2>1, <2>16 DEF T
<1>. QED  BY <1>4, <1>5, <1>6

-----------------------------------------------------------------------------
(* The split of a node                                                     *)

\* An index record takes less than half of a block: the code does not require
\* it, but without it a split may leave an index node without a record.
ShortKeys == KeySz + PtrSz < MaxInline \div 2

\* The tail of a sequence of index records, when the head has at least one, and
\* one more record.
LEMMA IndexTail ==
    ASSUME NEW s \in Seq(Record), NEW c \in 2 .. Len(s), NEW r \in Record
    PROVE  SizeOf(FALSE, SubSeq(s, c, Len(s))) + btr_size(FALSE, r) <= SizeOf(FALSE, s)
<1>. DEFINE e == SubSeq(s, 1, c - 1)
            d == SubSeq(s, c, Len(s))
            a == SubSeq(e, 1, 1)
            o == SubSeq(e, 2, Len(e))
            z == btr_size(FALSE, r)
<1>1. c \in 1 .. Len(s) + 1 /\ Len(s) \in Nat
  OBVIOUS
<1>2. Cuts(s, c, e, d)
  BY Zenon DEF Cuts
<1>. HIDE DEF e, d
<1>3. IsCut(s, c, e, d)
  BY <1>1, <1>2, CutAt, Zenon
<1>4. e \in Seq(Record) /\ d \in Seq(Record) /\ Len(e) = c - 1 /\ 2 \in 1 .. Len(e) + 1 /\ e[1] \in Record
  BY <1>1, <1>3 DEF IsCut
<1>5. Cuts(e, 2, a, o)
  BY DEF Cuts
<1>. HIDE DEF a, o, z
<1>7. IsCut(e, 2, a, o)
  BY <1>4, <1>5, CutAt, Zenon
<1>8. a \in Seq(Record) /\ o \in Seq(Record) /\ FALSE \in BOOLEAN
  BY <1>7 DEF IsCut
<1>9. SizeOf(FALSE, a) = z
  <2>1. <<r>> \in Seq(Record) /\ Len(<<r>>) = 1
    OBVIOUS
  <2>2. Len(a) = Len(<<r>>)
    BY <1>7, <2>1 DEF IsCut
  <2>3. \A i \in 1 .. Len(a) : btr_size(FALSE, a[i]) = btr_size(FALSE, <<r>>[i])
    BY DEF btr_size
  <2>4. SizeOf(FALSE, a) = SizeOf(FALSE, <<r>>)
    BY <1>8, <2>1, <2>2, <2>3, SameSizes, Zenon
  <2>. QED  BY <1>8, <2>4, SizeOfOne, Zenon DEF z
<1>10. SizeOf(FALSE, s) = SizeOf(FALSE, e) + SizeOf(FALSE, d)
  BY <1>3, <1>8, Zenon DEF IsCut
<1>11. SizeOf(FALSE, e) = SizeOf(FALSE, a) + SizeOf(FALSE, o)
  BY <1>7, <1>8, Zenon DEF IsCut
<1>. DEFINE ss == SizeOf(FALSE, s)
            se == SizeOf(FALSE, e)
            sd == SizeOf(FALSE, d)
            so == SizeOf(FALSE, o)
<1>12. sd \in Nat /\ so \in Nat /\ z \in Nat
  <2>1. z \in Nat
    BY SizeOfRecord, Zenon DEF z
  <2>. QED  BY <1>4, <1>8, <2>1, SizeIsNat, Zenon
<1>13. ss = se + sd /\ se = z + so
  BY <1>9, <1>10, <1>11, Zenon
<1>. HIDE DEF ss, se, sd, so
<1>14. sd + z <= ss
  BY <1>12, <1>13
<1>. QED  BY <1>14 DEF ss, sd, d, z

\* Two nodes change, and share the pointers of one of them.
LEMMA TwoNodes ==
    ASSUME NEW S, NEW D, NEW T, Good(S, D), NEW n \in Live(S), NEW m \in Live(S), n # m,
           NEW c \in Node, NEW e \in Node, T \in State,
           T.nd = [S.nd EXCEPT ![n] = c, ![m] = e], T.alloc = S.alloc, T.root = S.root,
           S.dirty \cup {n, m} \subseteq T.dirty,
           Sound(c), Sound(e), c.leaf = S.nd[n].leaf, e.leaf = S.nd[m].leaf,
           Kids(c) \subseteq Kids(S.nd[n]), Kids(e) \subseteq Kids(S.nd[n]), Kids(c) \cap Kids(e) = {},
           Kids(S.nd[m]) = {}
    PROVE  Good(T, D) /\ Extends(S, T, {}) /\ Live(T) = Live(S)
<1>1. S \in State /\ n \in NodeBlks /\ m \in NodeBlks
  BY DEF Good, Live
<1>2. Live(T) = Live(S)
  BY DEF Live
<1>3. T.nd[n] = c /\ T.nd[m] = e /\ \A l \in Live(S) : l # n /\ l # m => T.nd[l] = S.nd[l]
  BY <1>1, Fields
<1>4. \A l \in Live(S) : IF l = m THEN Kids(T.nd[l]) \subseteq Kids(S.nd[n])
                         ELSE Kids(T.nd[l]) \subseteq Kids(S.nd[l])
  BY <1>3
<1>5. \A l \in Live(T) : Sound(T.nd[l])
  BY <1>2, <1>3 DEF Good
<1>6. \A l \in Live(T) : Kids(T.nd[l]) \subseteq Live(T) \ {T.root}
  BY <1>2, <1>4 DEF Good
<1>7. ASSUME NEW l \in Live(T), NEW k \in Live(T), l # k  PROVE Kids(T.nd[l]) \cap Kids(T.nd[k]) = {}
  <2>1. /\ Kids(S.nd[l]) \cap Kids(S.nd[k]) = {}
        /\ l # n => Kids(S.nd[l]) \cap Kids(S.nd[n]) = {}
        /\ k # n => Kids(S.nd[k]) \cap Kids(S.nd[n]) = {}
    BY <1>2, <1>7 DEF Good
  <2>2. CASE l # m /\ k # m
    BY <1>2, <1>4, <2>1, <2>2
  <2>3. CASE l = m
    BY <1>2, <1>3, <1>4, <1>7, <2>1, <2>3
  <2>4. CASE k = m
    BY <1>2, <1>3, <1>4, <1>7, <2>1, <2>4
  <2>. QED  BY <2>2, <2>3, <2>4
<1>8. Synced(T, D)
  BY <1>2, <1>3 DEF Synced, Good
<1>9. Good(T, D)
  BY <1>2, <1>5, <1>6, <1>7, <1>8 DEF Good
<1>10. Extends(S, T, {})
  <2>1. \A l \in Live(S) : T.nd[l].leaf = S.nd[l].leaf
    BY <1>3
  <2>2. Loose(S) \subseteq Loose(T)
    <3>1. \A p \in Loose(S) : \A l \in Live(S) : p \notin Kids(T.nd[l])
      BY <1>4 DEF Loose, Orphan
    <3>. QED  BY <1>2, <3>1 DEF Loose, Orphan
  <2>. QED  BY <2>1, <2>2 DEF Extends
<1>. QED  BY <1>2, <1>9, <1>10

\* A node that only stops being the root need not be marked dirty.
LEMMA Unrooted ==
    ASSUME NEW S, NEW D, NEW T, Good(S, D), NEW n \in Live(S), NEW c \in Node,
           T \in State, T.nd = [S.nd EXCEPT ![n] = c], T.alloc = S.alloc, T.root = S.root,
           T.dirty = S.dirty,
           Sound(c), c.leaf = S.nd[n].leaf, c.first = S.nd[n].first, c.recs = S.nd[n].recs
    PROVE  Good(T, D) /\ Extends(S, T, {}) /\ Live(T) = Live(S)
<1>1. S \in State /\ n \in NodeBlks
  BY DEF Good, Live
<1>3. Live(T) = Live(S)
  BY DEF Live
<1>4. T.nd[n] = c /\ \A l \in Live(S) : l # n => T.nd[l] = S.nd[l]
  BY <1>1, Fields
<1>5. \A l \in Live(S) : Kids(T.nd[l]) = Kids(S.nd[l])
  <2>1. Kids(c) = Kids(S.nd[n])
    BY DEF Kids, Ptr
  <2>. QED  BY <1>4, <2>1
<1>6. \A l \in Live(T) : Sound(T.nd[l])
  BY <1>3, <1>4 DEF Good
<1>7. Synced(T, D)
  <2>1. \A l \in Live(S) : T.nd[l].leaf = S.nd[l].leaf /\ T.nd[l].first = S.nd[l].first /\ T.nd[l].recs = S.nd[l].recs
    BY <1>4
  <2>. QED  BY <1>3, <2>1 DEF Synced, Good, Stored
<1>8. Good(T, D)
  BY <1>3, <1>5, <1>6, <1>7 DEF Good
<1>9. Extends(S, T, {})
  <2>1. Loose(S) = Loose(T)
    BY <1>3, <1>5 DEF Loose, Orphan
  <2>. QED  BY <1>4, <2>1 DEF Extends
<1>. QED  BY <1>3, <1>8, <1>9

\* The pointers of the two parts of a node.
LEMMA PointersCut ==
    ASSUME NEW b \in Node, NEW c \in Node, NEW e \in Node, c.leaf = b.leaf, e.leaf = b.leaf, Once(b),
           NEW cut \in 1 .. Len(b.recs) + 1, IsCut(b.recs, cut, c.recs, e.recs),
           c.first = b.first, e.first = 0
    PROVE  /\ Kids(c) \subseteq Kids(b) /\ Kids(e) \subseteq Kids(b) /\ Kids(c) \cap Kids(e) = {}
           /\ Once(c) /\ Once(e)
<1>1. CASE b.leaf
  BY <1>1 DEF Kids, Once
<1>2. CASE ~b.leaf
  <2>1. Len(b.recs) \in Nat /\ cut \in Nat /\ 1 <= cut /\ cut <= Len(b.recs) + 1
    BY NodeFields
  <2>2. /\ Len(c.recs) = cut - 1 /\ \A i \in 1 .. cut - 1 : c.recs[i] = b.recs[i]
        /\ Len(e.recs) = Len(b.recs) - cut + 1 /\ \A i \in 1 .. Len(e.recs) : e.recs[i] = b.recs[cut - 1 + i]
    BY DEF IsCut
  <2>3. \A i \in 0 .. cut - 1 : i \in 0 .. Len(b.recs) /\ Ptr(c, i) = Ptr(b, i)
    <3>1. ASSUME NEW i \in 0 .. cut - 1  PROVE i \in 0 .. Len(b.recs) /\ Ptr(c, i) = Ptr(b, i)
      <4>1. i \in 0 .. Len(b.recs) /\ (i = 0 \/ i \in 1 .. cut - 1)
        BY <2>1
      <4>. QED  BY <2>2, <4>1 DEF Ptr
    <3>. QED  BY <3>1
  <2>4. Ptr(e, 0) = 0
    BY DEF Ptr
  <2>5. ASSUME NEW i \in 1 .. Len(e.recs)
        PROVE  cut - 1 + i \in cut .. Len(b.recs) /\ cut - 1 + i \in 0 .. Len(b.recs)
               /\ Ptr(e, i) = Ptr(b, cut - 1 + i)
    <3>1. cut - 1 + i \in cut .. Len(b.recs) /\ cut - 1 + i \in 0 .. Len(b.recs) /\ i # 0 /\ cut - 1 + i # 0
      BY <2>1, <2>2
    <3>. QED  BY <2>2, <3>1 DEF Ptr
  <2>6. \A i \in 0 .. Len(e.recs) : i = 0 \/ i \in 1 .. Len(e.recs)
    BY <2>1, <2>2
  <2>7. \A i, j \in 0 .. Len(b.recs) : i # j /\ Ptr(b, i) = Ptr(b, j) => Ptr(b, i) = 0
    BY <1>2 DEF Once
  <2>8. Once(c)
    BY <2>2, <2>3, <2>7 DEF Once
  <2>9. Once(e)
    <3>1. ASSUME NEW i \in 0 .. Len(e.recs), NEW j \in 0 .. Len(e.recs), i # j, Ptr(e, i) = Ptr(e, j)
          PROVE  Ptr(e, i) = 0
      <4>1. CASE i = 0 \/ j = 0
        BY <2>4, <3>1, <4>1
      <4>2. CASE i # 0 /\ j # 0
        <5>1. i \in 1 .. Len(e.recs) /\ j \in 1 .. Len(e.recs) /\ cut - 1 + i # cut - 1 + j
          BY <2>1, <2>6, <3>1, <4>2
        <5>. QED  BY <2>5, <2>7, <3>1, <5>1
      <4>. QED  BY <4>1, <4>2
    <3>. QED  BY <3>1 DEF Once
  <2>10. Kids(c) \subseteq Kids(b)
    BY <1>2, <2>2, <2>3 DEF Kids
  <2>11. Kids(e) \subseteq Kids(b)
    BY <1>2, <2>4, <2>5, <2>6 DEF Kids
  <2>12. Kids(c) \cap Kids(e) = {}
    <3>1. SUFFICES ASSUME NEW p \in Kids(c), p \in Kids(e)  PROVE FALSE
      OBVIOUS
    <3>2. PICK i \in 0 .. cut - 1 : p = Ptr(b, i) /\ p # 0 /\ i \in 0 .. Len(b.recs)
      BY <1>2, <2>2, <2>3 DEF Kids
    <3>3. PICK j \in 1 .. Len(e.recs) : p = Ptr(e, j)
      BY <1>2, <2>4, <2>6, <3>1, <3>2 DEF Kids
    <3>4. cut - 1 + j \in cut .. Len(b.recs) /\ cut - 1 + j \in 0 .. Len(b.recs) /\ p = Ptr(b, cut - 1 + j)
      BY <2>5, <3>3
    <3>5. i # cut - 1 + j
      BY <2>1, <3>4
    <3>. QED  BY <2>7, <3>2, <3>4, <3>5
  <2>. QED  BY <2>8, <2>9, <2>10, <2>11, <2>12
<1>. QED  BY <1>1, <1>2

\* The node in n when the tail is gone, and the new node with the tail.
HeadNode(b, e, z) ==
    [b EXCEPT !.root = FALSE, !.recs = e, !.free = @ + z + (IF b.root THEN InfoSz ELSE 0)]

TailNode(b, d, z) ==
    [NewNode(b.leaf, FALSE) EXCEPT !.recs = d, !.free = @ - z - (IF b.leaf THEN 0 ELSE PtrSz)]

IsParts(b, c, g, cut) ==
    /\ c \in Node /\ Sound(c) /\ c.leaf = b.leaf /\ c.first = b.first /\ ~c.root
    /\ g \in Node /\ g.leaf = b.leaf /\ ~g.root
    /\ IsCut(b.recs, cut, c.recs, g.recs)
    /\ Kids(c) \subseteq Kids(b) /\ Kids(g) \subseteq Kids(b) /\ Kids(c) \cap Kids(g) = {}
    /\ g.recs # << >> => Sound(g)

LEMMA NodeParts ==
    ASSUME NEW b \in Node, Sound(b), NEW cut \in 1 .. Len(b.recs) + 1, b.leaf \/ cut > 1,
           NEW e, NEW d, Cuts(b.recs, cut, e, d),
           NEW c, c = HeadNode(b, e, SizeOf(b.leaf, d)), NEW g, g = TailNode(b, d, SizeOf(b.leaf, d))
    PROVE  IsParts(b, c, g, cut) /\ c.recs = e /\ g.recs = d
<1>. DEFINE s == b.recs
            z == SizeOf(b.leaf, d)
            y == SizeOf(b.leaf, e)
            x == SizeOf(b.leaf, s)
<1>1. /\ b.leaf \in BOOLEAN /\ b.root \in BOOLEAN /\ b.free \in Int /\ s \in Seq(Record)
      /\ Len(s) \in Nat /\ cut \in Nat
  BY NodeFields
<1>2. IsCut(s, cut, e, d)
  BY <1>1, CutAt, Zenon
<1>3. /\ e \in Seq(Record) /\ Len(e) = cut - 1 /\ d \in Seq(Record) /\ Len(d) = Len(s) - cut + 1
      /\ x = y + z /\ Ascending(e) /\ Ascending(d)
  BY <1>1, <1>2 DEF IsCut, Sound
<1>4. x \in Nat /\ y \in Nat /\ z \in Nat
  BY <1>1, <1>3, SizeIsNat
<1>. HIDE DEF x, y, z
<1>5. /\ c \in Node /\ c.leaf = b.leaf /\ c.first = b.first /\ c.root = FALSE /\ c.recs = e
      /\ c.free = b.free + z + (IF b.root THEN InfoSz ELSE 0)
  <2>. DEFINE f == b.free + z + (IF b.root THEN InfoSz ELSE 0)
  <2>1. c = [b EXCEPT !.root = FALSE, !.recs = e, !.free = f]
    BY DEF HeadNode, z
  <2>2. f \in Int
    BY <1>1, <1>4, Sizes
  <2>. HIDE DEF f
  <2>3. /\ c \in Node /\ c.leaf = b.leaf /\ c.first = b.first /\ c.root = FALSE /\ c.recs = e
        /\ c.free = f
    BY <1>3, <2>1, <2>2 DEF Node
  <2>. QED  BY <2>3 DEF f
<1>6. /\ g \in Node /\ g.leaf = b.leaf /\ g.first = 0 /\ g.root = FALSE /\ g.recs = d
      /\ g.free = MaxInline - z - (IF b.leaf THEN 0 ELSE PtrSz)
  <2>. DEFINE h == NewNode(b.leaf, FALSE)
              f == h.free - z - (IF b.leaf THEN 0 ELSE PtrSz)
  <2>1. h \in Node /\ h.leaf = b.leaf /\ h.first = 0 /\ h.root = FALSE /\ h.free = MaxInline
    <3>1. h \in Node
      BY <1>1, NewNodeIs
    <3>. QED  BY <3>1, Sizes DEF NewNode
  <2>2. g = [h EXCEPT !.recs = d, !.free = f]
    BY DEF TailNode, z
  <2>. HIDE DEF h
  <2>3. f \in Int /\ f = MaxInline - z - (IF b.leaf THEN 0 ELSE PtrSz)
    <3>1. CASE b.leaf
      BY <1>4, <2>1, <3>1, Sizes
    <3>2. CASE ~b.leaf
      BY <1>4, <2>1, <3>2, Sizes
    <3>. QED  BY <3>1, <3>2
  <2>. HIDE DEF f
  <2>4. /\ g \in Node /\ g.leaf = b.leaf /\ g.first = 0 /\ g.root = FALSE /\ g.recs = d
        /\ g.free = f
    BY <1>1, <1>3, <2>1, <2>2, <2>3 DEF Node
  <2>. QED  BY <2>3, <2>4
<1>7. IsCut(s, cut, c.recs, g.recs)
  BY <1>2, <1>5, <1>6
<1>8. /\ Kids(c) \subseteq Kids(b) /\ Kids(g) \subseteq Kids(b) /\ Kids(c) \cap Kids(g) = {}
      /\ Once(c) /\ Once(g)
  BY <1>5, <1>6, <1>7, PointersCut DEF Sound
<1>9. b.free >= 0 /\ b.free = MaxInline - Overhead(b) - x
  BY DEF Sound, Accounted, x
<1>10. ~b.leaf => e # << >> /\ s # << >>
  BY <1>1, <1>3
<1>11. SizeOf(c.leaf, c.recs) = y /\ SizeOf(g.leaf, g.recs) = z
  BY <1>5, <1>6 DEF y, z
<1>. DEFINE ri == IF b.root THEN InfoSz ELSE 0
            pi == IF b.leaf THEN 0 ELSE PtrSz
<1>15. ri \in Nat /\ pi \in Nat
  BY Sizes
<1>16. Overhead(b) = ri + pi
  BY <1>10 DEF Overhead
<1>17. c.free = b.free + z + ri /\ g.free = MaxInline - z - pi
  BY <1>5, <1>6
<1>12. Sound(c)
  <2>1. Overhead(c) = pi
    BY <1>5, <1>10, Sizes DEF Overhead
  <2>. HIDE DEF ri, pi
  <2>3. c.free >= 0 /\ c.free = MaxInline - Overhead(c) - y
    BY <1>1, <1>3, <1>4, <1>9, <1>15, <1>16, <1>17, <2>1, Sizes
  <2>. QED  BY <1>3, <1>5, <1>8, <1>11, <2>3 DEF Sound, Accounted
<1>13. ASSUME d # << >>  PROVE Sound(g)
  <2>1. Overhead(g) = pi
    BY <1>6, <1>13, Sizes DEF Overhead
  <2>. HIDE DEF ri, pi
  <2>3. g.free >= 0 /\ g.free = MaxInline - Overhead(g) - z
    BY <1>1, <1>3, <1>4, <1>9, <1>15, <1>16, <1>17, <2>1, Sizes
  <2>. QED  BY <1>3, <1>6, <1>8, <1>11, <2>3 DEF Sound, Accounted
<1>14. IsParts(b, c, g, cut)
  BY <1>5, <1>6, <1>7, <1>8, <1>12, <1>13, Zenon DEF IsParts
<1>. QED  BY <1>5, <1>6, <1>14

\* A split leaves every node sound, but for a new index node without a record.
IsMoved(S, T, D, n, m, cut) ==
    /\ Good(T, D) /\ Extends(S, T, {}) /\ Live(T) = Live(S) /\ T.root = S.root
    /\ IsCut(S.nd[n].recs, cut, T.nd[n].recs, T.nd[m].recs)
    /\ T.nd[n].leaf = S.nd[n].leaf /\ ~T.nd[n].root /\ T.nd[m].leaf = S.nd[n].leaf /\ ~T.nd[m].root
    /\ \A l \in Live(S) : l # n /\ l # m => T.nd[l] = S.nd[l]

ReplacedBy(S, T, n, c) == T = [S EXCEPT !.nd[n] = c]

IsReplaced(S, T, n, c) ==
    /\ T \in State /\ T.nd = [S.nd EXCEPT ![n] = c] /\ T.alloc = S.alloc
    /\ T.root = S.root /\ T.dirty = S.dirty

LEMMA Replaced ==
    ASSUME NEW S \in State, NEW n \in NodeBlks, NEW c \in Node, NEW T, ReplacedBy(S, T, n, c)
    PROVE  IsReplaced(S, T, n, c)
BY DEF State, ReplacedBy, IsReplaced

LEMMA TailMoved ==
    ASSUME NEW S, NEW D, Good(S, D), NEW n \in Live(S), NEW m \in Live(S), n # m,
           S.nd[m] = NewNode(S.nd[n].leaf, FALSE),
           NEW cut \in 1 .. Len(S.nd[n].recs) + 1, S.nd[n].leaf \/ cut > 1,
           NEW T, T = MoveTail(S, n, m, cut)
    PROVE  IsMoved(S, T, D, n, m, cut)
<1>. DEFINE b == S.nd[n]
            e == SubSeq(b.recs, 1, cut - 1)
            d == SubSeq(b.recs, cut, Len(b.recs))
            z == SizeOf(b.leaf, d)
            c == HeadNode(b, e, z)
            g == TailNode(b, d, z)
<1>1. S \in State /\ b \in Node /\ Sound(b) /\ n \in NodeBlks /\ m \in NodeBlks /\ n \in Blks /\ m \in Blks
  BY Fields, Blocks DEF Good, Live
<1>2. Cuts(b.recs, cut, e, d)
  BY DEF Cuts
<1>3. IsParts(b, c, g, cut) /\ c.recs = e /\ g.recs = d
  <2>1. cut \in 1 .. Len(b.recs) + 1 /\ (b.leaf \/ cut > 1)
    OBVIOUS
  <2>. HIDE DEF b, e, d
  <2>. QED  BY <1>1, <1>2, <2>1, NodeParts
<1>4. Kids(S.nd[m]) = {} /\ S.nd[m].leaf = b.leaf
  BY <1>1, NewNodeIs, NodeFields
<1>5. CASE d # << >>
  <2>. DEFINE old == [b EXCEPT !.root = FALSE, !.recs = e, !.free = @ + z + (IF b.root THEN InfoSz ELSE 0)]
              pi == IF b.leaf THEN 0 ELSE PtrSz
  <2>1. T = [S EXCEPT !.nd[n] = old, !.nd[m].recs = d, !.nd[m].free = @ - z - pi, !.dirty = @ \cup {n, m}]
    BY <1>5 DEF MoveTail
  <2>2. c = old /\ g = [S.nd[m] EXCEPT !.recs = d, !.free = @ - z - pi]
    BY DEF HeadNode, TailNode
  <2>3. c \in Node /\ g \in Node
    BY <1>3 DEF IsParts
  <2>. HIDE DEF old, b, e, d, z, c, g, pi
  <2>4. /\ T \in State /\ T.nd = [S.nd EXCEPT ![n] = c, ![m] = g] /\ T.alloc = S.alloc
        /\ T.root = S.root /\ T.dirty = S.dirty \cup {n, m}
    <3>1. T.nd = [S.nd EXCEPT ![n] = old, ![m].recs = d, ![m].free = @ - z - pi]
      BY <1>1, <2>1 DEF State
    <3>2. /\ T.alloc = S.alloc /\ T.root = S.root /\ T.dirty = S.dirty \cup {n, m} /\ T.abort = S.abort
          /\ T.lost = S.lost /\ T.fault = S.fault
      BY <1>1, <2>1 DEF State
    <3>3. T.nd = [S.nd EXCEPT ![n] = c, ![m] = g]
      BY <1>1, <2>2, <3>1, Fields
    <3>4. T = [nd |-> T.nd, alloc |-> T.alloc, lost |-> T.lost, root |-> T.root, dirty |-> T.dirty,
               abort |-> T.abort, fault |-> T.fault]
      BY <1>1, <2>1 DEF State
    <3>5. T.nd \in [NodeBlks -> Node]
      <4>1. S.nd \in [NodeBlks -> Node]
        BY <1>1, Fields
      <4>2. [S.nd EXCEPT ![n] = c] \in [NodeBlks -> Node]
        BY <1>1, <2>3, <4>1
      <4>. QED  BY <1>1, <2>3, <3>3, <4>1, <4>2
    <3>6. /\ T.alloc \in SUBSET Blks /\ T.root \in NodeBlks /\ T.dirty \in SUBSET Blks /\ T.abort \in {""}
          /\ T.lost \in SUBSET Blks /\ T.fault \in Fault
      BY <1>1, <3>2, Fields
    <3>7. T \in State
      BY <3>4, <3>5, <3>6, Zenon DEF State
    <3>. QED  BY <3>2, <3>3, <3>7
  <2>5. Good(T, D) /\ Extends(S, T, {}) /\ Live(T) = Live(S)
    <3>1. /\ Sound(c) /\ Sound(g) /\ c.leaf = b.leaf /\ g.leaf = b.leaf /\ Kids(c) \subseteq Kids(b)
          /\ Kids(g) \subseteq Kids(b) /\ Kids(c) \cap Kids(g) = {}
      BY <1>3, <1>5 DEF IsParts
    <3>2. /\ S.dirty \cup {n, m} \subseteq T.dirty
          /\ c.leaf = S.nd[n].leaf /\ g.leaf = S.nd[m].leaf
          /\ Kids(c) \subseteq Kids(S.nd[n]) /\ Kids(g) \subseteq Kids(S.nd[n])
      BY <1>4, <2>4, <3>1 DEF b
    <3>. QED  BY <1>4, <2>3, <2>4, <3>1, <3>2, TwoNodes, ZenonT(60)
  <2>6. T.nd[n] = c /\ T.nd[m] = g /\ \A l \in Live(S) : l # n /\ l # m => T.nd[l] = S.nd[l]
    BY <1>1, <2>4, Fields
  <2>. QED  BY <1>3, <2>4, <2>5, <2>6 DEF IsMoved, IsParts, b
<1>6. CASE d = << >>
  <2>. DEFINE old == [b EXCEPT !.root = FALSE, !.recs = e, !.free = @ + z + (IF b.root THEN InfoSz ELSE 0)]
  <2>1. T = [S EXCEPT !.nd[n] = old]
    BY <1>6 DEF MoveTail
  <2>2. c = old
    BY DEF HeadNode
  <2>3. c \in Node /\ Sound(c) /\ c.leaf = b.leaf /\ c.first = b.first /\ ~c.root
        /\ IsCut(b.recs, cut, c.recs, g.recs)
    BY <1>3 DEF IsParts
  <2>4. c.recs = b.recs
    <3>1. b.recs \in Seq(Record) /\ Len(b.recs) \in Nat /\ cut \in Nat
      BY <1>1, NodeFields
    <3>2. /\ c.recs \in Seq(Record) /\ Len(c.recs) = cut - 1 /\ \A i \in 1 .. Len(c.recs) : c.recs[i] = b.recs[i]
          /\ Len(g.recs) = Len(b.recs) - cut + 1
      BY <2>3 DEF IsCut
    <3>3. Len(g.recs) = 0
      BY <1>3, <1>6
    <3>4. Len(c.recs) = Len(b.recs)
      BY <3>1, <3>2, <3>3
    <3>. HIDE DEF b, c, g
    <3>. QED  BY <3>1, <3>2, <3>4, SeqEqual
  <2>. HIDE DEF old, e, d, z, c, g
  <2>5. /\ T \in State /\ T.nd = [S.nd EXCEPT ![n] = c] /\ T.alloc = S.alloc
        /\ T.root = S.root /\ T.dirty = S.dirty
    <3>1. ReplacedBy(S, T, n, c)
      BY <2>1, <2>2, Zenon DEF ReplacedBy
    <3>2. c \in Node /\ S \in State /\ n \in NodeBlks
      BY <1>1, <2>3
    <3>3. IsReplaced(S, T, n, c)
      BY <3>1, <3>2, Replaced, Zenon
    <3>. QED  BY <3>3, Zenon DEF IsReplaced
  <2>6. Good(T, D) /\ Extends(S, T, {}) /\ Live(T) = Live(S)
    BY <2>3, <2>4, <2>5, Unrooted
  <2>7. T.nd[n] = c /\ T.nd[m] = S.nd[m] /\ \A l \in Live(S) : l # n => T.nd[l] = S.nd[l]
    BY <1>1, <2>5, Fields
  <2>8. S.nd[m].recs = g.recs /\ ~S.nd[m].root
    BY <1>3, <1>6 DEF NewNode
  <2>. QED  BY <1>4, <2>3, <2>5, <2>6, <2>7, <2>8 DEF IsMoved
<1>. QED  BY <1>5, <1>6

\* Where a node is cut.
IsSplitPoint(leaf, recs, ins, sz, p) ==
    /\ p.at \in 1 .. Len(recs) + 1 /\ p.tail \in Nat /\ p.head \in Nat
    /\ p.at > Len(recs) => p.tail = 0
    /\ p.at <= Len(recs) =>
         p.tail = SizeOf(leaf, SubSeq(recs, p.at, Len(recs))) + (IF ins >= p.at THEN sz ELSE 0)
    /\ recs # << >> /\ sz < MaxInline \div 2 => p.at >= 2
    /\ ins = 1 /\ recs # << >> /\ sz >= MaxInline \div 2 => p.at = 1 /\ p.head = sz

LEMMA SplitPointIs ==
    ASSUME NEW leaf \in BOOLEAN, NEW recs \in Seq(Record), NEW ins \in 1 .. Len(recs) + 1, NEW sz \in Nat,
           NEW p, p = SplitPoint(leaf, recs, ins, sz)
    PROVE  IsSplitPoint(leaf, recs, ins, sz, p)
<1>. DEFINE N == Len(recs)
            Before(i) == SizeOf(leaf, SubSeq(recs, 1, i - 1))
            After(i)  == SizeOf(leaf, SubSeq(recs, i, N))
            half      == MaxInline \div 2
            Full(i)   == \/ Before(i) + (IF ins < i THEN sz ELSE 0) >= half
                         \/ i = ins /\ Before(i) + sz >= half
            F         == {i \in 1 .. N : Full(i)} \cup {N + 1}
            cut       == Min(F)
            tail      == IF cut > N THEN 0 ELSE After(cut) + (IF ins >= cut THEN sz ELSE 0)
            head      == Before(cut) + (IF ins <= N THEN sz ELSE 0)
<1>1. p = [at |-> cut, tail |-> tail, head |-> head]
  BY DEF SplitPoint, CutPoint
<1>2. N \in Nat /\ half \in Nat
  BY Sizes
<1>3. cut \in F /\ \A y \in F : cut <= y
  <2>1. F \subseteq Nat /\ F # {}
    BY <1>2
  <2>. HIDE DEF F
  <2>. QED  BY <2>1, MinIsLeast
<1>4. cut \in 1 .. N + 1
  BY <1>2, <1>3
<1>5. \A i \in 1 .. N + 1 : Before(i) \in Nat /\ After(i) \in Nat
  <2>1. ASSUME NEW i \in 1 .. N + 1  PROVE Before(i) \in Nat /\ After(i) \in Nat
    <3>. DEFINE e == SubSeq(recs, 1, i - 1)
                d == SubSeq(recs, i, N)
    <3>1. IsCut(recs, i, e, d)
      <4>1. Cuts(recs, i, e, d)
        BY DEF Cuts
      <4>. HIDE DEF e, d
      <4>. QED  BY <4>1, CutAt
    <3>2. e \in Seq(Record) /\ d \in Seq(Record)
      BY <3>1, Zenon DEF IsCut
    <3>. HIDE DEF e, d
    <3>3. SizeOf(leaf, e) \in Nat /\ SizeOf(leaf, d) \in Nat
      BY <3>2, SizeIsNat
    <3>. QED  BY <3>3 DEF e, d
  <2>. QED  BY <2>1
<1>6. Before(1) = 0
  <2>1. SubSeq(recs, 1, 1 - 1) = << >>
    BY SubSeqEmpty
  <2>2. [k |-> 0, v |-> 0] \in Record
    BY DEF Record
  <2>. QED  BY <2>1, <2>2, SizeOfOne, Zenon
<1>7. sz < half => ~Full(1)
  <2>. HIDE DEF Before, half
  <2>. QED  BY <1>2, <1>6
<1>8. ins = 1 /\ N >= 1 /\ sz >= half => 1 \in F
  <2>. HIDE DEF Before, half
  <2>. QED  BY <1>2, <1>6
<1>9. /\ p.at = cut /\ p.tail = tail /\ p.head = head
  BY <1>1
<1>10. tail \in Nat /\ head \in Nat
  <2>1. Before(cut) \in Nat /\ After(cut) \in Nat
    BY <1>4, <1>5
  <2>. HIDE DEF Before, After, cut
  <2>. QED  BY <2>1
<1>11. recs # << >> <=> N >= 1
  BY <1>2
<1>12. recs # << >> /\ sz < half => cut >= 2
  <2>. HIDE DEF Full, cut
  <2>. QED  BY <1>2, <1>3, <1>4, <1>7, <1>11
<1>13. ins = 1 /\ recs # << >> /\ sz >= half => cut = 1 /\ head = sz
  <2>1. ASSUME ins = 1, N >= 1, sz >= half  PROVE cut = 1
    <3>. HIDE DEF F, cut, half
    <3>. QED  BY <1>2, <1>3, <1>4, <1>8, <2>1
  <2>2. ASSUME ins = 1, N >= 1, cut = 1  PROVE head = sz
    <3>. HIDE DEF Before, cut
    <3>. QED  BY <1>2, <1>6, <2>2
  <2>. QED  BY <1>11, <2>1, <2>2
<1>14. cut > N => tail = 0
  OBVIOUS
<1>15. cut <= N => tail = After(cut) + (IF ins >= cut THEN sz ELSE 0)
  <2>. HIDE DEF cut
  <2>. QED  BY <1>2, <1>4
<1>. HIDE DEF cut, tail, head, half
<1>. QED  BY <1>4, <1>9, <1>10, <1>12, <1>13, <1>14, <1>15, Zenon DEF IsSplitPoint, half

\* The record's node is the old one or the new one.
IsPlaced(S, D, n, m, rec, cut, p) ==
    /\ p.err = "ok" /\ p.new = m /\ p.bip \in Int
    /\ IsMoved(S, p.s, D, n, m, cut.at)
    /\ m \in Loose(p.s) /\ Empty(p.s) \subseteq {m}
    /\ MayInsert(p.s, p.into, rec)
    /\ p.inOld \in BOOLEAN /\ p.into = (IF p.inOld THEN n ELSE m)
    /\ p.inOld => p.s.nd[m].recs # << >>
    /\ LET fits == btr_size(S.nd[n].leaf, rec) <= p.s.nd[n].free IN
       /\ p.inOld <=> \/ At(S.nd[n].recs, rec.k) < cut.at /\ cut.at <= Len(S.nd[n].recs)
                      \/ cut.tail > MaxInline /\ fits
       /\ p.overfull <=> cut.tail > MaxInline /\ ~fits

\* The new node m is there, and n may be cut.
MaySplit(S, D, n, m, rec) ==
    /\ Good(S, D) /\ MayInsert(S, n, rec)
    /\ m \in Loose(S) /\ n # m /\ S.nd[m] = NewNode(S.nd[n].leaf, FALSE)
    /\ Empty(S) \subseteq {m}

LEMMA SplitAtIs ==
    ASSUME NEW S, NEW D, NEW n, NEW m, NEW rec, MaySplit(S, D, n, m, rec),
           NEW cut, cut.at \in 1 .. Len(S.nd[n].recs) + 1, S.nd[n].leaf \/ cut.at > 1,
           cut.at > Len(S.nd[n].recs) => ~(cut.tail > MaxInline),
           NEW p, p = SplitAt(S, n, m, rec, cut)
    PROVE  IsPlaced(S, D, n, m, rec, cut, p)
<1>. DEFINE b == S.nd[n]
            T == MoveTail(S, n, m, cut.at)
            bip == IF b.root THEN b.nn ELSE 0
            before == At(b.recs, rec.k) < cut.at /\ cut.at <= Len(b.recs)
            fits == btr_size(b.leaf, rec) <= T.nd[n].free
            inOld == before \/ (cut.tail > MaxInline /\ fits)
            over == cut.tail > MaxInline /\ ~fits
            into == IF inOld THEN n ELSE m
<1>1. /\ S \in State /\ n \in Live(S) /\ m \in Live(S) /\ n # m /\ b \in Node /\ Good(S, D)
      /\ S.nd[m] = NewNode(b.leaf, FALSE) /\ m \in Loose(S) /\ Empty(S) \subseteq {m}
  <2>1. S \in State /\ n \in Live(S) /\ m \in Live(S) /\ n # m /\ Good(S, D)
    BY DEF MaySplit, Good, MayInsert, Loose
  <2>. QED  BY <2>1, Fields DEF MaySplit
<1>2. T.nd[n].leaf = b.leaf /\ IsMoved(S, T, D, n, m, cut.at)
  <2>1. IsMoved(S, T, D, n, m, cut.at)
    BY <1>1, TailMoved
  <2>. QED  BY <2>1 DEF IsMoved
<1>3. p = Parted(T, m, into, inOld, over, bip)
  BY <1>2, Zenon DEF SplitAt, Place
<1>4. /\ p.s = T /\ p.err = "ok" /\ p.new = m /\ p.into = into /\ p.inOld = inOld /\ p.overfull = over
      /\ p.bip = bip
  <2>. HIDE DEF T, into, inOld, over, bip
  <2>. QED  BY <1>3 DEF Parted
<1>5. bip \in Int
  BY <1>1, NodeFields
<1>6. inOld \in BOOLEAN /\ over \in BOOLEAN
  OBVIOUS
<1>. HIDE DEF T, bip, fits
<1>7. m \in Loose(T) /\ Loose(S) \subseteq Loose(T) /\ Live(T) = Live(S)
  BY <1>1, <1>2 DEF IsMoved, Extends
<1>8. inOld => T.nd[m].recs # << >>
  <2>1. ASSUME cut.at <= Len(b.recs)  PROVE T.nd[m].recs # << >>
    <3>1. Len(T.nd[m].recs) = Len(b.recs) - cut.at + 1
      BY <1>2 DEF IsMoved, IsCut
    <3>2. Len(b.recs) \in Nat /\ cut.at \in Nat
      BY <1>1, NodeFields
    <3>. QED  BY <2>1, <3>1, <3>2
  <2>2. inOld => cut.at <= Len(b.recs)
    <3>1. Len(b.recs) \in Nat /\ cut.at \in Nat
      BY <1>1, NodeFields
    <3>. QED  BY <3>1
  <2>. QED  BY <2>1, <2>2
<1>9. MayInsert(T, into, rec)
  <2>1. into \in Live(T) /\ T.nd[into].leaf = b.leaf
    BY <1>1, <1>2, <1>7 DEF IsMoved
  <2>2. rec \in Record /\ IF b.leaf THEN btr_size(TRUE, rec) <= MaxInline ELSE rec.v \in Loose(S)
    BY DEF MaySplit, MayInsert
  <2>. QED  BY <1>7, <2>1, <2>2 DEF MayInsert
<1>10. Empty(T) \subseteq {m}
  <2>1. ASSUME NEW l \in Live(T), l # m, ~T.nd[l].leaf, T.nd[l].recs = << >>  PROVE FALSE
    <3>1. CASE l # n
      BY <1>1, <1>2, <1>7, <2>1, <3>1 DEF IsMoved, Empty
    <3>2. CASE l = n
      <4>1. ~b.leaf /\ cut.at > 1
        BY <1>2, <2>1, <3>2 DEF IsMoved
      <4>2. Len(T.nd[n].recs) = cut.at - 1 /\ cut.at \in Nat
        <5>1. Len(b.recs) \in Nat
          BY <1>1, NodeFields
        <5>. QED  BY <1>2, <5>1 DEF IsMoved, IsCut
      <4>. QED  BY <2>1, <3>2, <4>1, <4>2
    <3>. QED  BY <3>1, <3>2
  <2>. QED  BY <2>1 DEF Empty
<1>. HIDE DEF into, inOld, over
<1>11. /\ p.err = "ok" /\ p.new = m /\ p.bip \in Int
       /\ IsMoved(S, p.s, D, n, m, cut.at)
       /\ m \in Loose(p.s) /\ Empty(p.s) \subseteq {m}
       /\ MayInsert(p.s, p.into, rec)
       /\ p.inOld \in BOOLEAN /\ p.into = (IF p.inOld THEN n ELSE m)
       /\ p.inOld => p.s.nd[m].recs # << >>
  BY <1>2, <1>4, <1>5, <1>6, <1>7, <1>8, <1>9, <1>10 DEF into
<1>12. /\ p.inOld <=> \/ At(b.recs, rec.k) < cut.at /\ cut.at <= Len(b.recs)
                      \/ cut.tail > MaxInline /\ btr_size(b.leaf, rec) <= p.s.nd[n].free
       /\ p.overfull <=> cut.tail > MaxInline /\ ~(btr_size(b.leaf, rec) <= p.s.nd[n].free)
  BY <1>4, Zenon DEF inOld, over, fits
<1>. QED  BY <1>11, <1>12, Zenon DEF IsPlaced

\* A split that has aborted, and one that has made room, in n or in m.
Unfit(p) == p.err = "abort" /\ p.s.abort # ""

Large(rec) == btr_size(TRUE, rec) > MaxInline \div 2

\* A record that fits in neither node is a large one that comes before all that
\* m has; and a large one that comes before all that n has, n not being the
\* root, gets n for itself.
IsRoom(S, D, n, m, rec, p) ==
    /\ p.err = "ok" /\ p.new = m /\ p.bip \in Int
    /\ Good(p.s, D) /\ Extends(S, p.s, {}) /\ Live(p.s) = Live(S)
    /\ m \in Loose(p.s) /\ Empty(p.s) \subseteq {m}
    /\ MayInsert(p.s, p.into, rec)
    /\ p.inOld \in BOOLEAN /\ p.into = (IF p.inOld THEN n ELSE m)
    /\ p.inOld => p.s.nd[m].recs # << >>
    /\ p.s.nd[n].leaf = S.nd[n].leaf /\ p.s.nd[m].leaf = S.nd[n].leaf /\ ~p.s.nd[m].root
    /\ p.overfull /\ ~p.inOld => S.nd[n].leaf /\ Large(rec) /\ At(p.s.nd[m].recs, rec.k) = 1
    /\ S.nd[n].leaf /\ ~S.nd[n].root /\ At(S.nd[n].recs, rec.k) = 1 /\ Large(rec) =>
         p.inOld /\ ~MustSplit(p.s.nd[n], rec)

LEMMA PlacedIs ==
    ASSUME NEW S, NEW D, NEW n, NEW m, NEW rec, NEW cut, NEW p, IsPlaced(S, D, n, m, rec, cut, p),
           p.overfull /\ ~p.inOld => S.nd[n].leaf /\ Large(rec) /\ At(p.s.nd[m].recs, rec.k) = 1,
           S.nd[n].leaf /\ ~S.nd[n].root /\ At(S.nd[n].recs, rec.k) = 1 /\ Large(rec) =>
             p.inOld /\ ~MustSplit(p.s.nd[n], rec)
    PROVE  IsRoom(S, D, n, m, rec, p)
BY Zenon DEF IsPlaced, IsMoved, IsRoom

LEMMA ChooseCutIs ==
    ASSUME NEW S, NEW D, NEW n, NEW m, NEW rec, MaySplit(S, D, n, m, rec), MustSplit(S.nd[n], rec),
           ShortKeys,
           NEW p, p = ChooseCut(S, n, m, rec, SplitPoint(S.nd[n].leaf, S.nd[n].recs,
                                    At(S.nd[n].recs, rec.k), btr_size(S.nd[n].leaf, rec)))
    PROVE  Unfit(p) \/ IsRoom(S, D, n, m, rec, p)
<1>. DEFINE b == S.nd[n]
            sz == btr_size(b.leaf, rec)
            ins == At(b.recs, rec.k)
            first == SplitPoint(b.leaf, b.recs, ins, sz)
            third == ins >= first.at /\ first.tail > MaxInline
            half == MaxInline \div 2
            all == SizeOf(b.leaf, b.recs)
<1>1. /\ S \in State /\ n \in Live(S) /\ b \in Node /\ Sound(b) /\ rec \in Record
      /\ b.leaf => btr_size(TRUE, rec) <= MaxInline
  <2>1. S \in State /\ n \in Live(S) /\ rec \in Record /\ Good(S, D)
        /\ (b.leaf => btr_size(TRUE, rec) <= MaxInline)
    BY DEF MaySplit, Good, MayInsert
  <2>2. Sound(S.nd[n]) /\ S.nd[n] \in Node
    BY <2>1, Fields DEF Good
  <2>. QED  BY <2>1, <2>2
<1>2. b.leaf \in BOOLEAN /\ b.recs \in Seq(Record) /\ Len(b.recs) \in Nat /\ b.free \in Int
  BY <1>1, NodeFields
<1>3. sz \in Nat /\ rec.k \in Nat /\ half \in Nat
  BY <1>1, <1>2, SizeOfRecord, Sizes DEF Record
<1>4. ins \in 1 .. Len(b.recs) + 1 /\ (ins <= Len(b.recs) => rec.k <= b.recs[ins].k)
  BY <1>2, <1>3, AtIs
<1>5. IsSplitPoint(b.leaf, b.recs, ins, sz, first)
  <2>. HIDE DEF sz, ins
  <2>. QED  BY <1>2, <1>3, <1>4, SplitPointIs, Zenon
<1>6. all \in Nat /\ b.free >= 0 /\ b.free = MaxInline - Overhead(b) - all /\ Overhead(b) \in Nat
  <2>1. all \in Nat
    BY <1>2, SizeIsNat
  <2>. QED  BY <1>1, <2>1, Sizes DEF Sound, Accounted, Overhead
<1>7. sz > b.free /\ (b.leaf \/ b.recs # << >>)
  BY DEF MustSplit
<1>8. b.recs # << >>  \/ b.root
  <2>1. ASSUME b.recs = << >>, ~b.root  PROVE FALSE
    <3>1. b.leaf /\ Overhead(b) = 0
      BY <1>7, <2>1 DEF Overhead
    <3>2. all = 0
      BY <1>1, <1>2, <2>1, SizeOfOne, Zenon
    <3>3. sz <= MaxInline
      <4>1. b.leaf = TRUE
        BY <1>2, <3>1
      <4>. QED  BY <1>1, <4>1
    <3>. HIDE DEF sz, all, b
    <3>. QED  BY <1>3, <1>6, <1>7, <3>1, <3>2, <3>3, Sizes
  <2>. QED  BY <2>1
<1>9. ~b.leaf => sz < half /\ first.at >= 2 /\ ~(first.tail > MaxInline)
  <2>1. ASSUME ~b.leaf  PROVE sz < half /\ first.at >= 2 /\ ~(first.tail > MaxInline)
    <3>1. sz < half
      BY <2>1 DEF ShortKeys, btr_size
    <3>2. first.at >= 2
      BY <1>5, <1>7, <2>1, <3>1 DEF IsSplitPoint
    <3>3. CASE first.at > Len(b.recs)
      <4>. HIDE DEF first, sz, ins
      <4>1. first.tail = 0
        BY <1>5, <3>3 DEF IsSplitPoint
      <4>. QED  BY <3>1, <3>2, <4>1, Sizes
    <3>4. CASE ~(first.at > Len(b.recs))
      <4>1. first.at \in 2 .. Len(b.recs) /\ first.at <= Len(b.recs)
        BY <1>2, <1>5, <3>2, <3>4 DEF IsSplitPoint
      <4>. DEFINE d == SizeOf(b.leaf, SubSeq(b.recs, first.at, Len(b.recs)))
      <4>2. first.tail = d + (IF ins >= first.at THEN sz ELSE 0)
        BY <1>5, <4>1 DEF IsSplitPoint
      <4>3. d + sz <= all
        <5>1. b.leaf = FALSE
          BY <1>2, <2>1
        <5>. HIDE DEF b, first
        <5>. QED  BY <1>1, <1>2, <4>1, <5>1, IndexTail
      <4>4. first.tail \in Nat
        BY <1>5 DEF IsSplitPoint
      <4>6. d \in Nat
        <5>1. SubSeq(b.recs, first.at, Len(b.recs)) \in Seq(Record)
          <6>1. \A i \in first.at .. Len(b.recs) : b.recs[i] \in Record
            <7>. HIDE DEF first
            <7>. QED  BY <1>2, <4>1
          <6>. HIDE DEF first
          <6>. QED  BY <1>2, <4>1, <6>1, SubSeqProperties
        <5>. QED  BY <1>2, <5>1, SizeIsNat
      <4>5. first.tail = d + sz \/ first.tail = d
        <5>. HIDE DEF first, d, sz, ins
        <5>. QED  BY <4>2, <4>6, <1>3
      <4>. HIDE DEF first, d, sz, all
      <4>. QED  BY <1>3, <1>6, <3>1, <3>2, <4>3, <4>4, <4>5, Sizes
    <3>. QED  BY <3>1, <3>2, <3>3, <3>4
  <2>. QED  BY <2>1
<1>10. ~third \/ b.leaf
  BY <1>9
<1>11. b.leaf => sz = btr_size(TRUE, rec)
  <2>1. b.leaf => b.leaf = TRUE
    BY <1>2
  <2>. QED  BY <2>1
<1>12. /\ ~third => p = SplitAt(S, n, m, rec, first)
       /\ third => \/ Unfit(p)
                   \/ sz > half /\ p = SplitAt(S, n, m, rec, Recut(b.leaf, b.recs, ins, sz))
  <2>. DEFINE x == SplitAt(S, n, m, rec, first)
              y == SplitAt(S, n, m, rec, Recut(b.leaf, b.recs, ins, sz))
              u == Unparted(Abort(S, "nrecsz > (maxsz / 2)"), n)
              v == Unparted(Abort(S, "(headsz + nrecsz) > maxsz"), n)
              w == first.head + sz > MaxInline
  <2>1. /\ ~third => p = x
        /\ third /\ ~(sz > half) => p = u
        /\ third /\ sz > half /\ ~w => p = v
        /\ third /\ sz > half /\ w => p = y
    <3>1. CASE ~third
      BY <3>1, Zenon DEF ChooseCut
    <3>2. CASE third /\ ~(sz > half)
      BY <3>2, Zenon DEF ChooseCut
    <3>3. CASE third /\ sz > half /\ ~w
      BY <3>3, Zenon DEF ChooseCut
    <3>4. CASE third /\ sz > half /\ w
      BY <3>4, Zenon DEF ChooseCut
    <3>. QED  BY <3>1, <3>2, <3>3, <3>4, Zenon
  <2>2. Unfit(u) /\ Unfit(v)
    <3>1. Aborted(Abort(S, "nrecsz > (maxsz / 2)")) /\ Aborted(Abort(S, "(headsz + nrecsz) > maxsz"))
      BY <1>1, AbortIs
    <3>. QED  BY <3>1 DEF Unparted, Parted, Unfit, Aborted
  <2>. HIDE DEF x, y, u, v
  <2>. QED  BY <2>1, <2>2, Zenon DEF x, y
<1>13. IsSplitPoint(b.leaf, b.recs, ins, sz, first)
  BY <1>5
<1>. HIDE DEF b, first, sz, ins, all, half
<1>14. CASE ~third
  <2>1. IsPlaced(S, D, n, m, rec, first, p)
    <3>1. first.at \in 1 .. Len(b.recs) + 1 /\ (b.leaf \/ first.at > 1)
      BY <1>2, <1>9, <1>13 DEF IsSplitPoint
    <3>2. first.at > Len(b.recs) => ~(first.tail > MaxInline)
      BY <1>13, Sizes DEF IsSplitPoint
    <3>. QED  BY <1>12, <1>14, <3>1, <3>2, SplitAtIs, Zenon DEF b
  <2>2. ~(p.overfull /\ ~p.inOld)
    <3>1. ASSUME first.tail > MaxInline  PROVE ins < first.at /\ first.at <= Len(b.recs)
      BY <1>2, <1>4, <1>13, <1>14, <3>1, Sizes DEF IsSplitPoint
    <3>. QED  BY <2>1, <3>1, Zenon DEF IsPlaced, b, ins
  <2>3. ~(b.leaf /\ ~b.root /\ ins = 1 /\ Large(rec))
    <3>1. SUFFICES ASSUME b.leaf, ~b.root, ins = 1, Large(rec)  PROVE FALSE
      OBVIOUS
    <3>2. sz > half
      BY <1>11, <3>1 DEF Large, half
    <3>3. b.recs # << >> /\ Overhead(b) = 0
      BY <1>8, <3>1 DEF Overhead
    <3>4. first.at = 1
      BY <1>3, <1>13, <3>1, <3>2, <3>3 DEF IsSplitPoint, half
    <3>5. first.tail = all + sz
      <4>1. first.at <= Len(b.recs)
        BY <1>2, <3>3, <3>4
      <4>2. SubSeq(b.recs, 1, Len(b.recs)) = b.recs
        BY <1>2, SubSeqFull
      <4>3. first.tail = SizeOf(b.leaf, SubSeq(b.recs, 1, Len(b.recs))) + (IF ins >= 1 THEN sz ELSE 0)
        BY <1>13, <3>4, <4>1, Zenon DEF IsSplitPoint
      <4>4. SizeOf(b.leaf, SubSeq(b.recs, 1, Len(b.recs))) = all
        BY <4>2, Zenon DEF all
      <4>5. (IF ins >= 1 THEN sz ELSE 0) = sz
        BY <3>1
      <4>. QED  BY <4>3, <4>4, <4>5, Zenon
    <3>6. first.tail > MaxInline
      BY <1>3, <1>6, <1>7, <3>3, <3>5, Sizes
    <3>. QED  BY <1>14, <3>1, <3>4, <3>6
  <2>. QED  BY <2>1, <2>2, <2>3, PlacedIs, Zenon DEF b, ins
<1>15. CASE third /\ sz > half /\ p = SplitAt(S, n, m, rec, Recut(b.leaf, b.recs, ins, sz))
  <2>. DEFINE cut == Recut(b.leaf, b.recs, ins, sz)
              d == SubSeq(b.recs, ins, Len(b.recs))
              z == SizeOf(b.leaf, d)
  <2>1. b.leaf = TRUE /\ sz = btr_size(TRUE, rec) /\ sz <= MaxInline /\ Large(rec)
    BY <1>1, <1>2, <1>10, <1>11, <1>15 DEF Large, half
  <2>2. cut.at = ins /\ cut.tail = z + sz
    BY DEF Recut
  <2>3. ins = Len(b.recs) + 1 => z = 0
    <3>1. ASSUME ins = Len(b.recs) + 1  PROVE d = << >>
      BY <1>2, <3>1, SubSeqEmpty
    <3>2. SizeOf(b.leaf, << >>) = 0
      BY <1>2, SizeOfNone, Zenon
    <3>. QED  BY <3>1, <3>2, Zenon
  <2>. HIDE DEF cut, d, z
  <2>4. IsPlaced(S, D, n, m, rec, cut, p)
    <3>1. cut.at \in 1 .. Len(b.recs) + 1 /\ (b.leaf \/ cut.at > 1)
      BY <1>4, <2>1, <2>2
    <3>2. cut.at > Len(b.recs) => ~(cut.tail > MaxInline)
      <4>1. ASSUME cut.at > Len(b.recs)  PROVE ~(cut.tail > MaxInline)
        <5>1. ins = Len(b.recs) + 1
          BY <1>2, <1>4, <2>2, <4>1
        <5>2. cut.tail = 0 + sz /\ sz <= MaxInline
          BY <2>1, <2>2, <2>3, <5>1, Zenon
        <5>. HIDE DEF sz
        <5>. QED  BY <1>3, <5>2, Sizes
      <4>. QED  BY <4>1
    <3>. QED  BY <1>15, <3>1, <3>2, SplitAtIs, Zenon DEF b, cut
  <2>5. IsCut(b.recs, ins, p.s.nd[n].recs, p.s.nd[m].recs) /\ p.s.nd[n].leaf /\ ~p.s.nd[n].root
        /\ Live(p.s) = Live(S) /\ Good(p.s, D) /\ p.s.nd[m].leaf = b.leaf
    BY <2>1, <2>2, <2>4, Zenon DEF IsPlaced, IsMoved, b
  <2>6. p.s \in State /\ p.s.nd[n] \in Node /\ Sound(p.s.nd[n])
    BY <1>1, <2>5, Fields DEF Good
  <2>7. At(p.s.nd[m].recs, rec.k) = 1
    <3>. DEFINE t == p.s.nd[m].recs
    <3>1. t \in Seq(Record) /\ Len(t) = Len(b.recs) - ins + 1 /\ \A i \in 1 .. Len(t) : t[i] = b.recs[ins - 1 + i]
      BY <2>5 DEF IsCut
    <3>. HIDE DEF t
    <3>2. At(t, rec.k) \in 1 .. Len(t) + 1 /\ \A i \in 1 .. Len(t) : i < At(t, rec.k) => t[i].k < rec.k
      BY <1>3, <3>1, AtIs
    <3>3. ASSUME At(t, rec.k) # 1  PROVE FALSE
      <4>1. 1 \in 1 .. Len(t) /\ 1 < At(t, rec.k)
        BY <1>2, <1>4, <3>1, <3>2, <3>3
      <4>2. t[1].k < rec.k /\ t[1] = b.recs[ins] /\ ins <= Len(b.recs)
        BY <1>2, <1>4, <3>1, <3>2, <4>1
      <4>5. b.recs[ins] \in Record
        BY <1>2, <1>4, <4>2
      <4>3. b.recs[ins].k \in Nat
        BY <4>5, KeyIs, Zenon
      <4>. DEFINE v == b.recs[ins].k
      <4>4. rec.k <= v /\ v < rec.k
        BY <1>4, <4>2, Zenon
      <4>. HIDE DEF v
      <4>. QED  BY <1>3, <4>3, <4>4 DEF v
    <3>. QED  BY <3>3 DEF t
  <2>8. ASSUME ~b.root, ins = 1
        PROVE  p.inOld /\ ~MustSplit(p.s.nd[n], rec)
    <3>. DEFINE c == p.s.nd[n]
    <3>1. c.recs = << >>
      <4>1. c.recs \in Seq(Record) /\ Len(c.recs) = ins - 1
        BY <2>5, Zenon DEF IsCut
      <4>2. Len(c.recs) = 0
        <5>. HIDE DEF c
        <5>. QED  BY <2>8, <4>1, SMTT(30)
      <4>. HIDE DEF c
      <4>. QED  BY <4>1, <4>2, EmptySeq
    <3>2. SizeOf(c.leaf, c.recs) = 0 /\ Overhead(c) = 0
      <4>1. c.leaf = TRUE
        BY <2>1, <2>5, <2>6, NodeFields
      <4>2. ~c.root
        BY <2>5
      <4>3. Overhead(c) = 0
        <5>. HIDE DEF c
        <5>. QED  BY <4>1, <4>2 DEF Overhead
      <4>. QED  BY <3>1, <4>1, <4>3, SizeOfNone, Zenon
    <3>3. c.free = MaxInline - 0 - 0
      BY <2>6, <3>2, Zenon DEF Sound, Accounted
    <3>4. sz <= c.free
      <4>. DEFINE f == c.free
      <4>1. f = MaxInline - 0 - 0
        BY <3>3
      <4>. HIDE DEF f, sz
      <4>3. sz <= MaxInline
        BY <2>1, Zenon
      <4>2. sz <= f
        BY <1>3, <4>1, <4>3, Sizes
      <4>. QED  BY <4>2 DEF f
    <3>5. ~MustSplit(c, rec)
      <4>1. c.leaf = TRUE /\ c.free \in Int
        BY <2>5, <2>6, NodeFields
      <4>2. btr_size(c.leaf, rec) = sz
        BY <2>1, <4>1, Zenon
      <4>. DEFINE f == c.free
                  y == btr_size(c.leaf, rec)
      <4>3. f \in Int /\ sz <= f /\ y = sz
        BY <3>4, <4>1, <4>2
      <4>. HIDE DEF f, y, sz
      <4>4. ~(y > f)
        BY <1>3, <4>3
      <4>. QED  BY <4>4, Zenon DEF MustSplit, f, y
    <3>6. cut.tail > MaxInline
      <4>1. Overhead(b) = 0 /\ b.recs # << >>
        BY <1>8, <2>1, <2>8 DEF Overhead
      <4>2. z = all
        BY <1>2, <2>8, SubSeqFull, Zenon DEF z, d, all
      <4>. QED  BY <1>3, <1>6, <1>7, <2>2, <4>1, <4>2, Sizes
    <3>7. btr_size(b.leaf, rec) <= c.free
      BY <3>4 DEF sz
    <3>8. p.inOld
      BY <2>4, <3>6, <3>7, Zenon DEF IsPlaced, b
    <3>. QED  BY <3>5, <3>8
  <2>. QED  BY <2>1, <2>4, <2>7, <2>8, PlacedIs, Zenon DEF b, ins
<1>. QED  BY <1>12, <1>14, <1>15, Zenon

\* What btn_insert_split has when it is to insert the record.
IsParted(S, D, n, rec, p) ==
    /\ p.bip \in Int
    /\ Good(p.s, D) /\ Extends(S, p.s, {})
    /\ p.new \in Loose(p.s) /\ p.new \notin S.alloc /\ Empty(p.s) \subseteq {p.new}
    /\ MayInsert(p.s, p.into, rec)
    /\ p.inOld \in BOOLEAN /\ p.into = (IF p.inOld THEN n ELSE p.new)
    /\ p.inOld => p.s.nd[p.new].recs # << >>
    /\ p.s.nd[n].leaf = S.nd[n].leaf /\ p.s.nd[p.new].leaf = S.nd[n].leaf /\ ~p.s.nd[p.new].root
    /\ p.overfull /\ ~p.inOld => S.nd[n].leaf /\ Large(rec) /\ At(p.s.nd[p.new].recs, rec.k) = 1
    /\ S.nd[n].leaf /\ ~S.nd[n].root /\ At(S.nd[n].recs, rec.k) = 1 /\ Large(rec) =>
         p.inOld /\ ~MustSplit(p.s.nd[n], rec)

Refused(S, D, n, r) ==
    /\ r.err \in {"ENOSPC", "ENOMEM", "EIO", "EEXIST"} /\ Good(r.s, D)
    /\ S.nd[n].leaf => Extends(S, r.s, {}) /\ Empty(r.s) = {}

IsSplit(S, D, n, rec, p) ==
    \/ Unfit(p)
    \/ Refused(S, D, n, p)
    \/ p.err = "ok" /\ IsParted(S, D, n, rec, p)

LEMMA SplitIs ==
    ASSUME NEW S, NEW D, Good(S, D), Empty(S) = {}, NEW n, NEW rec, MayInsert(S, n, rec),
           MustSplit(S.nd[n], rec), ShortKeys,
           NEW p, p = Split(S, n, rec)
    PROVE  IsSplit(S, D, n, rec, p)
<1>. DEFINE b == S.nd[n]
            ins == At(b.recs, rec.k)
            m == Min(FreeBlks(S))
            S1 == btn_alloc(S, b.leaf, FALSE)
            dup == ins <= Len(b.recs) /\ b.recs[ins].k = rec.k
            first == SplitPoint(b.leaf, b.recs, ins, btr_size(b.leaf, rec))
<1>1. n \in Live(S) /\ S \in State /\ b.leaf \in BOOLEAN
  <2>1. n \in Live(S) /\ S \in State
    BY DEF MayInsert, Good
  <2>. QED  BY <2>1, Fields, NodeFields
<1>. DEFINE copied == ~Fails(S, "copy", n)
            new == copied /\ ~AllocFails(S, n)
<1>2. CASE ~new
  <2>. DEFINE q == IF copied THEN FailedAlloc(S, n) ELSE Fail(S, "ENOMEM")
  <2>1. p = Unparted(q, n)
    <3>1. CASE copied
      BY <1>2, <3>1, Zenon DEF Split
    <3>2. CASE ~copied
      BY <3>2, Zenon DEF Split
    <3>. QED  BY <3>1, <3>2
  <2>2. IsFailed(S, D, q)
    BY FailIs, FailedAllocIs
  <2>. HIDE DEF q
  <2>3. p.err = q.err /\ p.s = q.s
    BY <2>1 DEF Unparted, Parted
  <2>4. Refused(S, D, n, p)
    BY <2>2, <2>3 DEF Refused, IsFailed, IsSame
  <2>. QED  BY <2>4 DEF IsSplit
<1>3. CASE new
  <2>1. IsAllocated(S, S1, D, m, b.leaf)
    <3>1. FreeBlks(S) # {}
      BY <1>3 DEF AllocFails
    <3>. HIDE DEF m
    <3>2. m = Min(FreeBlks(S))
      BY DEF m
    <3>. QED  BY <1>1, <3>1, <3>2, Allocated
  <2>. HIDE DEF m, S1
  <2>2. /\ Good(S1, D) /\ Extends(S, S1, {}) /\ Live(S1) = Live(S) \cup {m} /\ m \notin Live(S)
        /\ m \in Loose(S1) /\ m \notin S.alloc /\ Empty(S1) \subseteq {m} /\ (b.leaf => Empty(S1) = {})
        /\ S1.nd = [S.nd EXCEPT ![m] = NewNode(b.leaf, FALSE)] /\ m \in NodeBlks
    BY <2>1 DEF IsAllocated
  <2>3. S1.nd[n] = b /\ S1.nd[m] = NewNode(b.leaf, FALSE) /\ n # m
    <3>1. S.nd \in [NodeBlks -> Node] /\ n \in NodeBlks
      BY <1>1, Fields
    <3>. HIDE DEF b
    <3>2. S1.nd[n] = S.nd[n] /\ S1.nd[m] = NewNode(b.leaf, FALSE) /\ n # m
      BY <1>1, <2>2, <3>1
    <3>. QED  BY <3>2 DEF b
  <2>4. CASE dup
    <3>1. p = Unparted(Fail(S1, "EEXIST"), n)
      BY <1>3, <2>4, Zenon DEF Split, S1
    <3>2. p.err = "EEXIST" /\ p.s = S1
      BY <3>1 DEF Unparted, Parted, Fail, Done
    <3>3. Refused(S, D, n, p)
      BY <2>2, <3>2 DEF Refused
    <3>. QED  BY <3>3 DEF IsSplit
  <2>5. CASE ~dup
    <3>1. p = ChooseCut(S1, n, m, rec, first)
      BY <1>3, <2>5, Zenon DEF Split, S1, m
    <3>2. p = ChooseCut(S1, n, m, rec, SplitPoint(S1.nd[n].leaf, S1.nd[n].recs,
                                    At(S1.nd[n].recs, rec.k), btr_size(S1.nd[n].leaf, rec)))
      BY <2>3, <3>1, Zenon
    <3>3. MaySplit(S1, D, n, m, rec)
      <4>1. MayInsert(S1, n, rec)
        <5>1. n \in Live(S1) /\ Loose(S) \subseteq Loose(S1)
          BY <1>1, <2>2 DEF Extends
        <5>. QED  BY <2>3, <5>1 DEF MayInsert
      <4>. QED  BY <2>2, <2>3, <4>1 DEF MaySplit
    <3>4. MustSplit(S1.nd[n], rec)
      BY <2>3
    <3>5. Unfit(p) \/ IsRoom(S1, D, n, m, rec, p)
      BY <3>2, <3>3, <3>4, ChooseCutIs, Zenon
    <3>6. ASSUME IsRoom(S1, D, n, m, rec, p)  PROVE p.err = "ok" /\ IsParted(S, D, n, rec, p)
      <4>1. Extends(S, p.s, {})
        <5>1. Extends(S1, p.s, {})
          BY <3>6, Zenon DEF IsRoom
        <5>2. Extends(S, p.s, {} \cup {})
          BY <2>2, <5>1, ExtendsTrans, Zenon
        <5>3. {} \cup {} = {}
          OBVIOUS
        <5>. QED  BY <5>2, <5>3, Zenon
      <4>2. p.new = m
        BY <3>6, Zenon DEF IsRoom
      <4>3. S1.nd[n] = S.nd[n]
        BY <2>3
      <4>4. IsRoom(S1, D, n, p.new, rec, p)
        BY <3>6, <4>2, Zenon
      <4>5. p.new \notin S.alloc
        BY <2>2, <4>2
      <4>. QED  BY <4>1, <4>3, <4>4, <4>5, Zenon DEF IsRoom, IsParted
    <3>. QED  BY <3>5, <3>6, Zenon DEF IsSplit
  <2>. QED  BY <2>4, <2>5
<1>. QED  BY <1>2, <1>3

-----------------------------------------------------------------------------
(* The calls of btn_insert                                                 *)

LEMMA HereReturns ==
    ASSUME NEW S, NEW n, NEW rec
    PROVE  IsResult(InsertHere(S, n, rec)) /\ IsResult(InsertUnsplit(S, n, rec))
<1>1. \A T, p : IsResult(btn_insert_first_index_record(T, n, p, rec))
  BY Results, Zenon DEF btn_insert_first_index_record
<1>2. IsResult(InsertHere(S, n, rec))
  BY <1>1, Results, Zenon DEF InsertHere
<1>. QED  BY <1>2, Results, Zenon DEF InsertUnsplit

\* The split information filled in.
Told(q, r, a, b, c) ==
    /\ IsResult(r) /\ r.s = q.s /\ r.err = q.err /\ r.i1 = a /\ r.i2 = b /\ r.bip = c

Telling(q, r, a, b, c) == r = [q EXCEPT !.i1 = a, !.i2 = b, !.bip = c]

LEMMA Tell ==
    ASSUME NEW q, IsResult(q), NEW a, NEW b, NEW c, NEW t
    PROVE  Telling(q, t, a, b, c) => Told(q, t, a, b, c)
<1>1. PICK W : q \in [s : W, err : W, i1 : W, i2 : W, bip : W]
  BY DEF IsResult
<1>. DEFINE V == W \cup {a, b, c}
<1>2. ASSUME Telling(q, t, a, b, c)
      PROVE  /\ t \in [s : V, err : V, i1 : V, i2 : V, bip : V]
             /\ t.s = q.s /\ t.err = q.err /\ t.i1 = a /\ t.i2 = b /\ t.bip = c
  BY <1>1, <1>2 DEF Telling
<1>. QED  BY <1>2, Zenon DEF Told, IsResult

\* New nodes that no pointer leads to, and the index records for them.
Splits(S, r) ==
    /\ r.i1 \in Record /\ r.i1.v \in Loose(r.s) /\ r.i1.v \notin S.alloc /\ r.bip \in Int
    /\ r.i2 # NoRec => /\ r.i2 \in Record /\ r.i2.v \in Loose(r.s) /\ r.i2.v \notin S.alloc
                       /\ r.i2.v # r.i1.v

Returned(S, D, X, r) ==
    /\ r.err = "ok" /\ Good(r.s, D) /\ Extends(S, r.s, X) /\ Empty(r.s) = {}
    /\ did_split(r) => Splits(S, r)

IsInsert(S, D, n, rec, r) ==
    \/ Aborted(r)
    \/ Refused(S, D, n, r)
    \/ Returned(S, D, Linked(S, n, rec), r)

\* The result of the insertion after a split.
Inner(D, p, rec, q) ==
    \/ Aborted(q)
    \/ Refused(p.s, D, p.into, q)
    \/ Put(p.s, D, p.into, Linked(p.s, p.into, rec), q)
    \/ /\ Returned(p.s, D, Linked(p.s, p.into, rec), q) /\ did_split(q)
       /\ p.overfull /\ ~p.inOld => q.s.nd[p.new].recs # << >>

\* The first record of a node that has one.
LEMMA FirstRecord ==
    ASSUME NEW S, NEW D, Good(S, D), NEW m \in Live(S), S.nd[m].recs # << >>
    PROVE  S.nd[m].recs[1].k \in Nat
<1>1. S.nd[m] \in Node
  BY Fields DEF Good
<1>2. S.nd[m].recs \in Seq(Record) /\ Len(S.nd[m].recs) \in Nat
  BY <1>1, NodeFields
<1>3. S.nd[m].recs[1] \in Record
  BY <1>2
<1>. QED  BY <1>3, KeyIs, Zenon

LEMMA SplitResultIs ==
    ASSUME NEW S, NEW D, NEW n, NEW rec, MayInsert(S, n, rec),
           NEW p, IsParted(S, D, n, rec, p), p.err = "ok",
           NEW q, IsResult(q),
           Inner(D, p, rec, q),
           NEW r, r = SplitResult(q, p)
    PROVE  IsInsert(S, D, n, rec, r) /\ IsResult(r) /\ (r.err = "ok" => r.s = q.s /\ did_split(r))
<1>. DEFINE m == p.new
            X == Linked(S, n, rec)
            k1 == q.s.nd[m].recs[1].k
            i1 == [k |-> k1, v |-> m]
<1>1. /\ Good(p.s, D) /\ Extends(S, p.s, {}) /\ m \in Loose(p.s) /\ m \notin S.alloc
      /\ Empty(p.s) \subseteq {m} /\ p.inOld \in BOOLEAN /\ p.into = (IF p.inOld THEN n ELSE m)
      /\ (p.inOld => p.s.nd[m].recs # << >>)
      /\ p.bip \in Int /\ p.s.nd[p.into].leaf = S.nd[n].leaf /\ n \in Live(S) /\ p.s.nd[m].leaf = S.nd[n].leaf
      /\ (p.overfull /\ ~p.inOld => S.nd[n].leaf)
  BY DEF IsParted, MayInsert
<1>2. /\ m \in Live(p.s) /\ m # n /\ m \in NodeBlks /\ S.alloc \subseteq p.s.alloc /\ m \in p.s.alloc
      /\ p.into \in Live(p.s)
  BY <1>1 DEF Loose, Live, Extends
<1>3. Linked(p.s, p.into, rec) = X /\ m \notin X
  <2>1. ~S.nd[n].leaf => rec.v \in S.alloc
    BY DEF MayInsert, Loose, Live
  <2>. QED  BY <1>1, <2>1 DEF Linked
<1>4. \A T, Y : Extends(p.s, T, Y) => Extends(S, T, Y)
  <2>1. ASSUME NEW T, NEW Y, Extends(p.s, T, Y)  PROVE Extends(S, T, Y)
    <3>1. Extends(S, T, {} \cup Y)
      BY <1>1, <2>1, ExtendsTrans, Zenon
    <3>2. {} \cup Y = Y
      OBVIOUS
    <3>. QED  BY <3>1, <3>2, Zenon
  <2>. QED  BY <2>1
<1>5. CASE q.err # "ok"
  <2>1. r = q
    BY <1>5 DEF SplitResult
  <2>2. ASSUME Refused(p.s, D, p.into, q)  PROVE Refused(S, D, n, q)
    BY <1>1, <1>4, <2>2 DEF Refused
  <2>. QED  BY <1>5, <2>1, <2>2, Zenon DEF Inner, IsInsert, Returned, Put
<1>8. ASSUME q.s.nd[m].recs # << >>, Good(q.s, D), Extends(p.s, q.s, X)
      PROVE  i1 \in Record /\ i1 # NoRec /\ m \in Loose(q.s)
  <2>1. m \in Loose(q.s)
    BY <1>1, <1>3, <1>8 DEF Extends
  <2>2. k1 \in Nat
    <3>1. m \in Live(q.s)
      BY <2>1 DEF Loose
    <3>. QED  BY <1>8, <3>1, FirstRecord
  <2>3. m \in Nat
    BY <1>2, Blocks
  <2>. HIDE DEF m, k1
  <2>. QED  BY <2>1, <2>2, <2>3 DEF Record, NoRec
<1>9. ASSUME r = WithIndex(q, p), q.err = "ok", Good(q.s, D), Extends(p.s, q.s, X), Empty(q.s) = {},
             q.s.nd[m].recs # << >>,
             q.i1 # NoRec => q.i1 \in Record /\ q.i1.v \in Loose(q.s) /\ q.i1.v \notin p.s.alloc
      PROVE  IsInsert(S, D, n, rec, r) /\ IsResult(r) /\ (r.err = "ok" => r.s = q.s /\ did_split(r))
  <2>1. Extends(S, q.s, X)
    BY <1>4, <1>9
  <2>2. CASE Fails(q.s, "index", m)
    <3>1. r = Fail(q.s, "ENOMEM")
      BY <1>9, <2>2 DEF WithIndex
    <3>2. r.s = q.s /\ r.err = "ENOMEM" /\ IsResult(r)
      BY <3>1, Results DEF Fail, Done
    <3>3. S.nd[n].leaf => X = {}
      BY DEF Linked
    <3>. HIDE DEF X
    <3>4. Refused(S, D, n, r)
      BY <1>9, <2>1, <3>2, <3>3 DEF Refused
    <3>. QED  BY <3>2, <3>4 DEF IsInsert
  <2>3. CASE ~Fails(q.s, "index", m)
    <3>1. Told(q, r, i1, q.i1, p.bip)
      <4>1. r = [q EXCEPT !.i1 = i1, !.i2 = q.i1, !.bip = p.bip]
        BY <1>9, <2>3, Zenon DEF WithIndex
      <4>. HIDE DEF i1
      <4>2. Telling(q, r, i1, q.i1, p.bip)
        BY <4>1, Zenon DEF Telling
      <4>. QED  BY <4>2, Tell, Zenon
    <3>2. i1 \in Record /\ i1 # NoRec /\ m \in Loose(q.s) /\ i1.v = m
      <4>1. i1.v = m
        OBVIOUS
      <4>. QED  BY <1>8, <1>9, <4>1
    <3>. HIDE DEF i1, m, X
    <3>3. r.err = "ok" /\ r.s = q.s /\ r.i1 = i1 /\ r.i2 = q.i1 /\ r.bip = p.bip /\ IsResult(r)
      BY <1>9, <3>1, Zenon DEF Told
    <3>4. Splits(S, r) /\ did_split(r)
      <4>1. r.i2 # NoRec => r.i2.v # m
        BY <1>2, <1>9, <3>3
      <4>. QED  BY <1>1, <1>2, <1>9, <3>2, <3>3, <4>1 DEF Splits, did_split
    <3>5. Returned(S, D, X, r)
      BY <1>9, <2>1, <3>3, <3>4 DEF Returned
    <3>. QED  BY <3>3, <3>4, <3>5 DEF IsInsert, X
  <2>. QED  BY <2>2, <2>3
<1>6. CASE q.err = "ok" /\ ~did_split(q)
  <2>1. r = WithIndex(q, p)
    BY <1>6, Zenon DEF SplitResult
  <2>3. Put(p.s, D, p.into, X, q)
    BY <1>3, <1>6, Zenon DEF Inner, Aborted, Refused
  <2>4. Good(q.s, D) /\ Extends(p.s, q.s, X) /\ Empty(q.s) = Empty(p.s) \ {p.into}
        /\ q.i2 = NoRec /\ q.s.nd[p.into].recs # << >>
        /\ \A l \in Live(p.s) : l # p.into => q.s.nd[l] = p.s.nd[l]
    BY <2>3 DEF Put
  <2>5. q.s.nd[m].recs # << >>
    <3>1. CASE p.inOld
      BY <1>1, <1>2, <2>4, <3>1
    <3>2. CASE ~p.inOld
      BY <1>1, <2>4, <3>2
    <3>. QED  BY <3>1, <3>2
  <2>6. Empty(q.s) = {}
    <3>1. CASE p.inOld
      <4>1. m \notin Empty(p.s)
        BY <1>1, <3>1 DEF Empty
      <4>. QED  BY <1>1, <2>4, <4>1
    <3>2. CASE ~p.inOld
      BY <1>1, <2>4, <3>2
    <3>. QED  BY <3>1, <3>2
  <2>7. q.i1 = NoRec
    BY <1>6 DEF did_split
  <2>. QED  BY <1>6, <1>9, <2>1, <2>4, <2>5, <2>6, <2>7
<1>7. CASE q.err = "ok" /\ did_split(q)
  <2>1. Returned(p.s, D, X, q) /\ (p.overfull /\ ~p.inOld => q.s.nd[m].recs # << >>)
    BY <1>3, <1>7, Zenon DEF Inner, Aborted, Refused, Put, did_split
  <2>2. /\ Good(q.s, D) /\ Extends(p.s, q.s, X) /\ Empty(q.s) = {} /\ Splits(p.s, q) /\ q.s \in State
    BY <1>7, <2>1 DEF Returned, Good
  <2>3. CASE Aborted(r) /\ IsResult(r)
    BY <2>3 DEF IsInsert, Aborted
  <2>4. CASE r = WithIndex(q, p) /\ p.overfull /\ ~p.inOld
    <3>1. q.i1 \in Record /\ q.i1.v \in Loose(q.s) /\ q.i1.v \notin p.s.alloc
      BY <2>2 DEF Splits
    <3>. QED  BY <1>7, <1>9, <2>1, <2>2, <2>4, <3>1
  <2>5. \/ Aborted(r) /\ IsResult(r)
        \/ r = WithIndex(q, p) /\ p.overfull /\ ~p.inOld
    <3>. DEFINE a == Abort(q.s, "!bsi_did_split(&rbsi)")
                b == Abort(q.s, "tailsz > maxsz && nrecsz > btnp->btnp_freespace")
                c == Abort(q.s, "!rbsi.bsi_split_index2")
                y == WithIndex(q, p)
    <3>1. Aborted(a) /\ Aborted(b) /\ Aborted(c) /\ IsResult(a) /\ IsResult(b) /\ IsResult(c)
      BY <2>2, AbortIs, Results
    <3>2. r = a \/ r = b \/ r = c \/ (r = y /\ p.overfull /\ ~p.inOld)
      <4>1. CASE p.inOld
        BY <1>7, <4>1, Zenon DEF SplitResult
      <4>2. CASE ~p.inOld /\ ~p.overfull
        BY <1>7, <4>2, Zenon DEF SplitResult
      <4>3. CASE ~p.inOld /\ p.overfull
        BY <1>7, <4>3, Zenon DEF SplitResult
      <4>. QED  BY <4>1, <4>2, <4>3
    <3>. HIDE DEF a, b, c, y
    <3>. QED  BY <3>1, <3>2, Zenon DEF y
  <2>. QED  BY <2>3, <2>4, <2>5
<1>. QED  BY <1>5, <1>6, <1>7

\* A record that fits is put in, in the node as it is after a split.
LEMMA HereIs ==
    ASSUME NEW S, NEW D, NEW n, NEW rec, NEW p, IsParted(S, D, n, rec, p),
           ~MustSplit(p.s.nd[p.into], rec),
           NEW q, q = InsertHere(p.s, p.into, rec)
    PROVE  Inner(D, p, rec, q) /\ ~(q.err = "ok" /\ did_split(q))
           /\ (q.err = "ok" => q.s.nd[p.into].recs # << >>)
<1>1. /\ Good(p.s, D) /\ MayInsert(p.s, p.into, rec)
      /\ (p.s.nd[p.into].leaf => Empty(p.s) = {})
  <2>1. /\ Good(p.s, D) /\ MayInsert(p.s, p.into, rec) /\ Empty(p.s) \subseteq {p.new}
        /\ p.s.nd[p.into].leaf = p.s.nd[p.new].leaf
    BY DEF IsParted
  <2>. QED  BY <2>1 DEF Empty
<1>2. Aborted(q) \/ q = Fail(p.s, "EEXIST") \/ Put(p.s, D, p.into, Linked(p.s, p.into, rec), q)
  BY <1>1, InsertHereIs, Zenon
<1>3. ASSUME q = Fail(p.s, "EEXIST")  PROVE Refused(p.s, D, p.into, q)
  <2>1. q.err = "EEXIST" /\ q.s = p.s
    BY <1>3 DEF Fail, Done
  <2>. QED  BY <1>1, <2>1, ExtendsSelf DEF Refused
<1>4. Aborted(q) \/ Refused(p.s, D, p.into, q) => q.err # "ok"
  BY DEF Aborted, Refused
<1>. QED  BY <1>2, <1>3, <1>4, Zenon DEF Inner, Put, did_split

Ready(S, D, n, rec) == Good(S, D) /\ Empty(S) = {} /\ MayInsert(S, n, rec)

LEMMA SplitFailed ==
    ASSUME NEW S, NEW D, NEW n, NEW rec, NEW p, IsSplit(S, D, n, rec, p), p.err # "ok",
           NEW r, r = Fail(p.s, p.err)
    PROVE  IsInsert(S, D, n, rec, r) /\ IsResult(r) /\ r.err # "ok"
<1>1. r.s = p.s /\ r.err = p.err
  BY DEF Fail, Done
<1>2. Unfit(p) => Aborted(r)
  BY <1>1 DEF Unfit, Aborted
<1>3. Refused(S, D, n, p) => Refused(S, D, n, r)
  BY <1>1 DEF Refused
<1>. QED  BY <1>1, <1>2, <1>3, Results, Zenon DEF IsSplit, IsInsert

LEMMA SplitOnceIs ==
    ASSUME NEW S, NEW D, NEW n, NEW rec, Ready(S, D, n, rec), MustSplit(S.nd[n], rec), ShortKeys,
           NEW r, r = SplitOnce(S, n, rec)
    PROVE  /\ IsInsert(S, D, n, rec, r) /\ IsResult(r) /\ (r.err = "ok" => did_split(r))
           /\ r.err = "ok" /\ S.nd[n].leaf /\ ~S.nd[n].root /\ At(S.nd[n].recs, rec.k) = 1 /\ Large(rec) =>
                r.s.nd[n].recs # << >>
<1>. DEFINE p == Split(S, n, rec)
            q == InsertUnsplit(p.s, p.into, rec)
            special == S.nd[n].leaf /\ ~S.nd[n].root /\ At(S.nd[n].recs, rec.k) = 1 /\ Large(rec)
<1>1. r = IF p.err # "ok" THEN Fail(p.s, p.err) ELSE SplitResult(q, p)
  BY Zenon DEF SplitOnce, FinishOnce
<1>2. IsSplit(S, D, n, rec, p)
  BY SplitIs DEF Ready
<1>. HIDE DEF p
<1>3. CASE p.err # "ok"
  <2>1. r = Fail(p.s, p.err)
    BY <1>1, <1>3
  <2>. QED  BY <1>2, <1>3, <2>1, SplitFailed, Zenon
<1>4. CASE p.err = "ok"
  <2>1. IsParted(S, D, n, rec, p)
    BY <1>2, <1>4 DEF IsSplit, Refused, Unfit
  <2>2. Good(p.s, D) /\ MayInsert(S, n, rec) /\ p.s \in State
    BY <2>1 DEF IsParted, Good, Ready
  <2>3. /\ Inner(D, p, rec, q)
        /\ q.err = "ok" => q.s.nd[p.into].recs # << >>
    <3>1. CASE MustSplit(p.s.nd[p.into], rec)
      <4>1. q = Abort(p.s, "split three times")
        BY <3>1, Zenon DEF InsertUnsplit
      <4>2. Aborted(q)
        BY <2>2, <4>1, AbortIs
      <4>. QED  BY <4>2 DEF Inner, Aborted
    <3>2. CASE ~MustSplit(p.s.nd[p.into], rec)
      <4>1. q = InsertHere(p.s, p.into, rec)
        BY <3>2, Zenon DEF InsertUnsplit
      <4>. QED  BY <2>1, <3>2, <4>1, HereIs, Zenon
    <3>. QED  BY <3>1, <3>2
  <2>4. IsResult(q) /\ r = SplitResult(q, p)
    BY <1>1, <1>4, HereReturns
  <2>. HIDE DEF q
  <2>5. IsInsert(S, D, n, rec, r) /\ IsResult(r) /\ (r.err = "ok" => r.s = q.s /\ did_split(r))
    <3>1. MayInsert(S, n, rec) /\ Inner(D, p, rec, q) /\ IsResult(q) /\ r = SplitResult(q, p)
      BY <2>2, <2>3, <2>4
    <3>. QED  BY <1>4, <2>1, <3>1, SplitResultIs, Zenon
  <2>6. q.err # "ok" => r = q
    BY <2>4, Zenon DEF SplitResult
  <2>7. ASSUME r.err = "ok", special  PROVE r.s.nd[n].recs # << >>
    <3>1. p.inOld /\ p.into = n
      BY <2>1, <2>7 DEF IsParted
    <3>. QED  BY <2>3, <2>5, <2>6, <2>7, <3>1
  <2>. QED  BY <2>5, <2>7
<1>. QED  BY <1>3, <1>4

\* The insertion after a split of a node, with one more split.
LEMMA OnceIs ==
    ASSUME NEW S, NEW D, NEW n, NEW rec, NEW p, IsParted(S, D, n, rec, p), ShortKeys,
           NEW q, q = InsertOnce(p.s, p.into, rec)
    PROVE  Inner(D, p, rec, q) /\ IsResult(q)
<1>1. CASE ~MustSplit(p.s.nd[p.into], rec)
  <2>1. q = InsertHere(p.s, p.into, rec)
    BY <1>1, Zenon DEF InsertOnce
  <2>. QED  BY <1>1, <2>1, HereIs, HereReturns, Zenon
<1>2. CASE MustSplit(p.s.nd[p.into], rec)
  <2>. DEFINE b == p.s.nd[p.into]
  <2>1. q = SplitOnce(p.s, p.into, rec)
    BY <1>2, Zenon DEF InsertOnce
  <2>2. Ready(p.s, D, p.into, rec)
    <3>1. /\ Good(p.s, D) /\ MayInsert(p.s, p.into, rec) /\ Empty(p.s) \subseteq {p.new}
          /\ p.into = (IF p.inOld THEN n ELSE p.new) /\ (p.inOld => p.s.nd[p.new].recs # << >>)
          /\ b.leaf = p.s.nd[p.new].leaf /\ p.inOld \in BOOLEAN
      BY DEF IsParted
    <3>2. b.leaf \/ b.recs # << >>
      BY <1>2 DEF MustSplit
    <3>3. Empty(p.s) = {}
      BY <3>1, <3>2 DEF Empty
    <3>. QED  BY <3>1, <3>3 DEF Ready
  <2>. HIDE DEF b
  <2>3. /\ IsInsert(p.s, D, p.into, rec, q) /\ IsResult(q) /\ (q.err = "ok" => did_split(q))
        /\ q.err = "ok" /\ b.leaf /\ ~b.root /\ At(b.recs, rec.k) = 1 /\ Large(rec) =>
                q.s.nd[p.into].recs # << >>
    BY <1>2, <2>1, <2>2, SplitOnceIs, Zenon DEF b
  <2>4. p.overfull /\ ~p.inOld => /\ b.leaf /\ ~b.root /\ At(b.recs, rec.k) = 1 /\ Large(rec)
                                  /\ p.into = p.new
    BY DEF IsParted, b
  <2>. QED  BY <2>3, <2>4, Zenon DEF IsInsert, Inner, Returned
<1>. QED  BY <1>1, <1>2

\* btn_insert: the record goes in, and what is told of the split is true.
LEMMA InsertIs ==
    ASSUME NEW S, NEW D, NEW n, NEW rec, Ready(S, D, n, rec), ShortKeys,
           NEW r, r = btn_insert(S, n, rec)
    PROVE  IsInsert(S, D, n, rec, r) /\ IsResult(r)
<1>1. Good(S, D) /\ Empty(S) = {} /\ MayInsert(S, n, rec)
  BY DEF Ready
<1>2. CASE ~MustSplit(S.nd[n], rec)
  <2>1. r = InsertHere(S, n, rec)
    BY <1>2, Zenon DEF btn_insert
  <2>2. Aborted(r) \/ r = Fail(S, "EEXIST") \/ Put(S, D, n, Linked(S, n, rec), r)
    BY <1>1, <1>2, <2>1, InsertHereIs, Zenon
  <2>3. ASSUME r = Fail(S, "EEXIST")  PROVE Refused(S, D, n, r)
    <3>1. r.err = "EEXIST" /\ r.s = S
      BY <2>3 DEF Fail, Done
    <3>. QED  BY <1>1, <3>1, ExtendsSelf DEF Refused
  <2>4. ASSUME Put(S, D, n, Linked(S, n, rec), r)  PROVE Returned(S, D, Linked(S, n, rec), r)
    BY <1>1, <2>4 DEF Put, Returned, did_split
  <2>. QED  BY <2>1, <2>2, <2>3, <2>4, HereReturns, Zenon DEF IsInsert
<1>3. CASE MustSplit(S.nd[n], rec)
  <2>. DEFINE p == Split(S, n, rec)
              q == InsertOnce(p.s, p.into, rec)
  <2>1. r = IF p.err # "ok" THEN Fail(p.s, p.err) ELSE SplitResult(q, p)
    BY <1>3, Zenon DEF btn_insert, btn_insert_split, Finish
  <2>2. IsSplit(S, D, n, rec, p)
    BY <1>1, <1>3, SplitIs
  <2>. HIDE DEF p
  <2>3. CASE p.err # "ok"
    <3>1. r = Fail(p.s, p.err)
      BY <2>1, <2>3
    <3>. QED  BY <2>2, <2>3, <3>1, SplitFailed, Zenon
  <2>4. CASE p.err = "ok"
    <3>1. IsParted(S, D, n, rec, p)
      BY <2>2, <2>4 DEF IsSplit, Refused, Unfit
    <3>2. Inner(D, p, rec, q) /\ IsResult(q)
      BY <3>1, OnceIs
    <3>3. r = SplitResult(q, p)
      BY <2>1, <2>4
    <3>. HIDE DEF q
    <3>. QED  BY <1>1, <2>4, <3>1, <3>2, <3>3, SplitResultIs, Zenon
  <2>. QED  BY <2>3, <2>4
<1>. QED  BY <1>2, <1>3

-----------------------------------------------------------------------------
(* The way down                                                            *)

\* The pointer that leads on from n.
Below(S, n, k) == Ptr(S.nd[n], Route(S.nd[n].recs, k))

\* t leads down from n.
Trail(S, k, n, t) ==
    /\ t \in Seq(Live(S)) /\ Len(t) >= 1 /\ t[1] = n
    /\ \A i \in 1 .. Len(t) - 1 : ~S.nd[t[i]].leaf /\ t[i + 1] = Below(S, t[i], k)

LEMMA BelowIs ==
    ASSUME NEW S, NEW D, Good(S, D), NEW n \in Live(S), NEW k \in Nat
    PROVE  /\ Route(S.nd[n].recs, k) \in 0 .. Len(S.nd[n].recs)
           /\ ~S.nd[n].leaf /\ Below(S, n, k) # 0 => Below(S, n, k) \in Live(S)
<1>1. S.nd[n] \in Node
  BY Fields DEF Good
<1>2. Route(S.nd[n].recs, k) \in 0 .. Len(S.nd[n].recs)
  BY <1>1, NodeFields, RouteIs
<1>3. ~S.nd[n].leaf /\ Below(S, n, k) # 0 => Below(S, n, k) \in Kids(S.nd[n])
  BY <1>2 DEF Below, Kids
<1>. QED  BY <1>2, <1>3 DEF Good

LEMMA TrailFrom ==
    ASSUME NEW S, NEW k, NEW n \in Live(S), NEW t, NEW u,
           u = <<n>> \/ (u = <<n>> \o t /\ ~S.nd[n].leaf /\ Trail(S, k, Below(S, n, k), t))
    PROVE  Trail(S, k, n, u)
<1>1. CASE u = <<n>>
  <2>1. u \in Seq(Live(S)) /\ Len(u) = 1 /\ u[1] = n
    BY <1>1
  <2>2. 1 .. Len(u) - 1 = {}
    BY <2>1
  <2>. HIDE <1>1
  <2>. QED  BY <2>1, <2>2 DEF Trail
<1>2. CASE u = <<n>> \o t /\ ~S.nd[n].leaf /\ Trail(S, k, Below(S, n, k), t)
  <2>1. t \in Seq(Live(S)) /\ Len(t) \in Nat /\ Len(t) >= 1 /\ t[1] = Below(S, n, k)
        /\ \A i \in 1 .. Len(t) - 1 : ~S.nd[t[i]].leaf /\ t[i + 1] = Below(S, t[i], k)
    BY <1>2 DEF Trail
  <2>2. u \in Seq(Live(S)) /\ Len(u) = Len(t) + 1 /\ u[1] = n
        /\ \A i \in 1 .. Len(t) : u[i + 1] = t[i]
    BY <1>2, <2>1
  <2>3. ASSUME NEW i \in 1 .. Len(u) - 1
        PROVE  ~S.nd[u[i]].leaf /\ u[i + 1] = Below(S, u[i], k)
    <3>1. CASE i = 1
      <4>1. u[1 + 1] = t[1]
        BY <2>1, <2>2
      <4>. HIDE <1>2
      <4>. QED  BY <1>2, <2>1, <2>2, <3>1, <4>1
    <3>2. CASE i # 1
      <4>1. i - 1 \in 1 .. Len(t) - 1 /\ i - 1 \in 1 .. Len(t) /\ i \in 1 .. Len(t) /\ (i - 1) + 1 = i
        BY <2>1, <2>2, <3>2
      <4>2. u[i] = t[i - 1] /\ u[i + 1] = t[i]
        BY <2>2, <4>1
      <4>3. ~S.nd[t[i - 1]].leaf /\ t[i] = Below(S, t[i - 1], k)
        BY <2>1, <4>1
      <4>. QED  BY <4>2, <4>3, Zenon
    <3>. QED  BY <3>1, <3>2
  <2>4. Len(u) >= 1
    BY <2>1, <2>2
  <2>. QED  BY <2>2, <2>3, <2>4, Zenon DEF Trail
<1>. QED  BY <1>1, <1>2

LEMMA PathIs ==
    ASSUME NEW S, NEW D, Good(S, D), NEW k \in Nat
    PROVE  Trail(S, k, S.root, Path(S, k))
<1>. DEFINE L == NBlocks
            Step(f, d) == [n \in NodeBlks |->
                             LET b == S.nd[n]
                                 p == Ptr(b, Route(b.recs, k))
                             IN  IF d = 0 \/ b.leaf \/ p = 0 THEN <<n>> ELSE <<n>> \o f[d - 1][p]]
            Solves(f, m) == f = [d \in 0 .. m |-> Step(f, d)]
            P == {m \in 0 .. L : \E f : Solves(f, m)}
<1>1. L \in Nat
  BY Blocks
<1>2. Path(S, k) = (CHOOSE f : Solves(f, L))[L][S.root]
  BY DEF Path
<1>3. \A f, g : Step(f, 0) = Step(g, 0)
  OBVIOUS
<1>4. \A f, g, i : f[i - 1] = g[i - 1] => Step(f, i) = Step(g, i)
  OBVIOUS
<1>5. \A f, i : \A n \in Live(S) :
         \/ Step(f, i)[n] = <<n>>
         \/ i # 0 /\ ~S.nd[n].leaf /\ Below(S, n, k) # 0 /\ Step(f, i)[n] = <<n>> \o f[i - 1][Below(S, n, k)]
  BY DEF Below, Live
<1>. HIDE DEF Step
<1>6. 0 \in P
  <2>. DEFINE g == [i \in 0 .. 0 |-> Step(0, 0)]
  <2>1. Solves(g, 0)
    BY <1>3
  <2>. HIDE DEF Solves, g
  <2>. QED  BY <1>1, <2>1
<1>7. ASSUME NEW m \in 1 .. L, m - 1 \in P  PROVE m \in P
  <2>1. PICK f : Solves(f, m - 1)
    BY <1>7
  <2>. DEFINE g == [i \in 0 .. m |-> IF i = m THEN Step(f, m) ELSE f[i]]
  <2>2. \A i \in 0 .. m - 1 : g[i] = f[i] /\ f[i] = Step(f, i)
    BY <2>1
  <2>3. \A i \in 0 .. m : g[i] = Step(g, i)
    <3>1. g[m] = Step(g, m)
      BY <1>4, <2>2
    <3>2. ASSUME NEW i \in 1 .. m - 1  PROVE g[i] = Step(g, i)
      <4>1. i - 1 \in 0 .. m - 1 /\ i \in 0 .. m - 1
        OBVIOUS
      <4>2. g[i - 1] = f[i - 1] /\ g[i] = Step(f, i)
        BY <2>2, <4>1
      <4>. HIDE DEF g
      <4>. QED  BY <1>4, <4>2
    <3>3. g[0] = Step(g, 0)
      BY <1>3, <2>2
    <3>. QED  BY <3>1, <3>2, <3>3
  <2>4. Solves(g, m)
    BY <2>3
  <2>. HIDE DEF Solves, g
  <2>. QED  BY <1>1, <2>4
<1>8. \E f : Solves(f, L)
  <2>. HIDE DEF Solves
  <2>1. \A i \in 0 .. L : i \in P
    <3>. HIDE DEF P, L
    <3>. QED  BY <1>1, <1>6, <1>7, Climb
  <2>. QED  BY <1>1, <2>1
<1>. DEFINE path == CHOOSE f : Solves(f, L)
<1>9. Solves(path, L)
  <2>. HIDE DEF Solves
  <2>. QED  BY <1>8
<1>10. \A i \in 0 .. L : path[i] = Step(path, i)
  <2>. HIDE DEF path
  <2>. QED  BY <1>9
<1>15. Path(S, k) = path[L][S.root]
  BY <1>2, Zenon
<1>. HIDE DEF path, Solves, P
<1>. DEFINE Q == {i \in 0 .. L : \A n \in Live(S) : Trail(S, k, n, path[i][n])}
<1>11. 0 \in Q
  <2>1. ASSUME NEW n \in Live(S)  PROVE Trail(S, k, n, path[0][n])
    <3>1. path[0][n] = <<n>>
      <4>1. path[0] = Step(path, 0)
        BY <1>1, <1>10
      <4>. QED  BY <1>5, <4>1
    <3>. QED  BY <3>1, TrailFrom
  <2>. QED  BY <1>1, <2>1
<1>12. ASSUME NEW i \in 1 .. L, i - 1 \in Q  PROVE i \in Q
  <2>1. ASSUME NEW n \in Live(S)  PROVE Trail(S, k, n, path[i][n])
    <3>1. path[i] = Step(path, i)
      BY <1>1, <1>10
    <3>2. CASE path[i][n] = <<n>>
      BY <3>2, TrailFrom
    <3>3. CASE ~S.nd[n].leaf /\ Below(S, n, k) # 0 /\ path[i][n] = <<n>> \o path[i - 1][Below(S, n, k)]
      <4>1. Below(S, n, k) \in Live(S)
        BY <3>3, BelowIs
      <4>2. Trail(S, k, Below(S, n, k), path[i - 1][Below(S, n, k)])
        BY <1>12, <4>1
      <4>. QED  BY <3>3, <4>2, TrailFrom
    <3>. QED  BY <1>5, <3>1, <3>2, <3>3, ZenonT(60)
  <2>. QED  BY <1>1, <2>1
<1>13. \A i \in 0 .. L : i \in Q
  <2>. HIDE DEF Q, L
  <2>. QED  BY <1>1, <1>11, <1>12, Climb
<1>14. L \in 0 .. L /\ S.root \in Live(S)
  <2>1. S.root \in Live(S)
    BY Fields DEF Good, Live
  <2>. QED  BY <1>1, <2>1
<1>. QED  BY <1>13, <1>14, <1>15

-----------------------------------------------------------------------------
(* _bt_insert                                                              *)

\* What the calls on the nodes of the path return, the first one to S.
Level(S, D, r) ==
    /\ IsResult(r)
    /\ \/ Aborted(r)
       \/ /\ r.err # "abort" /\ Good(r.s, D) /\ Extends(S, r.s, {}) /\ Empty(r.s) = {}
          /\ r.err = "ok" /\ did_split(r) => Splits(S, r)

\* What is lost are nodes that S did not have.
LEMMA Newly ==
    ASSUME NEW S, NEW T, NEW U, NEW X, Extends(S, T, {}), Extends(T, U, X), X \cap S.alloc = {}
    PROVE  Extends(S, U, {})
<1>1. Loose(S) \subseteq S.alloc /\ Live(S) \subseteq Live(T)
  BY DEF Loose, Live, Extends
<1>. QED  BY <1>1 DEF Extends

LEMMA LeafLevel ==
    ASSUME NEW S, NEW T, NEW D, NEW n, NEW rec, T.nd[n].leaf, Extends(S, T, {}),
           NEW r, IsInsert(T, D, n, rec, r), IsResult(r)
    PROVE  Level(S, D, r)
<1>1. CASE Aborted(r)
  BY <1>1 DEF Level
<1>2. CASE Refused(T, D, n, r)
  <2>1. r.err # "abort" /\ r.err # "ok" /\ Good(r.s, D) /\ Extends(T, r.s, {}) /\ Empty(r.s) = {}
    BY <1>2 DEF Refused
  <2>2. Extends(S, r.s, {})
    BY <2>1, Newly
  <2>. QED  BY <2>1, <2>2 DEF Level
<1>3. CASE Returned(T, D, Linked(T, n, rec), r)
  <2>1. Linked(T, n, rec) = {}
    BY DEF Linked
  <2>2. r.err = "ok" /\ Good(r.s, D) /\ Extends(T, r.s, {}) /\ Empty(r.s) = {}
        /\ (did_split(r) => Splits(T, r))
    BY <1>3, <2>1 DEF Returned
  <2>3. Extends(S, r.s, {})
    BY <2>2, Newly
  <2>4. Splits(T, r) => Splits(S, r)
    BY DEF Splits, Extends
  <2>. QED  BY <2>2, <2>3, <2>4 DEF Level
<1>. QED  BY <1>1, <1>2, <1>3 DEF IsInsert

\* The last step of a call: the root is marked dirty.
RootMarked(i, r) == r = [i EXCEPT !.s.dirty = @ \cup {i.s.root}]

IsMarked(i, r) ==
    /\ IsResult(r) /\ r.err = i.err /\ r.i1 = i.i1 /\ r.i2 = i.i2 /\ r.bip = i.bip
    /\ r.s = [i.s EXCEPT !.dirty = @ \cup {i.s.root}]

LEMMA Marked ==
    ASSUME NEW i, IsResult(i), NEW r, RootMarked(i, r)
    PROVE  IsMarked(i, r)
<1>1. PICK W : i \in [s : W, err : W, i1 : W, i2 : W, bip : W]
  BY DEF IsResult
<1>. DEFINE T == [i.s EXCEPT !.dirty = @ \cup {i.s.root}]
            V == W \cup {T}
<1>2. r = [i EXCEPT !.s = T]
  BY Zenon DEF RootMarked
<1>. HIDE DEF T
<1>3. /\ r \in [s : V, err : V, i1 : V, i2 : V, bip : V]
      /\ r.s = T /\ r.err = i.err /\ r.i1 = i.i1 /\ r.i2 = i.i2 /\ r.bip = i.bip
  BY <1>1, <1>2
<1>. HIDE DEF V
<1>. QED  BY <1>3, Zenon DEF IsMarked, IsResult, T

LEMMA FromChildIs ==
    ASSUME NEW S, NEW D, NEW n \in Live(S), ~S.nd[n].leaf, ShortKeys,
           NEW c, Level(S, D, c), NEW r, r = FromChild(c, n)
    PROVE  Level(S, D, r)
<1>1. CASE c.err # "ok" \/ ~did_split(c)
  <2>1. r = c
    BY <1>1, Zenon DEF FromChild
  <2>. QED  BY <2>1
<1>2. CASE c.err = "ok" /\ did_split(c)
  <2>. DEFINE A == AddNodes(c.s, 1)
              i == btn_insert(A, n, c.i1)
              X == {c.i1.v}
  <2>1. r = Indexed(i, c.i2)
    BY <1>2, Zenon DEF FromChild, AddIndex
  <2>2. /\ Good(c.s, D) /\ Extends(S, c.s, {}) /\ Empty(c.s) = {} /\ Splits(S, c)
    BY <1>2 DEF Level, Aborted
  <2>3. /\ Good(A, D) /\ Extends(c.s, A, {}) /\ Live(A) = Live(c.s) /\ Empty(A) = {}
    BY <2>2, Counted
  <2>. HIDE DEF A
  <2>4. Extends(S, A, {})
    BY <2>2, <2>3, Newly
  <2>5. Ready(A, D, n, c.i1) /\ ~A.nd[n].leaf
    <3>1. n \in Live(A) /\ ~A.nd[n].leaf
      BY <2>4 DEF Extends, Live
    <3>2. c.i1 \in Record /\ c.i1.v \in Loose(A)
      BY <2>2, <2>3 DEF Splits, Extends
    <3>. QED  BY <2>3, <3>1, <3>2 DEF Ready, MayInsert
  <2>6. IsInsert(A, D, n, c.i1, i) /\ IsResult(i)
    BY <2>5, InsertIs
  <2>. HIDE DEF i
  <2>7. CASE Aborted(i)
    <3>1. r = i
      BY <2>1, <2>7 DEF Indexed, Aborted
    <3>. QED  BY <2>6, <2>7, <3>1 DEF Level
  <2>8. CASE Refused(A, D, n, i)
    <3>1. i.err \notin {"ok", "abort"} /\ i.s \in State
      BY <2>8 DEF Refused, Good
    <3>2. r = Abort(i.s, "!err")
      BY <2>1, <3>1, Zenon DEF Indexed
    <3>. QED  BY <3>1, <3>2, AbortIs, Results DEF Level
  <2>9. CASE Returned(A, D, Linked(A, n, c.i1), i)
    <3>1. /\ i.err = "ok" /\ Good(i.s, D) /\ Extends(A, i.s, X) /\ Empty(i.s) = {}
          /\ (did_split(i) => Splits(A, i)) /\ i.s \in State
      BY <2>5, <2>9 DEF Returned, Linked, Good
    <3>2. Extends(S, i.s, {})
      <4>1. X \cap S.alloc = {}
        BY <2>2 DEF Splits
      <4>. QED  BY <2>4, <3>1, <4>1, Newly
    <3>3. CASE c.i2 # NoRec
      <4>1. r = Abort(i.s, "!cbsi.bsi_split_index2")
        BY <2>1, <3>1, <3>3, Zenon DEF Indexed
      <4>. QED  BY <3>1, <4>1, AbortIs, Results DEF Level
    <3>4. CASE c.i2 = NoRec
      <4>1. RootMarked(i, r)
        BY <2>1, <3>1, <3>4, Zenon DEF Indexed, RootMarked
      <4>2. IsMarked(i, r)
        BY <2>6, <4>1, Marked, Zenon
      <4>. DEFINE E == {i.s.root}
                  T == r.s
      <4>3. T = [i.s EXCEPT !.dirty = @ \cup E] /\ E \in SUBSET Blks
        <5>1. i.s.root \in Blks
          BY <3>1, Fields, Blocks
        <5>. QED  BY <4>2, <5>1 DEF IsMarked
      <4>. HIDE DEF E, T
      <4>4. Good(T, D) /\ Extends(i.s, T, {}) /\ Empty(T) = {} /\ Loose(T) = Loose(i.s)
        BY <3>1, <4>3, MoreDirty
      <4>5. Extends(S, T, {})
        BY <3>2, <4>4, Newly
      <4>6. /\ IsResult(r) /\ r.err = "ok" /\ r.i1 = i.i1 /\ r.i2 = i.i2 /\ r.bip = i.bip
        BY <3>1, <4>2 DEF IsMarked
      <4>7. did_split(r) => Splits(S, r)
        <5>1. did_split(r) => Splits(A, i)
          BY <3>1, <4>6 DEF did_split
        <5>2. S.alloc \subseteq A.alloc
          BY <2>4 DEF Extends
        <5>3. Loose(r.s) = Loose(i.s)
          BY <4>4 DEF T
        <5>. QED  BY <4>6, <5>1, <5>2, <5>3 DEF Splits
      <4>. QED  BY <4>4, <4>5, <4>6, <4>7 DEF Level, T
    <3>. QED  BY <3>3, <3>4
  <2>. QED  BY <2>6, <2>7, <2>8, <2>9 DEF IsInsert
<1>. QED  BY <1>1, <1>2

IsNewChild(S, N, D, m) ==
    /\ Good(N, D) /\ Extends(S, N, {}) /\ Empty(N) = {}
    /\ m \in Live(N) /\ N.nd[m].leaf

LEMMA NewChildIs ==
    ASSUME NEW S, NEW D, Good(S, D), Empty(S) = {}, NEW n \in Live(S), ~S.nd[n].leaf,
           FreeBlks(S) # {}, NEW j \in 0 .. Len(S.nd[n].recs)
    PROVE  IsNewChild(S, NewChild(S, n, j), D, Min(FreeBlks(S)))
<1>. DEFINE m == Min(FreeBlks(S))
            A == btn_alloc(S, TRUE, FALSE)
            B == SetPtr(A, n, j, m)
            N == AddNodes(B, 1)
<1>1. IsAllocated(S, A, D, m, TRUE)
  <2>. HIDE DEF m
  <2>1. m = Min(FreeBlks(S))
    BY DEF m
  <2>. QED  BY <2>1, Allocated
<1>. HIDE DEF m, A
<1>2. /\ Good(A, D) /\ Extends(S, A, {}) /\ m \in Loose(A) /\ Empty(A) = {} /\ m \in Live(A)
      /\ n \in Live(A) /\ A.nd[n] = S.nd[n] /\ A.nd[m].leaf /\ m \notin S.alloc
  <2>1. /\ Good(A, D) /\ Extends(S, A, {}) /\ m \in Loose(A) /\ Empty(A) = {} /\ m \in Live(A)
        /\ m \notin S.alloc /\ n \in Live(A) /\ n # m /\ m \in NodeBlks /\ n \in NodeBlks
        /\ A.nd = [S.nd EXCEPT ![m] = NewNode(TRUE, FALSE)]
    BY <1>1 DEF IsAllocated, Live
  <2>2. S.nd \in [NodeBlks -> Node]
    BY Fields DEF Good
  <2>. HIDE <1>1
  <2>3. A.nd[n] = S.nd[n] /\ A.nd[m] = NewNode(TRUE, FALSE)
    BY <2>1, <2>2
  <2>. QED  BY <2>1, <2>3, NewNodeIs
<1>3. Good(B, D) /\ Extends(A, B, {m}) /\ Live(B) = Live(A) /\ Empty(B) = {}
  <2>1. IsPointed(A, B, D, n, j, m)
    BY <1>2, PointerSet
  <2>. QED  BY <1>2, <2>1 DEF IsPointed
<1>4. Extends(S, B, {})
  <2>1. {m} \cap S.alloc = {}
    BY <1>2
  <2>. QED  BY <1>2, <1>3, <2>1, Newly
<1>. HIDE DEF B
<1>5. Good(N, D) /\ Extends(B, N, {}) /\ Live(N) = Live(B) /\ Empty(N) = {}
  BY <1>3, Counted
<1>6. Extends(S, N, {})
  BY <1>4, <1>5, Newly
<1>7. m \in Live(N) /\ N.nd[m].leaf
  BY <1>2, <1>3, <1>5 DEF Extends
<1>8. NewChild(S, n, j) = N
  BY Zenon DEF NewChild, N, B, A, m
<1>. HIDE DEF N
<1>. QED  BY <1>5, <1>6, <1>7, <1>8 DEF IsNewChild, m

\* What bt_insert lets through: a record that a block has room for.
Fits(rec) == rec \in Record /\ btr_size(TRUE, rec) <= MaxInline

\* An operation that fails before it changes anything.
LEMMA FailedLevel ==
    ASSUME NEW S, NEW D, Empty(S) = {}, NEW r, IsFailed(S, D, r)
    PROVE  Level(S, D, r)
<1>1. r.err \notin {"abort", "ok"} /\ Good(r.s, D) /\ Extends(S, r.s, {}) /\ Empty(r.s) = {} /\ IsResult(r)
  BY DEF IsFailed, IsSame
<1>. QED  BY <1>1 DEF Level

LEMMA AtBottomIs ==
    ASSUME NEW S, NEW D, Good(S, D), Empty(S) = {}, NEW n \in Live(S), NEW rec, Fits(rec), ShortKeys,
           NEW r, r = AtBottom(S, n, rec)
    PROVE  Level(S, D, r)
<1>1. rec \in Record /\ rec.k \in Nat
  BY KeyIs DEF Fits
<1>2. CASE S.nd[n].leaf
  <2>1. r = btn_insert(S, n, rec)
    BY <1>2, Zenon DEF AtBottom
  <2>2. Ready(S, D, n, rec)
    BY <1>2 DEF Ready, MayInsert, Fits
  <2>3. IsInsert(S, D, n, rec, r) /\ IsResult(r)
    BY <2>1, <2>2, InsertIs
  <2>. QED  BY <1>2, <2>3, ExtendsSelf, LeafLevel, Zenon
<1>3. CASE ~S.nd[n].leaf /\ AllocFails(S, n)
  <2>1. r = FailedAlloc(S, n)
    BY <1>3, Zenon DEF AtBottom
  <2>. QED  BY <2>1, FailedAllocIs, FailedLevel, Zenon
<1>4. CASE ~S.nd[n].leaf /\ ~AllocFails(S, n)
  <2>. DEFINE j == Route(S.nd[n].recs, rec.k)
              m == Min(FreeBlks(S))
              N == NewChild(S, n, j)
              c == btn_insert(N, m, rec)
  <2>1. r = FromChild(c, n)
    BY <1>4, Zenon DEF AtBottom
  <2>2. IsNewChild(S, N, D, m)
    <3>1. j \in 0 .. Len(S.nd[n].recs)
      BY <1>1, BelowIs
    <3>. HIDE DEF j
    <3>2. FreeBlks(S) # {}
      BY <1>4 DEF AllocFails
    <3>. QED  BY <1>4, <3>1, <3>2, NewChildIs
  <2>. HIDE DEF N, m
  <2>3. Good(N, D) /\ Extends(S, N, {}) /\ Empty(N) = {} /\ m \in Live(N) /\ N.nd[m].leaf
    BY <2>2 DEF IsNewChild
  <2>4. IsInsert(N, D, m, rec, c) /\ IsResult(c)
    <3>1. Ready(N, D, m, rec)
      BY <2>3 DEF Ready, MayInsert, Fits
    <3>. QED  BY <3>1, InsertIs
  <2>. HIDE DEF c
  <2>5. Level(S, D, c)
    BY <2>3, <2>4, LeafLevel, Zenon
  <2>. QED  BY <1>4, <2>1, <2>5, FromChildIs, Zenon
<1>. QED  BY <1>2, <1>3, <1>4

LEMMA AscentIs ==
    ASSUME NEW S, NEW D, Good(S, D), Empty(S) = {}, NEW rec, Fits(rec), ShortKeys,
           NEW r, r = Ascent(S, rec)
    PROVE  Level(S, D, r)
<1>. DEFINE path == Path(S, rec.k)
            L == Len(path) - 1
            Step(f, u) == IF u = 0 THEN AtBottom(S, path[Len(path)], rec)
                          ELSE FromChild(f[u - 1], path[Len(path) - u])
            Solves(f, m) == f = [u \in 0 .. m |-> Step(f, u)]
            P == {m \in 0 .. L : \E f : Solves(f, m)}
<1>1. Trail(S, rec.k, S.root, path)
  BY KeyIs, PathIs DEF Fits
<1>2. r = (CHOOSE f : Solves(f, L))[L]
  BY DEF Ascent
<1>. HIDE DEF path
<1>3. path \in Seq(Live(S)) /\ Len(path) \in Nat /\ Len(path) >= 1 /\ L \in Nat
      /\ \A i \in 1 .. Len(path) - 1 : ~S.nd[path[i]].leaf
  BY <1>1 DEF Trail
<1>4. \A f, g : Step(f, 0) = Step(g, 0)
  OBVIOUS
<1>5. \A f, g, i : f[i - 1] = g[i - 1] => Step(f, i) = Step(g, i)
  OBVIOUS
<1>6. \A f : Step(f, 0) = AtBottom(S, path[Len(path)], rec)
  OBVIOUS
<1>7. \A f : \A i \in 1 .. L : Step(f, i) = FromChild(f[i - 1], path[Len(path) - i])
  OBVIOUS
<1>. HIDE DEF Step, L
<1>8. 0 \in P
  <2>. DEFINE g == [i \in 0 .. 0 |-> Step(0, 0)]
  <2>1. Solves(g, 0)
    BY <1>4
  <2>. HIDE DEF Solves, g
  <2>. QED  BY <1>3, <2>1
<1>9. ASSUME NEW m \in 1 .. L, m - 1 \in P  PROVE m \in P
  <2>1. PICK f : Solves(f, m - 1)
    BY <1>9
  <2>. DEFINE g == [i \in 0 .. m |-> IF i = m THEN Step(f, m) ELSE f[i]]
  <2>0. m \in Nat /\ 1 <= m
    BY <1>3
  <2>2. \A i \in 0 .. m - 1 : g[i] = f[i] /\ f[i] = Step(f, i)
    BY <2>0, <2>1
  <2>3. \A i \in 0 .. m : g[i] = Step(g, i)
    <3>1. g[m] = Step(g, m)
      BY <1>5, <2>0, <2>2
    <3>2. ASSUME NEW i \in 1 .. m - 1  PROVE g[i] = Step(g, i)
      <4>1. i - 1 \in 0 .. m - 1 /\ i \in 0 .. m - 1
        BY <2>0
      <4>2. g[i - 1] = f[i - 1] /\ g[i] = Step(f, i)
        BY <2>2, <4>1
      <4>. HIDE DEF g
      <4>. QED  BY <1>5, <4>2
    <3>3. g[0] = Step(g, 0)
      BY <1>4, <2>0, <2>2
    <3>4. \A i \in 0 .. m : i = 0 \/ i = m \/ i \in 1 .. m - 1
      BY <2>0
    <3>. QED  BY <3>1, <3>2, <3>3, <3>4
  <2>4. Solves(g, m)
    BY <2>3
  <2>. HIDE DEF Solves, g
  <2>. QED  BY <1>3, <2>4
<1>10. \E f : Solves(f, L)
  <2>. HIDE DEF Solves
  <2>1. \A i \in 0 .. L : i \in P
    <3>. HIDE DEF P
    <3>. QED  BY <1>3, <1>8, <1>9, Climb
  <2>. QED  BY <1>3, <2>1
<1>. DEFINE insert == CHOOSE f : Solves(f, L)
<1>11. Solves(insert, L)
  <2>. HIDE DEF Solves
  <2>. QED  BY <1>10
<1>12. \A i \in 0 .. L : insert[i] = Step(insert, i)
  <2>. HIDE DEF insert
  <2>. QED  BY <1>11
<1>13. r = insert[L]
  BY <1>2, Zenon
<1>. HIDE DEF insert, Solves, P
<1>. DEFINE Q == {i \in 0 .. L : Level(S, D, insert[i])}
<1>14. 0 \in Q
  <2>1. insert[0] = Step(insert, 0)
    BY <1>3, <1>12
  <2>2. insert[0] = AtBottom(S, path[Len(path)], rec)
    BY <1>6, <2>1
  <2>3. path[Len(path)] \in Live(S)
    BY <1>3
  <2>4. Level(S, D, insert[0])
    BY <2>2, <2>3, AtBottomIs, Zenon
  <2>. QED  BY <1>3, <2>4
<1>15. ASSUME NEW i \in 1 .. L, i - 1 \in Q  PROVE i \in Q
  <2>. DEFINE n == path[Len(path) - i]
  <2>1. insert[i] = FromChild(insert[i - 1], n)
    BY <1>3, <1>7, <1>12
  <2>2. n \in Live(S) /\ ~S.nd[n].leaf
    <3>1. Len(path) - i \in 1 .. Len(path) - 1
      BY <1>3 DEF L
    <3>. QED  BY <1>3, <3>1
  <2>. HIDE DEF n
  <2>3. Level(S, D, insert[i - 1])
    BY <1>15
  <2>4. Level(S, D, insert[i])
    BY <2>1, <2>2, <2>3, FromChildIs, Zenon
  <2>. QED  BY <1>3, <2>4
<1>16. \A i \in 0 .. L : i \in Q
  <2>. HIDE DEF Q
  <2>. QED  BY <1>3, <1>14, <1>15, Climb
<1>. QED  BY <1>3, <1>13, <1>16

\* _bt_insert, which may not get as far as the last node.
LEMMA DescentIs ==
    ASSUME NEW S, NEW D, Good(S, D), Empty(S) = {}, NEW rec, Fits(rec), ShortKeys,
           NEW r, r = _bt_insert(S, rec)
    PROVE  Level(S, D, r)
<1>1. CASE Unreadable(S, rec.k)
  BY <1>1, FailIs, FailedLevel, Zenon DEF _bt_insert
<1>2. CASE ~Unreadable(S, rec.k)
  BY <1>2, AscentIs, Zenon DEF _bt_insert
<1>. QED  BY <1>1, <1>2

-----------------------------------------------------------------------------
(* A new root                                                              *)

\* T is S with the new, empty root n; the old root is a loose node.
IsRooted(S, T, D, n) ==
    /\ Good(T, D) /\ T.root = n /\ n \in Live(T) /\ ~T.nd[n].leaf /\ T.nd[n].recs = << >>
    /\ Empty(T) = {n} /\ Loose(S) \cup {S.root} \subseteq Loose(T)

Rooting(S, T, n, x) ==
    T = [btn_alloc(S, FALSE, TRUE) EXCEPT !.root = n, !.nd[n].nn = x, !.dirty = @ \cup {SMBlk}]

LEMMA NewRootNode ==
    ASSUME NEW S, NEW D, Good(S, D), Empty(S) = {}, FreeBlks(S) # {}, NEW x \in Int,
           NEW n, n = Min(FreeBlks(S)), NEW T, Rooting(S, T, n, x)
    PROVE  IsRooted(S, T, D, n)
<1>. DEFINE a == NewNode(FALSE, TRUE)
            b == [a EXCEPT !.nn = x]
            A == btn_alloc(S, FALSE, TRUE)
<1>1. S \in State /\ n \in NodeBlks /\ n \notin S.alloc
  BY FreeBlock DEF Good
<1>2. a \in Node /\ Sound(a) /\ Kids(a) = {} /\ ~a.leaf /\ a.recs = << >>
  BY NewNodeIs
<1>. HIDE DEF a
<1>3. /\ b \in Node /\ b.leaf = a.leaf /\ b.root = a.root /\ b.first = a.first /\ b.recs = a.recs
      /\ b.free = a.free
  BY <1>2 DEF Node
<1>4. Sound(b) /\ Kids(b) = {} /\ ~b.leaf /\ b.recs = << >>
  <2>. HIDE DEF b
  <2>. QED  BY <1>2, <1>3, SameNode
<1>5. A = [S EXCEPT !.nd[n] = a, !.alloc = @ \cup {n}, !.dirty = @ \cup {n, BMBlk}]
  BY DEF btn_alloc, a
<1>6. /\ A \in State /\ A.nd = [S.nd EXCEPT ![n] = a] /\ A.root = S.root
      /\ A.alloc = S.alloc \cup {n} /\ A.dirty = S.dirty \cup {n, BMBlk}
  <2>1. n \in Blks /\ S.alloc \cup {n} \subseteq Blks /\ S.dirty \cup {n, BMBlk} \subseteq Blks
    BY <1>1, Blocks, Fields
  <2>2. [S.nd EXCEPT ![n] = a] \in [NodeBlks -> Node]
    BY <1>1, <1>2, Fields
  <2>. HIDE DEF A
  <2>3. /\ A.nd = [S.nd EXCEPT ![n] = a] /\ A.root = S.root
        /\ A.alloc = S.alloc \cup {n} /\ A.dirty = S.dirty \cup {n, BMBlk}
    BY <1>1, <1>5 DEF State
  <2>4. A \in State
    BY <1>1, <1>5, <2>1, <2>2 DEF State
  <2>. QED  BY <2>3, <2>4
<1>7. T = [A EXCEPT !.root = n, !.nd[n].nn = x, !.dirty = @ \cup {SMBlk}]
  BY Zenon DEF Rooting
<1>. HIDE DEF A
<1>8. /\ T \in State /\ T.nd = [A.nd EXCEPT ![n] = b] /\ T.root = n
      /\ T.alloc = A.alloc /\ T.dirty = A.dirty \cup {SMBlk}
  <2>1. A.nd \in [NodeBlks -> Node] /\ A.nd[n] = a /\ A.dirty \cup {SMBlk} \subseteq Blks
    BY <1>1, <1>6, Fields, Blocks
  <2>2. [A.nd EXCEPT ![n] = b] \in [NodeBlks -> Node]
    BY <1>1, <1>3, <2>1
  <2>3. T = [A EXCEPT !.root = n, !.nd = [A.nd EXCEPT ![n] = b], !.dirty = A.dirty \cup {SMBlk}]
    BY <1>7, <2>1
  <2>. HIDE DEF b
  <2>4. /\ T.nd = [A.nd EXCEPT ![n] = b] /\ T.root = n
        /\ T.alloc = A.alloc /\ T.dirty = A.dirty \cup {SMBlk}
    BY <1>6, <2>3 DEF State
  <2>5. T \in State
    BY <1>1, <1>6, <2>1, <2>2, <2>3 DEF State
  <2>. QED  BY <2>4, <2>5
<1>. HIDE DEF b
<1>9. n \notin Live(S) /\ Live(T) = Live(S) \cup {n}
  BY <1>1, <1>6, <1>8 DEF Live
<1>10. T.nd[n] = b /\ \A l \in Live(S) : T.nd[l] = S.nd[l]
  <2>1. S.nd \in [NodeBlks -> Node] /\ Live(S) \subseteq NodeBlks
    BY <1>1, Fields
  <2>. QED  BY <1>1, <1>6, <1>8, <1>9, <2>1
<1>11. \A l \in Live(T) : Sound(T.nd[l])
  BY <1>4, <1>9, <1>10 DEF Good
<1>12. \A l \in Live(T) : Kids(T.nd[l]) \subseteq Live(S) \ {S.root}
  BY <1>4, <1>9, <1>10 DEF Good
<1>13. \A l, k \in Live(T) : l # k => Kids(T.nd[l]) \cap Kids(T.nd[k]) = {}
  BY <1>4, <1>9, <1>10 DEF Good
<1>14. Synced(T, D)
  BY <1>6, <1>8, <1>9, <1>10 DEF Synced, Good
<1>15. Good(T, D)
  <2>1. {SMBlk, BMBlk, T.root} \subseteq T.alloc
    BY <1>6, <1>8 DEF Good
  <2>2. \A l \in Live(T) : Kids(T.nd[l]) \subseteq Live(T) \ {T.root}
    BY <1>8, <1>9, <1>12
  <2>. QED  BY <1>8, <1>11, <1>13, <1>14, <2>1, <2>2 DEF Good
<1>16. Empty(T) = {n}
  <2>1. \A l \in Live(S) : l \notin Empty(S)
    OBVIOUS
  <2>. QED  BY <1>4, <1>9, <1>10, <2>1 DEF Empty
<1>17. S.root \in Live(S)
  BY <1>1, Fields DEF Good, Live
<1>18. Loose(S) \cup {S.root} \subseteq Loose(T)
  <2>1. Loose(S) \subseteq Loose(T)
    BY <1>4, <1>8, <1>9, <1>10 DEF Loose, Orphan
  <2>2. S.root \in Loose(T)
    BY <1>8, <1>9, <1>12, <1>17 DEF Loose, Orphan
  <2>. QED  BY <2>1, <2>2
<1>. QED  BY <1>4, <1>8, <1>9, <1>10, <1>15, <1>16, <1>18 DEF IsRooted

\* The tree has a root again.
Grown(S, D, x, t) ==
    \/ Aborted(t)
    \/ /\ t.err = "ok" /\ Good(t.s, D) /\ Empty(t.s) = {}
       /\ t.s.root \in Live(t.s) /\ ~t.s.nd[t.s.root].leaf
       /\ Loose(S) \ {x} \subseteq Loose(t.s)

LEMMA RootAboveIs ==
    ASSUME NEW r, NEW D, Good(r.s, D), Empty(r.s) = {}, r.i1 \in Record, r.i1.v \in Loose(r.s),
           r.bip \in Int, NEW t, t = RootAbove(r)
    PROVE  Grown(r.s, D, r.i1.v, t)
<1>. DEFINE S == r.s
            n == Min(FreeBlks(S))
            x == NodesAfter(r)
            T == [btn_alloc(S, FALSE, TRUE) EXCEPT !.root = n, !.nd[n].nn = x, !.dirty = @ \cup {SMBlk}]
<1>1. S \in State
  BY DEF Good
<1>. DEFINE made == FreeBlks(S) # {} /\ ~Fails(S, "root", S.root)
<1>2. CASE ~made
  <2>1. t = Abort(S, "!err: btn_alloc of the root")
    BY <1>2, Zenon DEF RootAbove
  <2>. QED  BY <1>1, <2>1, AbortIs DEF Grown
<1>3. CASE made
  <2>1. IsRooted(S, T, D, n)
    <3>1. Rooting(S, T, n, x)
      BY Zenon DEF Rooting
    <3>2. x \in Int
      BY DEF NodesAfter
    <3>. DEFINE m == n
    <3>3. m = Min(FreeBlks(S)) /\ Rooting(S, T, m, x)
      BY <3>1
    <3>. HIDE DEF T, x, m
    <3>4. IsRooted(S, T, D, m)
      BY <1>3, <3>2, <3>3, NewRootNode, Zenon
    <3>. QED  BY <3>4 DEF m
  <2>2. /\ r.bip = 0 => t = Abort(T, "bsi->bsi_bip.bti_nnodes")
        /\ r.bip # 0 => t = btn_insert_first_index_record(T, n, S.root, r.i1)
    <3>1. CASE r.bip = 0
      BY <1>3, <3>1, Zenon DEF RootAbove
    <3>2. CASE r.bip # 0
      BY <1>3, <3>2, Zenon DEF RootAbove
    <3>. QED  BY <3>1, <3>2
  <2>. HIDE DEF T, n
  <2>3. /\ Good(T, D) /\ T.root = n /\ n \in Live(T) /\ ~T.nd[n].leaf /\ T.nd[n].recs = << >>
        /\ Empty(T) = {n} /\ Loose(S) \cup {S.root} \subseteq Loose(T) /\ T \in State
    BY <2>1 DEF IsRooted, Good
  <2>4. CASE r.bip = 0
    <3>1. t = Abort(T, "bsi->bsi_bip.bti_nnodes")
      BY <2>2, <2>4
    <3>. QED  BY <2>3, <3>1, AbortIs DEF Grown
  <2>5. CASE r.bip # 0
    <3>. DEFINE X == {S.root, r.i1.v} \ {0}
    <3>1. t = btn_insert_first_index_record(T, n, S.root, r.i1)
      BY <2>2, <2>5
    <3>2. MayStart(T, n, S.root, r.i1)
      BY <2>3 DEF MayStart, Loose
    <3>3. Aborted(t) \/ Put(T, D, n, X, t)
      BY <2>3, <3>1, <3>2, FirstIndexRecord
    <3>4. ASSUME Put(T, D, n, X, t)  PROVE Grown(S, D, r.i1.v, t)
      <4>1. /\ t.err = "ok" /\ Good(t.s, D) /\ Extends(T, t.s, X) /\ Live(t.s) = Live(T)
            /\ Empty(t.s) = {}
        BY <2>3, <3>4 DEF Put
      <4>2. t.s.root = n /\ ~t.s.nd[n].leaf
        BY <2>3, <4>1 DEF Extends
      <4>3. Loose(S) \ {r.i1.v} \subseteq Loose(t.s)
        BY <2>3, <4>1 DEF Extends, Loose
      <4>. QED  BY <2>3, <4>1, <4>2, <4>3 DEF Grown
    <3>. QED  BY <3>3, <3>4 DEF Grown
  <2>. QED  BY <2>4, <2>5
<1>. QED  BY <1>2, <1>3

\* The state after a call, if no assertion has failed in it.
Whole(D, r) == r.s.abort = "" => Good(r.s, D) /\ Empty(r.s) = {}

LEMMA NewRootIs ==
    ASSUME NEW S, NEW D, NEW r, Level(S, D, r), r.err = "ok", did_split(r), ShortKeys,
           NEW t, t = NewRoot(r)
    PROVE  Whole(D, t)
<1>. DEFINE u == RootAbove(r)
            i == btn_insert(u.s, u.s.root, r.i2)
<1>1. Good(r.s, D) /\ Empty(r.s) = {} /\ Splits(S, r)
  BY DEF Level, Aborted
<1>2. Grown(r.s, D, r.i1.v, u)
  BY <1>1, RootAboveIs DEF Splits
<1>3. t = IF u.err # "ok" \/ r.i2 = NoRec THEN u ELSE SecondIndex(i)
  BY Zenon DEF NewRoot
<1>. HIDE DEF u
<1>4. CASE u.err # "ok" \/ r.i2 = NoRec
  <2>1. t = u
    BY <1>3, <1>4
  <2>. QED  BY <1>2, <2>1 DEF Grown, Whole, Aborted
<1>5. CASE u.err = "ok" /\ r.i2 # NoRec
  <2>1. t = SecondIndex(i)
    BY <1>3, <1>5
  <2>2. /\ Good(u.s, D) /\ Empty(u.s) = {} /\ u.s.root \in Live(u.s) /\ ~u.s.nd[u.s.root].leaf
        /\ Loose(r.s) \ {r.i1.v} \subseteq Loose(u.s)
    BY <1>2, <1>5 DEF Grown, Aborted
  <2>3. Ready(u.s, D, u.s.root, r.i2)
    BY <1>1, <1>5, <2>2 DEF Ready, MayInsert, Splits
  <2>4. IsInsert(u.s, D, u.s.root, r.i2, i)
    BY <2>3, InsertIs
  <2>. HIDE DEF i
  <2>5. CASE Aborted(i)
    <3>1. t = i
      BY <2>1, <2>5 DEF SecondIndex, Aborted
    <3>. QED  BY <2>5, <3>1 DEF Whole, Aborted
  <2>6. CASE Refused(u.s, D, u.s.root, i)
    <3>1. i.err \notin {"ok", "abort"} /\ i.s \in State
      BY <2>6 DEF Refused, Good
    <3>2. t = Abort(i.s, "!err")
      BY <2>1, <3>1, Zenon DEF SecondIndex
    <3>. QED  BY <3>1, <3>2, AbortIs DEF Whole, Aborted
  <2>7. CASE Returned(u.s, D, Linked(u.s, u.s.root, r.i2), i)
    <3>1. i.err = "ok" /\ Good(i.s, D) /\ Empty(i.s) = {} /\ i.s \in State
          /\ (did_split(i) => Splits(u.s, i))
      BY <2>7 DEF Returned, Good
    <3>2. CASE ~did_split(i)
      <4>1. t = i
        BY <2>1, <3>1, <3>2, Zenon DEF SecondIndex
      <4>. QED  BY <3>1, <4>1 DEF Whole
    <3>3. CASE did_split(i) /\ i.i2 # NoRec
      <4>1. t = Abort(i.s, "!bsi2.bsi_split_index2")
        BY <2>1, <3>1, <3>3, Zenon DEF SecondIndex
      <4>. QED  BY <3>1, <4>1, AbortIs DEF Whole, Aborted
    <3>4. CASE did_split(i) /\ i.i2 = NoRec
      <4>1. t = RootAbove(i)
        BY <2>1, <3>1, <3>4, Zenon DEF SecondIndex
      <4>2. Grown(i.s, D, i.i1.v, t)
        BY <3>1, <3>4, <4>1, RootAboveIs DEF Splits
      <4>. QED  BY <4>2 DEF Grown, Whole, Aborted
    <3>. QED  BY <3>2, <3>3, <3>4
  <2>. QED  BY <2>4, <2>5, <2>6, <2>7 DEF IsInsert
<1>. QED  BY <1>4, <1>5

\* bt_insert
LEMMA InsertionIs ==
    ASSUME NEW S, NEW D, Good(S, D), Empty(S) = {}, NEW rec \in Record, ShortKeys,
           NEW t, t = Insertion(S, rec)
    PROVE  Whole(D, t)
<1>. DEFINE big == \/ KeySz + PtrSz > MaxInline - InfoSz - PtrSz
                   \/ btr_size(TRUE, rec) > MaxInline
            r == _bt_insert(S, rec)
<1>1. CASE big
  <2>1. t = Fail(S, "E2BIG")
    BY <1>1, Zenon DEF Insertion
  <2>2. t.s = S
    BY <2>1 DEF Fail, Done
  <2>. QED  BY <2>2 DEF Whole
<1>2. CASE ~big
  <2>1. t = Rooted(r)
    BY <1>2, Zenon DEF Insertion
  <2>2. Fits(rec)
    <3>. DEFINE z == btr_size(TRUE, rec)
    <3>1. z \in Nat /\ ~(z > MaxInline)
      BY <1>2, SizeOfRecord
    <3>. HIDE DEF z
    <3>2. z <= MaxInline
      BY <3>1, Sizes
    <3>. QED  BY <3>2 DEF Fits, z
  <2>3. Level(S, D, r)
    BY <2>2, DescentIs
  <2>. HIDE DEF r
  <2>4. CASE r.err = "ok" /\ did_split(r)
    <3>1. t = NewRoot(r)
      BY <2>1, <2>4 DEF Rooted
    <3>. QED  BY <2>3, <2>4, <3>1, NewRootIs
  <2>5. CASE ~(r.err = "ok" /\ did_split(r))
    <3>1. t = r
      BY <2>1, <2>5, Zenon DEF Rooted
    <3>. QED  BY <2>3, <3>1 DEF Level, Whole, Aborted
  <2>. QED  BY <2>4, <2>5
<1>. QED  BY <1>1, <1>2

-----------------------------------------------------------------------------
(* bt_remove                                                               *)

\* What btn_remove does to the leaf n, if anything.
IsRemove(S, D, n, r) ==
    \/ r.err = "ENOENT" /\ r.s = S
    \/ /\ r.err = "ok" /\ Good(r.s, D) /\ Empty(r.s) = Empty(S)
       /\ r.s.alloc = S.alloc /\ r.s.root = S.root /\ r.s.nd[n].leaf
       /\ \A m \in Live(S) : m # n => r.s.nd[m] = S.nd[m]

LEMMA RemoveIs ==
    ASSUME NEW S, NEW D, Good(S, D), NEW n \in Live(S), S.nd[n].leaf, NEW k \in Nat,
           NEW r, r = btn_remove(S, n, k)
    PROVE  IsRemove(S, D, n, r)
<1>. DEFINE b == S.nd[n]
            i == At(b.recs, k)
            q == RemoveAt(b.recs, i)
            z == Reclaimed(b, i)
            c == [b EXCEPT !.recs = q, !.free = @ + z]
            T == [S EXCEPT !.nd[n] = c, !.dirty = @ \cup {n}]
            hit == i <= Len(b.recs) /\ b.recs[i].k = k
<1>1. S \in State /\ b \in Node /\ Sound(b) /\ b.leaf = TRUE
  <2>1. S \in State /\ S.nd[n] \in Node /\ Sound(S.nd[n])
    BY Fields DEF Good
  <2>. QED  BY <2>1, NodeFields
<1>2. r = IF hit THEN Done(T) ELSE Fail(S, "ENOENT")
  <2>1. c = [b EXCEPT !.recs = RemoveAt(@, i), !.free = @ + z]
    BY <1>1 DEF Node
  <2>. HIDE DEF c
  <2>. QED  BY <2>1, Zenon DEF btn_remove
<1>3. CASE ~hit
  <2>1. r = Fail(S, "ENOENT")
    BY <1>2, <1>3
  <2>. QED  BY <2>1 DEF Fail, Done, IsRemove
<1>4. CASE hit
  <2>1. r = Done(T)
    BY <1>2, <1>4
  <2>. HIDE DEF b
  <2>2. b.recs \in Seq(Record) /\ b.free \in Int /\ Len(b.recs) \in Nat
    BY <1>1, NodeFields
  <2>3. i \in 1 .. Len(b.recs)
    <3>1. i \in 1 .. Len(b.recs) + 1
      BY <2>2, AtIs
    <3>. HIDE DEF i
    <3>. QED  BY <1>4, <2>2, <3>1
  <2>. HIDE DEF i
  <2>4. /\ q \in Seq(Record) /\ SizeOf(TRUE, b.recs) = SizeOf(TRUE, q) + btr_size(TRUE, b.recs[i])
        /\ Ascending(q)
    BY <1>1, <2>2, <2>3, RemovedAt DEF Sound
  <2>5. z = btr_size(TRUE, b.recs[i]) /\ z \in Nat
    <3>1. b.recs[i] \in Record
      BY <2>2, <2>3
    <3>. QED  BY <1>1, <3>1, SizeOfRecord DEF Reclaimed
  <2>. HIDE DEF q, z
  <2>6. /\ c \in Node /\ c.leaf = TRUE /\ c.recs = q /\ c.free = b.free + z /\ c.root = b.root
    <3>1. q \in Seq(Record) /\ b.free + z \in Int
      <4>1. b.free \in Int /\ z \in Nat
        BY <2>2, <2>5
      <4>2. b.free + z \in Int
        BY <4>1
      <4>. QED  BY <2>4, <4>2
    <3>2. b \in Node /\ b.leaf = TRUE
      BY <1>1
    <3>. DEFINE y == b.free + z
    <3>3. c = [b EXCEPT !.recs = q, !.free = y] /\ y \in Int
      BY <3>1, <3>2 DEF Node
    <3>. HIDE DEF c, y
    <3>4. /\ c \in Node /\ c.leaf = b.leaf /\ c.recs = q /\ c.free = y /\ c.root = b.root
      BY <3>1, <3>2, <3>3 DEF Node
    <3>. QED  BY <3>2, <3>4 DEF y
  <2>7. Sound(c)
    <3>1. Accounted(b)
      BY <1>1 DEF Sound
    <3>. DEFINE u == SizeOf(TRUE, q)
                w == SizeOf(TRUE, b.recs)
                o == IF b.root THEN InfoSz ELSE 0
    <3>2. u \in Nat /\ w = u + z /\ o \in Nat
      BY <2>4, <2>5, SizeIsNat, Sizes
    <3>3. \A x \in Node : x.leaf = TRUE /\ x.root = b.root => Overhead(x) = o
      BY Sizes DEF Overhead
    <3>4. b.free >= 0 /\ b.free = MaxInline - o - w
      <4>1. Overhead(b) = o /\ SizeOf(b.leaf, b.recs) = w
        BY <1>1, <3>3
      <4>. QED  BY <3>1, <4>1 DEF Accounted
    <3>. HIDE DEF u, w, o
    <3>5. c.free >= 0 /\ c.free = MaxInline - o - u
      <4>. DEFINE x == b.free
                  y == c.free
      <4>1. x \in Int /\ z \in Nat /\ y = x + z /\ w = u + z /\ x >= 0 /\ x = MaxInline - o - w
        BY <2>2, <2>5, <2>6, <3>2, <3>4
      <4>. HIDE DEF x, y
      <4>2. y >= 0 /\ y = MaxInline - o - u
        BY <3>2, <4>1, Sizes
      <4>. QED  BY <4>2 DEF y
    <3>6. Accounted(c)
      <4>1. Overhead(c) = o /\ SizeOf(c.leaf, c.recs) = u
        BY <2>6, <3>3 DEF u
      <4>. QED  BY <3>5, <4>1 DEF Accounted
    <3>7. Once(c) /\ Ascending(c.recs)
      BY <2>4, <2>6 DEF Once
    <3>. QED  BY <3>6, <3>7 DEF Sound
  <2>8. Wrote(S, T, n, c)
    <3>. HIDE DEF c
    <3>1. T = [S EXCEPT !.nd[n] = c, !.dirty = @ \cup {n} \cup {}]
      OBVIOUS
    <3>. HIDE DEF T
    <3>. QED  BY <2>6, <3>1, WroteIs
  <2>9. Kids(c) = {}
    BY <2>6 DEF Kids
  <2>. HIDE DEF c, T
  <2>10. IsOneNode(S, T, D, n, c, {})
    <3>1. {} \in SUBSET Loose(S) /\ Kids(c) \subseteq Kids(S.nd[n]) \cup {} /\ c.leaf = S.nd[n].leaf
      BY <1>1, <2>6, <2>9 DEF b
    <3>. QED  BY <2>6, <2>7, <2>8, <3>1, OneNode, Zenon
  <2>11. /\ Good(T, D) /\ Empty(T) = Empty(S) \ {n} /\ T.nd[n] = c
         /\ \A m \in Live(S) : m # n => T.nd[m] = S.nd[m]
    BY <2>6, <2>10 DEF IsOneNode
  <2>12. T.alloc = S.alloc /\ T.root = S.root
    BY <2>8 DEF Wrote
  <2>13. r.s = T /\ r.err = "ok"
    BY <2>1, DoneIs
  <2>14. n \notin Empty(S)
    BY DEF Empty
  <2>15. Empty(T) = Empty(S)
    BY <2>11, <2>14
  <2>. QED  BY <2>6, <2>11, <2>12, <2>13, <2>15 DEF IsRemove
<1>. QED  BY <1>3, <1>4

\* S without the node n, which no pointer leads to: the order in which its block
\* is freed and its pointer cleared is of no consequence.
Without(S, U, n) ==
    /\ U \in State /\ U.alloc = S.alloc \ {n} /\ U.root = S.root
    /\ \A l \in Live(S) : l # n => U.nd[l] = S.nd[l]
    /\ (S.dirty \ {n}) \cup {BMBlk} \subseteq U.dirty

LEMMA Dropped ==
    ASSUME NEW S, NEW D, Good(S, D), Empty(S) = {}, NEW n \in Loose(S), NEW U, Without(S, U, n)
    PROVE  Good(U, D) /\ Empty(U) = {}
<1>1. /\ n \in Live(S) /\ n # S.root /\ \A l \in Live(S) : n \notin Kids(S.nd[l])
  BY DEF Loose, Orphan
<1>2. Live(U) = Live(S) \ {n} /\ \A l \in Live(U) : U.nd[l] = S.nd[l]
  BY DEF Live, Without
<1>3. U \in State /\ U.root = S.root /\ U.alloc = S.alloc \ {n}
  BY DEF Without
<1>4. {SMBlk, BMBlk, U.root} \subseteq U.alloc
  BY <1>1, <1>3, Blocks DEF Good, Live
<1>5. \A l \in Live(U) : Sound(U.nd[l])
  BY <1>2 DEF Good
<1>6. \A l \in Live(U) : Kids(U.nd[l]) \subseteq Live(U) \ {U.root}
  BY <1>1, <1>2, <1>3 DEF Good
<1>7. \A l, m \in Live(U) : l # m => Kids(U.nd[l]) \cap Kids(U.nd[m]) = {}
  BY <1>2 DEF Good
<1>8. Synced(U, D)
  <2>1. BMBlk \in U.dirty /\ (SMBlk \notin U.dirty => SMBlk \notin S.dirty)
        /\ \A l \in Live(U) \ U.dirty : l \in Live(S) \ S.dirty
    BY <1>1, <1>2, Blocks DEF Without, Live
  <2>. QED  BY <1>2, <1>3, <2>1 DEF Good, Synced
<1>9. Empty(U) = {}
  BY <1>2 DEF Empty
<1>. QED  BY <1>3, <1>4, <1>5, <1>6, <1>7, <1>8, <1>9 DEF Good

\* The same change to node x in S and in S without n.
Writes(S, T, x, c) == T = [S EXCEPT !.nd[x] = c, !.dirty = @ \cup {x}]

LEMMA WritesBoth ==
    ASSUME NEW S \in State, NEW A, NEW n, Without(S, A, n), NEW x \in Live(S), x # n,
           NEW T \in State, NEW B, NEW c, Writes(S, T, x, c), Writes(A, B, x, c)
    PROVE  Without(T, B, n) /\ Live(T) = Live(S)
<1>1. x \in NodeBlks /\ x \in Blks /\ S.nd \in [NodeBlks -> Node] /\ Live(S) \subseteq NodeBlks
  BY Fields, Blocks DEF Live
<1>2. A \in State /\ A.nd \in [NodeBlks -> Node]
  BY Fields DEF Without
<1>3. /\ T.nd = [S.nd EXCEPT ![x] = c] /\ T.alloc = S.alloc /\ T.root = S.root
      /\ T.dirty = S.dirty \cup {x}
  BY DEF Writes, State
<1>4. T.nd \in [NodeBlks -> Node] /\ T.nd[x] = c /\ c \in Node
  <2>1. T.nd \in [NodeBlks -> Node]
    BY Fields
  <2>2. T.nd[x] = c
    BY <1>1, <1>3
  <2>. QED  BY <1>1, <2>1, <2>2
<1>5. /\ B.nd = [A.nd EXCEPT ![x] = c] /\ B.alloc = A.alloc /\ B.root = A.root
      /\ B.dirty = A.dirty \cup {x} /\ B.abort = A.abort
  BY <1>2 DEF Writes, State
<1>6. B \in State
  <2>1. [A.nd EXCEPT ![x] = c] \in [NodeBlks -> Node] /\ A.dirty \cup {x} \in SUBSET Blks
    BY <1>1, <1>2, <1>4, Fields
  <2>. QED  BY <1>2, <2>1 DEF Writes, State
<1>7. Live(T) = Live(S)
  BY <1>3 DEF Live
<1>8. ASSUME NEW l \in Live(S), l # n  PROVE B.nd[l] = T.nd[l]
  BY <1>1, <1>2, <1>3, <1>5, <1>8 DEF Without
<1>9. (T.dirty \ {n}) \cup {BMBlk} \subseteq B.dirty
  BY <1>3, <1>5 DEF Without
<1>. QED  BY <1>3, <1>5, <1>6, <1>7, <1>8, <1>9 DEF Without

\* The pointer j of node q cleared, and the node n it leads to freed.
LEMMA FreedIs ==
    ASSUME NEW S, NEW D, Good(S, D), Empty(S) = {}, NEW q \in Live(S), ~S.nd[q].leaf,
           NEW j \in 0 .. Len(S.nd[q].recs), NEW n \in Live(S), n # q, Ptr(S.nd[q], j) = n,
           NEW U, U = SetPtr(btn_free(S, n), q, j, 0)
    PROVE  Good(U, D) /\ Empty(U) = {}
<1>. DEFINE A == [S EXCEPT !.nd[n] = NoNode, !.alloc = @ \ {n}, !.dirty = (@ \ {n}) \cup {BMBlk}]
            F == AddNodes(A, -1)
            V == AddNodes(S, -1)
            W == SetPtr(V, q, j, 0)
            x == S.root
            c == [S.nd[x] EXCEPT !.nn = @ + -1]
            b == V.nd[q]
            d == IF j = 0 THEN [b EXCEPT !.first = 0] ELSE [b EXCEPT !.recs[j].v = 0]
<1>1. /\ S \in State /\ n \in NodeBlks /\ n \in Blks /\ n # 0 /\ q \in NodeBlks
      /\ S.nd \in [NodeBlks -> Node] /\ Live(S) \subseteq NodeBlks
      /\ S.alloc \in SUBSET Blks /\ S.dirty \in SUBSET Blks
  BY Fields, Blocks DEF Good, Live
<1>2. n \in Kids(S.nd[q]) /\ n # x /\ x \in Live(S)
  <2>1. n \in Kids(S.nd[q])
    BY <1>1 DEF Kids
  <2>2. n # x /\ x \in Live(S)
    BY <1>1, <2>1, Fields DEF Good, Live
  <2>. QED  BY <2>1, <2>2
<1>3. Without(S, A, n)
  <2>1. NoNode \in Node
    <3>1. << >> \in Seq(Record)
      OBVIOUS
    <3>. QED  BY <3>1 DEF NoNode, Node
  <2>2. [S.nd EXCEPT ![n] = NoNode] \in [NodeBlks -> Node] /\ BMBlk \in Blks
    BY <1>1, <2>1, Blocks
  <2>3. /\ A.nd = [S.nd EXCEPT ![n] = NoNode] /\ A.alloc = S.alloc \ {n} /\ A.root = S.root
        /\ A.dirty = (S.dirty \ {n}) \cup {BMBlk}
    BY <1>1 DEF State
  <2>4. A \in State
    BY <1>1, <2>2 DEF State
  <2>5. \A l \in Live(S) : l # n => A.nd[l] = S.nd[l]
    BY <1>1, <2>3
  <2>. QED  BY <2>3, <2>4, <2>5 DEF Without
<1>4. U = SetPtr(F, q, j, 0)
  BY Zenon DEF btn_free
<1>5. A \in State /\ A.root = x /\ A.nd[x] = S.nd[x]
  BY <1>2, <1>3 DEF Without
<1>. HIDE DEF A
<1>6. Writes(S, V, x, c)
  BY <1>1, <1>2 DEF AddNodes, Writes, State
<1>7. Writes(A, F, x, c)
  BY <1>2, <1>5 DEF AddNodes, Writes, State
<1>8. /\ Good(V, D) /\ Live(V) = Live(S) /\ Empty(V) = {} /\ SameRecs(S, V) /\ V \in State
      /\ Extends(S, V, {})
  <2>1. -1 \in Int
    OBVIOUS
  <2>2. /\ Good(V, D) /\ Live(V) = Live(S) /\ Empty(V) = {} /\ SameRecs(S, V)
        /\ Extends(S, V, {})
    BY <2>1, Counted, Zenon
  <2>3. V \in State
    BY <2>2, Zenon DEF Good
  <2>. QED  BY <2>2, <2>3
<1>. HIDE DEF V, F, c
<1>9. Without(V, F, n)
  BY <1>1, <1>2, <1>3, <1>6, <1>7, <1>8, WritesBoth
<1>10. /\ V.nd[q].leaf = S.nd[q].leaf /\ V.nd[q].recs = S.nd[q].recs /\ V.nd[q].first = S.nd[q].first
       /\ ~V.nd[q].leaf /\ j \in 0 .. Len(V.nd[q].recs) /\ Ptr(V.nd[q], j) = n
  BY <1>8 DEF SameRecs, Ptr
<1>11. n \in Kids(V.nd[q]) /\ V.root = x
  BY <1>1, <1>8, <1>10 DEF Kids, Extends
<1>12. /\ Good(W, D) /\ Live(W) = Live(S) /\ Empty(W) = {} /\ W \in State
       /\ Extends(V, W, {0}) /\ n \notin Kids(W.nd[q])
       /\ \E e \in Node : Wrote(V, W, q, e)
  <2>1. q \in Live(V)
    BY <1>8
  <2>. HIDE DEF W
  <2>2. W = SetPtr(V, q, j, 0)
    BY DEF W
  <2>3. /\ Good(W, D) /\ Live(W) = Live(V) /\ Empty(W) = Empty(V)
        /\ Extends(V, W, {0}) /\ (Ptr(V.nd[q], j) \notin Kids(W.nd[q]) \/ Ptr(V.nd[q], j) = 0)
        /\ \E e \in Node : Wrote(V, W, q, e)
    <3>1. /\ Good(V, D) /\ q \in Live(V) /\ ~V.nd[q].leaf /\ j \in 0 .. Len(V.nd[q].recs)
      BY <1>8, <1>10, <2>1, Zenon
    <3>2. IsPointed(V, W, D, q, j, 0)
      BY <2>2, <3>1, PointerSet
    <3>. QED  BY <3>2 DEF IsPointed
  <2>4. W \in State
    BY <2>3, Zenon DEF Good
  <2>5. n \notin Kids(W.nd[q])
    BY <1>1, <1>10, <2>3, Zenon
  <2>. QED  BY <1>8, <2>3, <2>4, <2>5, Zenon
<1>13. n \in Loose(W)
  <2>1. \A m \in Live(S) : m # q => W.nd[m] = V.nd[m]
    BY <1>1, <1>8, <1>12, Fields DEF Wrote
  <2>2. \A m \in Live(S) : m # q => n \notin Kids(V.nd[m])
    BY <1>8, <1>11 DEF Good
  <2>3. W.root = x
    BY <1>11, <1>12 DEF Extends
  <2>. QED  BY <1>2, <1>12, <2>1, <2>2, <2>3 DEF Loose, Orphan
<1>14. Writes(V, W, q, d)
  BY <1>1, <1>8 DEF SetPtr, Writes, State
<1>15. Writes(F, U, q, d)
  <2>1. F \in State /\ F.nd[q] = b
    BY <1>8, <1>9 DEF Without
  <2>. QED  BY <1>1, <1>4, <2>1 DEF SetPtr, Writes, State
<1>. HIDE DEF W, d
<1>16. Without(W, U, n)
  <2>1. q \in Live(V) /\ q # n
    BY <1>8
  <2>. QED  BY <1>8, <1>9, <1>12, <1>14, <1>15, <2>1, WritesBoth
<1>. QED  BY <1>12, <1>13, <1>16, Dropped

\* bt_remove
LEMMA RemovalIs ==
    ASSUME NEW S, NEW D, Good(S, D), Empty(S) = {}, NEW k \in Nat, NEW t, t = Removal(S, k)
    PROVE  Whole(D, t)
<1>. DEFINE path == Path(S, k)
            n == Last(path)
            r == btn_remove(S, n, k)
            parent == path[Len(path) - 1]
            empty == r.err = "ok" /\ Len(path) > 1 /\ r.s.nd[n].recs = << >>
            j == Route(r.s.nd[parent].recs, k)
<1>. DEFINE freed == ~Fails(S, "free", n)
            away == Unreadable(S, k)
<1>1. /\ away => t = Fail(S, "EIO")
      /\ ~away /\ ~S.nd[n].leaf => t = Fail(S, "ENOENT")
      /\ ~away /\ S.nd[n].leaf /\ empty /\ ~freed => t = Fail(r.s, "EIO")
      /\ ~away /\ S.nd[n].leaf /\ empty /\ freed /\ FreeBlks(S) = {} => t = Abort(r.s, "bmp->bmp_nfree")
      /\ ~away /\ S.nd[n].leaf /\ empty /\ freed /\ FreeBlks(S) # {} =>
           t = Done(SetPtr(btn_free(r.s, n), parent, j, 0))
      /\ ~away /\ S.nd[n].leaf /\ ~empty => t = r
  <2>0. CASE away
    BY <2>0, Zenon DEF Removal
  <2>1. CASE ~away /\ ~S.nd[n].leaf
    BY <2>1, Zenon DEF Removal
  <2>2. CASE ~away /\ S.nd[n].leaf /\ empty /\ ~freed
    BY <2>2, Zenon DEF Removal
  <2>3. CASE ~away /\ S.nd[n].leaf /\ empty /\ freed /\ FreeBlks(S) = {}
    BY <2>3, Zenon DEF Removal
  <2>4. CASE ~away /\ S.nd[n].leaf /\ empty /\ freed /\ FreeBlks(S) # {}
    BY <2>4, Zenon DEF Removal
  <2>5. CASE ~away /\ S.nd[n].leaf /\ ~empty
    BY <2>5, Zenon DEF Removal
  <2>. QED  BY <2>0, <2>1, <2>2, <2>3, <2>4, <2>5, Zenon
<1>2. Trail(S, k, S.root, path)
  BY PathIs
<1>3. n = path[Len(path)]
  BY DEF Last
<1>. HIDE DEF path, n, away, freed
<1>4. /\ path \in Seq(Live(S)) /\ Len(path) \in Nat /\ Len(path) >= 1 /\ n \in Live(S)
      /\ \A i \in 1 .. Len(path) - 1 : ~S.nd[path[i]].leaf /\ path[i + 1] = Below(S, path[i], k)
  BY <1>2, <1>3 DEF Trail
<1>5. CASE away \/ ~S.nd[n].leaf
  <2>1. t.s = S
    BY <1>1, <1>5 DEF Fail, Done
  <2>. QED  BY <2>1 DEF Whole
<1>6. CASE ~away /\ S.nd[n].leaf
  <2>1. IsRemove(S, D, n, r)
    BY <1>4, <1>6, RemoveIs
  <2>. HIDE DEF r
  <2>2. Good(r.s, D) /\ Empty(r.s) = {} /\ r.s \in State
    BY <2>1 DEF IsRemove, Good
  <2>3. CASE ~empty
    <3>1. t = r
      BY <1>1, <1>6, <2>3
    <3>. QED  BY <2>2, <3>1 DEF Whole
  <2>6. CASE empty /\ ~freed
    <3>1. t.s = r.s
      BY <1>1, <1>6, <2>6 DEF Fail, Done
    <3>. QED  BY <2>2, <3>1 DEF Whole
  <2>4. CASE empty /\ freed /\ FreeBlks(S) = {}
    <3>1. t = Abort(r.s, "bmp->bmp_nfree")
      BY <1>1, <1>6, <2>4
    <3>. QED  BY <2>2, <3>1, AbortIs DEF Whole, Aborted
  <2>5. CASE empty /\ freed /\ FreeBlks(S) # {}
    <3>1. t = Done(SetPtr(btn_free(r.s, n), parent, j, 0))
      BY <1>1, <1>6, <2>5
    <3>2. parent \in Live(S) /\ ~S.nd[parent].leaf /\ n = Below(S, parent, k)
      <4>1. Len(path) - 1 \in 1 .. Len(path) - 1 /\ (Len(path) - 1) + 1 = Len(path)
            /\ Len(path) - 1 \in 1 .. Len(path)
        BY <1>4, <2>5
      <4>2. ~S.nd[parent].leaf /\ path[(Len(path) - 1) + 1] = Below(S, parent, k)
        BY <1>4, <4>1
      <4>. QED  BY <1>3, <1>4, <4>1, <4>2
    <3>. HIDE DEF parent
    <3>3. /\ r.s.alloc = S.alloc /\ r.s.nd[n].leaf
          /\ \A m \in Live(S) : m # n => r.s.nd[m] = S.nd[m]
      BY <2>1, <2>5 DEF IsRemove
    <3>4. n # parent /\ r.s.nd[parent] = S.nd[parent] /\ Live(r.s) = Live(S)
      BY <1>6, <3>2, <3>3 DEF Live
    <3>5. j \in 0 .. Len(r.s.nd[parent].recs) /\ Ptr(r.s.nd[parent], j) = n /\ ~r.s.nd[parent].leaf
      BY <3>2, <3>4, BelowIs DEF Below
    <3>. HIDE DEF j
    <3>. DEFINE U == SetPtr(btn_free(r.s, n), parent, j, 0)
    <3>6. Good(U, D) /\ Empty(U) = {}
      BY <1>4, <2>2, <3>2, <3>4, <3>5, FreedIs
    <3>. HIDE DEF U
    <3>7. t.s = U
      BY <3>1, DoneIs DEF U
    <3>. QED  BY <3>6, <3>7 DEF Whole
  <2>. QED  BY <2>3, <2>4, <2>5, <2>6
<1>. QED  BY <1>5, <1>6

-----------------------------------------------------------------------------
(* The file                                                                *)

\* A block in the file is as good as the one in memory.
LEMMA StoredIs ==
    ASSUME NEW b \in Node, NEW c \in Node, Stored(b, c), Sound(c)
    PROVE  Sound(b) /\ Kids(b) = Kids(c) /\ Stored(b, b)
<1>1. b.leaf = c.leaf /\ b.first = c.first /\ b.recs = c.recs /\ Accounted(b)
  BY DEF Stored
<1>2. Kids(b) = Kids(c)
  BY <1>1 DEF Kids, Ptr
<1>3. Ascending(b.recs) /\ Once(b)
  BY <1>1 DEF Sound, Once, Ptr
<1>. QED  BY <1>1, <1>2, <1>3 DEF Sound, Stored

\* What is asked of a file that is not flushed to: its blocks hold nodes.
IsFile(D) == D.nd \in [NodeBlks -> Node] /\ D.lost \subseteq Blks

LEMMA NoFaultIs == NoFault \in Fault
BY Blocks DEF NoFault, Fault, FaultCalls

\* What a flush leaves: a file that is a good tree, of the same nodes.
IsFlushed(S, F) ==
    /\ IsFile(F) /\ Good(F, F) /\ Empty(F) = {}
    /\ F.alloc = S.alloc /\ F.root = S.root
    /\ \A n \in Live(S) : Stored(F.nd[n], S.nd[n])

LEMMA FlushedIs ==
    ASSUME NEW S, NEW D, Good(S, D), Empty(S) = {}, IsFile(D),
           NEW F, F = Flushed(S, D)
    PROVE  IsFlushed(S, F)
<1>. USE DEF IsFile
<1>1. /\ S \in State /\ S.nd \in [NodeBlks -> Node] /\ S.alloc \subseteq Blks /\ S.root \in NodeBlks
      /\ S.abort = "" /\ Live(S) \subseteq NodeBlks
  BY Fields DEF Good
<1>2. Synced(S, D)
  BY DEF Good
<1>3. /\ F.alloc = S.alloc /\ F.root = S.root /\ F.dirty = {} /\ F.abort = ""
      /\ F.nd = [n \in NodeBlks |-> IF n \in S.dirty THEN S.nd[n] ELSE D.nd[n]]
  BY <1>1, <1>2 DEF Flushed, Synced
<1>4. F.nd \in [NodeBlks -> Node]
  BY <1>1, <1>3
<1>5. F \in State
  <2>1. F = [nd |-> F.nd, alloc |-> F.alloc, lost |-> F.lost, root |-> F.root, dirty |-> F.dirty,
             abort |-> F.abort, fault |-> F.fault]
    BY DEF Flushed
  <2>2. F.lost \subseteq Blks
    <3>1. F.lost = IF BMBlk \in S.dirty THEN S.lost ELSE D.lost
      BY DEF Flushed
    <3>. QED  BY <1>1, <3>1, Fields
  <2>3. F.fault \in Fault
    BY NoFaultIs DEF Flushed
  <2>. HIDE DEF Flushed
  <2>. QED  BY <1>1, <1>3, <1>4, <2>1, <2>2, <2>3 DEF State
<1>6. ASSUME NEW n \in Live(S)  PROVE Stored(F.nd[n], S.nd[n])
  <2>1. CASE n \in S.dirty
    <3>1. F.nd[n] = S.nd[n]
      BY <1>1, <1>3, <2>1
    <3>2. Accounted(S.nd[n])
      BY DEF Good, Sound
    <3>. QED  BY <3>1, <3>2 DEF Stored
  <2>2. CASE n \notin S.dirty
    <3>1. F.nd[n] = D.nd[n]
      BY <1>1, <1>3, <2>2
    <3>. QED  BY <1>2, <2>2, <3>1 DEF Synced
  <2>. QED  BY <2>1, <2>2
<1>7. Live(F) = Live(S)
  BY <1>3 DEF Live
<1>8. ASSUME NEW n \in Live(S)
      PROVE  Sound(F.nd[n]) /\ Kids(F.nd[n]) = Kids(S.nd[n]) /\ Stored(F.nd[n], F.nd[n])
  <2>1. F.nd[n] \in Node /\ S.nd[n] \in Node /\ Sound(S.nd[n])
    BY <1>1, <1>4 DEF Good
  <2>. QED  BY <1>6, <2>1, StoredIs
<1>9. Synced(F, F)
  BY <1>7, <1>8 DEF Synced
<1>10. Good(F, F)
  <2>1. {SMBlk, BMBlk, F.root} \subseteq F.alloc
    BY <1>3 DEF Good
  <2>2. \A n \in Live(F) : Sound(F.nd[n])
    BY <1>7, <1>8
  <2>3. \A n \in Live(F) : Kids(F.nd[n]) \subseteq Live(F) \ {F.root}
    BY <1>3, <1>7, <1>8 DEF Good
  <2>4. \A n, m \in Live(F) : n # m => Kids(F.nd[n]) \cap Kids(F.nd[m]) = {}
    BY <1>7, <1>8 DEF Good
  <2>. QED  BY <1>5, <1>9, <2>1, <2>2, <2>3, <2>4 DEF Good
<1>11. Empty(F) = {}
  <2>1. \A n \in Live(S) : n \notin Empty(S)
    OBVIOUS
  <2>2. \A n \in Live(S) : F.nd[n].leaf = S.nd[n].leaf /\ F.nd[n].recs = S.nd[n].recs
    BY <1>6 DEF Stored
  <2>. QED  BY <1>7, <2>1, <2>2 DEF Empty
<1>12. F.lost \subseteq Blks
  BY <1>5, Fields
<1>. QED  BY <1>3, <1>4, <1>6, <1>10, <1>11, <1>12 DEF IsFlushed

\* The tree in memory once everything is written.
LEMMA CleanIs ==
    ASSUME NEW S, NEW D, Good(S, D), Empty(S) = {}, NEW F, IsFlushed(S, F),
           NEW T, T = [S EXCEPT !.dirty = {}]
    PROVE  Good(T, F) /\ Empty(T) = {}
<1>1. S \in State
  BY DEF Good
<1>2. /\ T \in State /\ T.nd = S.nd /\ T.alloc = S.alloc /\ T.root = S.root /\ T.dirty = {}
  BY <1>1 DEF State
<1>3. Live(T) = Live(S) /\ Empty(T) = Empty(S)
  BY <1>2 DEF Live, Empty
<1>4. Synced(T, F)
  BY <1>2, <1>3 DEF Synced, IsFlushed
<1>. QED  BY <1>2, <1>3, <1>4 DEF Good

\* bt_create
LEMMA CreatedIs ==
    Good(Created, Created) /\ Empty(Created) = {} /\ IsFile(Created)
<1>. DEFINE a == NewNode(TRUE, TRUE)
            b == [a EXCEPT !.nn = 1]
            C == Created
<1>1. a \in Node /\ Sound(a) /\ Kids(a) = {} /\ a.leaf = TRUE /\ a.recs = << >>
  BY NewNodeIs
<1>. HIDE DEF a
<1>2. /\ b \in Node /\ b.leaf = a.leaf /\ b.root = a.root /\ b.first = a.first /\ b.recs = a.recs
      /\ b.free = a.free
  BY <1>1 DEF Node
<1>3. /\ C.nd = [n \in NodeBlks |-> IF n = RootBlk THEN b ELSE NoNode]
      /\ C.alloc = {SMBlk, RootBlk, BMBlk} /\ C.root = RootBlk /\ C.dirty = {} /\ C.abort = ""
      /\ C.lost = {} /\ C.fault = NoFault
      /\ C = [nd |-> C.nd, alloc |-> C.alloc, lost |-> C.lost, root |-> C.root, dirty |-> C.dirty,
              abort |-> C.abort, fault |-> C.fault]
  BY DEF Created, a
<1>. HIDE DEF b, C
<1>4. Sound(b) /\ Kids(b) = {} /\ b.leaf = TRUE
  BY <1>1, <1>2, SameNode
<1>5. NoNode \in Node
  <2>1. << >> \in Seq(Record)
    OBVIOUS
  <2>. QED  BY <2>1 DEF NoNode, Node
<1>6. C.nd \in [NodeBlks -> Node] /\ C.nd[RootBlk] = b
  BY <1>2, <1>3, <1>5, Blocks
<1>7. C \in State
  <2>1. C.alloc \subseteq Blks /\ C.root \in NodeBlks /\ C.lost \subseteq Blks /\ C.fault \in Fault
    BY <1>3, Blocks, NoFaultIs
  <2>. QED  BY <1>3, <1>6, <2>1 DEF State
<1>8. Live(C) = {RootBlk}
  BY <1>3, Blocks DEF Live
<1>9. Stored(b, b)
  BY <1>4 DEF Stored, Sound
<1>10. Synced(C, C)
  BY <1>6, <1>8, <1>9 DEF Synced
<1>11. Good(C, C)
  <2>1. {SMBlk, BMBlk, C.root} \subseteq C.alloc
    BY <1>3
  <2>2. \A n \in Live(C) : Sound(C.nd[n]) /\ Kids(C.nd[n]) = {}
    BY <1>4, <1>6, <1>8
  <2>. QED  BY <1>7, <1>10, <2>1, <2>2 DEF Good
<1>12. Empty(C) = {}
  BY <1>4, <1>6, <1>8 DEF Empty
<1>. QED  BY <1>3, <1>6, <1>11, <1>12 DEF C, IsFile

\* A tree that is built by insertions, as long as no assertion fails.
Sane(S) == S.abort = "" => Good(S, Created) /\ Empty(S) = {}

LEMMA BuiltIs ==
    ASSUME NEW S, Sane(S), NEW r \in Keys \X Vals, ShortKeys
    PROVE  Sane(BuiltFrom(S, r))
<1>. DEFINE rec == [k |-> r[1], v |-> r[2]]
            t == Insertion(S, rec)
<1>1. rec \in Record
  BY BTreeAssumption DEF Record
<1>2. BuiltFrom(S, r) = IF S.abort # "" THEN S ELSE t.s
  BY DEF BuiltFrom
<1>. HIDE DEF rec
<1>3. S.abort = "" => Whole(Created, t)
  BY <1>1, InsertionIs DEF Sane
<1>. HIDE DEF t
<1>. QED  BY <1>2, <1>3 DEF Sane, Whole

LEMMA StartIs ==
    ASSUME use \in Uses, ShortKeys
    PROVE  Start.abort = "" => Good(Start, Start) /\ Empty(Start) = {} /\ IsFile(Start)
<1>. DEFINE seq == use.built
            L == Len(seq)
            Step(f, u) == IF u = 0 THEN Created
                          ELSE BuiltFrom(f[u - 1], seq[u])
            Solves(f, m) == f = [u \in 0 .. m |-> Step(f, u)]
            P == {m \in 0 .. L : \E f : Solves(f, m)}
<1>1. seq \in Seq(Keys \X Vals)
  BY BTreeAssumption
<1>2. Start = Flushed((CHOOSE f : Solves(f, L))[L], Created)
  BY DEF Start
<1>. HIDE DEF seq
<1>3. L \in Nat /\ \A u \in 1 .. L : seq[u] \in Keys \X Vals
  BY <1>1
<1>4. \A f, g : Step(f, 0) = Step(g, 0)
  OBVIOUS
<1>5. \A f, g, i : f[i - 1] = g[i - 1] => Step(f, i) = Step(g, i)
  OBVIOUS
<1>6. \A f : Step(f, 0) = Created
  OBVIOUS
<1>7. \A f, i : i # 0 => Step(f, i) = BuiltFrom(f[i - 1], seq[i])
  OBVIOUS
<1>. HIDE DEF Step, L
<1>8. 0 \in P
  <2>. DEFINE g == [i \in 0 .. 0 |-> Step(0, 0)]
  <2>1. Solves(g, 0)
    BY <1>4
  <2>. HIDE DEF Solves, g
  <2>. QED  BY <1>3, <2>1
<1>9. ASSUME NEW m \in 1 .. L, m - 1 \in P  PROVE m \in P
  <2>1. PICK f : Solves(f, m - 1)
    BY <1>9
  <2>. DEFINE g == [i \in 0 .. m |-> IF i = m THEN Step(f, m) ELSE f[i]]
  <2>0. m \in Nat /\ 1 <= m
    BY <1>3
  <2>2. \A i \in 0 .. m - 1 : g[i] = f[i] /\ f[i] = Step(f, i)
    BY <2>0, <2>1
  <2>3. \A i \in 0 .. m : g[i] = Step(g, i)
    <3>1. g[m] = Step(g, m)
      BY <1>5, <2>0, <2>2
    <3>2. ASSUME NEW i \in 1 .. m - 1  PROVE g[i] = Step(g, i)
      <4>1. i - 1 \in 0 .. m - 1 /\ i \in 0 .. m - 1
        BY <2>0
      <4>2. g[i - 1] = f[i - 1] /\ g[i] = Step(f, i)
        BY <2>2, <4>1
      <4>. HIDE DEF g
      <4>. QED  BY <1>5, <4>2
    <3>3. g[0] = Step(g, 0)
      BY <1>4, <2>0, <2>2
    <3>4. \A i \in 0 .. m : i = 0 \/ i = m \/ i \in 1 .. m - 1
      BY <2>0
    <3>. QED  BY <3>1, <3>2, <3>3, <3>4
  <2>4. Solves(g, m)
    BY <2>3
  <2>. HIDE DEF Solves, g
  <2>. QED  BY <1>3, <2>4
<1>10. \E f : Solves(f, L)
  <2>. HIDE DEF Solves
  <2>1. \A i \in 0 .. L : i \in P
    <3>. HIDE DEF P
    <3>. QED  BY <1>3, <1>8, <1>9, Climb
  <2>. QED  BY <1>3, <2>1
<1>. DEFINE built == CHOOSE f : Solves(f, L)
<1>11. Solves(built, L)
  <2>. HIDE DEF Solves
  <2>. QED  BY <1>10
<1>12. \A i \in 0 .. L : built[i] = Step(built, i)
  <2>. HIDE DEF built
  <2>. QED  BY <1>11
<1>13. Start = Flushed(built[L], Created)
  BY <1>2, Zenon
<1>. HIDE DEF built, Solves, P
<1>. DEFINE Q == {i \in 0 .. L : Sane(built[i])}
<1>14. 0 \in Q
  <2>1. built[0] = Created
    BY <1>3, <1>6, <1>12
  <2>2. Sane(built[0])
    BY <2>1, CreatedIs DEF Sane
  <2>. QED  BY <1>3, <2>2
<1>15. ASSUME NEW i \in 1 .. L, i - 1 \in Q  PROVE i \in Q
  <2>1. built[i] = BuiltFrom(built[i - 1], seq[i])
    BY <1>3, <1>7, <1>12
  <2>2. Sane(built[i - 1]) /\ seq[i] \in Keys \X Vals
    BY <1>3, <1>15
  <2>3. Sane(built[i])
    BY <2>1, <2>2, BuiltIs, Zenon
  <2>. QED  BY <1>3, <2>3
<1>16. \A i \in 0 .. L : i \in Q
  <2>. HIDE DEF Q
  <2>. QED  BY <1>3, <1>14, <1>15, Climb
<1>17. Sane(built[L])
  BY <1>3, <1>16
<1>18. Start.abort = built[L].abort
  BY <1>13 DEF Flushed
<1>19. ASSUME Start.abort = ""
       PROVE  Good(Start, Start) /\ Empty(Start) = {} /\ IsFile(Start)
  <2>1. Good(built[L], Created) /\ Empty(built[L]) = {}
    BY <1>17, <1>18, <1>19 DEF Sane
  <2>2. IsFlushed(built[L], Start)
    BY <1>13, <2>1, CreatedIs, FlushedIs
  <2>. QED  BY <2>2 DEF IsFlushed
<1>. QED  BY <1>19

-----------------------------------------------------------------------------
(* Every step                                                              *)

\* While the program runs, the tree in memory is good and the file has of every
\* block that is not dirty what memory has.  This is inductive where NodesSound
\* is not: it speaks of the nodes in the file, which a bt_close makes the tree,
\* and says that the root and the bitmap have their blocks.
BTreeIInv ==
    /\ use \in Uses
    /\ Running => Good(tree, disk) /\ Empty(tree) = {} /\ IsFile(disk)

LEMMA InitSane ==
    ASSUME Init, ShortKeys
    PROVE  BTreeIInv
<1>1. use \in Uses /\ tree = Start /\ disk = Start
  BY DEF Init
<1>2. Start.abort = "" => Good(Start, Start) /\ Empty(Start) = {} /\ IsFile(Start)
  BY <1>1, StartIs
<1>. QED  BY <1>1, <1>2, Zenon DEF BTreeIInv, Running

LEMMA ChangeKeeps ==
    ASSUME BTreeIInv, Running, NEW r, Change(r), Whole(disk, r)
    PROVE  BTreeIInv'
<1>1. tree' = Struck(r.s, NoFault) /\ use' = use /\ disk' = disk
  BY DEF Change
<1>2. tree'.abort = r.s.abort
  BY <1>1 DEF Struck
<1>3. ASSUME Running'  PROVE Good(tree', disk') /\ Empty(tree') = {}
  <2>1. Good(r.s, disk) /\ Empty(r.s) = {}
    BY <1>2, <1>3 DEF Running, Whole
  <2>2. IsSame(r.s, Struck(r.s, NoFault), disk)
    BY <2>1, StruckIs, NoFaultIs
  <2>. QED  BY <1>1, <2>1, <2>2 DEF IsSame
<1>. QED  BY <1>1, <1>3 DEF BTreeIInv, Running

\* The tree an operation starts with, a call on its way to k being to fail.
LEMMA FaultsAre ==
    ASSUME BTreeIInv, Running, NEW k \in Nat, NEW calls, NEW f \in Faults(tree, k, calls)
    PROVE  Good(Struck(tree, f), disk) /\ Empty(Struck(tree, f)) = {}
<1>. DEFINE path == Path(tree, k)
<1>1. Good(tree, disk) /\ Empty(tree) = {}
  BY DEF BTreeIInv
<1>2. Trail(tree, k, tree.root, path)
  BY <1>1, PathIs
<1>3. ToSet(path) \subseteq Blks
  <2>1. path \in Seq(Live(tree)) /\ Live(tree) \subseteq Blks
    BY <1>2, Blocks DEF Trail, Live
  <2>. HIDE DEF path
  <2>. QED  BY <2>1 DEF ToSet
<1>4. FreeBlks(tree) \subseteq Blks
  BY DEF FreeBlks, Blks
<1>5. use.faults \subseteq FaultCalls
  <2>1. \A u \in Uses : u.faults \subseteq FaultCalls
    BY BTreeAssumption DEF FaultCalls
  <2>. QED  BY <2>1 DEF BTreeIInv
<1>. HIDE DEF path
<1>6. f \in Fault
  <2>1. f = NoFault \/ f \in [call : use.faults \cap calls, at : ToSet(path) \cup FreeBlks(tree)]
    BY DEF Faults, path
  <2>. QED  BY <1>3, <1>4, <1>5, <2>1, NoFaultIs DEF Fault
<1>7. IsSame(tree, Struck(tree, f), disk)
  BY <1>1, <1>6, StruckIs
<1>. QED  BY <1>1, <1>7 DEF IsSame

LEMMA FlushKeeps ==
    ASSUME BTreeIInv, Running, disk' = Flushed(tree, disk)
    PROVE  IsFlushed(tree, disk')
BY FlushedIs DEF BTreeIInv

\* A flush that fails has made the file more like the tree, if anything.
LEMMA PartFlushed ==
    ASSUME NEW S, NEW D, Good(S, D), Empty(S) = {}, IsFile(D), NEW W \in SUBSET S.dirty,
           NEW R, R = [S EXCEPT !.dirty = W], NEW F, F = Flushed(R, D), NEW T, T = [S EXCEPT !.dirty = @ \ W]
    PROVE  Good(T, F) /\ Empty(T) = {} /\ IsFile(F)
<1>1. S \in State /\ Synced(S, D)
  BY DEF Good
<1>2. /\ T \in State /\ T.nd = S.nd /\ T.alloc = S.alloc /\ T.root = S.root /\ T.dirty = S.dirty \ W
  <2>. DEFINE E == S.dirty \ W
  <2>1. E \in SUBSET Blks /\ T = [S EXCEPT !.dirty = E]
    BY <1>1, Fields
  <2>. HIDE DEF E
  <2>2. T \in State /\ T.nd = S.nd /\ T.alloc = S.alloc /\ T.root = S.root /\ T.dirty = E
    BY <1>1, <2>1 DEF State
  <2>. QED  BY <2>2 DEF E
<1>3. /\ F.nd = [n \in NodeBlks |-> IF n \in W THEN S.nd[n] ELSE D.nd[n]]
      /\ F.alloc = IF BMBlk \in W THEN S.alloc ELSE D.alloc
      /\ F.root = IF SMBlk \in W THEN S.root ELSE D.root
      /\ F.lost = IF BMBlk \in W THEN S.lost ELSE D.lost
  <2>1. R.nd = S.nd /\ R.alloc = S.alloc /\ R.root = S.root /\ R.lost = S.lost /\ R.dirty = W
    BY <1>1 DEF State
  <2>2. /\ F.nd = [n \in NodeBlks |-> IF n \in R.dirty THEN R.nd[n] ELSE D.nd[n]]
        /\ F.alloc = IF BMBlk \in R.dirty THEN R.alloc ELSE D.alloc
        /\ F.root = IF SMBlk \in R.dirty THEN R.root ELSE D.root
        /\ F.lost = IF BMBlk \in R.dirty THEN R.lost ELSE D.lost
    BY DEF Flushed
  <2>. QED  BY <2>1, <2>2
<1>4. IsFile(F)
  <2>1. /\ S.nd \in [NodeBlks -> Node] /\ S.lost \subseteq Blks
        /\ D.nd \in [NodeBlks -> Node] /\ D.lost \subseteq Blks
    BY <1>1, Fields DEF IsFile
  <2>2. F.lost \subseteq Blks
    BY <1>3, <2>1
  <2>3. \A n \in NodeBlks : (IF n \in W THEN S.nd[n] ELSE D.nd[n]) \in Node
    BY <2>1
  <2>4. F.nd \in [NodeBlks -> Node]
    BY <1>3, <2>3
  <2>. QED  BY <2>2, <2>4 DEF IsFile
<1>5. Live(T) = Live(S) /\ Empty(T) = Empty(S)
  BY <1>2 DEF Live, Empty
<1>6. Synced(T, F)
  <2>1. /\ BMBlk \notin T.dirty => F.alloc = T.alloc
        /\ SMBlk \notin T.dirty => F.root = T.root
    BY <1>1, <1>2, <1>3 DEF Synced
  <2>2. ASSUME NEW n \in Live(T) \ T.dirty  PROVE Stored(F.nd[n], T.nd[n])
    <3>1. n \in Live(S) /\ n \in NodeBlks
      BY <1>5 DEF Live
    <3>2. CASE n \in W
      <4>1. F.nd[n] = S.nd[n] /\ Accounted(S.nd[n])
        BY <1>3, <3>1, <3>2 DEF Good, Sound
      <4>. QED  BY <1>2, <4>1 DEF Stored
    <3>3. CASE n \notin W
      <4>1. F.nd[n] = D.nd[n] /\ n \notin S.dirty
        BY <1>2, <1>3, <2>2, <3>1, <3>3
      <4>. QED  BY <1>1, <1>2, <3>1, <4>1 DEF Synced
    <3>. QED  BY <3>2, <3>3
  <2>. QED  BY <2>1, <2>2 DEF Synced
<1>. QED  BY <1>2, <1>4, <1>5, <1>6 DEF Good

LEMMA NextSane ==
    ASSUME BTreeIInv, [Next]_vars, ShortKeys
    PROVE  BTreeIInv'
<1>1. \A u \in Uses : u.keys \subseteq Nat /\ u.vals \subseteq Nat
  BY BTreeAssumption
<1>2. use.keys \subseteq Nat /\ use.vals \subseteq Nat
  BY <1>1 DEF BTreeIInv
<1>3. ASSUME NEW k \in use.keys, NEW v \in use.vals, bt_insert(k, v)  PROVE BTreeIInv'
  <2>. DEFINE rec == [k |-> k, v |-> v]
              calls == {"read", "copy", "bitmap", "node", "root", "index"}
  <2>1. rec \in Record
    BY <1>2 DEF Record
  <2>2. Running /\ \E f \in Faults(tree, k, calls) : Change(Insertion(Struck(tree, f), rec))
    BY <1>3 DEF bt_insert, MayChange
  <2>. HIDE DEF rec, calls
  <2>3. PICK f \in Faults(tree, k, calls) : Change(Insertion(Struck(tree, f), rec))
    BY <2>2
  <2>. DEFINE r == Insertion(Struck(tree, f), rec)
  <2>4. Good(Struck(tree, f), disk) /\ Empty(Struck(tree, f)) = {}
    BY <1>2, <2>2, FaultsAre
  <2>5. Whole(disk, r)
    BY <2>1, <2>4, InsertionIs
  <2>6. Change(r)
    BY <2>3
  <2>. HIDE DEF r
  <2>. QED  BY <2>2, <2>5, <2>6, ChangeKeeps
<1>4. ASSUME NEW k \in use.keys, bt_remove(k)  PROVE BTreeIInv'
  <2>1. Running /\ k \in Nat /\ \E f \in Faults(tree, k, {"read", "free"}) : Change(Removal(Struck(tree, f), k))
    BY <1>2, <1>4 DEF bt_remove, MayChange
  <2>2. PICK f \in Faults(tree, k, {"read", "free"}) : Change(Removal(Struck(tree, f), k))
    BY <2>1
  <2>. DEFINE r == Removal(Struck(tree, f), k)
  <2>3. Good(Struck(tree, f), disk) /\ Empty(Struck(tree, f)) = {}
    BY <2>1, FaultsAre
  <2>4. Whole(disk, r)
    BY <2>1, <2>3, RemovalIs
  <2>5. Change(r)
    BY <2>2
  <2>. HIDE DEF r
  <2>. QED  BY <2>1, <2>4, <2>5, ChangeKeeps
<1>5. ASSUME NEW k \in use.keys, bt_find(k) \/ bt_find_unread(k) \/ bt_find_uncopied(k)  PROVE BTreeIInv'
  <2>1. UNCHANGED <<use, tree, disk>>
    BY <1>5 DEF bt_find, bt_find_unread, bt_find_uncopied, bt_find_stops
  <2>. QED  BY <2>1 DEF BTreeIInv, Running
<1>9. ASSUME bc_flush_fails  PROVE BTreeIInv'
  <2>1. Running /\ use' = use
    BY <1>9 DEF bc_flush_fails
  <2>2. PICK W \in SUBSET tree.dirty : /\ disk' = Flushed([tree EXCEPT !.dirty = W], disk)
                                       /\ tree' = [tree EXCEPT !.dirty = @ \ W]
    BY <1>9 DEF bc_flush_fails
  <2>3. Good(tree, disk) /\ Empty(tree) = {} /\ IsFile(disk)
    BY <2>1 DEF BTreeIInv
  <2>4. Good(tree', disk') /\ Empty(tree') = {} /\ IsFile(disk')
    BY <2>2, <2>3, PartFlushed
  <2>. QED  BY <2>1, <2>4 DEF BTreeIInv
<1>6. ASSUME bt_sync  PROVE BTreeIInv'
  <2>1. Running /\ disk' = Flushed(tree, disk) /\ tree' = [tree EXCEPT !.dirty = {}] /\ use' = use
    BY <1>6 DEF bt_sync
  <2>2. IsFlushed(tree, disk')
    BY <2>1, FlushKeeps
  <2>3. Good(tree, disk) /\ Empty(tree) = {}
    BY <2>1 DEF BTreeIInv
  <2>4. Good(tree', disk') /\ Empty(tree') = {}
    BY <2>1, <2>2, <2>3, CleanIs
  <2>. QED  BY <2>1, <2>2, <2>4 DEF BTreeIInv, IsFlushed
<1>7. ASSUME bt_close  PROVE BTreeIInv'
  <2>1. /\ Running /\ disk' = Flushed(tree, disk) /\ use' = use
        /\ tree' = [disk' EXCEPT !.abort = IF leaked = {} THEN "" ELSE "bl_refcnt == 0"]
    BY <1>7 DEF bt_close
  <2>2. IsFlushed(tree, disk')
    BY <2>1, FlushKeeps
  <2>3. disk' \in State /\ Good(disk', disk') /\ Empty(disk') = {} /\ IsFile(disk')
    BY <2>2 DEF IsFlushed, Good
  <2>4. Running' => tree' = disk'
    BY <2>1, <2>3 DEF Running, State
  <2>. QED  BY <2>1, <2>3, <2>4 DEF BTreeIInv
<1>8. CASE UNCHANGED vars
  BY <1>8 DEF BTreeIInv, Running, vars
<1>. QED  BY <1>3, <1>4, <1>5, <1>6, <1>7, <1>8, <1>9 DEF Next

LEMMA KidsAreChildren ==
    ASSUME NEW S, NEW n, S.nd[n] \in Node
    PROVE  Children(S, n) = Kids(S.nd[n])
<1>. DEFINE b == S.nd[n]
<1>1. Len(b.recs) \in Nat /\ Children(S, n) = IF b.leaf THEN {} ELSE ({b.first} \cup {b.recs[i].v : i \in 1 .. Len(b.recs)}) \ {0}
  BY NodeFields DEF Children
<1>. HIDE DEF b
<1>2. {Ptr(b, j) : j \in 0 .. Len(b.recs)} = {b.first} \cup {b.recs[i].v : i \in 1 .. Len(b.recs)}
  BY <1>1 DEF Ptr
<1>. QED  BY <1>1, <1>2 DEF Kids, b

LEMMA GoodIsSound ==
    ASSUME BTreeIInv
    PROVE  NodesSound
<1>1. SUFFICES ASSUME Running
               PROVE  /\ \A n \in Live(tree) :
                           LET b == tree.nd[n] IN
                           /\ NodeChecks(b) /\ b.free >= 0
                           /\ \A i \in 2 .. Len(b.recs) : b.recs[i - 1].k < b.recs[i].k
                           /\ ~b.leaf => \A i, j \in 0 .. Len(b.recs) : i # j /\ Ptr(b, i) = Ptr(b, j) => Ptr(b, i) = 0
                           /\ Children(tree, n) \subseteq Live(tree) \ {tree.root}
                      /\ \A n, m \in Live(tree) : n # m => Children(tree, n) \cap Children(tree, m) = {}
  BY DEF NodesSound
<1>2. Good(tree, disk) /\ Empty(tree) = {}
  BY <1>1 DEF BTreeIInv
<1>3. \A n \in Live(tree) : tree.nd[n] \in Node /\ Children(tree, n) = Kids(tree.nd[n])
  BY <1>2, Fields, KidsAreChildren DEF Good
<1>4. ASSUME NEW n \in Live(tree)
      PROVE  LET b == tree.nd[n] IN
             /\ NodeChecks(b) /\ b.free >= 0
             /\ \A i \in 2 .. Len(b.recs) : b.recs[i - 1].k < b.recs[i].k
             /\ ~b.leaf => \A i, j \in 0 .. Len(b.recs) : i # j /\ Ptr(b, i) = Ptr(b, j) => Ptr(b, i) = 0
             /\ Children(tree, n) \subseteq Live(tree) \ {tree.root}
  <2>. DEFINE b == tree.nd[n]
  <2>1. b \in Node /\ Sound(b) /\ Kids(b) \subseteq Live(tree) \ {tree.root} /\ (~b.leaf => b.recs # << >>)
    BY <1>2, <1>3 DEF Good, Empty
  <2>2. Children(tree, n) \subseteq Live(tree) \ {tree.root}
    BY <1>3, <2>1
  <2>. HIDE DEF b
  <2>3. NodeChecks(b) /\ b.free >= 0
    <3>. DEFINE u == SizeOf(b.leaf, b.recs)
                o == IF b.root THEN InfoSz ELSE 0
                p == IF b.leaf THEN 0 ELSE PtrSz
    <3>1. u \in Nat /\ o \in Nat /\ p \in Nat
      BY <2>1, NodeFields, SizeIsNat, Sizes
    <3>2. Overhead(b) = o + p
      BY <2>1 DEF Overhead
    <3>3. b.free >= 0 /\ b.free = MaxInline - Overhead(b) - u
      BY <2>1 DEF Sound, Accounted
    <3>4. NodeChecks(b) <=> b.free = MaxInline - o - p - u
      BY <2>1, Zenon DEF NodeChecks
    <3>. HIDE DEF u, o, p
    <3>5. b.free = MaxInline - o - p - u
      BY <3>1, <3>2, <3>3, Sizes
    <3>. QED  BY <3>3, <3>4, <3>5
  <2>4. /\ \A i \in 2 .. Len(b.recs) : b.recs[i - 1].k < b.recs[i].k
        /\ ~b.leaf => \A i, j \in 0 .. Len(b.recs) : i # j /\ Ptr(b, i) = Ptr(b, j) => Ptr(b, i) = 0
    BY <2>1, Zenon DEF Sound, Ascending, Once
  <2>. QED  BY <2>2, <2>3, <2>4, Zenon DEF b
<1>5. \A n, m \in Live(tree) : n # m => Children(tree, n) \cap Children(tree, m) = {}
  BY <1>2, <1>3 DEF Good
<1>. QED  BY <1>4, <1>5

(* The invariant holds throughout, for every use: what any mix of inserts, *)
(* removes, syncs and reopenings, and of calls of malloc and of the block  *)
(* cache that fail, makes of the tree and of its file.                     *)
THEOREM BTreeInvariant ==
    ASSUME ShortKeys
    PROVE  Spec => []BTreeIInv
<1>1. Init => BTreeIInv
  BY InitSane
<1>2. BTreeIInv /\ [Next]_vars => BTreeIInv'
  BY NextSane
<1>. QED  BY <1>1, <1>2, PTL DEF Spec

(* For every file, block, key and value size, and every use: if an index   *)
(* record takes less than half of a block, every node that has a block,    *)
(* one that a failed split has lost included, passes the checks of         *)
(* _bt_check_disk_node_cb, has its keys in order, and shares no pointer    *)
(* with another.  No failing call of malloc or of the block cache changes  *)
(* that: btree.c:696, 827, 982, 1548, 1881 and 1451 included.              *)
THEOREM NodesAlwaysSound ==
    ASSUME ShortKeys
    PROVE  Spec => []NodesSound
<1>1. Spec => []BTreeIInv
  BY BTreeInvariant
<1>2. BTreeIInv => NodesSound
  BY GoodIsSound
<1>. QED  BY <1>1, <1>2, PTL

=============================================================================
