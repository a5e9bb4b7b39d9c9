----------------------------- MODULE GraphProofs ------------------------------
(***************************************************************************)
(* Proofs about UdwGraph and UdGraph, for any nodes, any positive weights  *)
(* and any sequence of calls.                                              *)
(*                                                                         *)
(* The weighted search is Dijkstra's, with paths for distances and a       *)
(* second test for the end.  Its invariant is about the frontier: every    *)
(* edge that leaves a node whose edges have been followed has left a path  *)
(* behind, in the heap or as the best path, that is no longer than the     *)
(* shortest way through the edge.  So the shortest path in the heap is the *)
(* shortest way to the node it leads to, if that node is new, and the best *)
(* path is the shortest way to the destination once nothing in the heap is *)
(* shorter.  What is shortest is defined apart from the search, by         *)
(* Distances.                                                              *)
(*                                                                         *)
(* In the graph without weights, breadth first: what is queued is in order *)
(* of distance and at most two distances wide (Wave), and a backpointer    *)
(* leads one edge nearer to the start.  Depth first: each call is shown to *)
(* do what it must (Went, Answers) if the calls one level down do; the     *)
(* depth a call may nest to is bounded by what is not marked yet.          *)
(*                                                                         *)
(* The lengths of paths and the distances, loops and recursion are         *)
(* recursive functions.  Their solutions are shown to exist and, where it  *)
(* matters, to be unique, and facts about them are proved by looking at    *)
(* the least index at which they would fail.                               *)
(***************************************************************************)
EXTENDS UdGraph, UdwGraph, FiniteSetTheorems, WellFoundedInduction, TLAPS

-----------------------------------------------------------------------------
(* Induction, on the least counterexample, and recursion                   *)

\* A set of natural numbers has a least element.
LEMMA LeastOf ==
    ASSUME NEW T, T \subseteq Nat, T # {}
    PROVE  \E x \in T : \A y \in T : x <= y
<1>. DEFINE R == {ss \in Nat \X Nat : ss[1] < ss[2]}
<1>1. OpToRel(<, Nat) = R
  BY Zenon DEF OpToRel
<1>2. IsWellFoundedOn(R, Nat)
  BY <1>1, NatLessThanWellFounded, Zenon
<1>. HIDE DEF R
<1>3. PICK x \in T : \A y \in T : <<y, x>> \notin R
  BY <1>2, WFMin
<1>4. \A y \in T : ~(y < x)
  BY <1>3 DEF R
<1>. QED  BY <1>4

\* The least of a set of natural numbers is what Min returns.
LEMMA MinIsLeast ==
    ASSUME NEW T, T \subseteq Nat, T # {}
    PROVE  Min(T) \in T /\ \A y \in T : Min(T) <= y
<1>. DEFINE Least(x) == \A y \in T : x <= y
<1>1. \E x \in T : Least(x)
  BY LeastOf
<1>2. Min(T) = CHOOSE x \in T : Least(x)
  BY DEF Min
<1>. HIDE DEF Least
<1>3. Min(T) \in T /\ Least(Min(T))
  BY <1>1, <1>2
<1>. QED  BY <1>3 DEF Least

\* A finite set of natural numbers has a bound.
LEMMA FiniteIsBounded ==
    ASSUME NEW T \in SUBSET Nat, IsFiniteSet(T)
    PROVE  \E b \in Nat : \A y \in T : y <= b
<1>. DEFINE Bounded(S) == \E b \in Nat : \A y \in S : y <= b
            bad == {n \in Nat : \E S \in SUBSET Nat :
                                  IsFiniteSet(S) /\ Cardinality(S) = n /\ ~Bounded(S)}
<1>1. SUFFICES ASSUME bad # {}  PROVE FALSE
  BY FS_CardinalityType
<1>2. PICK n \in bad : \A k \in bad : n <= k
  <2>1. bad \subseteq Nat
    OBVIOUS
  <2>. HIDE DEF bad
  <2>. QED  BY <1>1, <2>1, LeastOf
<1>3. PICK S \in SUBSET Nat : IsFiniteSet(S) /\ Cardinality(S) = n /\ ~Bounded(S)
  BY <1>2
<1>4. PICK x : x \in S
  <2>1. Bounded({})
    OBVIOUS
  <2>. QED  BY <1>3, <2>1
<1>5. IsFiniteSet(S \ {x}) /\ Cardinality(S \ {x}) = n - 1
  BY <1>3, <1>4, FS_RemoveElement
<1>6. Cardinality(S \ {x}) \in Nat
  BY <1>5, FS_CardinalityType
<1>7. Bounded(S \ {x})
  <2>1. n - 1 \notin bad
    BY <1>2, <1>5, <1>6
  <2>. HIDE DEF Bounded
  <2>. QED  BY <1>3, <1>5, <1>6, <2>1
<1>8. PICK b \in Nat : \A y \in S \ {x} : y <= b
  BY <1>7
<1>9. \A y \in S : y <= b + x
  BY <1>3, <1>4, <1>8
<1>10. b + x \in Nat
  BY <1>3, <1>4, <1>8
<1>. QED  BY <1>3, <1>9, <1>10

\* Max returns the largest of its elements.
LEMMA MaxIsLargest ==
    ASSUME NEW T \in SUBSET Nat, IsFiniteSet(T), T # {}
    PROVE  Max(T) \in T /\ \A y \in T : y <= Max(T)
<1>. DEFINE Largest(x) == \A y \in T : x >= y
            bounds == {b \in Nat : \A y \in T : y <= b}
<1>1. PICK b \in bounds : \A k \in bounds : b <= k
  <2>1. bounds \subseteq Nat /\ bounds # {}
    BY FiniteIsBounded
  <2>. HIDE DEF bounds
  <2>. QED  BY <2>1, LeastOf
<1>2. b \in T
  <2>1. SUFFICES ASSUME b \notin T  PROVE FALSE
    OBVIOUS
  <2>2. \A y \in T : y \in Nat /\ y <= b /\ y # b
    BY <1>1, <2>1
  <2>3. PICK y : y \in T
    OBVIOUS
  <2>4. b \in Nat /\ y \in Nat /\ y < b
    BY <1>1, <2>2, <2>3
  <2>5. b - 1 \in bounds
    BY <2>2, <2>4
  <2>. QED  BY <1>1, <2>4, <2>5
<1>3. \E x \in T : Largest(x)
  BY <1>1, <1>2
<1>4. Max(T) = CHOOSE x \in T : Largest(x)
  BY DEF Max
<1>. HIDE DEF Largest
<1>5. Max(T) \in T /\ Largest(Max(T))
  BY <1>3, <1>4
<1>. QED  BY <1>5 DEF Largest

\* g starts with a and goes on with F, up to n.
Iterates(g, a, F, n) == g[0] = a /\ \A i \in 1 .. n : g[i] = F[i][g[i - 1]]

\* Such a g exists.
LEMMA Iterated ==
    ASSUME NEW D, NEW a \in D, NEW F \in [Nat -> [D -> D]], NEW N \in Nat
    PROVE  \E g \in [0 .. N -> D] : Iterates(g, a, F, N)
<1>. DEFINE bad == {n \in Nat : ~\E g \in [0 .. n -> D] : Iterates(g, a, F, n)}
<1>1. SUFFICES ASSUME bad # {}  PROVE FALSE
  OBVIOUS
<1>2. PICK n \in bad : \A k \in bad : n <= k
  <2>1. bad \subseteq Nat
    OBVIOUS
  <2>. HIDE DEF bad
  <2>. QED  BY <1>1, <2>1, LeastOf
<1>3. n \in Nat /\ ~\E g \in [0 .. n -> D] : Iterates(g, a, F, n)
  BY <1>2
<1>4. CASE n = 0
  <2>1. [i \in 0 .. 0 |-> a] \in [0 .. 0 -> D] /\ Iterates([i \in 0 .. 0 |-> a], a, F, 0)
    BY DEF Iterates
  <2>. QED  BY <1>3, <1>4, <2>1
<1>5. CASE n > 0
  <2>1. n - 1 \in Nat /\ n - 1 \notin bad
    BY <1>2, <1>3, <1>5
  <2>2. PICK g \in [0 .. n - 1 -> D] : Iterates(g, a, F, n - 1)
    BY <2>1
  <2>. DEFINE h == [i \in 0 .. n |-> IF i = n THEN F[n][g[n - 1]] ELSE g[i]]
  <2>3. g[n - 1] \in D /\ F[n] \in [D -> D]
    BY <1>3, <1>5
  <2>4. F[n][g[n - 1]] \in D
    BY <2>3
  <2>5. h \in [0 .. n -> D]
    BY <1>3, <1>5, <2>2, <2>4
  <2>6. Iterates(h, a, F, n)
    BY <1>3, <1>5, <2>2 DEF Iterates
  <2>. QED  BY <1>3, <2>5, <2>6
<1>. QED  BY <1>3, <1>4, <1>5

\* Two functions that start alike and go on alike are alike.
GoOnAlike(f, g, n) == f[0] = g[0] /\ \A i \in 1 .. n : f[i - 1] = g[i - 1] => f[i] = g[i]

\* They agree everywhere, by their least disagreement.
LEMMA SameIterates ==
    ASSUME NEW N \in Nat, NEW f, NEW g, GoOnAlike(f, g, N)
    PROVE  \A i \in 0 .. N : f[i] = g[i]
<1>. USE DEF GoOnAlike
<1>. DEFINE bad == {i \in 0 .. N : f[i] # g[i]}
<1>1. SUFFICES ASSUME bad # {}  PROVE FALSE
  OBVIOUS
<1>2. PICK i \in bad : \A k \in bad : i <= k
  <2>1. bad \subseteq Nat
    OBVIOUS
  <2>. HIDE DEF bad
  <2>. QED  BY <1>1, <2>1, LeastOf
<1>3. i \in 1 .. N /\ f[i] # g[i]
  BY <1>2
<1>4. i - 1 \in 0 .. N /\ i - 1 \notin bad
  BY <1>2, <1>3
<1>. QED  BY <1>3, <1>4

-----------------------------------------------------------------------------
(* Paths and their lengths                                                 *)

\* The trees of edges the nodes keep.
EdgeTrees == UNION {[D -> Weight] : D \in SUBSET WNode}
AllEdges == [WNode -> EdgeTrees]

\* The edges of path lead from n on.
IsPath(E, n, path) ==
    /\ path \in Seq(WNode)
    /\ \A i \in 1 .. Len(path) : path[i] \in DOMAIN E[NodeAt(n, path, i - 1)]

\* The lengths of the beginnings of a path.
Lengths(E, n, path, g) ==
    /\ g \in [0 .. Len(path) -> Nat]
    /\ g[0] = 0
    /\ \A i \in 1 .. Len(path) : g[i] = g[i - 1] + E[NodeAt(n, path, i - 1)][path[i]]

\* An edge has a positive weight.
LEMMA EdgeHasWeight ==
    ASSUME NEW E \in AllEdges, NEW k \in WNode, NEW m \in DOMAIN E[k]
    PROVE  m \in WNode /\ E[k][m] \in Weight /\ E[k][m] \in Nat \ {0}
<1>1. E[k] \in EdgeTrees
  BY DEF AllEdges
<1>2. PICK D \in SUBSET WNode : E[k] \in [D -> Weight]
  BY <1>1 DEF EdgeTrees
<1>. QED  BY <1>2, UdwAssumption

\* So has every edge of a path.
LEMMA PathEdges ==
    ASSUME NEW E \in AllEdges, NEW n \in WNode, NEW path, IsPath(E, n, path), NEW i \in 1 .. Len(path)
    PROVE  /\ NodeAt(n, path, i - 1) \in WNode /\ path[i] \in WNode
           /\ E[NodeAt(n, path, i - 1)][path[i]] \in Weight
           /\ E[NodeAt(n, path, i - 1)][path[i]] \in Nat \ {0}
<1>1. path \in Seq(WNode) /\ Len(path) \in Nat
  BY DEF IsPath
<1>2. NodeAt(n, path, i - 1) \in WNode
  BY <1>1 DEF NodeAt
<1>3. path[i] \in DOMAIN E[NodeAt(n, path, i - 1)]
  BY DEF IsPath
<1>. QED  BY <1>2, <1>3, EdgeHasWeight

(* udwg_path_len is the last of the lengths of the beginnings of the path. *)
LEMMA PathLenIsLength ==
    ASSUME NEW E \in AllEdges, NEW n \in WNode, NEW path, IsPath(E, n, path)
    PROVE  \E g : Lengths(E, n, path, g) /\ udwg_path_len(E, n, path) = g[Len(path)]
<1>. DEFINE N == Len(path)
            W(i) == E[NodeAt(n, path, i - 1)][path[i]]
            F == [i \in Nat |-> [x \in Nat |-> IF i \in 1 .. N THEN x + W(i) ELSE x]]
            Solves(f) == f = [i \in 0 .. N |-> IF i = 0 THEN 0 ELSE f[i - 1] + W(i)]
<1>1. N \in Nat /\ \A i \in 1 .. N : W(i) \in Nat
  BY PathEdges DEF IsPath
<1>. HIDE DEF N, W
<1>2. F \in [Nat -> [Nat -> Nat]]
  BY <1>1
<1>3. PICK g \in [0 .. N -> Nat] : Iterates(g, 0, F, N)
  <2>. HIDE DEF F
  <2>. QED  BY <1>1, <1>2, Iterated
<1>4. g[0] = 0 /\ \A i \in 1 .. N : g[i] = g[i - 1] + W(i)
  <2>1. \A i \in 1 .. N : i \in Nat /\ g[i - 1] \in Nat
    BY <1>1, <1>3
  <2>. QED  BY <1>1, <1>3, <2>1 DEF Iterates
<1>5. Solves(g)
  BY <1>1, <1>3, <1>4
<1>. DEFINE f == CHOOSE f : Solves(f)
<1>6. Solves(f)
  <2>. HIDE DEF Solves
  <2>. QED  BY <1>5
<1>7. udwg_path_len(E, n, path) = f[N]
  BY DEF udwg_path_len, N, W
<1>. HIDE DEF f
<1>8. f[0] = 0 /\ \A i \in 1 .. N : f[i] = f[i - 1] + W(i)
  BY <1>1, <1>6
<1>9. \A i \in 0 .. N : f[i] = g[i]
  <2>1. GoOnAlike(f, g, N)
    BY <1>4, <1>8 DEF GoOnAlike
  <2>. HIDE DEF F, Solves
  <2>. QED  BY <1>1, <2>1, SameIterates
<1>10. Lengths(E, n, path, g)
  BY <1>3, <1>4 DEF Lengths, N, W
<1>11. udwg_path_len(E, n, path) = g[Len(path)]
  BY <1>1, <1>7, <1>9 DEF N
<1>. QED  BY <1>10, <1>11

\* The length of a path is a natural number.
LEMMA PathLenType ==
    ASSUME NEW E \in AllEdges, NEW n \in WNode, NEW path, IsPath(E, n, path)
    PROVE  udwg_path_len(E, n, path) \in Nat
<1>1. PICK g : Lengths(E, n, path, g) /\ udwg_path_len(E, n, path) = g[Len(path)]
  BY PathLenIsLength
<1>. QED  BY <1>1 DEF Lengths, IsPath

\* The path without edges has length 0.
LEMMA EmptyPath ==
    ASSUME NEW E \in AllEdges, NEW n \in WNode
    PROVE  IsPath(E, n, << >>) /\ udwg_path_len(E, n, << >>) = 0
<1>1. IsPath(E, n, << >>)
  BY DEF IsPath
<1>2. PICK g : Lengths(E, n, << >>, g) /\ udwg_path_len(E, n, << >>) = g[Len(<< >>)]
  BY <1>1, PathLenIsLength
<1>. QED  BY <1>1, <1>2 DEF Lengths

\* The node a path from n leads to.
EndOf(n, path) == NodeAt(n, path, Len(path))

\* A path that goes on by one edge is longer by the weight of the edge.
LEMMA LongerPath ==
    ASSUME NEW E \in AllEdges, NEW n \in WNode, NEW path, IsPath(E, n, path),
           NEW m \in DOMAIN E[EndOf(n, path)]
    PROVE  /\ IsPath(E, n, Append(path, m)) /\ EndOf(n, path) \in WNode /\ m \in WNode
           /\ E[EndOf(n, path)][m] \in Nat \ {0}
           /\ udwg_path_len(E, n, Append(path, m))
                = udwg_path_len(E, n, path) + E[EndOf(n, path)][m]
<1>. DEFINE N == Len(path)
            q == Append(path, m)
<1>1. path \in Seq(WNode) /\ N \in Nat
  BY DEF IsPath
<1>2. EndOf(n, path) \in WNode
  BY <1>1 DEF EndOf, NodeAt
<1>3. m \in WNode /\ E[EndOf(n, path)][m] \in Nat \ {0}
  BY <1>2, EdgeHasWeight
<1>4. q \in Seq(WNode) /\ Len(q) = N + 1 /\ q[N + 1] = m /\ \A i \in 1 .. N : q[i] = path[i]
  BY <1>1, <1>3
<1>5. \A i \in 0 .. N : NodeAt(n, q, i) = NodeAt(n, path, i)
  BY <1>1, <1>4 DEF NodeAt
<1>6. NodeAt(n, q, N) = EndOf(n, path)
  BY <1>1, <1>5 DEF EndOf
<1>. HIDE DEF q
<1>7. IsPath(E, n, q)
  <2>1. SUFFICES ASSUME NEW i \in 1 .. N + 1  PROVE q[i] \in DOMAIN E[NodeAt(n, q, i - 1)]
    BY <1>4 DEF IsPath
  <2>2. CASE i = N + 1
    BY <1>1, <1>4, <1>6, <2>2
  <2>3. CASE i \in 1 .. N
    <3>1. i - 1 \in 0 .. N
      BY <1>1, <2>3
    <3>. QED  BY <1>4, <1>5, <2>3, <3>1 DEF IsPath
  <2>. QED  BY <1>1, <2>2, <2>3
<1>8. PICK g : Lengths(E, n, path, g) /\ udwg_path_len(E, n, path) = g[N]
  BY PathLenIsLength
<1>9. PICK h : Lengths(E, n, q, h) /\ udwg_path_len(E, n, q) = h[N + 1]
  BY <1>4, <1>7, PathLenIsLength
<1>10. h[N] = g[N]
  <2>1. h[0] = g[0]
    BY <1>8, <1>9 DEF Lengths
  <2>2. ASSUME NEW i \in 1 .. N, h[i - 1] = g[i - 1]  PROVE h[i] = g[i]
    <3>1. i \in 1 .. N + 1 /\ i - 1 \in 0 .. N
      BY <1>1
    <3>2. h[i] = h[i - 1] + E[NodeAt(n, q, i - 1)][q[i]]
      BY <1>4, <1>9, <3>1 DEF Lengths
    <3>3. g[i] = g[i - 1] + E[NodeAt(n, path, i - 1)][path[i]]
      BY <1>8 DEF Lengths
    <3>. QED  BY <1>4, <1>5, <2>2, <3>1, <3>2, <3>3
  <2>3. GoOnAlike(h, g, N)
    BY <2>1, <2>2 DEF GoOnAlike
  <2>4. \A i \in 0 .. N : h[i] = g[i]
    BY <1>1, <2>3, SameIterates
  <2>. QED  BY <1>1, <2>4
<1>11. h[N + 1] = h[N] + E[EndOf(n, path)][m]
  <2>1. N + 1 \in 1 .. Len(q) /\ (N + 1) - 1 = N
    BY <1>1, <1>4
  <2>2. h[N + 1] = h[(N + 1) - 1] + E[NodeAt(n, q, (N + 1) - 1)][q[N + 1]]
    BY <1>9, <2>1 DEF Lengths
  <2>. QED  BY <1>4, <1>6, <2>1, <2>2
<1>. QED  BY <1>2, <1>3, <1>7, <1>8, <1>9, <1>10, <1>11 DEF q

-----------------------------------------------------------------------------
(* The reference: distances by relaxation                                  *)

\* No path without repetitions is longer than Far.
LEMMA FarType ==
    /\ Cardinality(WNode) \in Nat /\ Max(Weight) \in Nat /\ Far \in Nat
    /\ \A w \in Weight : w \in Nat /\ w <= Max(Weight)
<1>1. Weight \in SUBSET Nat
  BY UdwAssumption
<1>2. Max(Weight) \in Weight /\ \A w \in Weight : w <= Max(Weight)
  BY <1>1, MaxIsLargest, UdwAssumption
<1>3. Cardinality(WNode) \in Nat
  BY FS_CardinalityType, UdwAssumption
<1>4. \A i, j \in Nat : i * j \in Nat
  OBVIOUS
<1>5. Max(Weight) \in Nat /\ \A w \in Weight : w \in Nat /\ w <= Max(Weight)
  BY <1>1, <1>2
<1>. QED  BY <1>3, <1>4, <1>5 DEF Far

\* What one round of relaxation does.
LEMMA RelaxedOnce ==
    ASSUME NEW E \in AllEdges, NEW d \in [WNode -> Nat]
    PROVE  /\ Relaxed(E, d) \in [WNode -> Nat]
           /\ \A m \in WNode : Relaxed(E, d)[m] <= d[m]
           /\ \A k \in WNode : \A m \in DOMAIN E[k] : Relaxed(E, d)[m] <= d[k] + E[k][m]
           /\ \A m \in WNode :
                \/ Relaxed(E, d)[m] = d[m]
                \/ \E k \in WNode : m \in DOMAIN E[k] /\ Relaxed(E, d)[m] = d[k] + E[k][m]
<1>. DEFINE T(m) == {d[m]} \cup {d[k] + E[k][m] : k \in Neighbours(E, m)}
<1>1. Relaxed(E, d) = [m \in WNode |-> Min(T(m))]
  BY DEF Relaxed
<1>2. ASSUME NEW m \in WNode  PROVE Min(T(m)) \in T(m) /\ (\A y \in T(m) : Min(T(m)) <= y) /\ T(m) \subseteq Nat
  <2>1. T(m) \subseteq Nat
    <3>1. \A k \in Neighbours(E, m) : k \in WNode /\ d[k] \in Nat /\ E[k][m] \in Nat
      BY EdgeHasWeight DEF Neighbours
    <3>. QED  BY <3>1
  <2>2. T(m) # {}
    OBVIOUS
  <2>. HIDE DEF T
  <2>. QED  BY <2>1, <2>2, MinIsLeast
<1>3. \A m \in WNode : d[m] \in T(m)
  OBVIOUS
<1>4. \A k \in WNode : \A m \in DOMAIN E[k] : m \in WNode /\ d[k] + E[k][m] \in T(m)
  BY EdgeHasWeight DEF Neighbours
<1>5. \A m \in WNode : \A y \in T(m) :
        y = d[m] \/ \E k \in WNode : m \in DOMAIN E[k] /\ y = d[k] + E[k][m]
  BY DEF Neighbours
<1>. HIDE DEF T
<1>. QED  BY <1>1, <1>2, <1>3, <1>4, <1>5

\* The rounds of relaxation.
Rounds(E, n, g) ==
    /\ g \in [0 .. Cardinality(WNode) -> [WNode -> Nat]]
    /\ g[0] = [m \in WNode |-> IF m = n THEN 0 ELSE Far + 1]
    /\ \A i \in 1 .. Cardinality(WNode) : g[i] = Relaxed(E, g[i - 1])

\* Distances is the last of them.
LEMMA DistancesAreRounds ==
    ASSUME NEW E \in AllEdges, NEW n \in WNode
    PROVE  \E g : Rounds(E, n, g) /\ Distances(E, n) = g[Cardinality(WNode)]
<1>. DEFINE N == Cardinality(WNode)
            D == [WNode -> Nat]
            a == [m \in WNode |-> IF m = n THEN 0 ELSE Far + 1]
            F == [i \in Nat |-> [d \in D |-> Relaxed(E, d)]]
            Solves(f) == f = [i \in 0 .. N |-> IF i = 0 THEN a ELSE Relaxed(E, f[i - 1])]
<1>1. N \in Nat /\ a \in D
  BY FarType
<1>2. \A d \in D : Relaxed(E, d) \in D
  BY RelaxedOnce
<1>. HIDE DEF N, D, a
<1>3. F \in [Nat -> [D -> D]]
  BY <1>2
<1>4. PICK g \in [0 .. N -> D] : Iterates(g, a, F, N)
  <2>. HIDE DEF F
  <2>. QED  BY <1>1, <1>3, Iterated
<1>5. g[0] = a /\ \A i \in 1 .. N : g[i] = Relaxed(E, g[i - 1])
  <2>1. \A i \in 1 .. N : i \in Nat /\ g[i - 1] \in D
    BY <1>1, <1>4
  <2>. QED  BY <1>4, <2>1 DEF Iterates
<1>6. Solves(g)
  BY <1>1, <1>4, <1>5
<1>. DEFINE f == CHOOSE f : Solves(f)
<1>7. Solves(f)
  <2>. HIDE DEF Solves
  <2>. QED  BY <1>6
<1>8. Distances(E, n) = f[N]
  BY DEF Distances, N, a
<1>. HIDE DEF f
<1>9. f[0] = a /\ \A i \in 1 .. N : f[i] = Relaxed(E, f[i - 1])
  BY <1>1, <1>7
<1>10. \A i \in 0 .. N : f[i] = g[i]
  <2>1. GoOnAlike(f, g, N)
    BY <1>5, <1>9 DEF GoOnAlike
  <2>. HIDE DEF F, Solves
  <2>. QED  BY <1>1, <2>1, SameIterates
<1>11. Rounds(E, n, g)
  BY <1>4, <1>5 DEF Rounds, N, D, a
<1>12. Distances(E, n) = g[Cardinality(WNode)]
  BY <1>1, <1>8, <1>10 DEF N
<1>. QED  BY <1>11, <1>12

\* More rounds find no longer distances.
LEMMA RoundsFall ==
    ASSUME NEW E \in AllEdges, NEW n \in WNode, NEW g, Rounds(E, n, g),
           NEW i \in 0 .. Cardinality(WNode), NEW m \in WNode
    PROVE  \A j \in i .. Cardinality(WNode) : g[j][m] <= g[i][m]
<1>. DEFINE N == Cardinality(WNode)
            bad == {j \in i .. N : ~(g[j][m] <= g[i][m])}
<1>0. N \in Nat
  BY FarType
<1>1. SUFFICES ASSUME bad # {}  PROVE FALSE
  OBVIOUS
<1>2. PICK j \in bad : \A k \in bad : j <= k
  <2>1. bad \subseteq Nat
    BY <1>0
  <2>. HIDE DEF bad
  <2>. QED  BY <1>1, <2>1, LeastOf
<1>3. j \in i .. N /\ ~(g[j][m] <= g[i][m])
  BY <1>2
<1>4. \A k \in 0 .. N : g[k] \in [WNode -> Nat] /\ g[k][m] \in Nat
  BY DEF Rounds
<1>5. j > i
  <2>1. g[i][m] \in Nat
    BY <1>4
  <2>2. j # i
    BY <1>3, <2>1
  <2>. QED  BY <1>0, <1>3, <2>2
<1>6. j - 1 \in i .. N /\ j - 1 \notin bad /\ j \in 1 .. N /\ j - 1 \in 0 .. N
  BY <1>0, <1>2, <1>3, <1>5
<1>7. g[j] = Relaxed(E, g[j - 1])
  BY <1>6 DEF Rounds
<1>8. g[j][m] <= g[j - 1][m]
  <2>1. g[j - 1] \in [WNode -> Nat]
    BY <1>4, <1>6
  <2>2. Relaxed(E, g[j - 1])[m] <= g[j - 1][m]
    BY <2>1, RelaxedOnce
  <2>. QED  BY <1>7, <2>2
<1>9. g[j - 1][m] <= g[i][m]
  BY <1>6
<1>10. j \in 0 .. N /\ g[j][m] \in Nat /\ g[j - 1][m] \in Nat /\ g[i][m] \in Nat
  BY <1>0, <1>4, <1>6
<1>. QED  BY <1>3, <1>8, <1>9, <1>10

\* The node itself is at distance 0.
LEMMA DistancesType ==
    ASSUME NEW E \in AllEdges, NEW n \in WNode
    PROVE  Distances(E, n) \in [WNode -> Nat] /\ Distances(E, n)[n] = 0
<1>1. PICK g : Rounds(E, n, g) /\ Distances(E, n) = g[Cardinality(WNode)]
  BY DistancesAreRounds
<1>2. Cardinality(WNode) \in 0 .. Cardinality(WNode) /\ 0 \in 0 .. Cardinality(WNode)
  BY FarType
<1>3. Distances(E, n) \in [WNode -> Nat]
  BY <1>1, <1>2 DEF Rounds
<1>4. g[0][n] = 0
  BY <1>1 DEF Rounds
<1>5. Distances(E, n)[n] <= 0
  BY <1>1, <1>2, <1>4, RoundsFall
<1>. QED  BY <1>3, <1>5

\* A path that comes to no node twice.
SimplePath(E, n, path) ==
    /\ IsPath(E, n, path)
    /\ path # << >>
    /\ \A i, j \in 1 .. Len(path) : path[i] = path[j] => i = j

\* It has at most as many edges as there are nodes.
LEMMA SimplePathIsShort ==
    ASSUME NEW E, NEW n, NEW path, SimplePath(E, n, path)
    PROVE  Len(path) \in 1 .. Cardinality(WNode)
<1>1. path \in Seq(WNode) /\ path # << >>
  BY DEF SimplePath, IsPath
<1>2. Len(path) \in Nat \ {0} /\ path \in [1 .. Len(path) -> WNode]
  BY <1>1
<1>3. IsFiniteSet(WNode) /\ Cardinality(WNode) \in Nat
  BY UdwAssumption, FarType
<1>4. IsFiniteSet(1 .. Len(path)) /\ Cardinality(1 .. Len(path)) = Len(path)
  BY <1>2, FS_Interval
<1>5. ~(Cardinality(WNode) < Cardinality(1 .. Len(path)))
  BY <1>2, <1>3, <1>4, FS_PigeonHole DEF SimplePath
<1>. QED  BY <1>2, <1>3, <1>4, <1>5

(* No path without repetitions is shorter than the distance of its end, or *)
(* longer than Far.                                                        *)
LEMMA NoPathIsShorter ==
    ASSUME NEW E \in AllEdges, NEW n \in WNode, NEW path, SimplePath(E, n, path)
    PROVE  /\ Last(path) \in WNode
           /\ Distances(E, n)[Last(path)] <= udwg_path_len(E, n, path)
           /\ udwg_path_len(E, n, path) <= Far
<1>. DEFINE N == Cardinality(WNode)
            L == Len(path)
            M == Max(Weight)
            W(i) == E[NodeAt(n, path, i - 1)][path[i]]
<1>1. IsPath(E, n, path) /\ path \in Seq(WNode) /\ L \in 1 .. N /\ N \in Nat
  BY SimplePathIsShort, FarType DEF SimplePath, IsPath
<1>2. PICK d : Rounds(E, n, d) /\ Distances(E, n) = d[N]
  BY DistancesAreRounds
<1>3. PICK g : Lengths(E, n, path, g) /\ udwg_path_len(E, n, path) = g[L]
  BY <1>1, PathLenIsLength
<1>4. \A i \in 1 .. L :
        /\ NodeAt(n, path, i - 1) \in WNode /\ path[i] \in WNode
        /\ W(i) \in Nat /\ W(i) <= M
        /\ path[i] \in DOMAIN E[NodeAt(n, path, i - 1)]
        /\ g[i - 1] \in Nat /\ g[i] = g[i - 1] + W(i)
  <2>1. SUFFICES ASSUME NEW i \in 1 .. L
                 PROVE  /\ NodeAt(n, path, i - 1) \in WNode /\ path[i] \in WNode
                        /\ W(i) \in Nat /\ W(i) <= M
                        /\ path[i] \in DOMAIN E[NodeAt(n, path, i - 1)]
                        /\ g[i - 1] \in Nat /\ g[i] = g[i - 1] + W(i)
    OBVIOUS
  <2>2. /\ NodeAt(n, path, i - 1) \in WNode /\ path[i] \in WNode
        /\ W(i) \in Nat /\ W(i) \in Weight
    BY <1>1, PathEdges
  <2>3. W(i) <= M
    BY <2>2, FarType
  <2>4. i - 1 \in 0 .. L
    BY <1>1
  <2>. QED  BY <1>1, <1>3, <2>2, <2>3, <2>4 DEF IsPath, Lengths
<1>5. \A i \in 0 .. N : d[i] \in [WNode -> Nat]
  BY <1>2 DEF Rounds
<1>6. g[0] = 0 /\ d[0][n] = 0
  BY <1>2, <1>3 DEF Lengths, Rounds
<1>. HIDE DEF N, L, M, W
<1>. DEFINE Fits(i) == d[i][NodeAt(n, path, i)] <= g[i] /\ g[i] <= i * M
            bad == {i \in 0 .. L : ~Fits(i)}
<1>7. bad = {}
  <2>1. SUFFICES ASSUME bad # {}  PROVE FALSE
    OBVIOUS
  <2>2. PICK i \in bad : \A k \in bad : i <= k
    <3>1. bad \subseteq Nat
      OBVIOUS
    <3>. HIDE DEF bad
    <3>. QED  BY <2>1, <3>1, LeastOf
  <2>3. i \in 0 .. L /\ ~Fits(i)
    BY <2>2
  <2>4. M \in Nat
    BY FarType DEF M
  <2>5. i # 0
    BY <1>6, <2>3, <2>4 DEF NodeAt
  <2>6. i \in 1 .. L /\ i \in 1 .. N /\ i - 1 \in 0 .. L /\ i - 1 \in 0 .. N /\ i \in 0 .. N
    BY <1>1, <2>3, <2>5
  <2>7. Fits(i - 1)
    BY <2>2, <2>6
  <2>8. d[i] = Relaxed(E, d[i - 1])
    BY <1>2, <2>6 DEF Rounds, N
  <2>9. NodeAt(n, path, i) = path[i]
    BY <2>5 DEF NodeAt
  <2>. DEFINE k == NodeAt(n, path, i - 1)
  <2>10. k \in WNode /\ path[i] \in DOMAIN E[k] /\ path[i] \in WNode /\ E[k][path[i]] = W(i)
    BY <1>4, <2>6 DEF W
  <2>11. d[i][path[i]] <= d[i - 1][k] + W(i)
    BY <1>5, <2>6, <2>8, <2>10, RelaxedOnce
  <2>. HIDE DEF k
  <2>12. /\ d[i][path[i]] \in Nat /\ d[i - 1][k] \in Nat /\ g[i - 1] \in Nat
         /\ W(i) \in Nat /\ W(i) <= M /\ g[i] = g[i - 1] + W(i)
    BY <1>4, <1>5, <2>6, <2>10
  <2>13. d[i][path[i]] <= g[i]
    BY <2>7, <2>11, <2>12 DEF k
  <2>14. g[i] <= i * M
    <3>1. g[i - 1] <= (i - 1) * M
      BY <2>7
    <3>2. \A a, b \in Int : (a - 1) * b + b = a * b
      OBVIOUS
    <3>3. (i - 1) * M + M = i * M /\ (i - 1) * M \in Int
      BY <2>4, <2>6, <3>2
    <3>. QED  BY <2>4, <2>12, <3>1, <3>3
  <2>. QED  BY <2>3, <2>9, <2>13, <2>14
<1>8. Fits(L) /\ L \in 0 .. L /\ L \in 0 .. N
  BY <1>1, <1>7
<1>9. NodeAt(n, path, L) = Last(path) /\ Last(path) \in WNode
  BY <1>1 DEF NodeAt, Last, L
<1>10. d[N][Last(path)] <= g[L]
  <2>1. d[N][Last(path)] <= d[L][Last(path)]
    <3>1. L \in 0 .. Cardinality(WNode) /\ N \in L .. Cardinality(WNode)
      BY <1>1 DEF N
    <3>. QED  BY <1>2, <1>9, <3>1, RoundsFall DEF N
  <2>2. d[L][Last(path)] \in Nat /\ d[N][Last(path)] \in Nat
    <3>1. N \in 0 .. N
      BY <1>1
    <3>. QED  BY <1>5, <1>8, <1>9, <3>1
  <2>3. g[L] \in Nat
    BY <1>3, <1>8 DEF Lengths, L
  <2>. QED  BY <1>8, <1>9, <2>1, <2>2, <2>3
<1>11. g[L] <= Far
  <2>1. M \in Nat /\ Far = N * M
    BY FarType DEF M, N, Far
  <2>2. \A a, b, c \in Nat : a <= b => a * c <= b * c
    OBVIOUS
  <2>3. L * M <= N * M /\ L * M \in Int /\ N * M \in Int
    BY <1>1, <2>1, <2>2
  <2>4. g[L] \in Nat
    BY <1>1, <1>3, <1>8 DEF Lengths, L
  <2>. QED  BY <1>8, <2>1, <2>3, <2>4
<1>. QED  BY <1>2, <1>3, <1>9, <1>10, <1>11

-----------------------------------------------------------------------------
(* The invariant of the search                                             *)

Searches ==
    [from : WNode, to : WNode, pq : SUBSET Seq(WNode), visited : SUBSET WNode,
     best : Seq(WNode), popped : BOOLEAN]

\* The nodes whose edges have been followed.
Reached(s) == s.visited \cup {s.from}

\* A path in the heap comes to no node twice, leads elsewhere than to s.to, and
\* to its last node through visited ones only.
PathsOK(E, s) ==
    \A p \in s.pq :
      /\ SimplePath(E, s.from, p)
      /\ Last(p) # s.to
      /\ \A i \in 1 .. Len(p) - 1 : p[i] \in s.visited

BestOK(E, s) == s.best # << >> => SimplePath(E, s.from, s.best) /\ Last(s.best) = s.to

\* What following the edge from k to m has left behind: a path that is no longer
\* than the shortest way to k and the edge, unless the edges of m have been
\* followed as well.
EdgeFollowed(E, s, k, m) ==
    LET len == Distances(E, s.from)[k] + E[k][m] IN
    /\ m = s.to => s.best # << >> /\ udwg_path_len(E, s.from, s.best) <= len
    /\ m # s.to /\ m \notin Reached(s) =>
         \E p \in s.pq : Last(p) = m /\ udwg_path_len(E, s.from, p) <= len

Frontier(E, s) == \A k \in Reached(s) : \A m \in DOMAIN E[k] : EdgeFollowed(E, s, k, m)

SearchOK(E, s) ==
    /\ s \in Searches
    /\ s.to \notin s.visited
    /\ PathsOK(E, s)
    /\ BestOK(E, s)
    /\ Frontier(E, s)

\* What the nodes know of each other: no edge leads back to its own node, and the
\* two ends of an edge know it with one weight.
EdgesOK(E) ==
    /\ E \in AllEdges
    /\ \A n \in WNode : n \notin DOMAIN E[n]
    /\ \A n \in WNode : \A m \in DOMAIN E[n] : n \in DOMAIN E[m] /\ E[m][n] = E[n][m]

\* The inductive invariant.
UdwIInv ==
    /\ EdgesOK(wg_edges)
    /\ search # Idle => SearchOK(wg_edges, search)
    /\ AnswerIsShortest

(* No node beyond the frontier is nearer than L, if no path in the heap and*)
(* not the best path is shorter than L: look at the first round of the     *)
(* relaxation that would find such a node.                                 *)
LEMMA NothingNearer ==
    ASSUME NEW E \in AllEdges, NEW s, SearchOK(E, s), NEW L \in Nat, L <= Far,
           \A p \in s.pq : L <= udwg_path_len(E, s.from, p),
           s.best # << >> => L <= udwg_path_len(E, s.from, s.best),
           NEW x \in WNode \ Reached(s)
    PROVE  L <= Distances(E, s.from)[x]
<1>. DEFINE N == Cardinality(WNode)
            n == s.from
            Beyond == WNode \ Reached(s)
<1>1. n \in WNode /\ N \in Nat /\ n \notin Beyond /\ Reached(s) \subseteq WNode
  BY FarType DEF SearchOK, Searches, Reached
<1>2. PICK d : Rounds(E, n, d) /\ Distances(E, n) = d[N]
  BY <1>1, DistancesAreRounds
<1>3. \A i \in 0 .. N : d[i] \in [WNode -> Nat]
  BY <1>2 DEF Rounds
<1>. DEFINE bad == {i \in 0 .. N : \E m \in Beyond : d[i][m] < L}
<1>4. bad = {}
  <2>1. SUFFICES ASSUME bad # {}  PROVE FALSE
    OBVIOUS
  <2>2. PICK i \in bad : \A k \in bad : i <= k
    <3>1. bad \subseteq Nat
      BY <1>1
    <3>. HIDE DEF bad
    <3>. QED  BY <2>1, <3>1, LeastOf
  <2>3. i \in 0 .. N
    BY <2>2
  <2>4. PICK m \in Beyond : d[i][m] < L
    BY <2>2
  <2>5. i # 0
    <3>1. d[0][m] = Far + 1 /\ Far \in Nat
      BY <1>1, <1>2, <2>4, FarType DEF Rounds
    <3>. QED  BY <2>4, <3>1
  <2>6. i \in 1 .. N /\ i - 1 \in 0 .. N /\ i - 1 \notin bad
    BY <1>1, <2>2, <2>3, <2>5
  <2>7. d[i] = Relaxed(E, d[i - 1]) /\ d[i - 1] \in [WNode -> Nat]
    BY <1>2, <1>3, <2>6 DEF Rounds
  <2>8. \A k \in Beyond : ~(d[i - 1][k] < L)
    BY <2>6
  <2>9. d[i][m] # d[i - 1][m]
    BY <2>4, <2>8
  <2>10. PICK k \in WNode : m \in DOMAIN E[k] /\ d[i][m] = d[i - 1][k] + E[k][m]
    BY <2>4, <2>7, <2>9, RelaxedOnce
  <2>11. d[i - 1][k] \in Nat /\ E[k][m] \in Nat
    BY <2>7, <2>10, EdgeHasWeight
  <2>12. k \in Reached(s)
    BY <2>4, <2>8, <2>10, <2>11
  <2>13. Distances(E, n)[k] <= d[i - 1][k] /\ Distances(E, n)[k] \in Nat
    <3>1. N \in i - 1 .. Cardinality(WNode) /\ i - 1 \in 0 .. Cardinality(WNode) /\ N \in 0 .. N
      BY <1>1, <2>6
    <3>2. d[N][k] <= d[i - 1][k]
      BY <1>1, <1>2, <3>1, RoundsFall
    <3>. QED  BY <1>2, <1>3, <3>1, <3>2
  <2>14. EdgeFollowed(E, s, k, m)
    BY <2>10, <2>12 DEF SearchOK, Frontier
  <2>. DEFINE len == Distances(E, n)[k] + E[k][m]
  <2>15. L <= len
    <3>1. CASE m = s.to
      <4>1. s.best # << >> /\ udwg_path_len(E, n, s.best) <= len
        BY <2>14, <3>1 DEF EdgeFollowed
      <4>2. udwg_path_len(E, n, s.best) \in Nat
        BY <1>1, <4>1, PathLenType DEF SearchOK, BestOK, SimplePath
      <4>. QED  BY <2>11, <2>13, <4>1, <4>2
    <3>2. CASE m # s.to
      <4>1. PICK p \in s.pq : udwg_path_len(E, n, p) <= len
        BY <2>4, <2>14, <3>2 DEF EdgeFollowed
      <4>2. udwg_path_len(E, n, p) \in Nat
        BY <1>1, <4>1, PathLenType DEF SearchOK, PathsOK, SimplePath
      <4>. QED  BY <2>11, <2>13, <4>1, <4>2
    <3>. QED  BY <3>1, <3>2
  <2>. QED  BY <2>4, <2>10, <2>11, <2>13, <2>15
<1>5. N \in 0 .. N /\ d[N][x] \in Nat
  BY <1>1, <1>3
<1>. QED  BY <1>2, <1>4, <1>5

(* The first time a node is seen, the path to it is the shortest.          *)
LEMMA FirstSeen ==
    ASSUME NEW E \in AllEdges, NEW s, SearchOK(E, s), NEW path \in s.pq,
           \A q \in s.pq : udwg_path_len(E, s.from, path) <= udwg_path_len(E, s.from, q),
           ~(s.best # << >> /\ udwg_path_len(E, s.from, path) >= udwg_path_len(E, s.from, s.best)),
           Last(path) \notin Reached(s)
    PROVE  udwg_path_len(E, s.from, path) = Distances(E, s.from)[Last(path)]
<1>. DEFINE L == udwg_path_len(E, s.from, path)
<1>1. s.from \in WNode /\ SimplePath(E, s.from, path)
  BY DEF SearchOK, Searches, PathsOK
<1>2. L \in Nat
  BY <1>1, PathLenType DEF SimplePath
<1>3. Last(path) \in WNode /\ Distances(E, s.from)[Last(path)] <= L /\ L <= Far
  BY <1>1, NoPathIsShorter
<1>4. s.best # << >> => udwg_path_len(E, s.from, s.best) \in Nat
  BY <1>1, PathLenType DEF SearchOK, BestOK, SimplePath
<1>5. s.best # << >> => L <= udwg_path_len(E, s.from, s.best)
  BY <1>2, <1>4
<1>6. Distances(E, s.from)[Last(path)] \in Nat
  BY <1>1, <1>3, DistancesType
<1>. HIDE DEF L
<1>7. \A q \in s.pq : L <= udwg_path_len(E, s.from, q)
  BY DEF L
<1>8. L <= Distances(E, s.from)[Last(path)]
  BY <1>2, <1>3, <1>5, <1>7, NothingNearer
<1>. QED  BY <1>2, <1>3, <1>6, <1>8 DEF L

(* When no path in the heap can beat the best path, it is the shortest.    *)
LEMMA BestIsShortest ==
    ASSUME NEW E \in AllEdges, NEW s, SearchOK(E, s), s.best # << >>, s.from # s.to,
           \A q \in s.pq : udwg_path_len(E, s.from, s.best) <= udwg_path_len(E, s.from, q)
    PROVE  udwg_path_len(E, s.from, s.best) = Distances(E, s.from)[s.to]
<1>. DEFINE L == udwg_path_len(E, s.from, s.best)
<1>1. s.from \in WNode /\ SimplePath(E, s.from, s.best) /\ Last(s.best) = s.to
  BY DEF SearchOK, Searches, BestOK
<1>2. L \in Nat
  BY <1>1, PathLenType DEF SimplePath
<1>3. s.to \in WNode /\ Distances(E, s.from)[s.to] <= L /\ L <= Far
  BY <1>1, NoPathIsShorter
<1>4. s.to \notin Reached(s)
  BY DEF SearchOK, Reached
<1>5. Distances(E, s.from)[s.to] \in Nat
  BY <1>1, <1>3, DistancesType
<1>. HIDE DEF L
<1>6. (\A q \in s.pq : L <= udwg_path_len(E, s.from, q)) /\ L <= udwg_path_len(E, s.from, s.best)
  BY <1>2 DEF L
<1>7. L <= Distances(E, s.from)[s.to]
  BY <1>2, <1>3, <1>4, <1>6, NothingNearer
<1>. QED  BY <1>2, <1>3, <1>5, <1>7 DEF L

-----------------------------------------------------------------------------
(* Following the edges of a node                                           *)

\* A path from n that is empty or comes to no node twice.
Clean(E, n, path) ==
    /\ IsPath(E, n, path)
    /\ \A i, j \in 1 .. Len(path) : path[i] = path[j] => i = j

\* q goes on from path by one edge.
GoesOn(E, n, path, q) ==
    /\ SimplePath(E, n, q) /\ q \in Seq(WNode)
    /\ Last(q) \in DOMAIN E[EndOf(n, path)] /\ q = Append(path, Last(q))
    /\ Len(q) - 1 = Len(path) /\ \A i \in 1 .. Len(path) : q[i] = path[i]
    /\ udwg_path_len(E, n, q) = udwg_path_len(E, n, path) + E[EndOf(n, path)][Last(q)]

\* A path of Extended does, to a node that is not on path.
LEMMA ExtendedPath ==
    ASSUME wg_edges \in AllEdges, NEW n \in WNode, NEW path, Clean(wg_edges, n, path),
           NEW q \in Extended(path, EndOf(n, path))
    PROVE  GoesOn(wg_edges, n, path, q)
<1>1. PICK m \in DOMAIN wg_edges[EndOf(n, path)] \ ToSet(path) : q = Append(path, m)
  BY DEF Extended
<1>2. IsPath(wg_edges, n, path) /\ path \in Seq(WNode)
  BY DEF Clean, IsPath
<1>3. /\ IsPath(wg_edges, n, q) /\ m \in WNode
      /\ udwg_path_len(wg_edges, n, q)
           = udwg_path_len(wg_edges, n, path) + wg_edges[EndOf(n, path)][m]
  BY <1>1, <1>2, LongerPath
<1>4. /\ q \in Seq(WNode) /\ Len(q) = Len(path) + 1 /\ q[Len(path) + 1] = m /\ Len(path) \in Nat
      /\ \A i \in 1 .. Len(path) : q[i] = path[i]
  BY <1>1, <1>2, <1>3
<1>5. Last(q) = m
  BY <1>4 DEF Last
<1>6. \A i \in 1 .. Len(path) : path[i] # m
  BY <1>1, <1>2 DEF ToSet
<1>7. \A i, j \in 1 .. Len(q) : q[i] = q[j] => i = j
  <2>1. SUFFICES ASSUME NEW i \in 1 .. Len(q), NEW j \in 1 .. Len(q), q[i] = q[j]  PROVE i = j
    OBVIOUS
  <2>2. CASE i \in 1 .. Len(path) /\ j \in 1 .. Len(path)
    BY <1>4, <2>1, <2>2 DEF Clean
  <2>3. CASE i = Len(path) + 1 \/ j = Len(path) + 1
    BY <1>4, <1>6, <2>1, <2>3
  <2>. QED  BY <1>4, <2>2, <2>3
<1>8. q # << >>
  BY <1>4
<1>9. Len(q) - 1 = Len(path)
  BY <1>4
<1>. QED  BY <1>1, <1>3, <1>4, <1>5, <1>7, <1>8, <1>9 DEF SimplePath, GoesOn

\* Every edge from its end to a node that is not on path is followed.
LEMMA ExtendedAll ==
    ASSUME NEW path, NEW n, NEW m \in DOMAIN wg_edges[n], m \notin ToSet(path)
    PROVE  Append(path, m) \in Extended(path, n)
BY DEF Extended

\* Those that do not lead to the node that is looked for.
Leading(path, n, to) == {p \in Extended(path, n) : Last(p) # to}

\* What following the edges of n, the end of path, makes of the search s.
Follows(E, s, path, n, t) ==
    /\ t \in Searches
    /\ t.from = s.from /\ t.to = s.to /\ t.visited = s.visited
    /\ t.pq = s.pq \cup Leading(path, n, s.to)
    /\ BestOK(E, t)
    /\ s.best # << >> =>
         t.best # << >> /\ udwg_path_len(E, s.from, t.best) <= udwg_path_len(E, s.from, s.best)
    /\ Append(path, s.to) \in Extended(path, n) =>
         /\ t.best # << >>
         /\ udwg_path_len(E, s.from, t.best) <= udwg_path_len(E, s.from, Append(path, s.to))

(* Explored: the paths to the neighbours of the end of path join the heap, *)
(* the one to s.to may become the best; nothing else changes.              *)
LEMMA ExploredSearch ==
    ASSUME wg_edges \in AllEdges, NEW s \in Searches, BestOK(wg_edges, s), NEW path,
           Clean(wg_edges, s.from, path), NEW n, n = EndOf(s.from, path)
    PROVE  Follows(wg_edges, s, path, n, Explored(s, path, n))
<1>. DEFINE b == udwg_best(s, path, n)
            p == Append(path, s.to)
            t == Explored(s, path, n)
            new == Leading(path, n, s.to)
            len(q) == udwg_path_len(wg_edges, s.from, q)
<1>1. /\ s.from \in WNode /\ s.to \in WNode /\ s.pq \subseteq Seq(WNode)
      /\ s.visited \subseteq WNode /\ s.best \in Seq(WNode) /\ s.popped \in BOOLEAN
  BY DEF Searches
<1>2. \A q \in Extended(path, n) : SimplePath(wg_edges, s.from, q) /\ q \in Seq(WNode)
  BY <1>1, ExtendedPath DEF GoesOn
<1>3. new \subseteq Seq(WNode)
  BY <1>2 DEF Leading
<1>4. b = IF p \in Extended(path, n) /\ (s.best = << >> \/ len(p) < len(s.best)) THEN p ELSE s.best
  BY DEF udwg_best, PathLen
<1>5. b \in Seq(WNode)
  BY <1>1, <1>2, <1>4
<1>6. t = [s EXCEPT !.pq = s.pq \cup new, !.best = b]
  BY DEF Explored, Leading
<1>7. Last(p) = s.to /\ p # << >>
  <2>1. path \in Seq(WNode)
    BY DEF Clean, IsPath
  <2>. QED  BY <1>1, <2>1 DEF Last
<1>8. (s.best # << >> => len(s.best) \in Nat) /\ (p \in Extended(path, n) => len(p) \in Nat)
  BY <1>1, <1>2, PathLenType DEF BestOK, SimplePath
<1>. HIDE DEF b, new, p, t
<1>9. /\ t \in Searches /\ t.from = s.from /\ t.to = s.to /\ t.visited = s.visited
      /\ t.pq = s.pq \cup new /\ t.best = b
  BY <1>1, <1>3, <1>5, <1>6 DEF Searches
<1>10. b # << >> => SimplePath(wg_edges, s.from, b) /\ Last(b) = s.to
  BY <1>2, <1>4, <1>7 DEF BestOK
<1>11. BestOK(wg_edges, t)
  BY <1>9, <1>10 DEF BestOK
<1>12. s.best # << >> => b # << >> /\ len(b) <= len(s.best)
  BY <1>4, <1>7, <1>8
<1>13. p \in Extended(path, n) => b # << >> /\ len(b) <= len(p)
  BY <1>4, <1>7, <1>8
<1>. QED  BY <1>9, <1>11, <1>12, <1>13 DEF Follows, new, p, t

\* The call: the edges of the node it starts from are followed.
LEMMA StartStep ==
    ASSUME wg_edges \in AllEdges, \A k \in WNode : k \notin DOMAIN wg_edges[k],
           NEW s \in Searches, s.pq = {}, s.visited = {}, s.best = << >>
    PROVE  SearchOK(wg_edges, Explored(s, << >>, s.from))
<1>. DEFINE E == wg_edges
            from == s.from
            to == s.to
            none == << >>
            t == Explored(s, none, from)
<1>1. from \in WNode /\ to \in WNode
  BY DEF Searches
<1>2. BestOK(E, s)
  BY DEF BestOK
<1>3. /\ Clean(E, from, none) /\ EndOf(from, none) = from /\ udwg_path_len(E, from, none) = 0
      /\ Len(none) = 0 /\ none \in Seq(WNode)
  BY <1>1, EmptyPath DEF Clean, EndOf, NodeAt
<1>. HIDE DEF none
<1>4. /\ t \in Searches /\ t.from = from /\ t.to = to /\ t.visited = {}
      /\ t.pq = Leading(none, from, to)
      /\ BestOK(E, t)
      /\ Append(none, to) \in Extended(none, from) =>
           t.best # << >> /\ udwg_path_len(E, from, t.best) <= udwg_path_len(E, from, Append(none, to))
  <2>1. from = EndOf(s.from, none) /\ t = Explored(s, none, from) /\ Clean(E, s.from, none)
    BY <1>3
  <2>. HIDE DEF t
  <2>2. Follows(E, s, none, from, t)
    BY <1>2, <2>1, ExploredSearch
  <2>. QED  BY <2>2 DEF Follows
<1>. HIDE DEF t
<1>5. \A q \in Extended(none, from) :
        /\ SimplePath(E, from, q) /\ Len(q) - 1 = 0 /\ Last(q) \in DOMAIN E[from]
        /\ udwg_path_len(E, from, q) = 0 + E[from][Last(q)]
  <2>1. \A q \in Extended(none, EndOf(from, none)) : GoesOn(E, from, none, q)
    BY <1>1, <1>3, ExtendedPath
  <2>. QED  BY <1>3, <2>1 DEF GoesOn
<1>6. PathsOK(E, t)
  <2>1. SUFFICES ASSUME NEW q \in t.pq
                 PROVE  /\ SimplePath(E, from, q) /\ Last(q) # to
                        /\ \A i \in 1 .. Len(q) - 1 : q[i] \in t.visited
    BY <1>4 DEF PathsOK
  <2>2. q \in Extended(none, from) /\ Last(q) # to
    BY <1>4 DEF Leading
  <2>3. SimplePath(E, from, q) /\ Len(q) - 1 = 0
    BY <1>5, <2>2
  <2>4. \A i \in 1 .. Len(q) - 1 : FALSE
    <3>1. Len(q) \in Nat
      BY <2>3 DEF SimplePath, IsPath
    <3>2. Len(q) = 1
      <4>. HIDE DEF SimplePath
      <4>. QED  BY <2>3, <3>1
    <3>. QED  BY <3>2
  <2>. QED  BY <2>2, <2>3, <2>4
<1>7. Frontier(E, t)
  <2>1. SUFFICES ASSUME NEW m \in DOMAIN E[from]  PROVE EdgeFollowed(E, t, from, m)
    BY <1>4 DEF Frontier, Reached
  <2>2. Distances(E, from)[from] = 0 /\ E[from][m] \in Nat /\ m \in WNode
    BY <1>1, DistancesType, EdgeHasWeight
  <2>3. Append(none, m) \in Extended(none, from)
    <3>1. m \notin ToSet(none)
      BY DEF ToSet, none
    <3>. QED  BY <3>1, ExtendedAll
  <2>4. Last(Append(none, m)) = m
    BY <1>3, <2>2 DEF Last
  <2>5. udwg_path_len(E, from, Append(none, m)) = E[from][m]
    BY <1>5, <2>2, <2>3, <2>4
  <2>6. CASE m = to
    BY <1>4, <2>2, <2>3, <2>5, <2>6 DEF EdgeFollowed
  <2>7. CASE m # to
    BY <1>4, <2>2, <2>3, <2>4, <2>5, <2>7 DEF EdgeFollowed, Leading
  <2>. QED  BY <2>6, <2>7
<1>. QED  BY <1>4, <1>6, <1>7 DEF SearchOK, t, none

(* The body of the loop.  A path to a node that was visited before is      *)
(* dropped: what is left of its edges is on the frontier.  The edges of a  *)
(* node that is seen for the first time are followed, and the path to it   *)
(* was the shortest.                                                       *)
LEMMA LoopStep ==
    ASSUME wg_edges \in AllEdges, NEW s, SearchOK(wg_edges, s), NEW path \in Shortest(s),
           ~CantBeBeat(s, path)
    PROVE  SearchOK(wg_edges, Popped(s, path))
<1>. DEFINE E == wg_edges
            n == Last(path)
            from == s.from
            len(q) == udwg_path_len(E, from, q)
            D == Distances(E, from)
            rest == [s EXCEPT !.pq = s.pq \ {path}, !.popped = TRUE]
<1>1. /\ s \in Searches /\ s.to \notin s.visited /\ PathsOK(E, s) /\ BestOK(E, s) /\ Frontier(E, s)
      /\ from \in WNode /\ s.pq \subseteq Seq(WNode) /\ s.visited \subseteq WNode
  BY DEF SearchOK, Searches
<1>2. /\ path \in s.pq /\ (\A q \in s.pq : len(path) <= len(q))
      /\ ~(s.best # << >> /\ len(path) >= len(s.best))
  BY DEF Shortest, CantBeBeat, PathLen
<1>3. /\ SimplePath(E, from, path) /\ n # s.to /\ path \in Seq(WNode)
      /\ \A i \in 1 .. Len(path) - 1 : path[i] \in s.visited
  BY <1>1, <1>2 DEF PathsOK
<1>4. n \in WNode /\ EndOf(from, path) = n /\ Clean(E, from, path) /\ Len(path) \in Nat \ {0}
  BY <1>3 DEF SimplePath, Clean, EndOf, NodeAt, Last
<1>5. /\ rest \in Searches /\ rest.from = from /\ rest.to = s.to /\ rest.pq = s.pq \ {path}
      /\ rest.visited = s.visited /\ rest.best = s.best
  BY <1>1 DEF Searches
<1>6. PathsOK(E, rest) /\ BestOK(E, rest)
  BY <1>1, <1>5 DEF PathsOK, BestOK
<1>7. CASE n \in s.visited
  <2>1. Popped(s, path) = rest
    BY <1>7 DEF Popped
  <2>2. Frontier(E, rest)
    <3>1. SUFFICES ASSUME NEW k \in Reached(s), NEW m \in DOMAIN E[k]  PROVE EdgeFollowed(E, rest, k, m)
      BY <1>5 DEF Frontier, Reached
    <3>2. EdgeFollowed(E, s, k, m)
      BY <1>1, <3>1 DEF Frontier
    <3>. QED  BY <1>5, <1>7, <3>2 DEF EdgeFollowed, Reached
  <2>. QED  BY <1>1, <1>5, <1>6, <2>1, <2>2 DEF SearchOK
<1>8. CASE n \notin s.visited
  <2>. DEFINE t == Explored(rest, path, n)
              u == [t EXCEPT !.visited = t.visited \cup {n}]
  <2>1. Popped(s, path) = u
    BY <1>8 DEF Popped
  <2>. HIDE DEF rest
  <2>2. /\ t \in Searches /\ t.from = from /\ t.to = s.to /\ t.visited = s.visited
        /\ t.pq = (s.pq \ {path}) \cup Leading(path, n, s.to)
        /\ BestOK(E, t)
        /\ s.best # << >> => t.best # << >> /\ len(t.best) <= len(s.best)
        /\ Append(path, s.to) \in Extended(path, n) => t.best # << >> /\ len(t.best) <= len(Append(path, s.to))
    <3>1. n = EndOf(rest.from, path) /\ t = Explored(rest, path, n) /\ Clean(E, rest.from, path)
      BY <1>4, <1>5
    <3>. HIDE DEF t, n
    <3>2. Follows(E, rest, path, n, t)
      BY <1>5, <1>6, <3>1, ExploredSearch
    <3>. QED  BY <1>5, <3>2 DEF Follows
  <2>. HIDE DEF t
  <2>3. /\ u \in Searches /\ u.from = from /\ u.to = s.to /\ u.visited = s.visited \cup {n}
        /\ u.pq = t.pq /\ u.best = t.best
    BY <1>4, <2>2 DEF Searches
  <2>. HIDE DEF u
  <2>4. BestOK(E, u) /\ u.to \notin u.visited
    BY <1>1, <1>3, <2>2, <2>3 DEF BestOK
  <2>5. \A i \in 1 .. Len(path) : path[i] \in s.visited \cup {n}
    BY <1>3, <1>4 DEF Last
  <2>6. \A q \in Extended(path, n) :
          /\ SimplePath(E, from, q) /\ Last(q) \in DOMAIN E[n] /\ q = Append(path, Last(q))
          /\ Len(q) - 1 = Len(path) /\ (\A i \in 1 .. Len(path) : q[i] = path[i])
          /\ len(q) = len(path) + E[n][Last(q)]
    BY <1>1, <1>4, ExtendedPath DEF GoesOn
  <2>7. PathsOK(E, u)
    <3>1. SUFFICES ASSUME NEW q \in u.pq
                   PROVE  /\ SimplePath(E, from, q) /\ Last(q) # s.to
                          /\ \A i \in 1 .. Len(q) - 1 : q[i] \in s.visited \cup {n}
      BY <2>3 DEF PathsOK
    <3>2. CASE q \in s.pq
      BY <1>1, <3>2 DEF PathsOK
    <3>3. CASE q \in Extended(path, n) /\ Last(q) # s.to
      BY <2>5, <2>6, <3>3
    <3>. QED  BY <2>2, <2>3, <3>2, <3>3 DEF Leading
  <2>8. ASSUME NEW k \in Reached(s), NEW m \in DOMAIN E[k]  PROVE EdgeFollowed(E, u, k, m)
    <3>. DEFINE far == D[k] + E[k][m]
    <3>1. EdgeFollowed(E, s, k, m)
      BY <1>1, <2>8 DEF Frontier
    <3>2. far \in Nat
      <4>1. k \in WNode
        BY <1>1, <2>8 DEF Reached
      <4>2. D[k] \in Nat /\ E[k][m] \in Nat
        BY <1>1, <4>1, DistancesType, EdgeHasWeight
      <4>. QED  BY <4>2
    <3>3. CASE m = s.to
      <4>1. s.best # << >> /\ len(s.best) <= far
        BY <3>1, <3>3 DEF EdgeFollowed
      <4>2. u.best # << >> /\ len(u.best) <= len(s.best)
        BY <2>2, <2>3, <4>1
      <4>3. len(s.best) \in Nat /\ len(u.best) \in Nat
        BY <1>1, <2>3, <2>4, <4>1, <4>2, PathLenType DEF BestOK, SimplePath
      <4>4. len(u.best) <= far
        BY <3>2, <4>1, <4>2, <4>3
      <4>. QED  BY <2>3, <3>3, <4>2, <4>4 DEF EdgeFollowed
    <3>4. CASE m # s.to
      <4>1. SUFFICES ASSUME m \notin Reached(u)
                     PROVE  \E p \in u.pq : Last(p) = m /\ len(p) <= far
        BY <2>3, <3>4 DEF EdgeFollowed
      <4>2. m \notin Reached(s) /\ m # n
        BY <2>3, <4>1 DEF Reached
      <4>3. PICK p \in s.pq : Last(p) = m /\ len(p) <= far
        BY <3>1, <3>4, <4>2 DEF EdgeFollowed
      <4>. QED  BY <2>2, <2>3, <4>2, <4>3
    <3>. QED  BY <3>3, <3>4
  <2>9. ASSUME n \notin Reached(s), NEW m \in DOMAIN E[n]  PROVE EdgeFollowed(E, u, n, m)
    <3>1. D[n] = len(path)
      BY <1>2, <2>9, FirstSeen
    <3>. DEFINE far == D[n] + E[n][m]
    <3>2. CASE m = s.to
      <4>1. m \notin ToSet(path)
        BY <1>1, <1>3, <2>5, <3>2 DEF ToSet
      <4>2. Append(path, m) \in Extended(path, n)
        BY <2>9, <4>1, ExtendedAll
      <4>3. Last(Append(path, m)) = m
        BY <1>3, <1>4, <2>9, EdgeHasWeight DEF Last
      <4>4. len(Append(path, m)) = far
        BY <2>6, <3>1, <4>2, <4>3
      <4>5. u.best # << >> /\ len(u.best) <= far
        BY <2>2, <2>3, <3>2, <4>2, <4>4
      <4>. QED  BY <2>3, <3>2, <4>5 DEF EdgeFollowed
    <3>3. CASE m # s.to
      <4>1. SUFFICES ASSUME m \notin Reached(u)
                     PROVE  \E p \in u.pq : Last(p) = m /\ len(p) <= far
        BY <2>3, <3>3 DEF EdgeFollowed
      <4>2. m \notin ToSet(path)
        BY <1>3, <2>3, <2>5, <4>1 DEF ToSet, Reached
      <4>3. Append(path, m) \in Extended(path, n)
        BY <2>9, <4>2, ExtendedAll
      <4>4. Last(Append(path, m)) = m
        BY <1>3, <1>4, <2>9, EdgeHasWeight DEF Last
      <4>5. len(Append(path, m)) = far /\ far \in Nat
        <5>1. len(Append(path, m)) = far
          BY <2>6, <3>1, <4>3, <4>4
        <5>2. D[n] \in Nat /\ E[n][m] \in Nat
          BY <1>1, <1>4, <2>9, DistancesType, EdgeHasWeight
        <5>. QED  BY <5>1, <5>2
      <4>. QED  BY <2>2, <2>3, <3>3, <4>3, <4>4, <4>5 DEF Leading
    <3>. QED  BY <3>2, <3>3
  <2>10. Frontier(E, u)
    <3>1. Reached(u) = Reached(s) \cup {n}
      BY <2>3 DEF Reached
    <3>. QED  BY <2>8, <2>9, <3>1 DEF Frontier
  <2>. QED  BY <2>1, <2>3, <2>4, <2>7, <2>10 DEF SearchOK
<1>. QED  BY <1>7, <1>8

-----------------------------------------------------------------------------
(* The graph and the answers                                               *)

\* The tree of edges of a node after one more edge.
LEMMA OneMoreEdge ==
    ASSUME NEW t \in EdgeTrees, NEW m \in WNode, NEW w \in Weight
    PROVE  /\ EdgeInserted(t, m, w) \in EdgeTrees
           /\ DOMAIN EdgeInserted(t, m, w) = DOMAIN t \cup {m}
           /\ EdgeInserted(t, m, w)[m] = w
           /\ \A k \in DOMAIN t \ {m} : EdgeInserted(t, m, w)[k] = t[k]
<1>1. PICK D \in SUBSET WNode : t \in [D -> Weight]
  BY DEF EdgeTrees
<1>2. EdgeInserted(t, m, w) \in [D \cup {m} -> Weight] /\ D \cup {m} \in SUBSET WNode
  BY <1>1 DEF EdgeInserted
<1>. QED  BY <1>1, <1>2 DEF EdgeTrees, EdgeInserted

\* An edge that is added to both trees is known to both ends.
LEMMA LinkedStep ==
    ASSUME EdgesOK(wg_edges), NEW a \in WNode, NEW b \in WNode, a # b, NEW w \in Weight,
           b \notin DOMAIN wg_edges[a]
    PROVE  EdgesOK(EdgeLinked(a, b, w))
<1>. DEFINE E == wg_edges
            F == EdgeLinked(a, b, w)
<1>1. E \in [WNode -> EdgeTrees]
  BY DEF EdgesOK, AllEdges
<1>2. a \notin DOMAIN E[b]
  BY DEF EdgesOK
<1>3. F = [[E EXCEPT ![a] = EdgeInserted(E[a], b, w)] EXCEPT ![b] = EdgeInserted(E[b], a, w)]
  BY <1>1 DEF EdgeLinked, WithEdge
<1>4. EdgeInserted(E[a], b, w) \in EdgeTrees /\ EdgeInserted(E[b], a, w) \in EdgeTrees
  BY <1>1, OneMoreEdge
<1>5. F \in AllEdges
  BY <1>1, <1>3, <1>4 DEF AllEdges
<1>6. /\ F[a] = EdgeInserted(E[a], b, w) /\ F[b] = EdgeInserted(E[b], a, w)
      /\ \A k \in WNode : k # a /\ k # b => F[k] = E[k]
  BY <1>1, <1>3
<1>. HIDE DEF F
<1>7. /\ DOMAIN F[a] = DOMAIN E[a] \cup {b} /\ F[a][b] = w
      /\ \A k \in DOMAIN E[a] \ {b} : F[a][k] = E[a][k]
      /\ DOMAIN F[b] = DOMAIN E[b] \cup {a} /\ F[b][a] = w
      /\ \A k \in DOMAIN E[b] \ {a} : F[b][k] = E[b][k]
  <2>1. E[a] \in EdgeTrees /\ E[b] \in EdgeTrees
    BY <1>1
  <2>. DEFINE Grown(t, m, u) ==
                /\ DOMAIN u = DOMAIN t \cup {m} /\ u[m] = w
                /\ \A k \in DOMAIN t \ {m} : u[k] = t[k]
  <2>2. \A t \in EdgeTrees, m \in WNode : Grown(t, m, EdgeInserted(t, m, w))
    BY OneMoreEdge
  <2>3. Grown(E[a], b, F[a]) /\ Grown(E[b], a, F[b])
    <3>. HIDE DEF Grown
    <3>. QED  BY <1>6, <2>1, <2>2
  <2>. QED  BY <2>3
<1>8. \A n \in WNode : \A m \in DOMAIN E[n] : m \in WNode /\ F[n][m] = E[n][m] /\ m \in DOMAIN F[n]
  BY <1>2, <1>6, <1>7, EdgeHasWeight DEF EdgesOK
<1>9. ASSUME NEW n \in WNode  PROVE n \notin DOMAIN F[n]
  BY <1>6, <1>7 DEF EdgesOK
<1>10. ASSUME NEW n \in WNode, NEW m \in DOMAIN F[n]
       PROVE  n \in DOMAIN F[m] /\ F[m][n] = F[n][m]
  <2>1. m \in DOMAIN E[n] \/ (n = a /\ m = b) \/ (n = b /\ m = a)
    BY <1>6, <1>7, <1>10
  <2>2. CASE m \in DOMAIN E[n]
    <3>1. m \in WNode /\ n \in DOMAIN E[m] /\ E[m][n] = E[n][m]
      BY <1>8, <2>2 DEF EdgesOK
    <3>. QED  BY <1>8, <2>2, <3>1
  <2>3. CASE (n = a /\ m = b) \/ (n = b /\ m = a)
    BY <1>7, <2>3
  <2>. QED  BY <2>1, <2>2, <2>3
<1>. QED  BY <1>5, <1>9, <1>10 DEF EdgesOK, F

\* What the caller may expect of a path from n to a node.
Answer(E, n, to, path) ==
    LET whole == <<n>> \o path IN
    /\ Last(whole) = to
    /\ \A i \in 1 .. Len(whole) - 1 : whole[i + 1] \in DOMAIN E[whole[i]]
    /\ udwg_path_len(E, n, path) = Distances(E, n)[to]

\* The best path is such a path when the search returns it.
LEMMA BestIsAnswer ==
    ASSUME wg_edges \in AllEdges, NEW s, SearchOK(wg_edges, s), s.from # s.to,
           NEW path \in Shortest(s), CantBeBeat(s, path)
    PROVE  Answer(wg_edges, s.from, s.to, s.best)
<1>. DEFINE E == wg_edges
            n == s.from
            p == s.best
            whole == <<n>> \o p
            len(q) == udwg_path_len(E, n, q)
<1>1. /\ p # << >> /\ len(p) <= len(path) /\ path \in s.pq
      /\ \A q \in s.pq : len(path) <= len(q)
  <2>1. p # << >> /\ len(path) >= len(p) /\ path \in s.pq /\ \A q \in s.pq : len(path) <= len(q)
    BY DEF CantBeBeat, Shortest, PathLen
  <2>. QED  BY <2>1
<1>2. /\ n \in WNode /\ SimplePath(E, n, p) /\ Last(p) = s.to
      /\ \A q \in s.pq : SimplePath(E, n, q)
  BY <1>1 DEF SearchOK, Searches, BestOK, PathsOK
<1>3. len(p) \in Nat /\ \A q \in s.pq : len(q) \in Nat
  BY <1>2, PathLenType DEF SimplePath
<1>4. \A q \in s.pq : len(p) <= len(q)
  BY <1>1, <1>3
<1>5. len(p) = Distances(E, n)[s.to]
  BY <1>1, <1>4, BestIsShortest
<1>6. /\ p \in Seq(WNode) /\ Len(p) \in Nat \ {0}
      /\ \A i \in 1 .. Len(p) : p[i] \in DOMAIN E[NodeAt(n, p, i - 1)]
  BY <1>1, <1>2 DEF SimplePath, IsPath
<1>7. /\ Len(whole) = Len(p) + 1
      /\ \A i \in 1 .. Len(p) + 1 : whole[i] = NodeAt(n, p, i - 1)
  BY <1>2, <1>6 DEF NodeAt
<1>. HIDE DEF whole
<1>8. Last(whole) = s.to
  BY <1>2, <1>6, <1>7 DEF Last, NodeAt
<1>9. ASSUME NEW i \in 1 .. Len(whole) - 1  PROVE whole[i + 1] \in DOMAIN E[whole[i]]
  <2>1. i \in 1 .. Len(p) /\ i \in 1 .. Len(p) + 1 /\ i + 1 \in 1 .. Len(p) + 1 /\ i # 0
    BY <1>6, <1>7
  <2>2. whole[i] = NodeAt(n, p, i - 1) /\ whole[i + 1] = p[i]
    BY <1>7, <2>1 DEF NodeAt
  <2>. QED  BY <1>6, <2>1, <2>2
<1>. QED  BY <1>5, <1>8, <1>9 DEF Answer, whole

-----------------------------------------------------------------------------
(* The invariant is inductive                                              *)

\* Removing an edge that was just inserted leaves the trees as they were.
LEMMA RemovalUndoes ==
    ASSUME NEW E \in AllEdges, NEW a \in WNode, NEW b \in WNode, NEW w \in Weight, b \notin DOMAIN E[a]
    PROVE  EdgeRemoved(WithEdge(E, a, b, w), a, b) = E
<1>. DEFINE t == E[a]
            u == EdgeInserted(t, b, w)
<1>1. t = [k \in DOMAIN t |-> t[k]]
  BY DEF AllEdges, EdgeTrees
<1>2. /\ DOMAIN u = DOMAIN t \cup {b} /\ DOMAIN u \ {b} = DOMAIN t
      /\ \A k \in DOMAIN t : u[k] = t[k]
  BY DEF EdgeInserted
<1>3. [k \in DOMAIN u \ {b} |-> u[k]] = t
  BY <1>1, <1>2
<1>4. WithEdge(E, a, b, w) = [E EXCEPT ![a] = u]
  BY DEF WithEdge
<1>5. /\ E = [n \in WNode |-> E[n]]
      /\ [E EXCEPT ![a] = u][a] = u
  BY DEF AllEdges
<1>. HIDE DEF u
<1>6. EdgeRemoved([E EXCEPT ![a] = u], a, b) = [[E EXCEPT ![a] = u] EXCEPT ![a] = t]
  BY <1>3, <1>5 DEF EdgeRemoved
<1>. QED  BY <1>4, <1>5, <1>6

\* The graph without edges.
LEMMA NoEdges == EdgesOK([n \in WNode |-> << >>])
<1>. DEFINE E == [n \in WNode |-> << >>]
<1>1. << >> \in [{} -> Weight] /\ {} \in SUBSET WNode
  OBVIOUS
<1>2. << >> \in EdgeTrees
  BY <1>1 DEF EdgeTrees
<1>3. \A n \in WNode : DOMAIN E[n] = {}
  OBVIOUS
<1>4. E \in AllEdges
  BY <1>2 DEF AllEdges
<1>. QED  BY <1>3, <1>4 DEF EdgesOK

\* A reply that is no path, or is an error, promises nothing.
LEMMA NoAnswer ==
    ASSUME wg_reply.op # "path" \/ wg_reply.res # "ok"
    PROVE  AnswerIsShortest
BY DEF AnswerIsShortest

\* The invariant holds of an empty graph.
LEMMA UdwInitStep == UdwInit => UdwIInv
<1>. SUFFICES ASSUME UdwInit  PROVE UdwIInv
  OBVIOUS
<1>1. wg_edges = [n \in WNode |-> << >>] /\ search = Idle /\ wg_reply.op = "none"
  BY DEF UdwInit, NoReply
<1>2. AnswerIsShortest
  BY <1>1, NoAnswer
<1>. QED  BY <1>1, <1>2, NoEdges DEF UdwIInv

\* Every step preserves it.
LEMMA UdwNextStep == UdwIInv /\ [UdwNext]_udwvars => UdwIInv'
<1>. SUFFICES ASSUME UdwIInv, [UdwNext]_udwvars  PROVE UdwIInv'
  OBVIOUS
<1>1. /\ EdgesOK(wg_edges) /\ wg_edges \in AllEdges
      /\ \A n \in WNode : n \notin DOMAIN wg_edges[n]
      /\ search # Idle => SearchOK(wg_edges, search)
  BY DEF UdwIInv, EdgesOK
<1>2. ASSUME wg_reply'.op # "path" \/ wg_reply'.res # "ok"  PROVE AnswerIsShortest'
  BY <1>2 DEF AnswerIsShortest
<1>3. ASSUME NEW d \in WNode, udwg_add_node(d)  PROVE UdwIInv'
  <2>1. UNCHANGED <<wg_edges, search>> /\ wg_reply'.op = "add_node"
    BY <1>3 DEF udwg_add_node
  <2>. QED  BY <1>1, <1>2, <2>1 DEF UdwIInv
<1>4. ASSUME udwg_add_ENOMEM  PROVE UdwIInv'
  <2>1. UNCHANGED <<wg_edges, search>> /\ wg_reply'.op = "add"
    BY <1>4 DEF udwg_add_ENOMEM
  <2>. QED  BY <1>1, <1>2, <2>1 DEF UdwIInv
<1>5. ASSUME NEW a \in WNode, NEW b \in WNode, NEW w \in Weight, udwg_add_edge(a, b, w)
      PROVE  UdwIInv'
  <2>1. /\ a # b /\ search = Idle /\ search' = search /\ wg_reply'.op = "add_edge"
        /\ wg_edges' = IF b \in DOMAIN wg_edges[a] THEN wg_edges ELSE EdgeLinked(a, b, w)
    BY <1>5 DEF udwg_add_edge, CallingW
  <2>2. EdgesOK(wg_edges')
    BY <1>1, <2>1, LinkedStep
  <2>. QED  BY <1>2, <2>1, <2>2 DEF UdwIInv, Idle
<1>6. ASSUME NEW a \in WNode, NEW b \in WNode, NEW w \in Weight, udwg_add_edge_fails(a, b, w)
      PROVE  UdwIInv'
  <2>1. /\ b \notin DOMAIN wg_edges[a] /\ search' = search /\ wg_reply'.op = "add_edge"
        /\ wg_edges' = EdgeRemoved(WithEdge(wg_edges, a, b, w), a, b)
    BY <1>6 DEF udwg_add_edge_fails
  <2>2. wg_edges' = wg_edges
    BY <1>1, <2>1, RemovalUndoes
  <2>. QED  BY <1>1, <1>2, <2>1, <2>2 DEF UdwIInv
<1>7. ASSUME NEW a \in WNode, NEW b \in WNode, udwg_shortest_path_bf(a, b)  PROVE UdwIInv'
  <2>. DEFINE s == [from |-> a, to |-> b, pq |-> {}, visited |-> {}, best |-> << >>, popped |-> FALSE]
  <2>1. search' = Explored(s, << >>, a) /\ UNCHANGED <<wg_edges, wg_reply>> /\ wg_reply = NoReply
    BY <1>7 DEF udwg_shortest_path_bf, CallingW
  <2>2. s \in Searches /\ s.pq = {} /\ s.visited = {} /\ s.best = << >> /\ s.from = a
    BY DEF Searches
  <2>. HIDE DEF s
  <2>3. SearchOK(wg_edges, Explored(s, << >>, a))
    BY <1>1, <2>2, StartStep
  <2>4. SearchOK(wg_edges', search')
    BY <2>1, <2>3
  <2>5. wg_reply'.op = "none"
    BY <2>1 DEF NoReply
  <2>. QED  BY <1>1, <1>2, <2>1, <2>4, <2>5 DEF UdwIInv
<1>8. ASSUME Explore  PROVE UdwIInv'
  <2>1. search # Idle /\ UNCHANGED <<wg_edges, wg_reply>>
    BY <1>8 DEF Explore
  <2>2. PICK path \in Shortest(search) : ~CantBeBeat(search, path) /\ search' = Popped(search, path)
    BY <1>8 DEF Explore
  <2>3. SearchOK(wg_edges', search')
    BY <1>1, <2>1, <2>2, LoopStep
  <2>4. AnswerIsShortest'
    BY <2>1 DEF UdwIInv, AnswerIsShortest
  <2>. QED  BY <1>1, <2>1, <2>3, <2>4 DEF UdwIInv
<1>9. ASSUME ReturnBest  PROVE UdwIInv'
  <2>1. /\ search # Idle /\ search' = Idle /\ wg_edges' = wg_edges
        /\ wg_reply' = PathReply("ok", search.best)
    BY <1>9 DEF ReturnBest, Returns
  <2>2. PICK path \in Shortest(search) : CantBeBeat(search, path)
    BY <1>9 DEF ReturnBest
  <2>3. search.from # search.to => Answer(wg_edges, search.from, search.to, search.best)
    BY <1>1, <2>1, <2>2, BestIsAnswer
  <2>4. wg_reply'.from = search.from /\ wg_reply'.to = search.to /\ wg_reply'.path = search.best
    BY <2>1 DEF PathReply
  <2>5. wg_reply'.from # wg_reply'.to =>
          Answer(wg_edges', wg_reply'.from, wg_reply'.to, wg_reply'.path)
    BY <2>1, <2>3, <2>4
  <2>6. AnswerIsShortest'
    BY <2>5 DEF AnswerIsShortest, Answer
  <2>. QED  BY <1>1, <2>1, <2>6 DEF UdwIInv, Idle
<1>10. ASSUME ReturnENOENT \/ ReturnENOMEM  PROVE UdwIInv'
  <2>1. PICK res \in {"ENOENT", "ENOMEM"} : Returns(PathReply(res, << >>))
    BY <1>10 DEF ReturnENOENT, ReturnENOMEM
  <2>2. search' = Idle /\ wg_edges' = wg_edges /\ wg_reply' = PathReply(res, << >>)
    BY <2>1 DEF Returns
  <2>3. wg_reply'.res # "ok"
    BY <2>2 DEF PathReply
  <2>. QED  BY <1>1, <1>2, <2>2, <2>3 DEF UdwIInv, Idle
<1>11. ASSUME udwg_destroy  PROVE UdwIInv'
  <2>1. /\ search = Idle /\ search' = search /\ wg_reply' = NoReply
        /\ wg_edges' = [n \in WNode |-> << >>]
    BY <1>11 DEF udwg_destroy, CallingW
  <2>2. wg_reply'.op = "none" /\ EdgesOK(wg_edges')
    BY <2>1, NoEdges DEF NoReply
  <2>. QED  BY <1>2, <2>1, <2>2 DEF UdwIInv, Idle
<1>12. ASSUME TakeReplyW  PROVE UdwIInv'
  <2>1. UNCHANGED <<wg_edges, search>> /\ wg_reply'.op = "none"
    BY <1>12 DEF TakeReplyW, NoReply
  <2>. QED  BY <1>1, <1>2, <2>1 DEF UdwIInv
<1>13. ASSUME UNCHANGED udwvars  PROVE UdwIInv'
  <2>1. UNCHANGED <<wg_edges, search, wg_reply>>
    BY <1>13 DEF udwvars
  <2>2. AnswerIsShortest'
    BY <2>1 DEF UdwIInv, AnswerIsShortest
  <2>. QED  BY <1>1, <2>1, <2>2 DEF UdwIInv
<1>. QED
  BY <1>3, <1>4, <1>5, <1>6, <1>7, <1>8, <1>9, <1>10, <1>11, <1>12, <1>13 DEF UdwNext

\* The loop is about to explore only shortest paths to nodes it has not seen.
LEMMA FirstSeenHolds == UdwIInv => FirstSeenIsShortest
<1>. SUFFICES ASSUME UdwIInv, search # Idle, NEW path \in Shortest(search),
                     ~CantBeBeat(search, path), Last(path) \notin search.visited \cup {search.from}
              PROVE  PathLen(search, path) = Distances(wg_edges, search.from)[Last(path)]
  BY DEF FirstSeenIsShortest
<1>1. wg_edges \in AllEdges /\ SearchOK(wg_edges, search)
  BY DEF UdwIInv, EdgesOK
<1>. DEFINE len(q) == udwg_path_len(wg_edges, search.from, q)
<1>2. /\ path \in search.pq /\ \A q \in search.pq : len(path) <= len(q)
      /\ ~(search.best # << >> /\ len(path) >= len(search.best))
      /\ Last(path) \notin Reached(search)
  BY DEF Shortest, CantBeBeat, PathLen, Reached
<1>. QED  BY <1>1, <1>2, FirstSeen DEF PathLen

-----------------------------------------------------------------------------
(* The theorems                                                            *)

(* The invariant holds in every state, whatever nodes and edges are added, *)
(* whatever is searched for, and whichever allocation fails.               *)
THEOREM UdwInvariant == UdwSpec => []UdwIInv
<1>1. UdwInit => UdwIInv
  BY UdwInitStep
<1>2. UdwIInv /\ [UdwNext]_udwvars => UdwIInv'
  BY UdwNextStep
<1>. QED  BY <1>1, <1>2, PTL DEF UdwSpec

(* udwg_add_edge and its failures leave both ends of an edge with it, and  *)
(* with one weight, or neither: what udwg_check looks for.                 *)
THEOREM EdgesAreMutual == UdwSpec => []WeightsMutual
<1>1. UdwIInv => WeightsMutual
  BY DEF UdwIInv, EdgesOK, WeightsMutual
<1>. QED  BY <1>1, UdwInvariant, PTL

(* The comment at udw_graph.c:501 is right, for paths that can still beat  *)
(* the best one: no shorter way leads to a node that the loop sees for the *)
(* first time, so that the later paths to it may be dropped.               *)
THEOREM FirstSeenShortest == UdwSpec => []FirstSeenIsShortest
<1>. QED  BY FirstSeenHolds, UdwInvariant, PTL

(* A path that udwg_shortest_path_bf returns leads along edges of the      *)
(* graph to the node it was asked for, and no way there is shorter.        *)
THEOREM SearchFindsShortest == UdwSpec => []AnswerIsShortest
<1>1. UdwIInv => AnswerIsShortest
  BY DEF UdwIInv
<1>. QED  BY <1>1, UdwInvariant, PTL


-----------------------------------------------------------------------------
(* Distances in the unweighted graph                                       *)

\* Induction up to N, over a set of numbers.
LEMMA UpTo ==
    ASSUME NEW N \in Nat, NEW P, 0 \in P, \A i \in 1 .. N : i - 1 \in P => i \in P
    PROVE  \A i \in 0 .. N : i \in P
<1>. DEFINE bad == {i \in 0 .. N : i \notin P}
<1>1. SUFFICES ASSUME bad # {}  PROVE FALSE
  OBVIOUS
<1>2. PICK i \in bad : \A k \in bad : i <= k
  <2>1. bad \subseteq Nat
    OBVIOUS
  <2>. HIDE DEF bad
  <2>. QED  BY <1>1, <2>1, LeastOf
<1>3. i \in 1 .. N /\ i \notin P
  BY <1>2
<1>4. i - 1 \in 0 .. N /\ i - 1 \notin bad
  BY <1>2, <1>3
<1>. QED  BY <1>3, <1>4

\* The adjacencies a graph may have.
AdjSets == [UdNode -> SUBSET UdNode]

\* The number of nodes.
LEMMA NodeCount == IsFiniteSet(UdNode) /\ Cardinality(UdNode) \in Nat
BY UdAssumption, FS_CardinalityType

\* S and the nodes next to it.
Wider(A, S) == S \cup UNION {A[m] : m \in S}

\* A ball is widened once for every edge.
LEMMA BallIs ==
    ASSUME NEW A \in AdjSets, NEW n \in UdNode, NEW K \in Nat
    PROVE  \E g \in [0 .. K -> SUBSET UdNode] :
             /\ g[0] = {n} /\ \A i \in 1 .. K : g[i] = Wider(A, g[i - 1])
             /\ \A k \in 0 .. K : Ball(A, n, k) = g[k]
<1>. DEFINE D == SUBSET UdNode
            F == [i \in Nat |-> [S \in D |-> Wider(A, S)]]
            a == {n}
<1>1. a \in D /\ \A S \in D : Wider(A, S) \in D
  BY DEF Wider, AdjSets
<1>. HIDE DEF D, a
<1>2. F \in [Nat -> [D -> D]]
  BY <1>1
<1>3. PICK g \in [0 .. K -> D] : Iterates(g, a, F, K)
  <2>. HIDE DEF F
  <2>. QED  BY <1>1, <1>2, Iterated
<1>4. g[0] = a /\ \A i \in 1 .. K : g[i] = Wider(A, g[i - 1])
  <2>1. \A i \in 1 .. K : i \in Nat /\ g[i - 1] \in D
    BY <1>3
  <2>. QED  BY <1>3, <2>1 DEF Iterates
<1>5. ASSUME NEW k \in 0 .. K  PROVE Ball(A, n, k) = g[k]
  <2>. DEFINE Solves(f) == f = [i \in 0 .. k |-> IF i = 0 THEN a ELSE Wider(A, f[i - 1])]
              f == CHOOSE f : Solves(f)
              h == [i \in 0 .. k |-> g[i]]
  <2>1. Solves(h)
    BY <1>4
  <2>2. Solves(f)
    <3>. HIDE DEF Solves, h
    <3>. QED  BY <2>1
  <2>3. Ball(A, n, k) = f[k]
    BY DEF Ball, Wider, a
  <2>. HIDE DEF f
  <2>4. f[0] = a /\ \A i \in 1 .. k : f[i] = Wider(A, f[i - 1])
    BY <2>2
  <2>5. GoOnAlike(f, g, k)
    BY <1>4, <2>4 DEF GoOnAlike
  <2>6. k \in Nat /\ k \in 0 .. k
    OBVIOUS
  <2>. HIDE DEF F, Solves, h
  <2>. QED  BY <2>3, <2>5, <2>6, SameIterates
<1>. QED  BY <1>3, <1>4, <1>5 DEF D, a

\* One ball and the next.
LEMMA BallStep ==
    ASSUME NEW A \in AdjSets, NEW n \in UdNode
    PROVE  /\ Ball(A, n, 0) = {n}
           /\ \A k \in Nat : Ball(A, n, k) \in SUBSET UdNode
           /\ \A k \in Nat : Ball(A, n, k + 1) = Wider(A, Ball(A, n, k))
<1>1. Ball(A, n, 0) = {n}
  <2>1. 0 \in Nat /\ 0 \in 0 .. 0
    OBVIOUS
  <2>. QED  BY <2>1, BallIs
<1>2. ASSUME NEW k \in Nat
      PROVE  Ball(A, n, k) \in SUBSET UdNode /\ Ball(A, n, k + 1) = Wider(A, Ball(A, n, k))
  <2>1. k + 1 \in Nat /\ k \in 0 .. k + 1 /\ k + 1 \in 0 .. k + 1 /\ k + 1 \in 1 .. k + 1 /\ (k + 1) - 1 = k
    OBVIOUS
  <2>2. PICK g \in [0 .. k + 1 -> SUBSET UdNode] :
             /\ \A i \in 1 .. k + 1 : g[i] = Wider(A, g[i - 1])
             /\ \A j \in 0 .. k + 1 : Ball(A, n, j) = g[j]
    <3>. DEFINE K == k + 1
    <3>1. K \in Nat
      BY <2>1
    <3>. HIDE DEF K
    <3>2. PICK g \in [0 .. K -> SUBSET UdNode] :
             /\ g[0] = {n} /\ \A i \in 1 .. K : g[i] = Wider(A, g[i - 1])
             /\ \A j \in 0 .. K : Ball(A, n, j) = g[j]
      BY <3>1, BallIs, Zenon
    <3>. QED  BY <3>2 DEF K
  <2>. QED  BY <2>1, <2>2
<1>. QED  BY <1>1, <1>2

\* Balls grow.
LEMMA BallGrows ==
    ASSUME NEW A \in AdjSets, NEW n \in UdNode, NEW i \in Nat, NEW j \in Nat, i <= j
    PROVE  Ball(A, n, i) \subseteq Ball(A, n, j)
<1>. DEFINE P == {k \in Nat : Ball(A, n, i) \subseteq Ball(A, n, i + k)}
<1>1. 0 \in P
  OBVIOUS
<1>2. ASSUME NEW k \in 1 .. j - i, k - 1 \in P  PROVE k \in P
  <2>1. i + (k - 1) \in Nat /\ (i + (k - 1)) + 1 = i + k /\ k \in Nat
    OBVIOUS
  <2>2. Ball(A, n, i + k) = Wider(A, Ball(A, n, i + (k - 1)))
    BY <2>1, BallStep
  <2>. QED  BY <1>2, <2>1, <2>2 DEF Wider
<1>3. j - i \in Nat /\ j - i \in 0 .. j - i /\ i + (j - i) = j
  OBVIOUS
<1>4. j - i \in P
  <2>. HIDE DEF P
  <2>. QED  BY <1>1, <1>2, <1>3, UpTo
<1>. QED  BY <1>3, <1>4

\* When it stops growing, it has stopped for good.
LEMMA BallStops ==
    ASSUME NEW A \in AdjSets, NEW n \in UdNode, NEW i \in Nat, Ball(A, n, i + 1) = Ball(A, n, i),
           NEW j \in Nat, i <= j
    PROVE  Ball(A, n, j) = Ball(A, n, i)
<1>. DEFINE P == {k \in Nat : Ball(A, n, i + k) = Ball(A, n, i)}
<1>1. 0 \in P
  OBVIOUS
<1>2. ASSUME NEW k \in 1 .. j - i, k - 1 \in P  PROVE k \in P
  <2>1. i + (k - 1) \in Nat /\ (i + (k - 1)) + 1 = i + k /\ k \in Nat
    OBVIOUS
  <2>2. Ball(A, n, i + k) = Wider(A, Ball(A, n, i + (k - 1)))
    BY <2>1, BallStep
  <2>3. Ball(A, n, i + 1) = Wider(A, Ball(A, n, i))
    BY BallStep
  <2>. QED  BY <1>2, <2>1, <2>2, <2>3
<1>3. j - i \in Nat /\ j - i \in 0 .. j - i /\ i + (j - i) = j
  OBVIOUS
<1>4. j - i \in P
  <2>. HIDE DEF P
  <2>. QED  BY <1>1, <1>2, <1>3, UpTo
<1>. QED  BY <1>3, <1>4

(* As many edges as there are nodes lead everywhere: a ball that still     *)
(* grows has more nodes than its radius.                                   *)
LEMMA ComponentCloses ==
    ASSUME NEW A \in AdjSets, NEW n \in UdNode, NEW x \in Component(A, n)
    PROVE  A[x] \subseteq Component(A, n)
<1>. DEFINE N == Cardinality(UdNode)
            b(i) == Ball(A, n, i)
<1>0. N \in Nat /\ IsFiniteSet(UdNode)
  BY NodeCount
<1>. HIDE DEF N
<1>1. SUFFICES ASSUME b(N + 1) # b(N)  PROVE FALSE
  BY <1>0, BallStep DEF Wider, Component, N
<1>2. \A i \in Nat : b(i) \in SUBSET UdNode /\ IsFiniteSet(b(i)) /\ Cardinality(b(i)) \in Nat
  BY <1>0, BallStep, FS_Subset, FS_CardinalityType
<1>3. \A i \in 0 .. N : b(i + 1) # b(i)
  <2>1. ASSUME NEW i \in 0 .. N, b(i + 1) = b(i)  PROVE FALSE
    <3>1. i \in Nat /\ N + 1 \in Nat /\ i <= N + 1 /\ i <= N
      BY <1>0
    <3>2. b(N) = b(i) /\ b(N + 1) = b(i)
      BY <1>0, <2>1, <3>1, BallStops
    <3>. QED  BY <1>1, <3>2
  <2>. QED  BY <2>1
<1>. DEFINE P == {i \in 0 .. N : Cardinality(b(i)) >= i + 1}
<1>4. 0 \in P
  <2>1. Cardinality({n}) = 1
    BY FS_Singleton
  <2>2. b(0) = {n}
    BY BallStep
  <2>. QED  BY <1>0, <2>1, <2>2
<1>5. ASSUME NEW i \in 1 .. N, i - 1 \in P  PROVE i \in P
  <2>1. i - 1 \in Nat /\ i - 1 \in 0 .. N /\ (i - 1) + 1 = i /\ i \in Nat
    BY <1>0
  <2>2. b(i - 1) \subseteq b(i) /\ b(i - 1) # b(i)
    BY <1>3, <2>1, BallGrows
  <2>3. IsFiniteSet(b(i)) /\ Cardinality(b(i - 1)) \in Nat /\ Cardinality(b(i)) \in Nat
    BY <1>2, <2>1
  <2>4. Cardinality(b(i - 1)) < Cardinality(b(i))
    <3>1. Cardinality(b(i - 1)) <= Cardinality(b(i)) /\ Cardinality(b(i - 1)) # Cardinality(b(i))
      BY <2>2, <2>3, FS_Subset
    <3>. QED  BY <2>3, <3>1
  <2>. QED  BY <1>5, <2>1, <2>3, <2>4
<1>6. N \in P
  <2>. HIDE DEF P
  <2>1. N \in 0 .. N
    BY <1>0
  <2>. QED  BY <1>0, <1>4, <1>5, <2>1, UpTo
<1>7. Cardinality(b(N)) <= N
  BY <1>0, <1>2, FS_Subset DEF N
<1>. QED  BY <1>0, <1>2, <1>6, <1>7

\* The nodes in DOMAIN d are those that can be reached from n, with their distances.
Measures(A, n, d) ==
    /\ DOMAIN d \subseteq UdNode /\ d \in [DOMAIN d -> 0 .. Cardinality(UdNode)]
    /\ n \in DOMAIN d /\ d[n] = 0
    /\ \A x \in DOMAIN d : \A y \in A[x] : y \in DOMAIN d /\ d[y] <= d[x] + 1
    /\ \A y \in DOMAIN d \ {n} : \E x \in DOMAIN d : y \in A[x] /\ d[y] = d[x] + 1

DistancesFrom(A, n) == [x \in Component(A, n) |-> Distance(A, n, x)]

\* A distance is the radius of the least ball around n.
LEMMA DistanceIs ==
    ASSUME NEW A \in AdjSets, NEW n \in UdNode, NEW k \in Nat, NEW x \in Ball(A, n, k),
           k <= Cardinality(UdNode)
    PROVE  /\ Distance(A, n, x) \in 0 .. k
           /\ x \in Ball(A, n, Distance(A, n, x))
           /\ \A j \in Nat : j < Distance(A, n, x) => x \notin Ball(A, n, j)
<1>. DEFINE N == Cardinality(UdNode)
            T == {j \in Nat : x \in Ball(A, n, j)}
            Least(j) == x \in Ball(A, n, j) /\ \A i \in 0 .. j - 1 : x \notin Ball(A, n, i)
<1>1. PICK j \in T : \A i \in T : j <= i
  <2>1. T \subseteq Nat /\ T # {}
    OBVIOUS
  <2>. HIDE DEF T
  <2>. QED  BY <2>1, LeastOf
<1>2. j \in 0 .. N /\ Least(j)
  BY <1>1, NodeCount
<1>. DEFINE e == CHOOSE i \in 0 .. N : Least(i)
<1>3. Distance(A, n, x) = e
  BY DEF Distance
<1>4. e \in 0 .. N /\ Least(e)
  <2>. HIDE DEF Least
  <2>. QED  BY <1>2
<1>. HIDE DEF e
<1>5. e \in Nat /\ \A i \in Nat : i < e => x \notin Ball(A, n, i)
  BY <1>4, NodeCount
<1>6. ~(k < e)
  BY <1>5
<1>. QED  BY <1>3, <1>4, <1>5, <1>6

\* Component and Distance are what is reached, and how far it is.
LEMMA DistancesMeasure ==
    ASSUME NEW A \in AdjSets, NEW n \in UdNode
    PROVE  Measures(A, n, DistancesFrom(A, n))
<1>. DEFINE N == Cardinality(UdNode)
            C == Component(A, n)
            d == DistancesFrom(A, n)
<1>0. N \in Nat /\ N <= N
  BY NodeCount
<1>1. C = Ball(A, n, N) /\ C \subseteq UdNode
  BY <1>0, BallStep DEF Component
<1>2. DOMAIN d = C /\ d = [x \in DOMAIN d |-> d[x]] /\ \A x \in C : d[x] = Distance(A, n, x)
  BY DEF DistancesFrom
<1>. HIDE DEF N, C, d
<1>3. ASSUME NEW x \in C
      PROVE  /\ d[x] \in 0 .. N /\ x \in Ball(A, n, d[x])
             /\ \A j \in Nat : j < d[x] => x \notin Ball(A, n, j)
  BY <1>0, <1>1, <1>2, DistanceIs DEF N
<1>4. d \in [DOMAIN d -> 0 .. N]
  BY <1>2, <1>3
<1>5. n \in C /\ d[n] = 0
  <2>1. n \in Ball(A, n, 0) /\ 0 \in Nat
    BY BallStep
  <2>2. Ball(A, n, 0) \subseteq Ball(A, n, N)
    BY <1>0, BallGrows
  <2>3. n \in C
    BY <1>1, <2>1, <2>2
  <2>. QED  BY <1>3, <2>1, <2>3
<1>6. ASSUME NEW x \in C, NEW y \in A[x]  PROVE y \in C /\ d[y] <= d[x] + 1
  <2>1. y \in C
    BY ComponentCloses DEF C
  <2>2. d[x] \in Nat /\ x \in Ball(A, n, d[x])
    BY <1>0, <1>3
  <2>3. y \in Ball(A, n, d[x] + 1)
    BY <2>2, BallStep DEF Wider
  <2>4. d[y] \in Nat /\ ~(d[x] + 1 < d[y])
    BY <1>0, <1>3, <2>1, <2>2, <2>3
  <2>. QED  BY <2>1, <2>2, <2>4
<1>7. ASSUME NEW y \in C \ {n}  PROVE \E x \in C : y \in A[x] /\ d[y] = d[x] + 1
  <2>1. d[y] \in 0 .. N /\ y \in Ball(A, n, d[y])
    BY <1>3
  <2>2. d[y] # 0
    BY <2>1, BallStep
  <2>. DEFINE k == d[y] - 1
  <2>3. k \in Nat /\ d[y] = k + 1 /\ k <= N /\ k < d[y]
    BY <1>0, <2>1, <2>2
  <2>. HIDE DEF k
  <2>4. y \notin Ball(A, n, k) /\ y \in Wider(A, Ball(A, n, k))
    BY <1>3, <2>1, <2>3, BallStep
  <2>5. PICK x \in Ball(A, n, k) : y \in A[x]
    BY <2>4 DEF Wider
  <2>6. x \in C
    BY <1>0, <1>1, <2>3, <2>5, BallGrows
  <2>7. d[x] \in 0 .. k
    BY <1>2, <2>3, <2>5, <2>6, DistanceIs DEF N
  <2>8. d[y] <= d[x] + 1
    BY <1>6, <2>5, <2>6
  <2>. QED  BY <2>3, <2>5, <2>6, <2>7, <2>8
<1>. QED  BY <1>1, <1>2, <1>4, <1>5, <1>6, <1>7 DEF Measures, N, d

\* A set with n that adjacencies do not leave has all that can be reached.
LEMMA ClosedCovers ==
    ASSUME NEW A \in AdjSets, NEW n \in UdNode, NEW d, Measures(A, n, d), NEW S, n \in S,
           \A x \in S \cap DOMAIN d : A[x] \subseteq S
    PROVE  DOMAIN d \subseteq S
<1>. DEFINE T == {k \in Nat : \E x \in DOMAIN d \ S : d[x] = k}
<1>0. Cardinality(UdNode) \in Nat /\ \A x \in DOMAIN d : d[x] \in Nat
  BY NodeCount DEF Measures
<1>1. SUFFICES ASSUME T # {}  PROVE FALSE
  BY <1>0
<1>2. PICK k \in T : \A j \in T : k <= j
  <2>1. T \subseteq Nat
    OBVIOUS
  <2>. HIDE DEF T
  <2>. QED  BY <1>1, <2>1, LeastOf
<1>3. PICK y \in DOMAIN d \ S : d[y] = k
  BY <1>2
<1>4. PICK x \in DOMAIN d : y \in A[x] /\ d[y] = d[x] + 1
  BY <1>3 DEF Measures
<1>5. x \notin S
  BY <1>3, <1>4
<1>6. d[x] \in T /\ d[x] < k
  BY <1>0, <1>3, <1>4, <1>5
<1>. QED  BY <1>0, <1>2, <1>4, <1>6

-----------------------------------------------------------------------------
(* The order of a tree                                                     *)

\* The length of s is k and its elements ascend.
Ascends(s, k) == \A i, j \in 1 .. k : i < j => s[i] < s[j]

\* A finite set of numbers has a greatest one.
LEMMA GreatestOf ==
    ASSUME NEW S \in SUBSET UdNode, S # {}
    PROVE  \E x \in S : \A y \in S : y <= x
<1>. DEFINE Topped(T) == T # {} => \E x \in T : \A y \in T : y <= x
            P == {k \in Nat : \A T \in SUBSET UdNode : Cardinality(T) = k => Topped(T)}
            K == Cardinality(S)
<1>1. \A T \in SUBSET UdNode : IsFiniteSet(T) /\ Cardinality(T) \in Nat /\ T \subseteq Int
  BY NodeCount, UdAssumption, FS_Subset, FS_CardinalityType
<1>2. 0 \in P
  BY <1>1, FS_EmptySet
<1>3. ASSUME NEW k \in 1 .. K, k - 1 \in P  PROVE k \in P
  <2>0. k \in Nat
    BY <1>1
  <2>. SUFFICES ASSUME NEW T \in SUBSET UdNode, Cardinality(T) = k, T # {}
                PROVE  \E x \in T : \A y \in T : y <= x
    BY <2>0
  <2>1. PICK z : z \in T
    OBVIOUS
  <2>2. T \ {z} \in SUBSET UdNode /\ Cardinality(T \ {z}) = k - 1
    BY <1>1, <2>1, FS_RemoveElement
  <2>3. Topped(T \ {z})
    <3>. HIDE DEF Topped
    <3>. QED  BY <1>3, <2>2
  <2>4. CASE T \ {z} = {}
    BY <1>1, <2>1, <2>4
  <2>5. CASE T \ {z} # {}
    <3>1. PICK x \in T \ {z} : \A y \in T \ {z} : y <= x
      BY <2>3, <2>5
    <3>2. x \in Int /\ z \in Int /\ T \subseteq Int
      BY <1>1, <2>1, <3>1
    <3>3. CASE z <= x
      BY <3>1, <3>2, <3>3
    <3>4. CASE x <= z
      <4>1. \A y \in T : y <= z
        BY <3>1, <3>2, <3>4
      <4>. QED  BY <2>1, <4>1
    <3>. QED  BY <3>2, <3>3, <3>4
  <2>. QED  BY <2>4, <2>5
<1>4. K \in P
  <2>1. K \in Nat /\ K \in 0 .. K
    BY <1>1
  <2>. HIDE DEF P, K
  <2>. QED  BY <1>2, <1>3, <2>1, UpTo
<1>. QED  BY <1>4

\* The elements of a finite set can be put in ascending order.
LEMMA AscendingExists ==
    ASSUME NEW S \in SUBSET UdNode
    PROVE  \E s \in [1 .. Cardinality(S) -> S] : Ascends(s, Cardinality(S))
<1>. DEFINE P == {k \in Nat : \A T \in SUBSET UdNode : Cardinality(T) = k => \E s \in [1 .. k -> T] : Ascends(s, k)}
            K == Cardinality(S)
<1>1. \A T \in SUBSET UdNode : IsFiniteSet(T) /\ Cardinality(T) \in Nat /\ T \subseteq Int
  BY NodeCount, UdAssumption, FS_Subset, FS_CardinalityType
<1>2. 0 \in P
  <2>1. ASSUME NEW T \in SUBSET UdNode  PROVE \E s \in [1 .. 0 -> T] : Ascends(s, 0)
    <3>1. [i \in 1 .. 0 |-> i] \in [1 .. 0 -> T] /\ Ascends([i \in 1 .. 0 |-> i], 0)
      BY DEF Ascends
    <3>. QED  BY <3>1
  <2>. QED  BY <2>1
<1>3. ASSUME NEW k \in 1 .. K, k - 1 \in P  PROVE k \in P
  <2>0. k \in Nat \ {0}
    BY <1>1
  <2>. SUFFICES ASSUME NEW T \in SUBSET UdNode, Cardinality(T) = k
                PROVE  \E s \in [1 .. k -> T] : Ascends(s, k)
    BY <2>0
  <2>1. T # {}
    BY <2>0, FS_EmptySet
  <2>2. PICK z \in T : \A y \in T : y <= z
    BY <2>1, GreatestOf
  <2>3. T \ {z} \in SUBSET UdNode /\ Cardinality(T \ {z}) = k - 1
    BY <1>1, <2>2, FS_RemoveElement
  <2>4. PICK s \in [1 .. k - 1 -> T \ {z}] : Ascends(s, k - 1)
    BY <1>3, <2>3
  <2>. DEFINE r == [i \in 1 .. k |-> IF i = k THEN z ELSE s[i]]
  <2>5. \A i \in 1 .. k - 1 : s[i] \in T \ {z} /\ s[i] \in Int /\ s[i] < z
    <3>1. T \subseteq Int
      BY <1>1
    <3>2. TAKE i \in 1 .. k - 1
    <3>3. s[i] \in T \ {z}
      BY <2>4
    <3>4. s[i] \in Int /\ z \in Int /\ s[i] <= z /\ s[i] # z
      BY <2>2, <3>1, <3>3
    <3>. QED  BY <3>3, <3>4
  <2>6. r \in [1 .. k -> T]
    BY <2>0, <2>2, <2>5
  <2>7. Ascends(r, k)
    BY <2>0, <2>4, <2>5 DEF Ascends
  <2>. QED  BY <2>6, <2>7
<1>4. K \in P
  <2>1. K \in Nat /\ K \in 0 .. K
    BY <1>1
  <2>. HIDE DEF P, K
  <2>. QED  BY <1>2, <1>3, <2>1, UpTo
<1>. QED  BY <1>4

\* s has each element of S once.
Lists1(s, S) == s \in Seq(S) /\ IsInjective(s) /\ ToSet(s) = S

\* at_iterate comes to each element once.
LEMMA AscendingIs ==
    ASSUME NEW S \in SUBSET UdNode
    PROVE  Lists1(Ascending[S], S) /\ Len(Ascending[S]) = Cardinality(S)
<1>. DEFINE K == Cardinality(S)
            Q(s) == Ascends(s, K)
            s == CHOOSE t \in [1 .. K -> S] : Q(t)
<1>1. Ascending[S] = s
  BY DEF Ascending, Ascends
<1>2. s \in [1 .. K -> S] /\ Q(s)
  <2>. HIDE DEF Q
  <2>1. \E t \in [1 .. K -> S] : Q(t)
    BY AscendingExists DEF Q
  <2>. QED  BY <2>1
<1>. HIDE DEF s
<1>3. IsFiniteSet(S) /\ K \in Nat /\ S \subseteq Int
  BY NodeCount, UdAssumption, FS_Subset, FS_CardinalityType
<1>. HIDE DEF K
<1>4. s \in Seq(S) /\ Len(s) = K
  BY <1>2, <1>3
<1>5. \A i, j \in 1 .. K : s[i] = s[j] => i = j
  <2>1. ASSUME NEW i \in 1 .. K, NEW j \in 1 .. K, i < j  PROVE s[i] # s[j]
    <3>1. s[i] < s[j] /\ s[i] \in Int /\ s[j] \in Int
      BY <1>2, <1>3, <2>1 DEF Ascends
    <3>. QED  BY <3>1
  <2>2. ASSUME NEW i \in 1 .. K, NEW j \in 1 .. K, s[i] = s[j]  PROVE i = j
    <3>1. ~(i < j) /\ ~(j < i)
      BY <2>1, <2>2
    <3>. QED  BY <1>3, <3>1
  <2>. QED  BY <2>2
<1>6. ASSUME NEW x \in S  PROVE \E i \in 1 .. K : s[i] = x
  <2>1. SUFFICES ASSUME \A i \in 1 .. K : s[i] # x  PROVE FALSE
    OBVIOUS
  <2>2. s \in [1 .. K -> S \ {x}]
    BY <1>2, <2>1
  <2>3. IsFiniteSet(S \ {x}) /\ Cardinality(S \ {x}) = K - 1
    BY <1>3, FS_RemoveElement DEF K
  <2>4. IsFiniteSet(1 .. K) /\ Cardinality(1 .. K) = K
    BY <1>3, FS_Interval
  <2>5. Cardinality(S \ {x}) < Cardinality(1 .. K)
    BY <1>3, <2>3, <2>4
  <2>6. \E i, j \in 1 .. K : i # j /\ s[i] = s[j]
    <3>. DEFINE I == 1 .. K
                R == S \ {x}
    <3>. HIDE DEF I, R
    <3>1. s \in [I -> R] /\ IsFiniteSet(I) /\ IsFiniteSet(R) /\ Cardinality(R) < Cardinality(I)
      BY <2>2, <2>3, <2>4, <2>5 DEF I, R
    <3>2. \E i, j \in I : i # j /\ s[i] = s[j]
      BY <3>1, FS_PigeonHole
    <3>. QED  BY <3>2 DEF I
  <2>. QED  BY <1>5, <2>6
<1>7. ToSet(s) = S
  BY <1>2, <1>4, <1>6 DEF ToSet
<1>8. IsInjective(s)
  BY <1>4, <1>5 DEF IsInjective
<1>. QED  BY <1>1, <1>4, <1>7, <1>8 DEF Lists1, K

-----------------------------------------------------------------------------
(* Breadth first                                                           *)

\* Two sequences, one after the other.
LEMMA Concatenated ==
    ASSUME NEW U, NEW t \in Seq(U), NEW s \in Seq(U)
    PROVE  /\ t \o s \in Seq(U) /\ Len(t \o s) = Len(t) + Len(s)
           /\ \A i \in 1 .. Len(t) : (t \o s)[i] = t[i]
           /\ \A i \in 1 .. Len(s) : (t \o s)[Len(t) + i] = s[i]
OBVIOUS

\* r is q without its first element, and s.
GoesOnAs(U, q, s, r) ==
    /\ r \in Seq(U) /\ Len(r) = (Len(q) - 1) + Len(s)
    /\ \A i \in 1 .. Len(q) - 1 : r[i] = q[i + 1]
    /\ \A i \in 1 .. Len(s) : r[(Len(q) - 1) + i] = s[i]
    /\ IsInjective(r)
    /\ ToSet(r) = (ToSet(q) \ {Head(q)}) \cup ToSet(s)

\* One element leaves a queue and others join it.
LEMMA Requeued ==
    ASSUME NEW U, NEW q \in Seq(U), q # << >>, IsInjective(q),
           NEW s \in Seq(U), IsInjective(s), ToSet(q) \cap ToSet(s) = {},
           NEW r, r = Tail(q) \o s
    PROVE  GoesOnAs(U, q, s, r)
<1>. DEFINE k == Len(q) - 1
            t == Tail(q)
<1>1. Len(q) \in Nat /\ k \in Nat /\ Len(s) \in Nat /\ Len(q) = k + 1
  OBVIOUS
<1>2. t \in Seq(U) /\ Len(t) = k /\ \A i \in 1 .. k : t[i] = q[i + 1]
  BY <1>1
<1>. HIDE DEF k, t
<1>3. r \in Seq(U) /\ Len(r) = k + Len(s) /\ DOMAIN r = 1 .. Len(r)
  <2>1. t \o s \in Seq(U) /\ Len(t \o s) = k + Len(s)
    BY <1>2, Concatenated
  <2>. QED  BY <2>1 DEF t
<1>3a. DOMAIN q = 1 .. k + 1 /\ DOMAIN s = 1 .. Len(s)
  BY <1>1
<1>4. \A i \in 1 .. k : r[i] = q[i + 1]
  BY <1>1, <1>2 DEF t
<1>5. \A i \in 1 .. Len(s) : r[k + i] = s[i]
  BY <1>1, <1>2 DEF t
<1>6. \A i \in 1 .. Len(r) : i \in 1 .. k \/ \E j \in 1 .. Len(s) : i = k + j
  <2>1. \A i \in 1 .. Len(r) : i \in 1 .. k \/ (i - k \in 1 .. Len(s) /\ i = k + (i - k))
    BY <1>1, <1>3
  <2>. QED  BY <2>1
<1>7. \A i, j \in 1 .. k + 1 : q[i] = q[j] => i = j
  BY <1>3a DEF IsInjective
<1>8. \A i, j \in 1 .. Len(s) : s[i] = s[j] => i = j
  BY <1>3a DEF IsInjective
<1>9. \A i \in 1 .. k + 1, j \in 1 .. Len(s) : q[i] # s[j]
  BY <1>3a DEF ToSet
<1>10. \A i \in 1 .. k : i + 1 \in 1 .. k + 1 /\ i + 1 # 1
  BY <1>1
<1>11. IsInjective(r)
  <2>1. SUFFICES ASSUME NEW i \in 1 .. Len(r), NEW j \in 1 .. Len(r), r[i] = r[j]  PROVE i = j
    BY <1>3 DEF IsInjective
  <2>2. CASE i \in 1 .. k /\ j \in 1 .. k
    <3>1. i + 1 = j + 1
      BY <1>4, <1>7, <1>10, <2>1, <2>2
    <3>. QED  BY <1>1, <2>2, <3>1
  <2>3. CASE i \in 1 .. k /\ j \notin 1 .. k
    <3>1. PICK m \in 1 .. Len(s) : j = k + m
      BY <1>6, <2>3
    <3>2. r[i] = q[i + 1] /\ r[j] = s[m] /\ i + 1 \in 1 .. k + 1
      BY <1>4, <1>5, <1>10, <2>3, <3>1
    <3>. QED  BY <1>9, <2>1, <3>2
  <2>4. CASE i \notin 1 .. k /\ j \in 1 .. k
    <3>1. PICK m \in 1 .. Len(s) : i = k + m
      BY <1>6, <2>4
    <3>2. r[j] = q[j + 1] /\ r[i] = s[m] /\ j + 1 \in 1 .. k + 1
      BY <1>4, <1>5, <1>10, <2>4, <3>1
    <3>. QED  BY <1>9, <2>1, <3>2
  <2>5. CASE i \notin 1 .. k /\ j \notin 1 .. k
    <3>1. PICK m \in 1 .. Len(s) : i = k + m
      BY <1>6, <2>5
    <3>2. PICK l \in 1 .. Len(s) : j = k + l
      BY <1>6, <2>5
    <3>3. s[m] = s[l]
      BY <1>5, <2>1, <3>1, <3>2
    <3>. QED  BY <1>8, <3>1, <3>2, <3>3
  <2>. QED  BY <2>2, <2>3, <2>4, <2>5
<1>12. Head(q) = q[1] /\ 1 \in 1 .. k + 1
  BY <1>1
<1>13. ToSet(q) = {q[i] : i \in 1 .. k + 1} /\ ToSet(s) = {s[i] : i \in 1 .. Len(s)} /\ ToSet(r) = {r[i] : i \in 1 .. Len(r)}
  BY <1>3, <1>3a DEF ToSet
<1>14. ASSUME NEW x \in ToSet(r)  PROVE x \in (ToSet(q) \ {Head(q)}) \cup ToSet(s)
  <2>1. PICK i \in 1 .. Len(r) : x = r[i]
    BY <1>13
  <2>2. CASE i \in 1 .. k
    BY <1>4, <1>7, <1>10, <1>12, <1>13, <2>1, <2>2
  <2>3. CASE i \notin 1 .. k
    BY <1>5, <1>6, <1>13, <2>1, <2>3
  <2>. QED  BY <2>2, <2>3
<1>15. ASSUME NEW x \in ToSet(q), x # Head(q)  PROVE x \in ToSet(r)
  <2>1. PICK i \in 1 .. k + 1 : x = q[i]
    BY <1>13
  <2>2. i # 1
    BY <1>12, <1>15, <2>1
  <2>3. i - 1 \in 1 .. k /\ (i - 1) + 1 = i /\ i - 1 \in 1 .. Len(r)
    BY <1>1, <1>3, <2>2
  <2>4. r[i - 1] = x
    BY <1>4, <2>1, <2>3
  <2>. QED  BY <1>13, <2>3, <2>4
<1>16. ASSUME NEW x \in ToSet(s)  PROVE x \in ToSet(r)
  <2>1. PICK i \in 1 .. Len(s) : x = s[i]
    BY <1>13
  <2>2. k + i \in 1 .. Len(r)
    BY <1>1, <1>3
  <2>. QED  BY <1>5, <1>13, <2>1, <2>2
<1>17. ToSet(r) = (ToSet(q) \ {Head(q)}) \cup ToSet(s)
  BY <1>14, <1>15, <1>16
<1>. QED  BY <1>3, <1>4, <1>5, <1>11, <1>17 DEF k, GoesOnAs

\* The nodes visited and those of them that are still queued, in the search from
\* from: nearer nodes are visited and dequeued before farther ones.
Wave(A, from, d, visited, fifo) ==
    /\ fifo \in Seq(visited) /\ IsInjective(fifo)
    /\ from \in visited /\ visited \subseteq DOMAIN d
    /\ \A x \in visited \ ToSet(fifo) : A[x] \subseteq visited
    /\ \A x \in visited \ ToSet(fifo) : \A y \in ToSet(fifo) : d[x] <= d[y]
    /\ \A i, j \in 1 .. Len(fifo) : i < j => d[fifo[i]] <= d[fifo[j]]
    /\ fifo # << >> => /\ \A x \in visited : d[x] <= d[Head(fifo)] + 1
                       /\ \A x \in DOMAIN d \ visited : d[x] > d[Head(fifo)]

\* At first the start is queued.
LEMMA WaveStarts ==
    ASSUME NEW A \in AdjSets, NEW from \in UdNode, NEW d, Measures(A, from, d)
    PROVE  Wave(A, from, d, {from}, <<from>>)
<1>0. Cardinality(UdNode) \in Nat /\ \A x \in DOMAIN d : d[x] \in Nat
  BY NodeCount DEF Measures
<1>1. <<from>> \in Seq({from}) /\ ToSet(<<from>>) = {from} /\ IsInjective(<<from>>) /\ Len(<<from>>) = 1
      /\ Head(<<from>>) = from /\ <<from>>[1] = from
  BY DEF ToSet, IsInjective
<1>2. from \in DOMAIN d /\ d[from] = 0
  BY DEF Measures
<1>3. \A x \in DOMAIN d \ {from} : d[x] > 0
  BY <1>0 DEF Measures
<1>4. \A i, j \in 1 .. 1 : ~(i < j)
  OBVIOUS
<1>. QED  BY <1>0, <1>1, <1>2, <1>3, <1>4 DEF Wave

\* The first in the queue is replaced by its new neighbours, at the end.
LEMMA WaveStep ==
    ASSUME NEW A \in AdjSets, NEW from \in UdNode, NEW d, Measures(A, from, d),
           NEW visited, NEW fifo, Wave(A, from, d, visited, fifo), fifo # << >>,
           NEW s, Lists1(s, A[Head(fifo)] \ visited)
    PROVE  /\ Wave(A, from, d, visited \cup A[Head(fifo)], Tail(fifo) \o s)
           /\ Head(fifo) \in visited /\ Head(fifo) \in ToSet(fifo)
           /\ \A y \in A[Head(fifo)] \ visited : y \in DOMAIN d /\ d[y] = d[Head(fifo)] + 1
<1>. DEFINE h == Head(fifo)
            new == A[h] \ visited
            v == visited \cup A[h]
            f == Tail(fifo) \o s
<1>0. Cardinality(UdNode) \in Nat /\ \A x \in DOMAIN d : d[x] \in Nat
  BY NodeCount DEF Measures
<1>1. fifo \in Seq(visited) /\ Len(fifo) \in Nat \ {0} /\ h = fifo[1] /\ h \in visited /\ h \in ToSet(fifo)
  <2>1. fifo \in Seq(visited)
    BY DEF Wave
  <2>2. Len(fifo) \in Nat \ {0} /\ h = fifo[1] /\ 1 \in DOMAIN fifo /\ 1 \in 1 .. Len(fifo)
    BY <2>1
  <2>. QED  BY <2>1, <2>2 DEF ToSet
<1>2. visited \subseteq DOMAIN d /\ h \in DOMAIN d
  BY <1>1 DEF Wave
<1>3. \A y \in new : y \in DOMAIN d /\ d[y] <= d[h] + 1 /\ d[y] > d[h]
  BY <1>2 DEF Measures, Wave
<1>4. \A y \in new : y \in DOMAIN d /\ d[y] = d[h] + 1
  BY <1>0, <1>2, <1>3
<1>5. s \in Seq(v) /\ fifo \in Seq(v) /\ IsInjective(s) /\ ToSet(s) = new /\ Len(s) \in Nat
  BY <1>1 DEF Lists1
<1>6. ToSet(fifo) \subseteq visited
  BY <1>1 DEF ToSet
<1>7. IsInjective(fifo) /\ ToSet(fifo) \cap ToSet(s) = {}
  BY <1>5, <1>6 DEF Wave
<1>. HIDE DEF h, new, v, f
<1>8. /\ f \in Seq(v) /\ Len(f) = (Len(fifo) - 1) + Len(s) /\ IsInjective(f)
      /\ \A i \in 1 .. Len(fifo) - 1 : f[i] = fifo[i + 1]
      /\ \A i \in 1 .. Len(s) : f[(Len(fifo) - 1) + i] = s[i]
      /\ ToSet(f) = (ToSet(fifo) \ {h}) \cup new
  <2>1. f = Tail(fifo) \o s
    BY DEF f
  <2>2. GoesOnAs(v, fifo, s, f)
    BY <1>5, <1>7, <2>1, Requeued
  <2>. QED  BY <1>5, <2>2 DEF h, GoesOnAs
<1>9. v = visited \cup new /\ v \subseteq DOMAIN d /\ from \in v
  BY <1>2, <1>4 DEF Wave, v, new
<1>10. v \ ToSet(f) = (visited \ ToSet(fifo)) \cup {h}
  BY <1>1, <1>6, <1>8, <1>9 DEF new
<1>11. \A x \in visited \ ToSet(fifo) : A[x] \subseteq visited
  BY DEF Wave
<1>12. \A x \in v \ ToSet(f) : A[x] \subseteq v
  BY <1>10, <1>11 DEF v
<1>13. \A y \in ToSet(fifo) : y \in DOMAIN d /\ d[h] <= d[y] /\ d[y] <= d[h] + 1
  <2>1. TAKE y \in ToSet(fifo)
  <2>2. PICK i \in 1 .. Len(fifo) : y = fifo[i]
    BY <1>1 DEF ToSet
  <2>3. y \in DOMAIN d /\ d[y] <= d[h] + 1
    BY <1>2, <1>6 DEF Wave, h
  <2>4. i = 1 \/ 1 < i
    OBVIOUS
  <2>5. d[h] <= d[y]
    BY <1>0, <1>1, <1>2, <2>2, <2>4, SMTT(30) DEF Wave
  <2>. QED  BY <2>3, <2>5
<1>14. \A x \in visited \ ToSet(fifo) : x \in DOMAIN d /\ d[x] <= d[h]
  BY <1>1, <1>2 DEF Wave
<1>15. \A x \in v \ ToSet(f) : x \in DOMAIN d /\ d[x] <= d[h]
  BY <1>0, <1>2, <1>10, <1>14
<1>16. \A y \in ToSet(f) : y \in DOMAIN d /\ d[h] <= d[y] /\ d[y] <= d[h] + 1
  BY <1>0, <1>2, <1>4, <1>8, <1>13
<1>17. \A x \in v \ ToSet(f) : \A y \in ToSet(f) : d[x] <= d[y]
  BY <1>0, <1>2, <1>15, <1>16
<1>18. ASSUME NEW i \in 1 .. Len(f), NEW j \in 1 .. Len(f), i < j  PROVE d[f[i]] <= d[f[j]]
  <2>0. f[i] \in ToSet(f) /\ f[j] \in ToSet(f)
    BY <1>8 DEF ToSet
  <2>1. CASE j \in 1 .. Len(fifo) - 1
    <3>1. i \in 1 .. Len(fifo) - 1 /\ i + 1 \in 1 .. Len(fifo) /\ j + 1 \in 1 .. Len(fifo) /\ i + 1 < j + 1
      BY <1>1, <1>18, <2>1
    <3>2. f[i] = fifo[i + 1] /\ f[j] = fifo[j + 1]
      BY <1>8, <2>1, <3>1
    <3>. QED  BY <3>1, <3>2 DEF Wave
  <2>2. CASE j \notin 1 .. Len(fifo) - 1
    <3>1. j - (Len(fifo) - 1) \in 1 .. Len(s) /\ j = (Len(fifo) - 1) + (j - (Len(fifo) - 1))
      BY <1>1, <1>5, <1>8, <2>2
    <3>2. f[j] = s[j - (Len(fifo) - 1)]
      BY <1>8, <3>1
    <3>3. f[j] \in new
      BY <1>5, <3>1, <3>2 DEF ToSet
    <3>. QED  BY <1>0, <1>2, <1>4, <1>16, <2>0, <3>3
  <2>. QED  BY <2>1, <2>2
<1>19. ASSUME f # << >>
       PROVE  /\ \A x \in v : d[x] <= d[Head(f)] + 1
              /\ \A x \in DOMAIN d \ v : d[x] > d[Head(f)]
  <2>1. Len(f) \in Nat \ {0} /\ Head(f) = f[1] /\ 1 \in 1 .. Len(f) /\ Head(f) \in ToSet(f)
    <3>1. Len(f) \in Nat \ {0} /\ Head(f) = f[1] /\ 1 \in 1 .. Len(f) /\ DOMAIN f = 1 .. Len(f)
      BY <1>8, <1>19
    <3>. QED  BY <3>1 DEF ToSet
  <2>2. Head(f) \in DOMAIN d /\ d[h] <= d[Head(f)] /\ d[Head(f)] <= d[h] + 1
    BY <1>16, <2>1
  <2>3. \A x \in v : x \in DOMAIN d /\ d[x] <= d[h] + 1
    BY <1>0, <1>2, <1>15, <1>16
  <2>4. \A x \in v : d[x] <= d[Head(f)] + 1
    BY <1>0, <1>2, <2>2, <2>3
  <2>5. ASSUME NEW x \in DOMAIN d \ v  PROVE d[x] > d[Head(f)]
    <3>1. d[x] > d[h] /\ d[x] \in Nat /\ d[h] \in Nat
      BY <1>0, <1>2, <1>9, <2>5 DEF Wave, h
    <3>2. CASE d[Head(f)] = d[h]
      BY <3>1, <3>2
    <3>3. CASE d[Head(f)] = d[h] + 1
      <4>1. SUFFICES ASSUME d[x] = d[h] + 1  PROVE FALSE
        BY <3>1, <3>3
      <4>2. x # from
        BY <1>9, <2>5
      <4>3. PICK z \in DOMAIN d : x \in A[z] /\ d[x] = d[z] + 1
        BY <2>5, <4>2 DEF Measures
      <4>4. d[z] = d[h]
        BY <1>0, <3>1, <4>1, <4>3
      <4>5. z \in visited
        BY <1>0, <3>1, <4>4 DEF Wave, h
      <4>6. z \in ToSet(f)
        BY <1>9, <1>12, <2>5, <4>3, <4>5
      <4>7. PICK i \in 1 .. Len(f) : z = f[i]
        BY <1>8, <4>6 DEF ToSet
      <4>8. d[Head(f)] <= d[z]
        BY <1>0, <1>18, <2>1, <2>2, <4>7, SMTT(30)
      <4>. QED  BY <3>1, <3>3, <4>4, <4>8
    <3>. QED  BY <1>0, <1>2, <2>2, <3>1, <3>2, <3>3
  <2>. QED  BY <2>4, <2>5
<1>20. Wave(A, from, d, v, f)
  BY <1>8, <1>9, <1>12, <1>17, <1>18, <1>19 DEF Wave
<1>. QED  BY <1>1, <1>4, <1>20 DEF h, v, f, new

\* A recursive function that stays in D.
LEMMA StaysIn ==
    ASSUME NEW D, NEW N \in Nat, NEW f, f[0] \in D, \A i \in 1 .. N : f[i - 1] \in D => f[i] \in D
    PROVE  \A i \in 0 .. N : f[i] \in D
<1>. DEFINE P == {i \in Nat : f[i] \in D}
<1>1. 0 \in P /\ \A i \in 1 .. N : i - 1 \in P => i \in P
  OBVIOUS
<1>. HIDE DEF P
<1>2. \A i \in 0 .. N : i \in P
  BY <1>1, UpTo
<1>. QED  BY <1>2 DEF P

\* What is in a longer sequence.
LEMMA Appended ==
    ASSUME NEW U, NEW s \in Seq(U), NEW x \in U
    PROVE  /\ Append(s, x) \in Seq(U) /\ Len(Append(s, x)) = Len(s) + 1
           /\ \A i \in 1 .. Len(s) : Append(s, x)[i] = s[i]
           /\ Append(s, x)[Len(s) + 1] = x
           /\ Append(s, x) # << >> /\ Last(Append(s, x)) = x
           /\ ToSet(Append(s, x)) = ToSet(s) \cup {x}
           /\ IsInjective(s) /\ x \notin ToSet(s) => IsInjective(Append(s, x))
<1>. DEFINE r == Append(s, x)
            k == Len(s)
<1>1. /\ r \in Seq(U) /\ Len(r) = k + 1 /\ k \in Nat
      /\ \A i \in 1 .. k : r[i] = s[i]
      /\ r[k + 1] = x /\ r # << >>
      /\ DOMAIN r = 1 .. k + 1 /\ DOMAIN s = 1 .. k
  OBVIOUS
<1>. HIDE DEF r, k
<1>2. Last(r) = x
  BY <1>1 DEF Last
<1>3. \A i \in 1 .. k + 1 : i \in 1 .. k \/ i = k + 1
  BY <1>1
<1>4. 1 .. k \subseteq 1 .. k + 1 /\ k + 1 \in 1 .. k + 1
  BY <1>1
<1>5. ToSet(r) = ToSet(s) \cup {x}
  BY <1>1, <1>3, <1>4 DEF ToSet
<1>6. IsInjective(s) /\ x \notin ToSet(s) => IsInjective(r)
  BY <1>1, <1>3 DEF IsInjective, ToSet
<1>. QED  BY <1>1, <1>2, <1>5, <1>6 DEF r, k

\* What _udg_iterate_bf has done between two rounds.
BfStates == [visited : SUBSET UdNode, fifo : Seq(UdNode), seen : Seq(UdNode), stop : BOOLEAN]
BfOK(A, from, last, d, V) ==
    /\ V \in BfStates
    /\ IsInjective(V.seen)
    /\ \A i \in 1 .. Len(V.seen) - 1 : d[V.seen[i]] <= d[V.seen[i + 1]]
    /\ ToSet(V.seen) \subseteq DOMAIN d
    /\ V.stop => V.seen # << >> /\ Last(V.seen) = last
    /\ ~V.stop => /\ Wave(A, from, d, V.visited, V.fifo)
                  /\ ToSet(V.seen) = V.visited \ ToSet(V.fifo)
                  /\ last \notin ToSet(V.seen)

\* A round gives one more node unless the traversal is over.
BfMoves(V, last) ==
    /\ V.stop \/ V.fifo = << >> => Dequeued(V, last) = V
    /\ ~V.stop /\ V.fifo # << >> => Len(Dequeued(V, last).seen) = Len(V.seen) + 1

LEMMA BfStep ==
    ASSUME n_adjs \in AdjSets, NEW from \in UdNode, NEW last, NEW d, Measures(n_adjs, from, d),
           NEW V, BfOK(n_adjs, from, last, d, V)
    PROVE  BfOK(n_adjs, from, last, d, Dequeued(V, last)) /\ BfMoves(V, last)
<1>. DEFINE A == n_adjs
            n == Head(V.fifo)
            new == A[n] \ V.visited
            W == Dequeued(V, last)
<1>1. CASE V.stop \/ V.fifo = << >>
  <2>1. W = V
    BY <1>1 DEF Dequeued
  <2>. QED  BY <1>1, <2>1 DEF BfMoves
<1>2. CASE ~V.stop /\ V.fifo # << >>
  <2>0. V \in BfStates /\ Wave(A, from, d, V.visited, V.fifo) /\ ToSet(V.seen) = V.visited \ ToSet(V.fifo)
        /\ last \notin ToSet(V.seen) /\ IsInjective(V.seen) /\ ToSet(V.seen) \subseteq DOMAIN d
        /\ \A i \in 1 .. Len(V.seen) - 1 : d[V.seen[i]] <= d[V.seen[i + 1]]
    BY <1>2 DEF BfOK
  <2>1. V.seen \in Seq(UdNode) /\ V.visited \in SUBSET UdNode /\ V.fifo \in Seq(UdNode)
    BY <2>0 DEF BfStates
  <2>2. n \in V.visited /\ n \in ToSet(V.fifo)
    <3>1. V.fifo \in Seq(V.visited)
      BY <2>0 DEF Wave
    <3>2. n = V.fifo[1] /\ 1 \in DOMAIN V.fifo /\ n \in V.visited
      BY <1>2, <3>1
    <3>. QED  BY <3>2 DEF ToSet
  <2>3. n \in UdNode /\ n \in DOMAIN d /\ A[n] \in SUBSET UdNode
    BY <2>0, <2>1, <2>2 DEF Wave, AdjSets
  <2>. DEFINE s == Ascending[new]
              seen == Append(V.seen, n)
  <2>4. new \in SUBSET UdNode
    BY <2>3
  <2>5. Lists1(s, new)
    BY <2>4, AscendingIs
  <2>6. /\ W.visited = IF n = last THEN V.visited ELSE V.visited \cup A[n]
        /\ W.fifo = IF n = last THEN Tail(V.fifo) ELSE Tail(V.fifo) \o s
        /\ W.seen = seen /\ W.stop = (n = last)
        /\ W = [visited |-> W.visited, fifo |-> W.fifo, seen |-> W.seen, stop |-> W.stop]
    BY <1>2 DEF Dequeued, MarkedWith, Fresh
  <2>. HIDE DEF n, W, new, s, A
  <2>7. /\ Wave(A, from, d, V.visited \cup A[n], Tail(V.fifo) \o s)
    BY <1>2, <2>0, <2>5, WaveStep DEF n, new, A
  <2>8. GoesOnAs(V.visited \cup A[n], V.fifo, s, Tail(V.fifo) \o s)
    <3>1. /\ V.fifo \in Seq(V.visited) /\ IsInjective(V.fifo)
          /\ IsInjective(s) /\ s \in Seq(new) /\ ToSet(s) = new
      BY <2>0, <2>5 DEF Wave, Lists1
    <3>2. V.fifo \in Seq(V.visited \cup A[n]) /\ s \in Seq(V.visited \cup A[n])
      BY <3>1 DEF new
    <3>3. ToSet(V.fifo) \subseteq V.visited
      BY <3>1 DEF ToSet
    <3>4. ToSet(V.fifo) \cap ToSet(s) = {}
      BY <3>1, <3>3 DEF new
    <3>. QED  BY <1>2, <3>1, <3>2, <3>4, Requeued
  <2>9. n \notin ToSet(V.seen)
    BY <2>0, <2>2
  <2>10. /\ seen \in Seq(UdNode) /\ Len(seen) = Len(V.seen) + 1 /\ seen # << >> /\ Last(seen) = n
         /\ \A i \in 1 .. Len(V.seen) : seen[i] = V.seen[i]
         /\ seen[Len(V.seen) + 1] = n
         /\ ToSet(seen) = ToSet(V.seen) \cup {n} /\ IsInjective(seen)
    BY <2>0, <2>1, <2>3, <2>9, Appended
  <2>. HIDE DEF seen
  <2>11. ASSUME NEW i \in 1 .. Len(seen) - 1  PROVE d[seen[i]] <= d[seen[i + 1]]
    <3>1. Len(V.seen) \in Nat /\ i \in 1 .. Len(V.seen) /\ seen[i] = V.seen[i]
      BY <2>1, <2>10
    <3>2. CASE i = Len(V.seen)
      <4>1. V.seen[i] \in V.visited \ ToSet(V.fifo)
        <5>1. DOMAIN V.seen = 1 .. Len(V.seen)
          BY <2>1
        <5>2. V.seen[i] \in ToSet(V.seen)
          BY <3>1, <5>1 DEF ToSet
        <5>. QED  BY <2>0, <5>2
      <4>2. seen[i + 1] = n
        BY <2>10, <3>2
      <4>. QED  BY <2>0, <2>2, <3>1, <4>1, <4>2 DEF Wave
    <3>3. CASE i # Len(V.seen)
      <4>1. i \in 1 .. Len(V.seen) - 1 /\ i + 1 \in 1 .. Len(V.seen)
        BY <3>1, <3>3
      <4>. QED  BY <2>0, <2>10, <3>1, <4>1
    <3>. QED  BY <3>2, <3>3
  <2>12. ToSet(seen) \subseteq DOMAIN d
    BY <2>0, <2>3, <2>10
  <2>13. W \in BfStates
    <3>1. Tail(V.fifo) \in Seq(UdNode)
      BY <1>2, <2>1
    <3>2. Tail(V.fifo) \o s \in Seq(UdNode)
      <4>1. s \in Seq(UdNode)
        BY <2>4, <2>5 DEF Lists1
      <4>. QED  BY <3>1, <4>1, Concatenated
    <3>3. V.visited \cup A[n] \in SUBSET UdNode
      BY <2>1, <2>3 DEF A
    <3>. QED  BY <2>1, <2>6, <2>10, <3>1, <3>2, <3>3 DEF BfStates
  <2>14. CASE n = last
    <3>1. W.stop = TRUE /\ W.seen = seen
      BY <2>6, <2>14
    <3>2. BfOK(A, from, last, d, W)
      BY <2>10, <2>11, <2>12, <2>13, <2>14, <3>1 DEF BfOK
    <3>. QED  BY <1>2, <2>10, <3>1, <3>2 DEF A, W, BfMoves
  <2>15. CASE n # last
    <3>1. W.stop = FALSE /\ W.seen = seen /\ W.visited = V.visited \cup A[n] /\ W.fifo = Tail(V.fifo) \o s
      BY <2>6, <2>15
    <3>2. ToSet(W.fifo) = (ToSet(V.fifo) \ {n}) \cup new
      BY <2>5, <2>8, <3>1 DEF GoesOnAs, n, Lists1
    <3>3. ToSet(W.seen) = W.visited \ ToSet(W.fifo)
      <4>1. ToSet(V.fifo) \subseteq V.visited
        <5>1. V.fifo \in Seq(V.visited)
          BY <2>0 DEF Wave
        <5>. QED  BY <5>1 DEF ToSet
      <4>2. ToSet(seen) = (V.visited \ ToSet(V.fifo)) \cup {n}
        BY <2>0, <2>10
      <4>3. V.visited \cup A[n] = V.visited \cup new /\ new \cap V.visited = {}
        BY DEF new
      <4>. QED  BY <2>2, <3>1, <3>2, <4>1, <4>2, <4>3
    <3>4. last \notin ToSet(W.seen)
      BY <2>0, <2>10, <2>15, <3>1
    <3>5. BfOK(A, from, last, d, W)
      BY <2>7, <2>10, <2>11, <2>12, <2>13, <3>1, <3>3, <3>4 DEF BfOK
    <3>. QED  BY <1>2, <2>10, <3>1, <3>5 DEF A, W, BfMoves
  <2>. QED  BY <2>14, <2>15
<1>. QED  BY <1>1, <1>2

\* seen has each node of C once, if need be only up to last.
CoversUpTo(seen, last, C) ==
    /\ seen \in Seq(UdNode) /\ IsInjective(seen)
    /\ IF last \in C THEN ToSet(seen) \subseteq C /\ Last(seen) = last ELSE ToSet(seen) = C

\* It is so if it has all of C, and not last, unless it stops there.
LEMMA CoversIfStopped ==
    ASSUME NEW seen \in Seq(UdNode), IsInjective(seen), NEW C, ToSet(seen) \subseteq C, NEW last, NEW stop \in BOOLEAN,
           stop => seen # << >> /\ Last(seen) = last,
           ~stop => ToSet(seen) = C /\ last \notin ToSet(seen)
    PROVE  CoversUpTo(seen, last, C) /\ (stop <=> last \in C)
<1>1. CASE stop
  <2>1. Len(seen) \in DOMAIN seen
    BY <1>1
  <2>2. Last(seen) \in ToSet(seen)
    BY <2>1 DEF ToSet, Last
  <2>. QED  BY <1>1, <2>2 DEF CoversUpTo
<1>2. CASE ~stop
  BY <1>2 DEF CoversUpTo
<1>. QED  BY <1>1, <1>2

\* A sequence of all nodes, each once, has all of them.
LEMMA AllListed ==
    ASSUME NEW s \in Seq(UdNode), IsInjective(s), Len(s) >= Cardinality(UdNode)
    PROVE  ToSet(s) = UdNode
<1>. DEFINE I == 1 .. Len(s)
<1>1. Len(s) \in Nat /\ DOMAIN s = I /\ s \in [I -> UdNode]
  OBVIOUS
<1>2. IsFiniteSet(I) /\ Cardinality(I) = Len(s)
  <2>. DEFINE k == Len(s)
  <2>1. k \in Nat
    OBVIOUS
  <2>. HIDE DEF k
  <2>2. IsFiniteSet(1 .. k) /\ Cardinality(1 .. k) = k
    BY <2>1, FS_Interval
  <2>. QED  BY <2>2 DEF k
<1>. HIDE DEF I
<1>3. ASSUME NEW x \in UdNode, x \notin ToSet(s)  PROVE FALSE
  <2>. DEFINE R == UdNode \ {x}
  <2>1. IsFiniteSet(R) /\ Cardinality(R) = Cardinality(UdNode) - 1
    BY NodeCount, FS_RemoveElement
  <2>2. s \in [I -> R]
    BY <1>1, <1>3 DEF ToSet
  <2>3. Cardinality(R) < Cardinality(I)
    BY <1>1, <1>2, <2>1, NodeCount
  <2>. HIDE DEF R
  <2>4. \E i, j \in I : i # j /\ s[i] = s[j]
    BY <1>2, <2>1, <2>2, <2>3, FS_PigeonHole
  <2>. QED  BY <1>1, <2>4 DEF IsInjective
<1>4. ToSet(s) \subseteq UdNode
  BY <1>1 DEF ToSet
<1>. QED  BY <1>3, <1>4

\* The traversal, round by round.
LEMMA BfRounds ==
    ASSUME n_adjs \in AdjSets, NEW from \in UdNode, NEW last, NEW d, Measures(n_adjs, from, d)
    PROVE  \E f : /\ _udg_iterate_bf(from, last) = f[Cardinality(UdNode)].seen
                  /\ f[0].seen = << >>
                  /\ \A i \in 0 .. Cardinality(UdNode) : BfOK(n_adjs, from, last, d, f[i])
                  /\ \A i \in 1 .. Cardinality(UdNode) : f[i] = Dequeued(f[i - 1], last)
<1>. DEFINE N == Cardinality(UdNode)
            OK(V) == BfOK(n_adjs, from, last, d, V)
            D == {V \in BfStates : OK(V)}
            a == [visited |-> {from}, fifo |-> <<from>>, seen |-> << >>, stop |-> FALSE]
            F == [i \in Nat |-> [V \in D |-> Dequeued(V, last)]]
            Solves(f) == f = [i \in 0 .. N |-> IF i = 0 THEN a ELSE Dequeued(f[i - 1], last)]
<1>0. N \in Nat
  BY NodeCount
<1>1. \A V : OK(V) <=> V \in D
  BY DEF BfOK
<1>2. OK(a)
  <2>1. a \in BfStates /\ a.visited = {from} /\ a.fifo = <<from>> /\ a.seen = << >> /\ a.stop = FALSE
    BY DEF BfStates
  <2>2. Wave(n_adjs, from, d, {from}, <<from>>)
    BY WaveStarts
  <2>3. ToSet(<<from>>) = {from} /\ ToSet(<< >>) = {} /\ IsInjective(<< >>) /\ Len(<< >>) = 0
    BY DEF ToSet, IsInjective
  <2>. HIDE DEF a
  <2>. QED  BY <2>1, <2>2, <2>3 DEF BfOK
<1>3. a \in D /\ a.seen = << >>
  BY <1>1, <1>2
<1>4. \A V \in D : Dequeued(V, last) \in D
  <2>1. ASSUME NEW V \in D  PROVE OK(Dequeued(V, last))
    BY <1>1, BfStep
  <2>. QED  BY <1>1, <2>1
<1>. HIDE DEF N, D, a, OK
<1>5. F \in [Nat -> [D -> D]]
  BY <1>4
<1>6. PICK g \in [0 .. N -> D] : Iterates(g, a, F, N)
  <2>. HIDE DEF F
  <2>. QED  BY <1>0, <1>3, <1>5, Iterated
<1>7. Solves(g)
  <2>1. g[0] = a
    BY <1>6 DEF Iterates
  <2>2. ASSUME NEW i \in 1 .. N  PROVE g[i] = Dequeued(g[i - 1], last)
    <3>1. i \in Nat /\ g[i - 1] \in D
      BY <1>0, <1>6
    <3>. QED  BY <1>6, <3>1 DEF Iterates
  <2>. QED  BY <1>0, <1>6, <2>1, <2>2
<1>. DEFINE f == CHOOSE f : Solves(f)
<1>8. Solves(f)
  <2>. HIDE DEF Solves
  <2>. QED  BY <1>7
<1>9. _udg_iterate_bf(from, last) = f[N].seen
  BY DEF _udg_iterate_bf, N, a
<1>. HIDE DEF f
<1>10. f[0] = a /\ \A i \in 1 .. N : f[i] = Dequeued(f[i - 1], last)
  BY <1>0, <1>8
<1>. HIDE DEF Solves, F
<1>11. \A i \in 0 .. N : f[i] \in D
  BY <1>0, <1>3, <1>4, <1>10, StaysIn
<1>. QED  BY <1>1, <1>3, <1>9, <1>10, <1>11 DEF N, OK

(* A breadth-first traversal gives each node that can be reached once,     *)
(* nearer ones first, up to last.                                          *)
LEMMA BfCovers ==
    ASSUME n_adjs \in AdjSets, NEW from \in UdNode, NEW last, NEW d, Measures(n_adjs, from, d),
           NEW seen, seen = _udg_iterate_bf(from, last)
    PROVE  /\ CoversUpTo(seen, last, DOMAIN d)
           /\ \A i \in 1 .. Len(seen) - 1 : d[seen[i]] <= d[seen[i + 1]]
<1>. DEFINE N == Cardinality(UdNode)
            A == n_adjs
<1>0. N \in Nat /\ N \in 0 .. N
  BY NodeCount
<1>1. PICK f : /\ seen = f[N].seen /\ f[0].seen = << >>
               /\ \A i \in 0 .. N : BfOK(A, from, last, d, f[i])
               /\ \A i \in 1 .. N : f[i] = Dequeued(f[i - 1], last)
  BY BfRounds
<1>. HIDE DEF N, A
<1>. DEFINE P == {i \in 0 .. N : f[i].stop \/ f[i].fifo = << >> \/ Len(f[i].seen) = i}
<1>2. 0 \in P
  BY <1>0, <1>1
<1>3. ASSUME NEW i \in 1 .. N, i - 1 \in P  PROVE i \in P
  <2>1. i - 1 \in 0 .. N /\ f[i] = Dequeued(f[i - 1], last) /\ BfOK(A, from, last, d, f[i - 1])
    BY <1>0, <1>1
  <2>. DEFINE U == f[i - 1]
  <2>2. BfMoves(U, last)
    <3>1. BfOK(n_adjs, from, last, d, U)
      BY <2>1 DEF A
    <3>. HIDE DEF U
    <3>. QED  BY <3>1, BfStep, Zenon
  <2>3. /\ f[i - 1].stop \/ f[i - 1].fifo = << >> => f[i] = f[i - 1]
        /\ ~f[i - 1].stop /\ f[i - 1].fifo # << >> => Len(f[i].seen) = Len(f[i - 1].seen) + 1
    BY <2>1, <2>2, Zenon DEF BfMoves
  <2>. QED  BY <1>0, <1>3, <2>1, <2>3
<1>4. N \in P
  <2>. HIDE DEF P
  <2>. QED  BY <1>0, <1>2, <1>3, UpTo
<1>. DEFINE V == f[N]
<1>5. BfOK(A, from, last, d, V) /\ V.seen = seen /\ (V.stop \/ V.fifo = << >> \/ Len(V.seen) = N)
  BY <1>0, <1>1, <1>4
<1>. HIDE DEF V, P
<1>6. /\ V \in BfStates /\ seen \in Seq(UdNode) /\ V.stop \in BOOLEAN /\ V.visited \subseteq UdNode
      /\ IsInjective(seen) /\ ToSet(seen) \subseteq DOMAIN d
      /\ \A i \in 1 .. Len(seen) - 1 : d[seen[i]] <= d[seen[i + 1]]
      /\ V.stop => seen # << >> /\ Last(seen) = last
  BY <1>5 DEF BfOK, BfStates
<1>7. ASSUME ~V.stop  PROVE ToSet(seen) = DOMAIN d /\ last \notin ToSet(seen)
  <2>1. /\ Wave(A, from, d, V.visited, V.fifo) /\ ToSet(seen) = V.visited \ ToSet(V.fifo)
        /\ last \notin ToSet(seen)
    BY <1>5, <1>7 DEF BfOK
  <2>2. V.fifo = << >>
    <3>1. SUFFICES ASSUME V.fifo # << >>  PROVE FALSE
      OBVIOUS
    <3>2. ToSet(seen) = UdNode
      BY <1>0, <1>5, <1>6, <1>7, <3>1, AllListed DEF N
    <3>3. V.fifo \in Seq(V.visited)
      BY <2>1 DEF Wave
    <3>4. 1 \in DOMAIN V.fifo /\ V.fifo[1] \in V.visited
      BY <3>1, <3>3
    <3>. QED  BY <1>6, <2>1, <3>2, <3>4 DEF ToSet
  <2>3. ToSet(V.fifo) = {}
    BY <2>2 DEF ToSet
  <2>4. DOMAIN d \subseteq V.visited
    <3>1. from \in V.visited /\ \A x \in V.visited : A[x] \subseteq V.visited
      BY <2>1, <2>3 DEF Wave
    <3>. QED  BY <3>1, ClosedCovers DEF A
  <2>. QED  BY <1>6, <2>1, <2>3, <2>4
<1>. QED  BY <1>6, <1>7, CoversIfStopped

\* What _udg_shortest_path_bf has found between two rounds: every backpointer is
\* one edge nearer to from.
BackTrees == UNION {[S -> UdNode \cup {Nil}] : S \in SUBSET UdNode}
BpStates == [back : BackTrees, fifo : Seq(UdNode), found : BOOLEAN]
LeadsBack(A, from, d, back) ==
    /\ DOMAIN back \subseteq DOMAIN d
    /\ from \in DOMAIN back /\ back[from] = Nil
    /\ \A x \in DOMAIN back \ {from} :
         back[x] \in DOMAIN back /\ x \in A[back[x]] /\ d[x] = d[back[x]] + 1
BpOK(A, from, to, d, B) ==
    /\ B \in BpStates
    /\ LeadsBack(A, from, d, B.back)
    /\ B.found => to # from /\ to \in DOMAIN B.back
    /\ ~B.found => /\ Wave(A, from, d, DOMAIN B.back, B.fifo)
                   /\ to # from => to \notin DOMAIN B.back

\* The nodes that have been dequeued.
Behind(B) == DOMAIN B.back \ ToSet(B.fifo)

\* A tree of backpointers is a function.
LEMMA BackTreeIs ==
    ASSUME NEW back \in BackTrees
    PROVE  DOMAIN back \subseteq UdNode /\ back \in [DOMAIN back -> UdNode \cup {Nil}]
BY DEF BackTrees

\* A round keeps this, and one more node is behind unless the search is over.
LEMMA BpStep ==
    ASSUME n_adjs \in AdjSets, NEW from \in UdNode, NEW to \in UdNode, NEW d, Measures(n_adjs, from, d),
           NEW B, BpOK(n_adjs, from, to, d, B)
    PROVE  /\ BpOK(n_adjs, from, to, d, Searched(B, to))
           /\ B.found \/ B.fifo = << >> => Searched(B, to) = B
           /\ ~B.found /\ B.fifo # << >> /\ ~Searched(B, to).found =>
                /\ Head(B.fifo) \notin Behind(B)
                /\ Behind(Searched(B, to)) = Behind(B) \cup {Head(B.fifo)}
<1>. DEFINE A == n_adjs
            n == Head(B.fifo)
            all == A[n] \ DOMAIN B.back
            new == Added(B.back, n, to)
            W == Searched(B, to)
<1>1. CASE B.found \/ B.fifo = << >>
  <2>1. W = B
    BY <1>1 DEF Searched
  <2>. QED  BY <1>1, <2>1
<1>2. CASE ~B.found /\ B.fifo # << >>
  <2>1. /\ B \in BpStates /\ LeadsBack(A, from, d, B.back) /\ Wave(A, from, d, DOMAIN B.back, B.fifo)
        /\ to # from => to \notin DOMAIN B.back
    BY <1>2 DEF BpOK
  <2>2. /\ B.back \in BackTrees /\ DOMAIN B.back \subseteq UdNode
        /\ B.back \in [DOMAIN B.back -> UdNode \cup {Nil}] /\ B.fifo \in Seq(UdNode)
    BY <2>1, BackTreeIs DEF BpStates
  <2>3. n \in DOMAIN B.back /\ n \in ToSet(B.fifo) /\ n \in UdNode
    <3>1. B.fifo \in Seq(DOMAIN B.back)
      BY <2>1 DEF Wave
    <3>2. n = B.fifo[1] /\ 1 \in DOMAIN B.fifo /\ n \in DOMAIN B.back
      BY <1>2, <3>1
    <3>. QED  BY <2>2, <3>2 DEF ToSet
  <2>4. A[n] \in SUBSET UdNode /\ all \in SUBSET UdNode
    BY <2>3 DEF AdjSets
  <2>5. /\ new \subseteq all
        /\ to \notin all => new = all
        /\ to \in all => to \in new
        /\ to \in new <=> to \in all
    <3>1. new = {m \in all : to \in all => m <= to}
      BY DEF Added
    <3>2. to \in Int /\ to <= to
      BY UdAssumption
    <3>. QED  BY <3>1, <3>2
  <2>. DEFINE s == Ascending[new \ {to}]
              back == Pointed(B.back, new, n)
  <2>6. /\ W.back = back /\ W.fifo = Tail(B.fifo) \o s /\ W.found \in BOOLEAN
        /\ to \in new => W.found = TRUE
        /\ to \notin new => W.found = FALSE
        /\ W = [back |-> W.back, fifo |-> W.fifo, found |-> W.found]
    <3>1. W = [back |-> back, fifo |-> Tail(B.fifo) \o s, found |-> to \in new]
      BY <1>2 DEF Searched
    <3>. HIDE DEF W, back, s, new
    <3>2. CASE to \in new
      BY <3>1, <3>2
    <3>3. CASE to \notin new
      <4>1. (to \in new) = FALSE
        BY <3>3
      <4>2. W = [back |-> back, fifo |-> Tail(B.fifo) \o s, found |-> FALSE]
        BY <3>1, <4>1, Zenon
      <4>. QED  BY <3>3, <4>2
    <3>. QED  BY <3>2, <3>3
  <2>7. /\ DOMAIN back = DOMAIN B.back \cup new /\ back = [x \in DOMAIN back |-> back[x]]
        /\ \A x \in new : back[x] = n
        /\ \A x \in DOMAIN B.back : back[x] = B.back[x]
    BY <2>5 DEF Pointed
  <2>8. new \ {to} \in SUBSET UdNode /\ Lists1(s, new \ {to})
    <3>1. new \ {to} \in SUBSET UdNode
      BY <2>4, <2>5
    <3>. QED  BY <3>1, AscendingIs
  <2>9. Lists1(Ascending[all], all)
    BY <2>4, AscendingIs
  <2>. HIDE DEF A, n, all, new, W, s, back
  <2>10. /\ Wave(A, from, d, DOMAIN B.back \cup A[n], Tail(B.fifo) \o Ascending[all])
         /\ \A y \in all : y \in DOMAIN d /\ d[y] = d[n] + 1
    <3>. DEFINE v == DOMAIN B.back
                q == B.fifo
                r == Ascending[all]
    <3>1. Wave(A, from, d, v, q) /\ q # << >> /\ Lists1(r, A[Head(q)] \ v)
      BY <1>2, <2>1, <2>9 DEF n, all
    <3>2. A \in AdjSets /\ Measures(A, from, d)
      BY DEF A
    <3>. HIDE DEF v, q, r
    <3>3. /\ Wave(A, from, d, v \cup A[Head(q)], Tail(q) \o r)
          /\ \A y \in A[Head(q)] \ v : y \in DOMAIN d /\ d[y] = d[Head(q)] + 1
      BY <3>1, <3>2, WaveStep
    <3>. QED  BY <3>3 DEF n, all, v, q, r
  <2>11. LeadsBack(A, from, d, back)
    <3>1. DOMAIN back \subseteq DOMAIN d
      BY <2>1, <2>5, <2>7, <2>10 DEF LeadsBack
    <3>2. from \in DOMAIN back /\ back[from] = Nil
      BY <2>1, <2>7 DEF LeadsBack
    <3>3. ASSUME NEW x \in DOMAIN back \ {from}
          PROVE  back[x] \in DOMAIN back /\ x \in A[back[x]] /\ d[x] = d[back[x]] + 1
      <4>1. CASE x \in new
        BY <2>3, <2>5, <2>7, <2>10, <4>1 DEF all
      <4>2. CASE x \in DOMAIN B.back
        BY <2>1, <2>7, <3>3, <4>2 DEF LeadsBack
      <4>. QED  BY <2>7, <3>3, <4>1, <4>2
    <3>. QED  BY <3>1, <3>2, <3>3 DEF LeadsBack
  <2>12. W \in BpStates
    <3>1. back \in BackTrees
      <4>1. DOMAIN back \in SUBSET UdNode
        BY <2>2, <2>4, <2>5, <2>7
      <4>2. \A x \in DOMAIN back : back[x] \in UdNode \cup {Nil}
        BY <2>2, <2>3, <2>7
      <4>3. back \in [DOMAIN back -> UdNode \cup {Nil}]
        BY <2>7, <4>2
      <4>. QED  BY <4>1, <4>3 DEF BackTrees
    <3>2. Tail(B.fifo) \o s \in Seq(UdNode)
      <4>1. s \in Seq(UdNode)
        BY <2>8 DEF Lists1
      <4>2. Tail(B.fifo) \in Seq(UdNode)
        BY <1>2, <2>2
      <4>. QED  BY <4>1, <4>2, Concatenated
    <3>. QED  BY <2>6, <3>1, <3>2 DEF BpStates
  <2>13. CASE to \in new
    <3>1. W.found = TRUE
      BY <2>6, <2>13
    <3>2. to \notin DOMAIN B.back
      BY <2>5, <2>13 DEF all
    <3>3. to # from /\ to \in DOMAIN W.back
      BY <2>1, <2>6, <2>7, <2>13, <3>2 DEF LeadsBack
    <3>4. BpOK(A, from, to, d, W)
      BY <2>6, <2>11, <2>12, <3>1, <3>3 DEF BpOK
    <3>. QED  BY <1>2, <3>1, <3>4 DEF A, W
  <2>14. CASE to \notin new
    <3>1. W.found = FALSE /\ new = all /\ new \ {to} = new
      BY <2>5, <2>6, <2>14
    <3>2. s = Ascending[all]
      BY <3>1 DEF s
    <3>3. DOMAIN back = DOMAIN B.back \cup A[n]
      BY <2>7, <3>1 DEF all
    <3>4. Wave(A, from, d, DOMAIN W.back, W.fifo)
      BY <2>6, <2>10, <3>2, <3>3
    <3>5. to # from => to \notin DOMAIN W.back
      BY <2>1, <2>6, <2>7, <2>14
    <3>6. BpOK(A, from, to, d, W)
      BY <2>6, <2>11, <2>12, <3>1, <3>4, <3>5 DEF BpOK
    <3>7. B.fifo \in Seq(DOMAIN B.back) /\ IsInjective(B.fifo) /\ ToSet(B.fifo) \subseteq DOMAIN B.back
      <4>1. B.fifo \in Seq(DOMAIN B.back) /\ IsInjective(B.fifo)
        BY <2>1 DEF Wave
      <4>. QED  BY <4>1 DEF ToSet
    <3>8. GoesOnAs(UdNode, B.fifo, s, W.fifo)
      <4>1. s \in Seq(UdNode) /\ IsInjective(s) /\ ToSet(s) = new
        BY <2>8, <3>1 DEF Lists1
      <4>2. ToSet(B.fifo) \cap ToSet(s) = {}
        BY <3>1, <3>7, <4>1 DEF all
      <4>. QED  BY <1>2, <2>2, <2>6, <3>7, <4>1, <4>2, Requeued
    <3>9. ToSet(W.fifo) = (ToSet(B.fifo) \ {n}) \cup new
      BY <2>8, <3>1, <3>8 DEF GoesOnAs, n, Lists1
    <3>10. Behind(W) = Behind(B) \cup {n} /\ n \notin Behind(B)
      <4>1. new \cap DOMAIN B.back = {}
        BY <2>5 DEF all
      <4>. QED  BY <2>3, <2>6, <2>7, <3>7, <3>9, <4>1 DEF Behind
    <3>. QED  BY <1>2, <3>6, <3>10 DEF A, W, n
  <2>. QED  BY <2>13, <2>14
<1>. QED  BY <1>1, <1>2

\* The search, round by round.
LEMMA BpRounds ==
    ASSUME n_adjs \in AdjSets, NEW from \in UdNode, NEW to \in UdNode, NEW d, Measures(n_adjs, from, d)
    PROVE  \E f : /\ BackPointers(from, to) = f[Cardinality(UdNode)]
                  /\ \A i \in 0 .. Cardinality(UdNode) : BpOK(n_adjs, from, to, d, f[i])
                  /\ \A i \in 1 .. Cardinality(UdNode) : f[i] = Searched(f[i - 1], to)
<1>. DEFINE N == Cardinality(UdNode)
            OK(B) == BpOK(n_adjs, from, to, d, B)
            D == {B \in BpStates : OK(B)}
            a == [back |-> [m \in {from} |-> Nil], fifo |-> <<from>>, found |-> FALSE]
            F == [i \in Nat |-> [B \in D |-> Searched(B, to)]]
            Solves(f) == f = [i \in 0 .. N |-> IF i = 0 THEN a ELSE Searched(f[i - 1], to)]
<1>0. N \in Nat
  BY NodeCount
<1>1. \A B : OK(B) <=> B \in D
  BY DEF BpOK
<1>2. OK(a)
  <2>. DEFINE back == [m \in {from} |-> Nil]
  <2>1. back \in [{from} -> UdNode \cup {Nil}] /\ {from} \in SUBSET UdNode
    OBVIOUS
  <2>2. back \in BackTrees /\ DOMAIN back = {from} /\ back[from] = Nil
    BY <2>1 DEF BackTrees
  <2>. HIDE DEF back
  <2>3. a \in BpStates /\ a.back = back /\ a.fifo = <<from>> /\ a.found = FALSE
    BY <2>2 DEF BpStates, back
  <2>4. Wave(n_adjs, from, d, {from}, <<from>>)
    BY WaveStarts
  <2>5. LeadsBack(n_adjs, from, d, back)
    BY <2>2 DEF LeadsBack, Measures
  <2>. HIDE DEF a
  <2>. QED  BY <2>2, <2>3, <2>4, <2>5 DEF BpOK
<1>3. a \in D
  BY <1>1, <1>2
<1>4. \A B \in D : Searched(B, to) \in D
  <2>1. ASSUME NEW B \in D  PROVE OK(Searched(B, to))
    BY <1>1, BpStep
  <2>. QED  BY <1>1, <2>1
<1>. HIDE DEF N, D, a, OK
<1>5. F \in [Nat -> [D -> D]]
  BY <1>4
<1>6. PICK g \in [0 .. N -> D] : Iterates(g, a, F, N)
  <2>. HIDE DEF F
  <2>. QED  BY <1>0, <1>3, <1>5, Iterated
<1>7. Solves(g)
  <2>1. g[0] = a
    BY <1>6 DEF Iterates
  <2>2. ASSUME NEW i \in 1 .. N  PROVE g[i] = Searched(g[i - 1], to)
    <3>1. i \in Nat /\ g[i - 1] \in D
      BY <1>0, <1>6
    <3>. QED  BY <1>6, <3>1 DEF Iterates
  <2>. QED  BY <1>0, <1>6, <2>1, <2>2
<1>. DEFINE f == CHOOSE f : Solves(f)
<1>8. Solves(f)
  <2>. HIDE DEF Solves
  <2>. QED  BY <1>7
<1>9. BackPointers(from, to) = f[N]
  BY DEF BackPointers, N, a
<1>. HIDE DEF f
<1>10. f[0] = a /\ \A i \in 1 .. N : f[i] = Searched(f[i - 1], to)
  BY <1>0, <1>8
<1>. HIDE DEF Solves, F
<1>11. \A i \in 0 .. N : f[i] \in D
  BY <1>0, <1>3, <1>4, <1>10, StaysIn
<1>. QED  BY <1>1, <1>9, <1>10, <1>11 DEF N, OK

\* The search has found to, or has been everywhere.
LEMMA BpEnds ==
    ASSUME n_adjs \in AdjSets, NEW from \in UdNode, NEW to \in UdNode, NEW d, Measures(n_adjs, from, d),
           NEW B, B = BackPointers(from, to)
    PROVE  /\ BpOK(n_adjs, from, to, d, B)
           /\ ~B.found => to = from \/ to \notin DOMAIN d
<1>. DEFINE N == Cardinality(UdNode)
            A == n_adjs
<1>0. N \in Nat /\ N \in 0 .. N /\ IsFiniteSet(UdNode)
  BY NodeCount
<1>1. PICK f : /\ B = f[N]
               /\ \A i \in 0 .. N : BpOK(A, from, to, d, f[i])
               /\ \A i \in 1 .. N : f[i] = Searched(f[i - 1], to)
  BY BpRounds
<1>. HIDE DEF N, A
<1>2. ASSUME NEW i \in 0 .. N  PROVE Behind(f[i]) \subseteq UdNode /\ IsFiniteSet(Behind(f[i])) /\ Cardinality(Behind(f[i])) \in Nat
  <2>1. f[i].back \in BackTrees
    BY <1>1 DEF BpOK, BpStates
  <2>2. Behind(f[i]) \subseteq UdNode
    BY <2>1, BackTreeIs DEF Behind
  <2>. QED  BY <1>0, <2>2, FS_Subset, FS_CardinalityType
<1>. DEFINE P == {i \in 0 .. N : f[i].found \/ f[i].fifo = << >> \/ Cardinality(Behind(f[i])) >= i}
<1>3. 0 \in P
  <2>1. 0 \in 0 .. N
    BY <1>0
  <2>. QED  BY <1>2, <2>1
<1>4. ASSUME NEW i \in 1 .. N, i - 1 \in P  PROVE i \in P
  <2>. DEFINE b == f[i - 1]
              c == f[i]
  <2>1. i - 1 \in 0 .. N /\ i \in 0 .. N /\ c = Searched(b, to) /\ BpOK(A, from, to, d, b)
    BY <1>0, <1>1
  <2>2. /\ b.found \/ b.fifo = << >> => c = b
        /\ ~b.found /\ b.fifo # << >> /\ ~c.found =>
             Head(b.fifo) \notin Behind(b) /\ Behind(c) = Behind(b) \cup {Head(b.fifo)}
    BY <2>1, BpStep DEF A
  <2>3. IsFiniteSet(Behind(b)) /\ Cardinality(Behind(b)) \in Nat
    BY <1>2, <2>1
  <2>4. b.found \/ b.fifo = << >> \/ Cardinality(Behind(b)) >= i - 1
    BY <1>4
  <2>. HIDE DEF b, c
  <2>5. c.found \/ c.fifo = << >> \/ Cardinality(Behind(c)) >= i
    <3>1. CASE b.found \/ b.fifo = << >>
      BY <2>2, <3>1
    <3>2. CASE ~b.found /\ b.fifo # << >> /\ ~c.found
      <4>1. Cardinality(Behind(c)) = Cardinality(Behind(b)) + 1
        BY <2>2, <2>3, <3>2, FS_AddElement
      <4>. QED  BY <2>3, <2>4, <3>2, <4>1
    <3>. QED  BY <3>1, <3>2
  <2>. QED  BY <2>1, <2>5 DEF c
<1>5. N \in P
  <2>. HIDE DEF P
  <2>. QED  BY <1>0, <1>3, <1>4, UpTo
<1>6. BpOK(A, from, to, d, B)
  BY <1>0, <1>1
<1>7. ASSUME ~B.found  PROVE to = from \/ to \notin DOMAIN d
  <2>1. Wave(A, from, d, DOMAIN B.back, B.fifo) /\ (to # from => to \notin DOMAIN B.back)
    BY <1>6, <1>7 DEF BpOK
  <2>2. B.back \in BackTrees /\ DOMAIN B.back \subseteq UdNode
    BY <1>6, BackTreeIs DEF BpOK, BpStates
  <2>3. B.fifo = << >>
    <3>1. SUFFICES ASSUME B.fifo # << >>  PROVE FALSE
      OBVIOUS
    <3>2. Cardinality(Behind(B)) >= N
      BY <1>1, <1>5, <1>7, <3>1
    <3>3. Behind(B) \in SUBSET UdNode /\ Cardinality(Behind(B)) \in Nat
      BY <1>0, <1>1, <1>2
    <3>4. Cardinality(Behind(B)) <= Cardinality(UdNode) /\ (Cardinality(UdNode) = Cardinality(Behind(B)) => UdNode = Behind(B))
      BY <1>0, <3>3, FS_Subset
    <3>5. Behind(B) = UdNode
      BY <1>0, <3>2, <3>3, <3>4 DEF N
    <3>6. B.fifo \in Seq(DOMAIN B.back)
      BY <2>1 DEF Wave
    <3>7. 1 \in DOMAIN B.fifo /\ B.fifo[1] \in DOMAIN B.back
      BY <3>1, <3>6
    <3>. QED  BY <2>2, <3>5, <3>7 DEF Behind, ToSet
  <2>4. ToSet(B.fifo) = {}
    BY <2>3 DEF ToSet
  <2>5. from \in DOMAIN B.back /\ \A x \in DOMAIN B.back : A[x] \subseteq DOMAIN B.back
    BY <2>1, <2>4 DEF Wave
  <2>6. DOMAIN d \subseteq DOMAIN B.back
    BY <2>5, ClosedCovers DEF A
  <2>. QED  BY <2>1, <2>6
<1>. QED  BY <1>6, <1>7 DEF A

-----------------------------------------------------------------------------
(* Paths                                                                   *)

\* p is a way from x to y, along edges.
Leads(A, p, x, y) ==
    /\ p \in Seq(UdNode) /\ p # << >>
    /\ p[1] = x /\ p[Len(p)] = y
    /\ \A i \in 1 .. Len(p) - 1 : p[i + 1] \in A[p[i]]

\* r is p with z before it.
IsBefore(A, z, p, y, r) ==
    /\ Leads(A, r, z, y) /\ Len(r) = Len(p) + 1 /\ Head(r) = z
    /\ \A i \in 1 .. Len(p) : r[1 + i] = p[i]
    /\ ToSet(r) = {z} \cup ToSet(p)
    /\ IsInjective(p) /\ z \notin ToSet(p) => IsInjective(r)

\* A node before a path.
LEMMA PrependedIs ==
    ASSUME NEW A, NEW p, NEW x, NEW y, Leads(A, p, x, y), NEW z \in UdNode, x \in A[z],
           NEW r, r = <<z>> \o p
    PROVE  IsBefore(A, z, p, y, r)
<1>. DEFINE k == Len(p)
<1>1. p \in Seq(UdNode) /\ k \in Nat \ {0} /\ DOMAIN p = 1 .. k
  BY DEF Leads
<1>2. <<z>> \in Seq(UdNode) /\ Len(<<z>>) = 1 /\ <<z>>[1] = z
  OBVIOUS
<1>3. /\ r \in Seq(UdNode) /\ Len(r) = 1 + k
      /\ \A i \in 1 .. 1 : r[i] = <<z>>[i]
      /\ \A i \in 1 .. k : r[1 + i] = p[i]
  BY <1>1, <1>2, Concatenated
<1>. HIDE DEF k
<1>4. r[1] = z /\ r # << >> /\ DOMAIN r = 1 .. 1 + k /\ Head(r) = z /\ Len(r) - 1 = k
  BY <1>1, <1>2, <1>3
<1>5. \A i \in 1 .. 1 + k : i = 1 \/ (i - 1 \in 1 .. k /\ i = 1 + (i - 1) /\ r[i] = p[i - 1])
  BY <1>1, <1>3
<1>6. p[1] = x /\ p[k] = y /\ \A i \in 1 .. k - 1 : p[i + 1] \in A[p[i]]
  BY DEF Leads, k
<1>7. r[Len(r)] = y
  BY <1>1, <1>3, <1>6
<1>8. ASSUME NEW i \in 1 .. k  PROVE r[i + 1] \in A[r[i]]
  <2>1. r[i + 1] = p[i]
    BY <1>1, <1>3
  <2>2. CASE i = 1
    BY <1>4, <1>6, <2>1, <2>2
  <2>3. CASE i # 1
    <3>1. i - 1 \in 1 .. k - 1 /\ (i - 1) + 1 = i /\ i \in 1 .. 1 + k
      BY <1>1, <2>3
    <3>2. r[i] = p[i - 1]
      BY <1>5, <2>3, <3>1
    <3>. QED  BY <1>6, <2>1, <3>1, <3>2
  <2>. QED  BY <2>2, <2>3
<1>9. Leads(A, r, z, y)
  BY <1>3, <1>4, <1>7, <1>8 DEF Leads
<1>10. ToSet(r) = {z} \cup ToSet(p)
  <2>1. \A i \in 1 .. k : 1 + i \in 1 .. 1 + k
    BY <1>1
  <2>2. 1 \in 1 .. 1 + k
    BY <1>1
  <2>3. ToSet(r) = {r[i] : i \in 1 .. 1 + k} /\ ToSet(p) = {p[i] : i \in 1 .. k}
    BY <1>1, <1>4 DEF ToSet
  <2>4. ASSUME NEW w \in ToSet(r)  PROVE w \in {z} \cup ToSet(p)
    <3>1. PICK i \in 1 .. 1 + k : w = r[i]
      BY <2>3
    <3>. QED  BY <1>4, <1>5, <2>3, <3>1
  <2>5. ASSUME NEW w \in ToSet(p)  PROVE w \in ToSet(r)
    <3>1. PICK i \in 1 .. k : w = p[i]
      BY <2>3
    <3>2. 1 + i \in 1 .. 1 + k /\ w = r[1 + i]
      BY <1>3, <2>1, <3>1
    <3>. QED  BY <2>3, <3>2
  <2>6. z \in ToSet(r)
    BY <1>4, <2>2, <2>3
  <2>. QED  BY <2>4, <2>5, <2>6
<1>11. ASSUME IsInjective(p), z \notin ToSet(p)  PROVE IsInjective(r)
  <2>1. \A i, j \in 1 .. k : p[i] = p[j] => i = j
    BY <1>1, <1>11 DEF IsInjective
  <2>2. \A i \in 1 .. k : p[i] # z
    BY <1>1, <1>11 DEF ToSet
  <2>3. ASSUME NEW i \in 1 .. 1 + k, NEW j \in 1 .. 1 + k, r[i] = r[j]  PROVE i = j
    <3>1. CASE i = 1 /\ j = 1
      BY <3>1
    <3>2. CASE i # 1 /\ j = 1
      BY <1>4, <1>5, <2>2, <2>3, <3>2
    <3>3. CASE i = 1 /\ j # 1
      BY <1>4, <1>5, <2>2, <2>3, <3>3
    <3>4. CASE i # 1 /\ j # 1
      <4>1. i - 1 \in 1 .. k /\ j - 1 \in 1 .. k /\ r[i] = p[i - 1] /\ r[j] = p[j - 1]
        BY <1>5, <3>4
      <4>2. i - 1 = j - 1
        BY <2>1, <2>3, <4>1
      <4>. QED  BY <4>2
    <3>. QED  BY <3>1, <3>2, <3>3, <3>4
  <2>4. DOMAIN r = 1 .. 1 + k
    BY <1>4
  <2>. QED  BY <2>3, <2>4, Zenon DEF IsInjective
<1>. QED  BY <1>3, <1>4, <1>9, <1>10, <1>11 DEF k, IsBefore

\* p leads along nodes that are each one edge farther.
Straight(d, p) == \A i \in 1 .. Len(p) : p[i] \in DOMAIN d /\ d[p[i]] + (Len(p) - i) = d[p[Len(p)]]

\* The path that the backpointers make.
LEMMA FollowedIs ==
    ASSUME NEW A \in AdjSets, NEW from \in UdNode, NEW to \in UdNode, NEW d, Measures(A, from, d),
           NEW back \in BackTrees, LeadsBack(A, from, d, back), to \in DOMAIN back,
           NEW path, path = Followed(back, to)
    PROVE  Leads(A, path, from, to) /\ Straight(d, path)
<1>. DEFINE N == Cardinality(UdNode)
            OK(p) == Leads(A, p, Head(p), to) /\ Straight(d, p) /\ Head(p) \in DOMAIN back
            D == {p \in Seq(UdNode) : OK(p)}
            a == <<to>>
            Next1(p) == IF back[Head(p)] = Nil THEN p ELSE <<back[Head(p)]>> \o p
            F == [i \in Nat |-> [p \in D |-> Next1(p)]]
            Solves(f) == f = [i \in 0 .. N |-> IF i = 0 THEN a ELSE Next1(f[i - 1])]
<1>0. /\ N \in Nat /\ DOMAIN back \subseteq UdNode /\ DOMAIN back \subseteq DOMAIN d
      /\ \A x \in DOMAIN d : d[x] \in Nat /\ d[x] <= N
  BY NodeCount, BackTreeIs DEF Measures, LeadsBack
<1>1. ASSUME NEW x \in DOMAIN back  PROVE back[x] = Nil <=> x = from
  BY <1>0, <1>1, UdAssumption DEF LeadsBack
<1>2. \A p : OK(p) <=> p \in D
  BY DEF Leads
<1>3. OK(a) /\ a \in D /\ Len(a) = 1
  <2>1. Len(a) = 1 /\ a[1] = to /\ Head(a) = to /\ a \in Seq(UdNode) /\ a # << >> /\ 1 .. 0 = {}
    OBVIOUS
  <2>2. d[to] + (1 - 1) = d[to]
    BY <1>0
  <2>3. Leads(A, a, Head(a), to)
    BY <2>1 DEF Leads
  <2>4. Straight(d, a)
    BY <1>0, <2>1, <2>2 DEF Straight
  <2>. QED  BY <1>2, <2>1, <2>3, <2>4
<1>4. ASSUME NEW p, OK(p)
      PROVE  /\ OK(Next1(p))
             /\ Head(p) = from => Next1(p) = p
             /\ Head(p) # from => Len(Next1(p)) = Len(p) + 1
  <2>1. Head(p) \in DOMAIN back /\ p \in Seq(UdNode) /\ Leads(A, p, Head(p), to) /\ p # << >> /\ Straight(d, p)
    BY <1>4 DEF Leads
  <2>2. CASE Head(p) = from
    <3>1. Next1(p) = p
      BY <1>1, <2>1, <2>2
    <3>. QED  BY <1>4, <2>2, <3>1
  <2>3. CASE Head(p) # from
    <3>. DEFINE x == Head(p)
                z == back[x]
                r == <<z>> \o p
                k == Len(p)
    <3>1. Next1(p) = r
      BY <1>1, <2>1, <2>3
    <3>2. z \in DOMAIN back /\ x \in A[z] /\ d[x] = d[z] + 1
      BY <2>1, <2>3 DEF LeadsBack
    <3>3. z \in UdNode /\ z \in DOMAIN d /\ d[z] \in Nat
      BY <1>0, <3>2
    <3>4. k \in Nat \ {0} /\ x = p[1]
      BY <2>1
    <3>. HIDE DEF x, z, r, k, Next1
    <3>5. /\ Leads(A, r, z, to) /\ Len(r) = k + 1 /\ Head(r) = z
          /\ \A i \in 1 .. k : r[1 + i] = p[i]
      <4>1. r = <<z>> \o p /\ Leads(A, p, x, to)
        BY <2>1 DEF r, x
      <4>2. IsBefore(A, z, p, to, r)
        BY <3>2, <3>3, <4>1, PrependedIs
      <4>. QED  BY <4>2 DEF k, IsBefore
    <3>6. r[1] = z /\ r[Len(r)] = to /\ p[k] = to
      BY <2>1, <3>5 DEF Leads, k
    <3>7. \A i \in 1 .. k : p[i] \in DOMAIN d /\ d[p[i]] \in Nat /\ d[p[i]] + (k - i) = d[to] /\ d[to] \in Nat
      BY <1>0, <2>1, <3>4, <3>6 DEF Straight, k
    <3>8. ASSUME NEW i \in 1 .. Len(r)  PROVE r[i] \in DOMAIN d /\ d[r[i]] + (Len(r) - i) = d[r[Len(r)]]
      <4>1. CASE i = 1
        <5>1. 1 \in 1 .. k
          BY <3>4
        <5>2. d[x] + (k - 1) = d[to]
          BY <3>4, <3>7, <5>1
        <5>. QED  BY <3>2, <3>3, <3>4, <3>5, <3>6, <4>1, <5>2
      <4>2. CASE i # 1
        <5>1. i - 1 \in 1 .. k /\ i = 1 + (i - 1) /\ Len(r) - i = k - (i - 1)
          BY <3>4, <3>5, <4>2
        <5>2. r[i] = p[i - 1]
          BY <3>5, <5>1
        <5>3. p[i - 1] \in DOMAIN d /\ d[p[i - 1]] + (k - (i - 1)) = d[to]
          BY <3>7, <5>1
        <5>. QED  BY <3>6, <5>1, <5>2, <5>3
      <4>. QED  BY <4>1, <4>2
    <3>9. OK(r)
      BY <3>2, <3>5, <3>8 DEF Straight
    <3>. QED  BY <2>3, <3>1, <3>5, <3>9 DEF k
  <2>. QED  BY <2>2, <2>3
<1>. HIDE DEF N, D, a, OK, Next1
<1>5. \A p \in D : Next1(p) \in D
  BY <1>2, <1>4
<1>6. F \in [Nat -> [D -> D]]
  BY <1>5
<1>7. PICK g \in [0 .. N -> D] : Iterates(g, a, F, N)
  <2>. HIDE DEF F
  <2>. QED  BY <1>0, <1>3, <1>6, Iterated
<1>8. Solves(g)
  <2>1. g[0] = a
    BY <1>7 DEF Iterates
  <2>2. ASSUME NEW i \in 1 .. N  PROVE g[i] = Next1(g[i - 1])
    <3>1. i \in Nat /\ g[i - 1] \in D
      BY <1>0, <1>7
    <3>. QED  BY <1>7, <3>1 DEF Iterates
  <2>. QED  BY <1>0, <1>7, <2>1, <2>2
<1>. DEFINE f == CHOOSE f : Solves(f)
<1>9. Solves(f)
  <2>. HIDE DEF Solves
  <2>. QED  BY <1>8
<1>10. path = f[N]
  BY DEF Followed, N, a, Next1
<1>. HIDE DEF f
<1>11. f[0] = a /\ \A i \in 1 .. N : f[i] = Next1(f[i - 1])
  BY <1>0, <1>9
<1>. HIDE DEF Solves, F
<1>12. \A i \in 0 .. N : f[i] \in D /\ OK(f[i])
  BY <1>0, <1>2, <1>3, <1>5, <1>11, StaysIn
<1>. DEFINE P == {i \in 0 .. N : Head(f[i]) = from \/ Len(f[i]) = i + 1}
<1>13. 0 \in P
  BY <1>0, <1>3, <1>11
<1>14. ASSUME NEW i \in 1 .. N, i - 1 \in P  PROVE i \in P
  <2>1. i - 1 \in 0 .. N /\ i \in 0 .. N /\ f[i] = Next1(f[i - 1]) /\ OK(f[i - 1])
    BY <1>0, <1>11, <1>12
  <2>2. (Head(f[i - 1]) = from => f[i] = f[i - 1]) /\ (Head(f[i - 1]) # from => Len(f[i]) = Len(f[i - 1]) + 1)
    BY <1>4, <2>1
  <2>. QED  BY <1>14, <2>1, <2>2
<1>15. N \in P
  <2>1. N \in 0 .. N
    BY <1>0
  <2>. HIDE DEF P
  <2>. QED  BY <1>0, <1>13, <1>14, <2>1, UpTo
<1>16. OK(path) /\ (Head(path) = from \/ Len(path) = N + 1)
  BY <1>0, <1>10, <1>12, <1>15
<1>17. Leads(A, path, Head(path), to) /\ Straight(d, path) /\ path \in Seq(UdNode) /\ path # << >>
  BY <1>16 DEF OK, Leads
<1>18. Head(path) = from
  <2>1. SUFFICES ASSUME Len(path) = N + 1  PROVE Head(path) = from
    BY <1>16
  <2>2. path[1] = Head(path) /\ 1 \in 1 .. Len(path) /\ path[Len(path)] = to
    BY <1>0, <1>17, <2>1 DEF Leads
  <2>3. path[1] \in DOMAIN d /\ d[path[1]] + (Len(path) - 1) = d[to]
    BY <1>17, <2>2 DEF Straight
  <2>4. d[path[1]] \in Nat /\ d[to] \in Nat /\ d[to] <= N
    BY <1>0, <2>3
  <2>5. d[path[1]] = 0
    BY <1>0, <2>1, <2>3, <2>4
  <2>6. SUFFICES ASSUME path[1] # from  PROVE FALSE
    BY <2>2
  <2>7. PICK x \in DOMAIN d : d[path[1]] = d[x] + 1
    BY <2>3, <2>6 DEF Measures
  <2>. QED  BY <1>0, <2>5, <2>7
<1>. QED  BY <1>17, <1>18

\* No way is shorter than the distance.
LEMMA WayIsAsLong ==
    ASSUME NEW A \in AdjSets, NEW from \in UdNode, NEW d, Measures(A, from, d), NEW p, NEW y, Leads(A, p, from, y)
    PROVE  y \in DOMAIN d /\ d[y] <= Len(p) - 1
<1>. DEFINE k == Len(p) - 1
            P == {i \in 0 .. k : p[i + 1] \in DOMAIN d /\ d[p[i + 1]] <= i}
<1>0. Cardinality(UdNode) \in Nat /\ \A x \in DOMAIN d : d[x] \in Nat
  BY NodeCount DEF Measures
<1>1. k \in Nat /\ Len(p) = k + 1 /\ p[1] = from /\ p[k + 1] = y /\ \A i \in 1 .. k : p[i + 1] \in A[p[i]]
  <2>1. p \in Seq(UdNode) /\ p # << >> /\ p[1] = from /\ p[Len(p)] = y /\ \A i \in 1 .. k : p[i + 1] \in A[p[i]]
    BY DEF Leads
  <2>2. Len(p) \in Nat \ {0}
    BY <2>1
  <2>3. k \in Nat /\ Len(p) = k + 1
    BY <2>2
  <2>. HIDE DEF k
  <2>. QED  BY <2>1, <2>3
<1>. HIDE DEF k
<1>2. 0 \in P
  BY <1>0, <1>1 DEF Measures
<1>3. ASSUME NEW i \in 1 .. k, i - 1 \in P  PROVE i \in P
  <2>1. p[i] \in DOMAIN d /\ d[p[i]] <= i - 1
    BY <1>3
  <2>2. p[i + 1] \in DOMAIN d /\ d[p[i + 1]] <= d[p[i]] + 1
    BY <1>1, <2>1 DEF Measures
  <2>. QED  BY <1>0, <1>1, <2>1, <2>2
<1>4. k \in P
  <2>1. k \in 0 .. k
    BY <1>1
  <2>. HIDE DEF P
  <2>. QED  BY <1>1, <1>2, <1>3, <2>1, UpTo
<1>. QED  BY <1>1, <1>4 DEF k

\* What a search for a path must return.
ShortestIs(A, from, to, d, path) ==
    IF to \notin DOMAIN d \ {from} THEN path = NoPath
    ELSE Leads(A, path, from, to) /\ Len(path) = 1 + d[to]

\* A straight path is as long as its end is far, and comes to no node twice.
LEMMA StraightIs ==
    ASSUME NEW A \in AdjSets, NEW from \in UdNode, NEW d, Measures(A, from, d), NEW p, NEW y,
           Leads(A, p, from, y), Straight(d, p)
    PROVE  Len(p) = 1 + d[y] /\ IsInjective(p)
<1>0. Cardinality(UdNode) \in Nat /\ \A x \in DOMAIN d : d[x] \in Nat
  BY NodeCount DEF Measures
<1>1. Len(p) \in Nat \ {0} /\ DOMAIN p = 1 .. Len(p) /\ p[1] = from /\ p[Len(p)] = y
  BY DEF Leads
<1>2. \A i \in 1 .. Len(p) : p[i] \in DOMAIN d /\ d[p[i]] \in Nat /\ d[p[i]] + (Len(p) - i) = d[y]
  BY <1>0, <1>1 DEF Straight
<1>3. 1 \in 1 .. Len(p) /\ Len(p) \in 1 .. Len(p) /\ d[from] = 0
  BY <1>1 DEF Measures
<1>4. d[y] \in Nat
  BY <1>1, <1>2, <1>3
<1>5. Len(p) = 1 + d[y]
  BY <1>1, <1>2, <1>3, <1>4
<1>6. ASSUME NEW i \in 1 .. Len(p), NEW j \in 1 .. Len(p), p[i] = p[j]  PROVE i = j
  <2>1. d[p[i]] + (Len(p) - i) = d[p[i]] + (Len(p) - j)
    BY <1>2, <1>6
  <2>. QED  BY <1>1, <1>2, <2>1
<1>. QED  BY <1>1, <1>5, <1>6 DEF IsInjective

(* The breadth-first search returns a shortest path, if there is one.      *)
LEMMA BfPathIs ==
    ASSUME n_adjs \in AdjSets, NEW from \in UdNode, NEW to \in UdNode, NEW d, Measures(n_adjs, from, d)
    PROVE  /\ ShortestIs(n_adjs, from, to, d, _udg_shortest_path_bf(from, to))
           /\ to \in DOMAIN d \ {from} => \E p : Leads(n_adjs, p, from, to) /\ IsInjective(p) /\ Len(p) = 1 + d[to]
<1>. DEFINE B == BackPointers(from, to)
            path == Followed(B.back, to)
            A == n_adjs
<1>1. BpOK(A, from, to, d, B) /\ (~B.found => to = from \/ to \notin DOMAIN d)
  BY BpEnds
<1>2. _udg_shortest_path_bf(from, to) = IF B.found THEN path ELSE NoPath
  BY DEF _udg_shortest_path_bf
<1>. HIDE DEF B, path, A
<1>3. CASE B.found
  <2>1. B.back \in BackTrees /\ LeadsBack(A, from, d, B.back) /\ to # from /\ to \in DOMAIN B.back
    BY <1>1, <1>3 DEF BpOK, BpStates
  <2>2. Leads(A, path, from, to) /\ Straight(d, path)
    BY <2>1, FollowedIs DEF path, A
  <2>3. Len(path) = 1 + d[to] /\ IsInjective(path)
    BY <2>2, StraightIs DEF A
  <2>4. to \in DOMAIN d \ {from}
    BY <2>1 DEF LeadsBack
  <2>. QED  BY <1>2, <1>3, <2>2, <2>3, <2>4 DEF ShortestIs, A
<1>4. CASE ~B.found
  BY <1>1, <1>2, <1>4 DEF ShortestIs, A
<1>. QED  BY <1>3, <1>4

-----------------------------------------------------------------------------
(* Shortest path, depth first                                              *)

\* A path from n to to that comes to no node twice, and to none of X.
Avoids(A, p, n, to, X) == Leads(A, p, n, to) /\ IsInjective(p) /\ ToSet(p) \cap X = {}

\* The rest of such a path.
LEMMA TailAvoids ==
    ASSUME NEW A, NEW n, NEW to, n # to, NEW X, NEW p, Avoids(A, p, n, to, X)
    PROVE  /\ Avoids(A, Tail(p), p[2], to, X \cup {n}) /\ p[2] \in A[n]
           /\ Len(Tail(p)) = Len(p) - 1 /\ Len(p) \in Nat /\ Len(p) >= 2
<1>. DEFINE k == Len(p)
            q == Tail(p)
<1>1. p \in Seq(UdNode) /\ p # << >> /\ k \in Nat \ {0} /\ DOMAIN p = 1 .. k /\ p[1] = n /\ p[k] = to
      /\ \A i \in 1 .. k - 1 : p[i + 1] \in A[p[i]]
  BY DEF Avoids, Leads
<1>2. k >= 2
  BY <1>1
<1>3. q \in Seq(UdNode) /\ Len(q) = k - 1 /\ \A i \in 1 .. k - 1 : q[i] = p[i + 1]
  BY <1>1
<1>. HIDE DEF k, q
<1>4. DOMAIN q = 1 .. k - 1 /\ q # << >> /\ q[1] = p[2] /\ q[k - 1] = to
  <2>1. 1 \in 1 .. k - 1 /\ k - 1 \in 1 .. k - 1 /\ (k - 1) + 1 = k
    BY <1>1, <1>2
  <2>2. DOMAIN q = 1 .. k - 1
    BY <1>1, <1>3
  <2>. QED  BY <1>1, <1>2, <1>3, <2>1, <2>2
<1>5. p[2] \in A[n]
  <2>1. 1 \in 1 .. k - 1
    BY <1>1, <1>2
  <2>. QED  BY <1>1, <2>1
<1>6. ASSUME NEW i \in 1 .. (k - 1) - 1  PROVE q[i + 1] \in A[q[i]]
  <2>1. i \in 1 .. k - 1 /\ i + 1 \in 1 .. k - 1
    BY <1>1
  <2>2. q[i] = p[i + 1] /\ q[i + 1] = p[(i + 1) + 1]
    BY <1>3, <2>1
  <2>. QED  BY <1>1, <2>1, <2>2
<1>7. Leads(A, q, p[2], to)
  BY <1>3, <1>4, <1>6 DEF Leads
<1>8. \A i, j \in 1 .. k : p[i] = p[j] => i = j
  BY <1>1 DEF Avoids, IsInjective
<1>9. \A i \in 1 .. k - 1 : i + 1 \in 1 .. k /\ i + 1 # 1 /\ 1 \in 1 .. k
  BY <1>1
<1>10. \A i, j \in 1 .. k - 1 : q[i] = q[j] => i = j
  <2>1. TAKE i, j \in 1 .. k - 1
  <2>2. HAVE q[i] = q[j]
  <2>3. i + 1 = j + 1
    BY <1>3, <1>8, <1>9, <2>2
  <2>. QED  BY <2>3
<1>11. IsInjective(q)
  BY <1>4, <1>10, Zenon DEF IsInjective
<1>12. ASSUME NEW x \in ToSet(q)  PROVE x \notin X \cup {n}
  <2>1. PICK i \in 1 .. k - 1 : x = q[i]
    BY <1>4 DEF ToSet
  <2>2. x = p[i + 1] /\ i + 1 \in 1 .. k /\ i + 1 # 1 /\ 1 \in 1 .. k
    BY <1>3, <1>9, <2>1
  <2>3. x # n
    BY <1>1, <1>8, <2>2
  <2>4. x \in ToSet(p)
    BY <1>1, <2>2 DEF ToSet
  <2>. QED  BY <2>3, <2>4 DEF Avoids
<1>13. Avoids(A, q, p[2], to, X \cup {n})
  BY <1>7, <1>11, <1>12 DEF Avoids
<1>. QED  BY <1>1, <1>2, <1>3, <1>5, <1>13 DEF k, q

\* The calls one level down, and what the search of a node's adjacencies keeps.
SearchFcns == [UdNode -> [SUBSET UdNode -> [Nat -> Seq(UdNode)]]]
BestStates == [spath : Seq(UdNode), beat : Nat, stop : BOOLEAN]

\* Better keeps the shorter of two paths, and its length as the one to beat.
LEMMA BetterIs ==
    ASSUME NEW P \in BestStates, NEW spath \in Seq(UdNode)
    PROVE  /\ Better(P, spath) \in BestStates /\ Better(P, spath).stop = P.stop
           /\ \/ /\ spath # NoPath /\ (P.spath = NoPath \/ Len(spath) < Len(P.spath))
                 /\ Better(P, spath).spath = spath /\ Better(P, spath).beat = Len(spath)
              \/ /\ spath = NoPath \/ (P.spath # NoPath /\ Len(P.spath) <= Len(spath))
                 /\ Better(P, spath) = P
<1>1. Len(spath) \in Nat /\ P.spath \in Seq(UdNode) /\ Len(P.spath) \in Nat /\ P.beat \in Nat /\ P.stop \in BOOLEAN
      /\ P = [spath |-> P.spath, beat |-> P.beat, stop |-> P.stop]
  BY DEF BestStates
<1>2. CASE spath # NoPath /\ (P.spath = NoPath \/ Len(spath) < Len(P.spath))
  <2>1. Better(P, spath) = [spath |-> spath, beat |-> Len(spath), stop |-> P.stop]
    BY <1>1, <1>2 DEF Better
  <2>. QED  BY <1>1, <1>2, <2>1 DEF BestStates
<1>3. CASE ~(spath # NoPath /\ (P.spath = NoPath \/ Len(spath) < Len(P.spath)))
  <2>1. Better(P, spath) = P
    BY <1>3 DEF Better
  <2>. QED  BY <1>1, <1>3, <2>1
<1>. QED  BY <1>2, <1>3

\* The length to beat below, and when there is no point in trying.
LEMMA BeatBelowIs ==
    ASSUME NEW beat \in Nat
    PROVE  BeatBelow(beat) \in Nat /\ (beat # 0 => BeatBelow(beat) = beat - 1) /\ (beat = 0 => BeatBelow(beat) = 0)
           /\ (Hopeless(beat) <=> beat = 2)
BY DEF BeatBelow, Hopeless

\* The iteration is told to stop.
LEMMA StoppedIs ==
    ASSUME NEW P \in BestStates
    PROVE  /\ [P EXCEPT !.stop = TRUE] \in BestStates /\ [P EXCEPT !.stop = TRUE].stop = TRUE
           /\ [P EXCEPT !.stop = TRUE].spath = P.spath /\ [P EXCEPT !.stop = TRUE].beat = P.beat
<1>1. [P EXCEPT !.stop = TRUE] \in BestStates
  BY Zenon DEF BestStates
<1>2. /\ [P EXCEPT !.stop = TRUE].stop = TRUE
      /\ [P EXCEPT !.stop = TRUE].spath = P.spath
      /\ [P EXCEPT !.stop = TRUE].beat = P.beat
  BY DEF BestStates
<1>. QED  BY <1>1, <1>2

\* The callback returns something of this kind.
LEMMA CallbackType ==
    ASSUME NEW h \in SearchFcns, NEW P \in BestStates, NEW adj \in UdNode, NEW to \in UdNode, NEW C \in SUBSET UdNode
    PROVE  udg_shortest_path_df_adjs_cb(h, P, adj, to, C) \in BestStates
<1>1. [P EXCEPT !.stop = TRUE] \in BestStates /\ <<adj>> \in Seq(UdNode)
  BY StoppedIs
<1>2. Better([P EXCEPT !.stop = TRUE], <<adj>>) \in BestStates
  BY <1>1, BetterIs
<1>3. P.beat \in Nat
  BY DEF BestStates
<1>4. h[adj][C][BeatBelow(P.beat)] \in Seq(UdNode)
  <2>1. h[adj] \in [SUBSET UdNode -> [Nat -> Seq(UdNode)]]
    BY DEF SearchFcns
  <2>2. h[adj][C] \in [Nat -> Seq(UdNode)]
    BY <2>1
  <2>3. BeatBelow(P.beat) \in Nat
    BY <1>3, BeatBelowIs
  <2>. QED  BY <2>2, <2>3
<1>5. Better(P, h[adj][C][BeatBelow(P.beat)]) \in BestStates
  BY <1>4, BetterIs
<1>. QED  BY <1>2, <1>5 DEF udg_shortest_path_df_adjs_cb

\* at_iterate over the adjacencies, one after another.
LEMMA BestLoop ==
    ASSUME NEW h \in SearchFcns, NEW adjs \in Seq(UdNode), NEW to \in UdNode, NEW C \in SUBSET UdNode, NEW beat \in Nat
    PROVE  \E f : /\ BestBelow(h, adjs, to, C, beat) = f[Len(adjs)].spath
                  /\ f[0] = [spath |-> NoPath, beat |-> beat, stop |-> FALSE]
                  /\ \A i \in 0 .. Len(adjs) : f[i] \in BestStates
                  /\ \A i \in 1 .. Len(adjs) :
                       f[i] = IF f[i - 1].stop THEN f[i - 1]
                              ELSE udg_shortest_path_df_adjs_cb(h, f[i - 1], adjs[i], to, C)
<1>. DEFINE N == Len(adjs)
            a == [spath |-> NoPath, beat |-> beat, stop |-> FALSE]
            Step(i, P) == IF P.stop THEN P ELSE udg_shortest_path_df_adjs_cb(h, P, adjs[i], to, C)
            F == [i \in Nat |-> [P \in BestStates |-> IF i \in 1 .. N THEN Step(i, P) ELSE P]]
            Solves(f) == f = [i \in 0 .. N |-> IF i = 0 THEN a ELSE Step(i, f[i - 1])]
<1>0. N \in Nat /\ \A i \in 1 .. N : adjs[i] \in UdNode
  OBVIOUS
<1>1. a \in BestStates
  BY DEF BestStates, NoPath
<1>2. ASSUME NEW i \in 1 .. N, NEW P \in BestStates  PROVE Step(i, P) \in BestStates
  BY <1>0, CallbackType
<1>. HIDE DEF N, a, Step
<1>3. F \in [Nat -> [BestStates -> BestStates]]
  BY <1>2
<1>4. PICK g \in [0 .. N -> BestStates] : Iterates(g, a, F, N)
  <2>. HIDE DEF F
  <2>. QED  BY <1>0, <1>1, <1>3, Iterated
<1>5. Solves(g)
  <2>1. g[0] = a
    BY <1>4 DEF Iterates
  <2>2. ASSUME NEW i \in 1 .. N  PROVE g[i] = Step(i, g[i - 1])
    <3>1. i \in Nat /\ g[i - 1] \in BestStates
      BY <1>0, <1>4
    <3>. QED  BY <1>4, <3>1 DEF Iterates
  <2>. QED  BY <1>0, <1>4, <2>1, <2>2
<1>. DEFINE f == CHOOSE f : Solves(f)
<1>6. Solves(f)
  <2>. HIDE DEF Solves
  <2>. QED  BY <1>5
<1>7. BestBelow(h, adjs, to, C, beat) = f[N].spath
  BY DEF BestBelow, N, a, Step
<1>. HIDE DEF f
<1>8. f[0] = a /\ \A i \in 1 .. N : f[i] = Step(i, f[i - 1])
  BY <1>0, <1>6
<1>. HIDE DEF Solves, F
<1>9. \A i \in 0 .. N : f[i] \in BestStates
  BY <1>0, <1>1, <1>2, <1>8, StaysIn
<1>. QED  BY <1>7, <1>8, <1>9 DEF N, a, Step

\* Such a path is not empty, does not start in C, and is longer than one node
\* unless it starts where it ends.
LEMMA AvoidsFacts ==
    ASSUME NEW A, NEW q, NEW x, NEW to, NEW C, Avoids(A, q, x, to, C)
    PROVE  q \in Seq(UdNode) /\ q # << >> /\ Len(q) \in Nat /\ Len(q) >= 1 /\ x \notin C /\ (Len(q) = 1 => x = to)
<1>1. q \in Seq(UdNode) /\ q # << >> /\ q[1] = x /\ q[Len(q)] = to /\ ToSet(q) \cap C = {}
  BY DEF Avoids, Leads
<1>2. Len(q) \in Nat /\ Len(q) >= 1 /\ 1 \in DOMAIN q
  BY <1>1
<1>. QED  BY <1>1, <1>2 DEF ToSet

\* A path of one node.
LEMMA ArrivedAvoids ==
    ASSUME NEW A, NEW to \in UdNode, NEW C, to \notin C
    PROVE  Avoids(A, <<to>>, to, to, C) /\ Len(<<to>>) = 1 /\ <<to>> # NoPath /\ <<to>> \in Seq(UdNode)
<1>. DEFINE p == <<to>>
<1>1. p \in Seq(UdNode) /\ p # << >> /\ Len(p) = 1 /\ p[1] = to /\ DOMAIN p = 1 .. 1
  OBVIOUS
<1>. HIDE DEF p
<1>2. Leads(A, p, to, to)
  BY <1>1 DEF Leads
<1>3. IsInjective(p)
  BY <1>1 DEF IsInjective
<1>4. ToSet(p) \cap C = {}
  BY <1>1 DEF ToSet
<1>. QED  BY <1>1, <1>2, <1>3, <1>4 DEF Avoids, p, NoPath

\* A path that the search of x is expected to notice: it has no more than k
\* nodes, and it is short enough.
Wanted(A, q, x, to, C, k, beat) ==
    Avoids(A, q, x, to, C) /\ Len(q) <= k /\ (beat = 0 \/ Len(q) < beat)
AsGood(spath, q) == spath # NoPath /\ Len(spath) <= Len(q)

\* What a call for n returns: nothing or a path, and a path that is as good as
\* any of those it is expected to notice.
Answers(A, to, k, n, X, beat, R) ==
    /\ R # NoPath => Avoids(A, R, n, to, X) /\ Len(R) >= 2
    /\ n # to => \A p : Wanted(A, p, n, to, X, k + 1, IF beat = 0 THEN 0 ELSE beat + 1) => AsGood(R, p)
SearchGood(A, to, k, h) ==
    /\ h \in SearchFcns
    /\ \A n \in UdNode, X \in SUBSET UdNode, beat \in Nat :
         n \notin X => Answers(A, to, k, n, X, beat, h[n][X][beat])

\* What the search of the first i adjacencies has found.
FoundSoFar(A, to, k, C, beat, adjs, i, P) ==
    /\ P \in BestStates
    /\ P.spath = NoPath => P.beat = beat
    /\ P.spath # NoPath => P.beat = Len(P.spath) /\ \E x \in ToSet(adjs) : Avoids(A, P.spath, x, to, C)
    /\ P.stop => P.spath # NoPath /\ Len(P.spath) = 1
    /\ \A j \in 1 .. i : \A q : Wanted(A, q, adjs[j], to, C, k, beat) => AsGood(P.spath, q)

\* It is enough that the next state is as good as the last, and that it has what
\* is wanted of the next adjacency.
LEMMA BestGoesOn ==
    ASSUME NEW A, NEW to, NEW k, NEW C, NEW beat, NEW adjs, NEW i \in Nat \ {0}, NEW P, NEW W \in BestStates,
           FoundSoFar(A, to, k, C, beat, adjs, i - 1, P),
           W.spath = NoPath => W.beat = beat,
           W.spath # NoPath => W.beat = Len(W.spath) /\ \E x \in ToSet(adjs) : Avoids(A, W.spath, x, to, C),
           W.stop => W.spath # NoPath /\ Len(W.spath) = 1,
           P.spath # NoPath => AsGood(W.spath, P.spath),
           \A q : Wanted(A, q, adjs[i], to, C, k, beat) => AsGood(W.spath, q)
    PROVE  FoundSoFar(A, to, k, C, beat, adjs, i, W)
<1>1. ASSUME NEW j \in 1 .. i, NEW q, Wanted(A, q, adjs[j], to, C, k, beat)  PROVE AsGood(W.spath, q)
  <2>1. CASE j = i
    BY <1>1, <2>1
  <2>2. CASE j # i
    <3>1. j \in 1 .. i - 1
      BY <2>2
    <3>2. AsGood(P.spath, q)
      BY <1>1, <3>1 DEF FoundSoFar
    <3>3. AsGood(W.spath, P.spath)
      BY <3>2 DEF AsGood
    <3>4. Len(P.spath) \in Nat /\ Len(W.spath) \in Nat /\ Len(q) \in Nat
      <4>1. P.spath \in Seq(UdNode) /\ W.spath \in Seq(UdNode)
        BY DEF FoundSoFar, BestStates
      <4>2. Len(q) \in Nat
        BY <1>1, AvoidsFacts DEF Wanted
      <4>. QED  BY <4>1, <4>2
    <3>. QED  BY <3>2, <3>3, <3>4 DEF AsGood
  <2>. QED  BY <2>1, <2>2
<1>. QED  BY <1>1 DEF FoundSoFar

(* One adjacency: the pruning loses nothing.                               *)
LEMMA BestStep ==
    ASSUME NEW A, NEW to \in UdNode, NEW k \in Nat \ {0}, NEW C \in SUBSET UdNode, NEW beat \in Nat,
           NEW adjs \in Seq(UdNode), NEW i \in 1 .. Len(adjs), NEW h, SearchGood(A, to, k - 1, h),
           NEW P, FoundSoFar(A, to, k, C, beat, adjs, i - 1, P), NEW W,
           W = IF P.stop THEN P ELSE udg_shortest_path_df_adjs_cb(h, P, adjs[i], to, C)
    PROVE  FoundSoFar(A, to, k, C, beat, adjs, i, W)
<1>. DEFINE adj == adjs[i]
<1>1. /\ i \in Nat \ {0} /\ adj \in UdNode /\ adj \in ToSet(adjs) /\ h \in SearchFcns
      /\ P \in BestStates /\ P.spath \in Seq(UdNode) /\ Len(P.spath) \in Nat /\ P.beat \in Nat /\ P.stop \in BOOLEAN
      /\ P.spath = NoPath => P.beat = beat
      /\ P.spath # NoPath => P.beat = Len(P.spath) /\ \E x \in ToSet(adjs) : Avoids(A, P.spath, x, to, C)
      /\ P.stop => P.spath # NoPath /\ Len(P.spath) = 1
  <2>1. i \in Nat \ {0} /\ adj \in UdNode /\ i \in DOMAIN adjs
    OBVIOUS
  <2>2. adj \in ToSet(adjs)
    BY <2>1 DEF ToSet
  <2>. QED  BY <2>1, <2>2 DEF FoundSoFar, BestStates, SearchGood
<1>2. P.spath # NoPath => AsGood(P.spath, P.spath)
  BY <1>1 DEF AsGood
<1>3. ASSUME W = P, \A q : Wanted(A, q, adj, to, C, k, beat) => AsGood(P.spath, q)
      PROVE  FoundSoFar(A, to, k, C, beat, adjs, i, W)
  BY <1>1, <1>2, <1>3, BestGoesOn
<1>4. CASE P.stop
  <2>1. ASSUME NEW q, Wanted(A, q, adj, to, C, k, beat)  PROVE AsGood(P.spath, q)
    <3>1. Len(q) \in Nat /\ Len(q) >= 1
      BY <2>1, AvoidsFacts DEF Wanted
    <3>. QED  BY <1>1, <1>4, <3>1 DEF AsGood
  <2>. QED  BY <1>3, <1>4, <2>1
<1>5. CASE ~P.stop /\ adj \in C
  <2>1. W = P
    BY <1>5 DEF udg_shortest_path_df_adjs_cb
  <2>2. ASSUME NEW q, Wanted(A, q, adj, to, C, k, beat)  PROVE FALSE
    BY <1>5, <2>2, AvoidsFacts DEF Wanted
  <2>. QED  BY <1>3, <2>1, <2>2
<1>6. CASE ~P.stop /\ adj \notin C /\ adj = to
  <2>. DEFINE Q == [P EXCEPT !.stop = TRUE]
              s == <<adj>>
  <2>1. W = Better(Q, s)
    BY <1>6 DEF udg_shortest_path_df_adjs_cb
  <2>2. Q \in BestStates /\ Q.stop = TRUE /\ Q.spath = P.spath /\ Q.beat = P.beat
    BY <1>1, StoppedIs
  <2>3. Avoids(A, s, adj, to, C) /\ Len(s) = 1 /\ s # NoPath /\ s \in Seq(UdNode)
    BY <1>6, ArrivedAvoids
  <2>. HIDE DEF Q, s
  <2>4. /\ W \in BestStates /\ W.stop = Q.stop
        /\ \/ /\ s # NoPath /\ (Q.spath = NoPath \/ Len(s) < Len(Q.spath))
              /\ W.spath = s /\ W.beat = Len(s)
           \/ /\ s = NoPath \/ (Q.spath # NoPath /\ Len(Q.spath) <= Len(s))
              /\ W = Q
    BY <2>1, <2>2, <2>3, BetterIs
  <2>5. W.spath # NoPath /\ Len(W.spath) = 1 /\ W.beat = 1 /\ \E x \in ToSet(adjs) : Avoids(A, W.spath, x, to, C)
    <3>1. CASE W.spath = s /\ W.beat = Len(s)
      BY <1>1, <2>3, <3>1
    <3>2. CASE Q.spath # NoPath /\ Len(Q.spath) <= Len(s) /\ W = Q
      <4>1. PICK x \in ToSet(adjs) : Avoids(A, P.spath, x, to, C)
        BY <1>1, <2>2, <3>2
      <4>2. Len(P.spath) \in Nat /\ Len(P.spath) >= 1
        BY <4>1, AvoidsFacts
      <4>. QED  BY <1>1, <2>2, <2>3, <3>2, <4>1, <4>2
    <3>. QED  BY <2>3, <2>4, <3>1, <3>2
  <2>6. \A q : q \in Seq(UdNode) /\ Len(q) \in Nat /\ Len(q) >= 1 => AsGood(W.spath, q)
    BY <2>5 DEF AsGood
  <2>7. \A q : Wanted(A, q, adjs[i], to, C, k, beat) => AsGood(W.spath, q)
    BY <2>6, AvoidsFacts DEF Wanted
  <2>8. P.spath # NoPath => AsGood(W.spath, P.spath)
    <3>1. P.spath # NoPath => Len(P.spath) \in Nat /\ Len(P.spath) >= 1
      BY <1>1, AvoidsFacts
    <3>. QED  BY <1>1, <2>6, <3>1
  <2>. QED  BY <1>1, <2>4, <2>5, <2>7, <2>8, BestGoesOn
<1>7. CASE ~P.stop /\ adj \notin C /\ adj # to /\ Hopeless(P.beat)
  <2>1. W = P
    BY <1>7 DEF udg_shortest_path_df_adjs_cb
  <2>2. P.beat = 2
    BY <1>1, <1>7, BeatBelowIs
  <2>3. ASSUME NEW q, Wanted(A, q, adj, to, C, k, beat)  PROVE AsGood(P.spath, q)
    <3>1. Len(q) \in Nat /\ Len(q) >= 2 /\ (beat = 0 \/ Len(q) < beat)
      <4>1. Avoids(A, q, adj, to, C) /\ (beat = 0 \/ Len(q) < beat)
        BY <2>3 DEF Wanted
      <4>2. Len(q) \in Nat /\ Len(q) >= 1 /\ (Len(q) = 1 => adj = to)
        BY <4>1, AvoidsFacts
      <4>3. Len(q) # 1
        BY <1>7, <4>2
      <4>. DEFINE l == Len(q)
      <4>4. l \in Nat /\ l >= 1 /\ l # 1
        BY <4>2, <4>3
      <4>. HIDE DEF l
      <4>5. l >= 2
        BY <4>4
      <4>. QED  BY <4>1, <4>2, <4>5 DEF l
    <3>2. P.spath # NoPath
      BY <1>1, <2>2, <3>1
    <3>. QED  BY <1>1, <2>2, <3>1, <3>2 DEF AsGood
  <2>. QED  BY <1>3, <2>1, <2>3
<1>8. CASE ~P.stop /\ adj \notin C /\ adj # to /\ ~Hopeless(P.beat)
  <2>. DEFINE b == BeatBelow(P.beat)
              s == h[adj][C][b]
  <2>1. W = Better(P, s)
    BY <1>8 DEF udg_shortest_path_df_adjs_cb
  <2>2. b \in Nat /\ (P.beat # 0 => b = P.beat - 1) /\ (P.beat = 0 => b = 0)
    BY <1>1, BeatBelowIs
  <2>3. Answers(A, to, k - 1, adj, C, b, s)
    BY <1>1, <1>8, <2>2 DEF SearchGood
  <2>4. s \in Seq(UdNode)
    <3>1. h[adj] \in [SUBSET UdNode -> [Nat -> Seq(UdNode)]]
      BY <1>1 DEF SearchFcns
    <3>2. h[adj][C] \in [Nat -> Seq(UdNode)]
      BY <3>1
    <3>. QED  BY <2>2, <3>2
  <2>. HIDE DEF b, s
  <2>5. /\ W \in BestStates /\ W.stop = P.stop
        /\ \/ /\ s # NoPath /\ (P.spath = NoPath \/ Len(s) < Len(P.spath))
              /\ W.spath = s /\ W.beat = Len(s)
           \/ /\ s = NoPath \/ (P.spath # NoPath /\ Len(P.spath) <= Len(s))
              /\ W = P
    BY <1>1, <2>1, <2>4, BetterIs
  <2>6. Len(s) \in Nat
    BY <2>4
  <2>7. s # NoPath => AsGood(W.spath, s)
    BY <1>1, <2>5, <2>6 DEF AsGood
  <2>8. P.spath # NoPath => AsGood(W.spath, P.spath)
    BY <1>1, <2>5, <2>6 DEF AsGood
  <2>9. /\ W.spath = NoPath => W.beat = beat
        /\ W.spath # NoPath => W.beat = Len(W.spath) /\ \E x \in ToSet(adjs) : Avoids(A, W.spath, x, to, C)
    <3>1. CASE W.spath = s /\ W.beat = Len(s) /\ s # NoPath
      BY <1>1, <2>3, <3>1 DEF Answers
    <3>2. CASE W = P
      BY <1>1, <3>2
    <3>. QED  BY <2>5, <3>1, <3>2
  <2>10. ASSUME NEW q, Wanted(A, q, adj, to, C, k, beat)  PROVE AsGood(W.spath, q)
    <3>1. Avoids(A, q, adj, to, C) /\ Len(q) <= k /\ (beat = 0 \/ Len(q) < beat) /\ Len(q) \in Nat
      BY <2>10, AvoidsFacts DEF Wanted
    <3>2. W.spath \in Seq(UdNode) /\ Len(W.spath) \in Nat
      BY <2>5 DEF BestStates
    <3>3. CASE P.spath # NoPath /\ Len(P.spath) <= Len(q)
      BY <1>1, <2>8, <3>1, <3>2, <3>3 DEF AsGood
    <3>4. CASE P.spath = NoPath \/ Len(q) < Len(P.spath)
      <4>1. P.beat = 0 \/ Len(q) < P.beat
        BY <1>1, <3>1, <3>4
      <4>2. Len(q) <= (k - 1) + 1 /\ (b = 0 \/ Len(q) < b + 1)
        BY <1>1, <2>2, <3>1, <4>1
      <4>3. Wanted(A, q, adj, to, C, (k - 1) + 1, IF b = 0 THEN 0 ELSE b + 1)
        BY <3>1, <4>2 DEF Wanted
      <4>4. AsGood(s, q)
        BY <1>8, <2>3, <4>3 DEF Answers
      <4>. QED  BY <2>6, <2>7, <3>1, <3>2, <4>4 DEF AsGood
    <3>. QED  BY <1>1, <3>1, <3>3, <3>4
  <2>11. W.stop => W.spath # NoPath /\ Len(W.spath) = 1
    BY <1>8, <2>5
  <2>. QED  BY <1>1, <2>5, <2>8, <2>9, <2>10, <2>11, BestGoesOn
<1>. QED  BY <1>4, <1>5, <1>6, <1>7, <1>8

\* All the adjacencies of n.
LEMMA BestBelowIs ==
    ASSUME NEW A, NEW to \in UdNode, NEW k \in Nat \ {0}, NEW C \in SUBSET UdNode, NEW beat \in Nat,
           NEW adjs \in Seq(UdNode), NEW h, SearchGood(A, to, k - 1, h), NEW R, R = BestBelow(h, adjs, to, C, beat)
    PROVE  /\ R \in Seq(UdNode)
           /\ R # NoPath => \E x \in ToSet(adjs) : Avoids(A, R, x, to, C)
           /\ \A x \in ToSet(adjs) : \A q : Wanted(A, q, x, to, C, k, beat) => AsGood(R, q)
<1>. DEFINE L == Len(adjs)
<1>0. L \in Nat /\ L \in 0 .. L /\ DOMAIN adjs = 1 .. L /\ h \in SearchFcns
  BY DEF SearchGood
<1>1. PICK f : /\ R = f[L].spath
               /\ f[0] = [spath |-> NoPath, beat |-> beat, stop |-> FALSE]
               /\ \A i \in 0 .. L : f[i] \in BestStates
               /\ \A i \in 1 .. L :
                    f[i] = IF f[i - 1].stop THEN f[i - 1]
                           ELSE udg_shortest_path_df_adjs_cb(h, f[i - 1], adjs[i], to, C)
  BY <1>0, BestLoop
<1>. DEFINE P == {i \in 0 .. L : FoundSoFar(A, to, k, C, beat, adjs, i, f[i])}
<1>2. 0 \in P
  <2>1. f[0] \in BestStates /\ f[0].spath = NoPath /\ f[0].beat = beat /\ f[0].stop = FALSE /\ 0 \in 0 .. L
    BY <1>0, <1>1
  <2>2. FoundSoFar(A, to, k, C, beat, adjs, 0, f[0])
    BY <2>1 DEF FoundSoFar
  <2>. QED  BY <2>1, <2>2
<1>3. ASSUME NEW i \in 1 .. L, i - 1 \in P  PROVE i \in P
  <2>1. FoundSoFar(A, to, k, C, beat, adjs, i - 1, f[i - 1]) /\ i \in 0 .. L
    BY <1>0, <1>3
  <2>2. f[i] = IF f[i - 1].stop THEN f[i - 1] ELSE udg_shortest_path_df_adjs_cb(h, f[i - 1], adjs[i], to, C)
    BY <1>1
  <2>3. FoundSoFar(A, to, k, C, beat, adjs, i, f[i])
    BY <2>1, <2>2, BestStep
  <2>. QED  BY <2>1, <2>3
<1>4. FoundSoFar(A, to, k, C, beat, adjs, L, f[L])
  <2>. HIDE DEF L, P
  <2>1. L \in P
    BY <1>0, <1>2, <1>3, UpTo
  <2>. QED  BY <2>1 DEF P
<1>5. R \in Seq(UdNode) /\ (R # NoPath => \E x \in ToSet(adjs) : Avoids(A, R, x, to, C))
  BY <1>1, <1>4 DEF FoundSoFar, BestStates
<1>6. ASSUME NEW x \in ToSet(adjs), NEW q, Wanted(A, q, x, to, C, k, beat)  PROVE AsGood(R, q)
  <2>1. PICK j \in 1 .. L : x = adjs[j]
    BY <1>0 DEF ToSet
  <2>. QED  BY <1>1, <1>4, <1>6, <2>1 DEF FoundSoFar
<1>. QED  BY <1>5, <1>6

\* A call, in terms of the calls below it.
LEMMA AnswersOnce ==
    ASSUME NEW A \in AdjSets, NEW to \in UdNode, NEW k \in Nat \ {0}, NEW h, SearchGood(A, to, k - 1, h),
           NEW n \in UdNode, NEW X \in SUBSET UdNode, n \notin X, NEW beat \in Nat,
           NEW R, R = Prepended(n, BestBelow(h, Ascending[A[n]], to, X \cup {n}, beat))
    PROVE  Answers(A, to, k, n, X, beat, R) /\ R \in Seq(UdNode)
<1>. DEFINE C == X \cup {n}
            adjs == Ascending[A[n]]
            r == BestBelow(h, adjs, to, C, beat)
<1>1. A[n] \in SUBSET UdNode /\ C \in SUBSET UdNode
  BY DEF AdjSets
<1>2. adjs \in Seq(UdNode) /\ ToSet(adjs) = A[n]
  BY <1>1, AscendingIs DEF Lists1
<1>3. /\ r \in Seq(UdNode)
      /\ r # NoPath => \E x \in A[n] : Avoids(A, r, x, to, C)
      /\ \A x \in A[n] : \A q : Wanted(A, q, x, to, C, k, beat) => AsGood(r, q)
  <2>. HIDE DEF C, adjs
  <2>1. /\ r \in Seq(UdNode)
        /\ r # NoPath => \E x \in ToSet(adjs) : Avoids(A, r, x, to, C)
        /\ \A x \in ToSet(adjs) : \A q : Wanted(A, q, x, to, C, k, beat) => AsGood(r, q)
    <3>1. C \in SUBSET UdNode /\ adjs \in Seq(UdNode)
      BY <1>1, <1>2
    <3>. QED  BY <3>1, BestBelowIs
  <2>. QED  BY <1>2, <2>1
<1>4. R = IF r = NoPath THEN NoPath ELSE <<n>> \o r
  BY DEF Prepended
<1>. HIDE DEF adjs, r
<1>5. ASSUME r # NoPath
      PROVE  Avoids(A, R, n, to, X) /\ Len(R) = Len(r) + 1 /\ Len(R) >= 2 /\ R # NoPath /\ R \in Seq(UdNode)
  <2>1. PICK x \in A[n] : Avoids(A, r, x, to, C)
    BY <1>3, <1>5
  <2>2. Leads(A, r, x, to) /\ R = <<n>> \o r
    BY <1>4, <1>5, <2>1 DEF Avoids
  <2>3. IsBefore(A, n, r, to, R)
    BY <2>2, PrependedIs
  <2>4. IsInjective(r) /\ ToSet(r) \cap C = {}
    BY <2>1 DEF Avoids
  <2>5. Leads(A, R, n, to) /\ Len(R) = Len(r) + 1 /\ ToSet(R) = {n} \cup ToSet(r) /\ IsInjective(R)
    BY <2>3, <2>4 DEF IsBefore
  <2>6. R \in Seq(UdNode) /\ R # << >>
    BY <2>5 DEF Leads
  <2>7. Len(r) \in Nat /\ Len(r) >= 1
    BY <2>1, AvoidsFacts
  <2>8. Avoids(A, R, n, to, X)
    BY <2>4, <2>5 DEF Avoids
  <2>9. Len(R) >= 2
    BY <2>5, <2>7
  <2>. QED  BY <2>5, <2>6, <2>8, <2>9 DEF NoPath
<1>6. R \in Seq(UdNode)
  <2>1. CASE r = NoPath
    <3>1. R = << >>
      BY <1>4, <2>1 DEF NoPath
    <3>2. << >> \in Seq(UdNode)
      OBVIOUS
    <3>. QED  BY <3>1, <3>2, Zenon
  <2>2. CASE r # NoPath
    BY <1>5, <2>2
  <2>. QED  BY <2>1, <2>2
<1>7. ASSUME n # to, NEW p, Wanted(A, p, n, to, X, k + 1, IF beat = 0 THEN 0 ELSE beat + 1)
      PROVE  AsGood(R, p)
  <2>. DEFINE q == Tail(p)
  <2>1. Avoids(A, p, n, to, X) /\ Len(p) <= k + 1 /\ (beat = 0 \/ Len(p) < beat + 1)
    BY <1>7 DEF Wanted
  <2>2. Avoids(A, q, p[2], to, C) /\ p[2] \in A[n] /\ Len(q) = Len(p) - 1 /\ Len(p) \in Nat /\ Len(p) >= 2
    BY <1>7, <2>1, TailAvoids
  <2>. HIDE DEF q
  <2>3. Len(q) <= k /\ (beat = 0 \/ Len(q) < beat)
    BY <2>1, <2>2
  <2>4. Wanted(A, q, p[2], to, C, k, beat)
    BY <2>2, <2>3 DEF Wanted
  <2>5. r # NoPath /\ Len(r) <= Len(q)
    BY <1>3, <2>2, <2>4 DEF AsGood
  <2>6. Len(r) \in Nat
    BY <1>3
  <2>. QED  BY <1>5, <2>2, <2>5, <2>6 DEF AsGood
<1>8. R # NoPath => Avoids(A, R, n, to, X) /\ Len(R) >= 2
  BY <1>4, <1>5
<1>. QED  BY <1>6, <1>7, <1>8 DEF Answers

\* The calls, by the depth they may nest to.
CallsAt(A, to, i, h) ==
    [n \in UdNode |-> [curr \in SUBSET UdNode |-> [beat \in Nat |->
       IF i = 0 THEN NoPath ELSE Prepended(n, BestBelow(h, Ascending[A[n]], to, curr \cup {n}, beat))]]]

\* Prepended returns a sequence of nodes.
LEMMA PrependedType ==
    ASSUME NEW n \in UdNode, NEW p \in Seq(UdNode)
    PROVE  Prepended(n, p) \in Seq(UdNode)
BY DEF Prepended, NoPath

\* Calls return sequences of nodes.
LEMMA CallsType ==
    ASSUME NEW A \in AdjSets, NEW to \in UdNode, NEW i \in Nat, NEW h \in SearchFcns
    PROVE  CallsAt(A, to, i, h) \in SearchFcns
<1>1. ASSUME NEW n \in UdNode, NEW X \in SUBSET UdNode, NEW beat \in Nat
      PROVE  Prepended(n, BestBelow(h, Ascending[A[n]], to, X \cup {n}, beat)) \in Seq(UdNode)
  <2>. DEFINE C == X \cup {n}
              adjs == Ascending[A[n]]
  <2>1. A[n] \in SUBSET UdNode /\ C \in SUBSET UdNode
    BY DEF AdjSets
  <2>2. adjs \in Seq(UdNode) /\ Len(adjs) \in Nat /\ Len(adjs) \in 0 .. Len(adjs)
    BY <2>1, AscendingIs DEF Lists1
  <2>. HIDE DEF C, adjs
  <2>3. BestBelow(h, adjs, to, C, beat) \in Seq(UdNode)
    <3>1. PICK f : /\ BestBelow(h, adjs, to, C, beat) = f[Len(adjs)].spath
                   /\ f[0] = [spath |-> NoPath, beat |-> beat, stop |-> FALSE]
                   /\ \A j \in 0 .. Len(adjs) : f[j] \in BestStates
                   /\ \A j \in 1 .. Len(adjs) :
                        f[j] = IF f[j - 1].stop THEN f[j - 1]
                               ELSE udg_shortest_path_df_adjs_cb(h, f[j - 1], adjs[j], to, C)
      BY <2>1, <2>2, BestLoop, SMTT(30)
    <3>. QED  BY <2>2, <3>1 DEF BestStates
  <2>. QED  BY <2>3, PrependedType DEF C, adjs
<1>2. NoPath \in Seq(UdNode)
  BY DEF NoPath
<1>. QED  BY <1>1, <1>2 DEF CallsAt, SearchFcns

(* Calls that may nest to depth k find every path of up to k edges.        *)
LEMMA CallsAreGood ==
    ASSUME NEW A \in AdjSets, NEW to \in UdNode, NEW N \in Nat, NEW f,
           f[0] = CallsAt(A, to, 0, f[0]),
           \A i \in 0 .. N : f[i] \in SearchFcns,
           \A i \in 1 .. N : f[i] = CallsAt(A, to, i, f[i - 1])
    PROVE  SearchGood(A, to, N, f[N])
<1>. DEFINE P == {i \in 0 .. N : SearchGood(A, to, i, f[i])}
<1>1. 0 \in P
  <2>1. \A n \in UdNode, X \in SUBSET UdNode, beat \in Nat : f[0][n][X][beat] = NoPath
    BY DEF CallsAt
  <2>2. ASSUME NEW n \in UdNode, n # to, NEW X, NEW b, NEW p, Wanted(A, p, n, to, X, 0 + 1, b)  PROVE FALSE
    <3>1. Avoids(A, p, n, to, X) /\ Len(p) <= 1
      BY <2>2 DEF Wanted
    <3>2. Len(p) >= 2 /\ Len(p) \in Nat
      BY <2>2, <3>1, TailAvoids
    <3>. QED  BY <3>1, <3>2
  <2>3. \A n \in UdNode, X \in SUBSET UdNode, beat \in Nat : Answers(A, to, 0, n, X, beat, f[0][n][X][beat])
    BY <2>1, <2>2 DEF Answers
  <2>4. 0 \in 0 .. N
    OBVIOUS
  <2>. QED  BY <2>3, <2>4 DEF SearchGood
<1>2. ASSUME NEW i \in 1 .. N, i - 1 \in P  PROVE i \in P
  <2>1. SearchGood(A, to, i - 1, f[i - 1]) /\ i \in 0 .. N /\ i \in Nat \ {0} /\ f[i] \in SearchFcns
    BY <1>2
  <2>2. ASSUME NEW n \in UdNode, NEW X \in SUBSET UdNode, NEW beat \in Nat, n \notin X
        PROVE  Answers(A, to, i, n, X, beat, f[i][n][X][beat])
    <3>1. f[i][n][X][beat] = Prepended(n, BestBelow(f[i - 1], Ascending[A[n]], to, X \cup {n}, beat))
      <4>1. f[i] = CallsAt(A, to, i, f[i - 1]) /\ i # 0
        BY <2>1
      <4>. QED  BY <4>1 DEF CallsAt
    <3>. QED  BY <2>1, <2>2, <3>1, AnswersOnce
  <2>3. SearchGood(A, to, i, f[i])
    BY <2>1, <2>2 DEF SearchGood
  <2>. QED  BY <2>1, <2>3
<1>3. N \in P
  <2>1. N \in 0 .. N
    OBVIOUS
  <2>. HIDE DEF P
  <2>. QED  BY <1>1, <1>2, <2>1, UpTo
<1>. QED  BY <1>3

\* What the outermost call returns.
LEMMA DfSearch ==
    ASSUME n_adjs \in AdjSets, NEW from \in UdNode, NEW to \in UdNode
    PROVE  Answers(n_adjs, to, Cardinality(UdNode), from, {}, 0, _udg_shortest_path_df(from, to))
<1>. DEFINE N == Cardinality(UdNode)
            D == SearchFcns
            Calls(i, h) == [n \in UdNode |-> [curr \in SUBSET UdNode |-> [beat \in Nat |->
                              IF i = 0 THEN NoPath
                              ELSE Prepended(n, BestBelow(h, Ascending[n_adjs[n]], to, curr \cup {n}, beat))]]]
            a == [n \in UdNode |-> [curr \in SUBSET UdNode |-> [beat \in Nat |-> NoPath]]]
            F == [i \in Nat |-> [h \in D |-> Calls(i, h)]]
            Solves(f) == f = [i \in 0 .. N |-> Calls(i, f[i - 1])]
<1>0. N \in Nat /\ N \in 0 .. N
  BY NodeCount
<1>1. a \in D
  BY DEF SearchFcns, NoPath
<1>2. \A h : Calls(0, h) = a
  OBVIOUS
<1>3. \A i, h : Calls(i, h) = CallsAt(n_adjs, to, i, h)
  BY DEF CallsAt
<1>4. \A i \in Nat, h \in D : Calls(i, h) \in D
  <2>. HIDE DEF Calls
  <2>. QED  BY <1>3, CallsType
<1>. HIDE DEF N, D, a, Calls
<1>5. F \in [Nat -> [D -> D]]
  BY <1>4
<1>6. PICK g \in [0 .. N -> D] : Iterates(g, a, F, N)
  <2>. HIDE DEF F
  <2>. QED  BY <1>0, <1>1, <1>5, Iterated
<1>7. Solves(g)
  <2>1. g[0] = Calls(0, g[0 - 1])
    BY <1>2, <1>6 DEF Iterates
  <2>2. ASSUME NEW i \in 1 .. N  PROVE g[i] = Calls(i, g[i - 1])
    <3>1. i \in Nat /\ g[i - 1] \in D
      BY <1>0, <1>6
    <3>. QED  BY <1>6, <3>1 DEF Iterates
  <2>3. \A i \in 0 .. N : g[i] = Calls(i, g[i - 1])
    BY <1>0, <2>1, <2>2
  <2>. QED  BY <1>6, <2>3
<1>. DEFINE f == CHOOSE f : Solves(f)
<1>8. Solves(f)
  <2>. HIDE DEF Solves
  <2>. QED  BY <1>7
<1>9. _udg_shortest_path_df(from, to) = f[N][from][{}][0]
  BY DEF _udg_shortest_path_df, N, Calls
<1>. HIDE DEF f
<1>10. f[0] = a /\ \A i \in 1 .. N : f[i] = Calls(i, f[i - 1])
  BY <1>0, <1>2, <1>8
<1>. HIDE DEF Solves, F
<1>11. \A i \in 0 .. N : f[i] \in D
  <2>1. \A i \in 1 .. N : f[i - 1] \in D => f[i] \in D
    BY <1>0, <1>4, <1>10
  <2>. QED  BY <1>0, <1>1, <1>10, <2>1, StaysIn
<1>12. SearchGood(n_adjs, to, N, f[N])
  <2>1. f[0] = CallsAt(n_adjs, to, 0, f[0])
    BY <1>2, <1>3, <1>10
  <2>2. \A i \in 1 .. N : f[i] = CallsAt(n_adjs, to, i, f[i - 1])
    BY <1>3, <1>10
  <2>. QED  BY <1>0, <1>11, <2>1, <2>2, CallsAreGood DEF D
<1>13. {} \in SUBSET UdNode /\ 0 \in Nat /\ from \notin {}
  OBVIOUS
<1>. QED  BY <1>9, <1>12, <1>13 DEF SearchGood, N

(* The depth-first search returns a shortest path, if there is one.        *)
LEMMA DfPathIs ==
    ASSUME n_adjs \in AdjSets, NEW from \in UdNode, NEW to \in UdNode, NEW d, Measures(n_adjs, from, d)
    PROVE  ShortestIs(n_adjs, from, to, d, _udg_shortest_path_df(from, to))
<1>. DEFINE N == Cardinality(UdNode)
            R == _udg_shortest_path_df(from, to)
            A == n_adjs
<1>1. Answers(A, to, N, from, {}, 0, R)
  BY DfSearch
<1>. HIDE DEF N, R, A
<1>2. N \in Nat
  BY NodeCount DEF N
<1>3. ASSUME R # NoPath
      PROVE  Leads(A, R, from, to) /\ to \in DOMAIN d /\ d[to] <= Len(R) - 1 /\ Len(R) \in Nat /\ from # to
  <2>1. Avoids(A, R, from, to, {}) /\ Len(R) >= 2
    BY <1>1, <1>3 DEF Answers
  <2>2. Leads(A, R, from, to) /\ Len(R) \in Nat /\ IsInjective(R)
    BY <2>1, AvoidsFacts DEF Avoids
  <2>3. to \in DOMAIN d /\ d[to] <= Len(R) - 1
    BY <2>2, WayIsAsLong DEF A
  <2>4. from # to
    <3>1. R \in Seq(UdNode) /\ R[1] = from /\ R[Len(R)] = to
      BY <2>2 DEF Leads
    <3>2. DOMAIN R = 1 .. Len(R) /\ 1 \in 1 .. Len(R) /\ Len(R) \in 1 .. Len(R) /\ Len(R) # 1
      BY <2>1, <2>2, <3>1
    <3>. QED  BY <2>2, <3>1, <3>2 DEF IsInjective
  <2>. QED  BY <2>2, <2>3, <2>4
<1>4. CASE to \notin DOMAIN d \ {from}
  BY <1>3, <1>4 DEF ShortestIs, R, A
<1>5. CASE to \in DOMAIN d \ {from}
  <2>1. PICK p : Leads(A, p, from, to) /\ IsInjective(p) /\ Len(p) = 1 + d[to]
    BY <1>5, BfPathIs DEF A
  <2>2. d[to] \in Nat /\ d[to] <= N
    BY <1>2, <1>5 DEF Measures, N
  <2>3. Wanted(A, p, from, to, {}, N + 1, 0)
    <3>1. ToSet(p) \cap {} = {}
      OBVIOUS
    <3>2. Len(p) <= N + 1
      BY <1>2, <2>1, <2>2
    <3>. QED  BY <2>1, <3>1, <3>2 DEF Wanted, Avoids
  <2>4. AsGood(R, p)
    <3>1. \A q : Wanted(A, q, from, to, {}, N + 1, IF 0 = 0 THEN 0 ELSE 0 + 1) => AsGood(R, q)
      BY <1>1, <1>5 DEF Answers
    <3>. QED  BY <2>3, <3>1
  <2>5. R # NoPath /\ Len(R) <= Len(p)
    BY <2>4 DEF AsGood
  <2>6. Leads(A, R, from, to) /\ Len(R) = 1 + d[to]
    BY <1>3, <2>1, <2>2, <2>5
  <2>. QED  BY <1>5, <2>6 DEF ShortestIs, R, A
<1>. QED  BY <1>4, <1>5

-----------------------------------------------------------------------------
(* The depth-first traversal                                               *)

VisitFcns == [Visits -> [UdNode -> Visits]]

\* The types of the parts of a Visits.
LEMMA VisitFacts ==
    ASSUME NEW V \in Visits
    PROVE  /\ V.visited \subseteq UdNode /\ V.seen \in Seq(UdNode) /\ V.stop \in BOOLEAN
           /\ Len(V.seen) \in Nat /\ DOMAIN V.seen = 1 .. Len(V.seen)
<1>1. V.visited \subseteq UdNode /\ V.seen \in Seq(UdNode) /\ V.stop \in BOOLEAN
  BY DEF Visits
<1>. QED  BY <1>1

\* Marking changes nothing else.
LEMMA MarkedIs ==
    ASSUME NEW V \in Visits, NEW n \in UdNode, NEW M, M = [V EXCEPT !.visited = @ \cup {n}]
    PROVE  M \in Visits /\ M.visited = V.visited \cup {n} /\ M.seen = V.seen /\ M.stop = V.stop
<1>1. M.visited = V.visited \cup {n} /\ M.seen = V.seen /\ M.stop = V.stop
  BY DEF Visits
<1>2. V.visited \cup {n} \in SUBSET UdNode
  BY VisitFacts
<1>3. M \in Visits
  BY <1>2, Zenon DEF Visits
<1>. QED  BY <1>1, <1>3

\* n is the last that was given, and the traversal stops there if it is last.
LEMMA GivenIs ==
    ASSUME NEW V \in Visits, NEW n \in UdNode, NEW last, NEW R,
           R = Given(V, n, last)
    PROVE  R \in Visits /\ R.visited = V.visited /\ R.seen = Append(V.seen, n) /\ (R.stop <=> n = last)
<1>1. Append(V.seen, n) \in Seq(UdNode)
  BY VisitFacts, Appended
<1>2. CASE n = last
  <2>1. (n = last) = TRUE
    BY <1>2
  <2>2. R = [V EXCEPT !.seen = Append(@, n), !.stop = TRUE]
    BY <2>1, Zenon DEF Given
  <2>3. R \in Visits
    BY <1>1, <2>2, Zenon DEF Visits
  <2>. QED  BY <1>2, <2>2, <2>3 DEF Visits
<1>3. CASE n # last
  <2>1. (n = last) = FALSE
    BY <1>3
  <2>2. R = [V EXCEPT !.seen = Append(@, n), !.stop = FALSE]
    BY <2>1, Zenon DEF Given
  <2>3. R \in Visits
    BY <1>1, <2>2, Zenon DEF Visits
  <2>. QED  BY <1>3, <2>2, <2>3 DEF Visits
<1>. QED  BY <1>2, <1>3

\* at_iterate over the adjacencies, one after another.
LEMMA AdjsLoop ==
    ASSUME NEW h \in VisitFcns, NEW adjs \in Seq(UdNode), NEW V \in Visits
    PROVE  \E f : /\ _udg_iterate_df_adjs(h, V, adjs) = f[Len(adjs)]
                  /\ f[0] = V
                  /\ \A i \in 0 .. Len(adjs) : f[i] \in Visits
                  /\ \A i \in 1 .. Len(adjs) : f[i] = IF f[i - 1].stop THEN f[i - 1] ELSE h[f[i - 1]][adjs[i]]
<1>. DEFINE N == Len(adjs)
            Step(i, P) == IF P.stop THEN P ELSE h[P][adjs[i]]
            F == [i \in Nat |-> [P \in Visits |-> IF i \in 1 .. N THEN Step(i, P) ELSE P]]
            Solves(f) == f = [i \in 0 .. N |-> IF i = 0 THEN V ELSE Step(i, f[i - 1])]
<1>0. N \in Nat /\ \A i \in 1 .. N : adjs[i] \in UdNode
  OBVIOUS
<1>2. ASSUME NEW i \in 1 .. N, NEW P \in Visits  PROVE Step(i, P) \in Visits
  <2>1. h[P] \in [UdNode -> Visits]
    BY DEF VisitFcns
  <2>. QED  BY <1>0, <2>1
<1>. HIDE DEF N, Step
<1>3. F \in [Nat -> [Visits -> Visits]]
  BY <1>2
<1>4. PICK g \in [0 .. N -> Visits] : Iterates(g, V, F, N)
  <2>. HIDE DEF F
  <2>. QED  BY <1>0, <1>3, Iterated
<1>5. Solves(g)
  <2>1. g[0] = V
    BY <1>4 DEF Iterates
  <2>2. ASSUME NEW i \in 1 .. N  PROVE g[i] = Step(i, g[i - 1])
    <3>1. i \in Nat /\ g[i - 1] \in Visits
      BY <1>0, <1>4
    <3>. QED  BY <1>4, <3>1 DEF Iterates
  <2>. QED  BY <1>0, <1>4, <2>1, <2>2
<1>. DEFINE f == CHOOSE f : Solves(f)
<1>6. Solves(f)
  <2>. HIDE DEF Solves
  <2>. QED  BY <1>5
<1>7. _udg_iterate_df_adjs(h, V, adjs) = f[N]
  BY DEF _udg_iterate_df_adjs, N, Step
<1>. HIDE DEF f
<1>8. f[0] = V /\ \A i \in 1 .. N : f[i] = Step(i, f[i - 1])
  BY <1>0, <1>6
<1>. HIDE DEF Solves, F
<1>9. \A i \in 0 .. N : f[i] \in Visits
  BY <1>0, <1>2, <1>8, StaysIn
<1>. QED  BY <1>7, <1>8, <1>9 DEF N, Step

\* A call returns one of these.
LEMMA VisitedType ==
    ASSUME n_adjs \in AdjSets, NEW h \in VisitFcns, NEW V \in Visits, NEW n \in UdNode, NEW last
    PROVE  Visited(h, V, n, last) \in Visits
<1>. DEFINE M == [V EXCEPT !.visited = @ \cup {n}]
            adjs == Ascending[n_adjs[n]]
            below == _udg_iterate_df_adjs(h, M, adjs)
            R == Given(below, n, last)
<1>1. M \in Visits
  BY MarkedIs
<1>2. adjs \in Seq(UdNode) /\ Len(adjs) \in Nat /\ Len(adjs) \in 0 .. Len(adjs)
  <2>1. n_adjs[n] \in SUBSET UdNode
    BY DEF AdjSets
  <2>. QED  BY <2>1, AscendingIs DEF Lists1
<1>3. Visited(h, V, n, last) = IF n \in V.visited THEN V ELSE IF below.stop THEN below ELSE R
  BY DEF Visited
<1>. HIDE DEF M, adjs
<1>4. below \in Visits
  <2>1. PICK f : /\ _udg_iterate_df_adjs(h, M, adjs) = f[Len(adjs)]
                 /\ f[0] = M
                 /\ \A i \in 0 .. Len(adjs) : f[i] \in Visits
                 /\ \A i \in 1 .. Len(adjs) : f[i] = IF f[i - 1].stop THEN f[i - 1] ELSE h[f[i - 1]][adjs[i]]
    BY <1>1, <1>2, AdjsLoop
  <2>. QED  BY <1>2, <2>1
<1>. HIDE DEF below
<1>5. R \in Visits
  BY <1>4, GivenIs
<1>. HIDE DEF R
<1>. QED  BY <1>3, <1>4, <1>5

\* What a traversal between V and R has done: it has gone to nodes of K, has given
\* none twice and, unless it stopped at last, has given all of those and gone to
\* all their neighbours; each is in T or has a later neighbour.
VisitOK(V) == V \in Visits /\ IsInjective(V.seen) /\ ToSet(V.seen) \subseteq V.visited
New(V, R) == Len(V.seen) + 1 .. Len(R.seen)
Finished(A, last, T, V, R) ==
    /\ \A x \in R.visited \ V.visited : \E i \in New(V, R) : R.seen[i] = x
    /\ \A i \in New(V, R) :
         /\ R.seen[i] # last /\ A[R.seen[i]] \subseteq R.visited
         /\ R.seen[i] \in T \/ \E j \in i + 1 .. Len(R.seen) : R.seen[j] \in A[R.seen[i]]
Went(A, last, K, T, V, R) ==
    /\ VisitOK(R) /\ V.visited \subseteq R.visited /\ R.visited \ V.visited \subseteq K
    /\ Len(V.seen) <= Len(R.seen) /\ \A i \in 1 .. Len(V.seen) : R.seen[i] = V.seen[i]
    /\ \A i \in New(V, R) : R.seen[i] \in R.visited \ V.visited
    /\ R.stop => R.seen # << >> /\ Last(R.seen) = last
    /\ ~R.stop => Finished(A, last, T, V, R)

\* Nothing.
LEMMA StayedThere ==
    ASSUME NEW A, NEW last, NEW K, NEW T, NEW V, VisitOK(V), ~V.stop
    PROVE  Went(A, last, K, T, V, V)
<1>1. Len(V.seen) \in Nat
  BY VisitFacts DEF VisitOK
<1>2. New(V, V) = {}
  BY <1>1 DEF New
<1>. QED  BY <1>1, <1>2 DEF Went, Finished

(* One after the other.                                                    *)
LEMMA WentOn ==
    ASSUME NEW A, NEW last, NEW K, NEW T, NEW S, S \subseteq T,
           NEW V, VisitOK(V), NEW W, Went(A, last, K, T, V, W), ~W.stop, NEW R, Went(A, last, K, S, W, R)
    PROVE  Went(A, last, K, T, V, R)
<1>. DEFINE a == Len(V.seen)
            b == Len(W.seen)
            c == Len(R.seen)
<1>1. V \in Visits /\ W \in Visits /\ VisitOK(R) /\ R \in Visits
  BY DEF Went, VisitOK
<1>2. a \in Nat /\ b \in Nat /\ c \in Nat /\ a <= b /\ b <= c
  BY <1>1, VisitFacts DEF Went
<1>3. /\ \A i \in 1 .. a : W.seen[i] = V.seen[i]
      /\ \A i \in 1 .. b : R.seen[i] = W.seen[i]
      /\ V.visited \subseteq W.visited /\ W.visited \subseteq R.visited
      /\ W.visited \ V.visited \subseteq K /\ R.visited \ W.visited \subseteq K
      /\ \A i \in a + 1 .. b : W.seen[i] \in W.visited \ V.visited
      /\ \A i \in b + 1 .. c : R.seen[i] \in R.visited \ W.visited
  BY DEF Went, New
<1>4. R.stop => R.seen # << >> /\ Last(R.seen) = last
  BY DEF Went
<1>5. /\ \A x \in W.visited \ V.visited : \E i \in a + 1 .. b : W.seen[i] = x
      /\ \A i \in a + 1 .. b :
         /\ W.seen[i] # last /\ A[W.seen[i]] \subseteq W.visited
         /\ W.seen[i] \in T \/ \E j \in i + 1 .. b : W.seen[j] \in A[W.seen[i]]
  BY DEF Went, Finished, New
<1>6. ~R.stop =>
      /\ \A x \in R.visited \ W.visited : \E i \in b + 1 .. c : R.seen[i] = x
      /\ \A i \in b + 1 .. c :
         /\ R.seen[i] # last /\ A[R.seen[i]] \subseteq R.visited
         /\ R.seen[i] \in S \/ \E j \in i + 1 .. c : R.seen[j] \in A[R.seen[i]]
  BY DEF Went, Finished, New
<1>. DEFINE I == a + 1 .. c
<1>7. New(V, R) = I
  BY DEF New
<1>. HIDE DEF a, b, c
<1>8. \A i \in I : (i \in a + 1 .. b /\ R.seen[i] = W.seen[i]) \/ i \in b + 1 .. c
  BY <1>2, <1>3
<1>9. a <= c /\ \A i \in 1 .. a : R.seen[i] = V.seen[i]
  BY <1>2, <1>3
<1>10. \A i \in I : R.seen[i] \in R.visited \ V.visited
  BY <1>3, <1>8
<1>11. V.visited \subseteq R.visited /\ R.visited \ V.visited \subseteq K
  BY <1>3
<1>12. ASSUME ~R.stop  PROVE Finished(A, last, T, V, R)
  <2>1. ASSUME NEW x \in R.visited \ V.visited  PROVE \E i \in I : R.seen[i] = x
    <3>1. CASE x \in W.visited
      <4>1. PICK i \in a + 1 .. b : W.seen[i] = x
        BY <1>5, <2>1, <3>1
      <4>2. i \in I /\ R.seen[i] = x
        BY <1>2, <1>3, <4>1
      <4>. QED  BY <4>2
    <3>2. CASE x \notin W.visited
      <4>1. PICK i \in b + 1 .. c : R.seen[i] = x
        BY <1>6, <1>12, <2>1, <3>2
      <4>2. i \in I
        BY <1>2
      <4>. QED  BY <4>1, <4>2
    <3>. QED  BY <3>1, <3>2
  <2>2. ASSUME NEW i \in I
        PROVE  /\ R.seen[i] # last /\ A[R.seen[i]] \subseteq R.visited
               /\ R.seen[i] \in T \/ \E j \in i + 1 .. c : R.seen[j] \in A[R.seen[i]]
    <3>1. CASE i \in a + 1 .. b /\ R.seen[i] = W.seen[i]
      <4>1. \A j \in i + 1 .. b : j \in i + 1 .. c /\ R.seen[j] = W.seen[j]
        BY <1>2, <1>3
      <4>2. W.seen[i] # last /\ A[W.seen[i]] \subseteq W.visited
        BY <1>5, <3>1
      <4>3. W.seen[i] \in T \/ \E j \in i + 1 .. b : W.seen[j] \in A[W.seen[i]]
        BY <1>5, <3>1
      <4>4. R.seen[i] \in T \/ \E j \in i + 1 .. c : R.seen[j] \in A[R.seen[i]]
        BY <3>1, <4>1, <4>3
      <4>. QED  BY <1>3, <3>1, <4>2, <4>4
    <3>2. CASE i \in b + 1 .. c
      BY <1>6, <1>12, <3>2
    <3>. QED  BY <1>8, <3>1, <3>2
  <2>. QED  BY <1>7, <2>1, <2>2 DEF Finished, c
<1>. QED  BY <1>1, <1>4, <1>7, <1>9, <1>10, <1>11, <1>12 DEF Went, a, c

\* What a call for n does, when there are no more than k nodes left to go to.
Called(A, last, K, n, V, R) ==
    /\ Went(A, last, K, {n}, V, R)
    /\ ~R.stop => n \in R.visited
    /\ ~R.stop /\ n \notin V.visited => R.seen # << >> /\ R.seen[Len(R.seen)] = n
Left(V) == Cardinality(UdNode \ V.visited)
VisitGood(A, last, K, k, h) ==
    /\ h \in VisitFcns
    /\ \A V \in Visits, n \in K :
         VisitOK(V) /\ ~V.stop /\ Left(V) <= k => Called(A, last, K, n, V, h[V][n])

\* What is left gets less with every node that is marked.
LEMMA LeftShrinks ==
    ASSUME NEW V \in Visits, NEW R \in Visits, V.visited \subseteq R.visited
    PROVE  /\ Left(V) \in Nat /\ Left(R) \in Nat /\ Left(R) <= Left(V)
           /\ \A n \in UdNode : n \notin V.visited /\ n \in R.visited => Left(R) <= Left(V) - 1
           /\ Left(V) = 0 => V.visited = UdNode
<1>. DEFINE S == UdNode \ V.visited
            T == UdNode \ R.visited
<1>1. IsFiniteSet(S) /\ IsFiniteSet(T) /\ T \subseteq S
  <2>1. IsFiniteSet(UdNode) /\ S \subseteq UdNode /\ T \subseteq UdNode /\ T \subseteq S
    BY NodeCount
  <2>. QED  BY <2>1, FS_Subset
<1>2. Cardinality(S) \in Nat /\ Cardinality(T) \in Nat /\ Cardinality(T) <= Cardinality(S)
  BY <1>1, FS_CardinalityType, FS_Subset
<1>3. ASSUME NEW n \in UdNode, n \notin V.visited, n \in R.visited  PROVE Cardinality(T) <= Cardinality(S) - 1
  <2>. DEFINE Q == S \ {n}
  <2>1. IsFiniteSet(Q) /\ Cardinality(Q) = Cardinality(S) - 1
    <3>1. n \in S
      BY <1>3
    <3>. HIDE DEF S
    <3>. QED  BY <1>1, <3>1, FS_RemoveElement
  <2>2. T \subseteq Q
    BY <1>1, <1>3
  <2>. HIDE DEF S, T, Q
  <2>3. Cardinality(T) <= Cardinality(Q)
    BY <2>1, <2>2, FS_Subset
  <2>. QED  BY <2>1, <2>3
<1>4. Cardinality(S) = 0 => V.visited = UdNode
  <2>1. Cardinality(S) = 0 => S = {}
    <3>. HIDE DEF S
    <3>. QED  BY <1>1, FS_EmptySet
  <2>. QED  BY <2>1, VisitFacts
<1>. QED  BY <1>2, <1>3, <1>4 DEF Left

\* What the calls for the adjacencies of n do, once n is marked.
AdjsCalled(A, last, K, n, V, R) == Went(A, last, K, A[n], V, R) /\ (~R.stop => A[n] \subseteq R.visited)

\* The calls for the adjacencies do it if each of them does what it must.
LEMMA AdjsGood ==
    ASSUME NEW A \in AdjSets, NEW last, NEW K \in SUBSET UdNode, NEW k \in Nat, NEW h, VisitGood(A, last, K, k, h),
           NEW n \in K, A[n] \subseteq K, NEW V, VisitOK(V), ~V.stop, Left(V) <= k,
           NEW adjs \in Seq(UdNode), ToSet(adjs) = A[n], NEW R, R = _udg_iterate_df_adjs(h, V, adjs)
    PROVE  AdjsCalled(A, last, K, n, V, R)
<1>. DEFINE L == Len(adjs)
            OK(i, W) == /\ Went(A, last, K, A[n], V, W)
                        /\ ~W.stop => \A j \in 1 .. i : adjs[j] \in W.visited
<1>0. L \in Nat /\ L \in 0 .. L /\ DOMAIN adjs = 1 .. L /\ h \in VisitFcns /\ V \in Visits
  BY DEF VisitGood, VisitOK
<1>1. PICK f : /\ R = f[L] /\ f[0] = V
               /\ \A i \in 0 .. L : f[i] \in Visits
               /\ \A i \in 1 .. L : f[i] = IF f[i - 1].stop THEN f[i - 1] ELSE h[f[i - 1]][adjs[i]]
  BY <1>0, AdjsLoop
<1>2. \A i \in 1 .. L : adjs[i] \in A[n]
  BY <1>0 DEF ToSet
<1>. DEFINE P == {i \in 0 .. L : OK(i, f[i])}
<1>3. 0 \in P
  <2>1. Went(A, last, K, A[n], V, V)
    BY StayedThere
  <2>. QED  BY <1>0, <1>1, <2>1
<1>4. ASSUME NEW i \in 1 .. L, i - 1 \in P  PROVE i \in P
  <2>. DEFINE W == f[i - 1]
              x == adjs[i]
              Q == f[i]
  <2>1. /\ i \in 0 .. L /\ OK(i - 1, W) /\ Q = IF W.stop THEN W ELSE h[W][x]
        /\ i \in Nat /\ x \in A[n] /\ x \in K
    BY <1>0, <1>1, <1>2, <1>4
  <2>2. /\ Went(A, last, K, A[n], V, W) /\ VisitOK(W) /\ W \in Visits /\ V.visited \subseteq W.visited
        /\ ~W.stop => \A j \in 1 .. i - 1 : adjs[j] \in W.visited
    BY <2>1 DEF Went, VisitOK
  <2>. HIDE DEF W, x, Q
  <2>3. CASE W.stop
    <3>1. OK(i, Q)
      BY <2>1, <2>2, <2>3
    <3>. QED  BY <2>1, <3>1 DEF Q
  <2>4. CASE ~W.stop
    <3>1. Left(W) <= k
      <4>1. Left(W) \in Nat /\ Left(V) \in Nat /\ Left(W) <= Left(V)
        BY <1>0, <2>2, LeftShrinks
      <4>. QED  BY <4>1
    <3>2. Called(A, last, K, x, W, Q)
      BY <2>1, <2>2, <2>4, <3>1 DEF VisitGood
    <3>3. Went(A, last, K, {x}, W, Q) /\ (~Q.stop => x \in Q.visited) /\ W.visited \subseteq Q.visited
      BY <3>2 DEF Called, Went
    <3>4. Went(A, last, K, A[n], V, Q)
      <4>1. {x} \subseteq A[n]
        BY <2>1
      <4>. QED  BY <2>2, <2>4, <3>3, <4>1, WentOn
    <3>5. ASSUME ~Q.stop, NEW j \in 1 .. i  PROVE adjs[j] \in Q.visited
      <4>1. CASE j = i
        BY <3>3, <3>5, <4>1 DEF x
      <4>2. CASE j # i
        <5>1. j \in 1 .. i - 1
          BY <2>1, <4>2
        <5>. QED  BY <2>2, <2>4, <3>3, <5>1
      <4>. QED  BY <4>1, <4>2
    <3>6. OK(i, Q)
      BY <3>4, <3>5
    <3>. QED  BY <2>1, <3>6 DEF Q
  <2>. QED  BY <2>3, <2>4
<1>5. OK(L, R)
  <2>. HIDE DEF OK, L
  <2>1. L \in P
    <3>. HIDE DEF P
    <3>. QED  BY <1>0, <1>3, <1>4, UpTo
  <2>. QED  BY <1>1, <2>1
<1>6. ASSUME ~R.stop, NEW y \in A[n]  PROVE y \in R.visited
  <2>1. PICK j \in 1 .. L : y = adjs[j]
    BY <1>0 DEF ToSet
  <2>. QED  BY <1>5, <1>6, <2>1
<1>. QED  BY <1>5, <1>6 DEF AdjsCalled

(* A call, in terms of the calls below it.                                 *)
LEMMA CalledOnce ==
    ASSUME n_adjs \in AdjSets, \A x \in UdNode : \A y \in n_adjs[x] : x \in n_adjs[y],
           NEW last, NEW K \in SUBSET UdNode, \A x \in K : n_adjs[x] \subseteq K,
           NEW k \in Nat \ {0}, NEW h, VisitGood(n_adjs, last, K, k - 1, h),
           NEW n \in K, NEW V, VisitOK(V), ~V.stop, Left(V) <= k, NEW R, R = Visited(h, V, n, last)
    PROVE  Called(n_adjs, last, K, n, V, R)
<1>. DEFINE A == n_adjs
            M == [V EXCEPT !.visited = @ \cup {n}]
            adjs == Ascending[A[n]]
            W == _udg_iterate_df_adjs(h, M, adjs)
<1>0. V \in Visits /\ n \in UdNode /\ V.visited \subseteq UdNode
  BY VisitFacts DEF VisitOK
<1>1. R = IF n \in V.visited THEN V ELSE IF W.stop THEN W ELSE Given(W, n, last)
  BY DEF Visited
<1>2. M \in Visits /\ M.visited = V.visited \cup {n} /\ M.seen = V.seen /\ M.stop = V.stop
  BY <1>0, MarkedIs
<1>3. adjs \in Seq(UdNode) /\ ToSet(adjs) = A[n]
  <2>1. A[n] \in SUBSET UdNode
    BY <1>0 DEF AdjSets
  <2>. QED  BY <2>1, AscendingIs DEF Lists1
<1>. HIDE DEF M, adjs, W
<1>4. CASE n \in V.visited
  <2>1. R = V
    BY <1>1, <1>4
  <2>2. Went(A, last, K, {n}, V, V)
    BY StayedThere
  <2>. QED  BY <1>4, <2>1, <2>2 DEF Called, A
<1>5. CASE n \notin V.visited
  <2>1. VisitOK(M) /\ ~M.stop
    BY <1>2 DEF VisitOK
  <2>2. Left(M) <= k - 1
    <3>1. Left(V) \in Nat /\ Left(M) \in Nat /\ Left(M) <= Left(V) - 1
      BY <1>0, <1>2, <1>5, LeftShrinks
    <3>. QED  BY <3>1
  <2>3. Went(A, last, K, A[n], M, W) /\ (~W.stop => A[n] \subseteq W.visited)
    <3>1. k - 1 \in Nat /\ A \in AdjSets /\ A[n] \subseteq K /\ VisitGood(A, last, K, k - 1, h)
      BY DEF A
    <3>2. W = _udg_iterate_df_adjs(h, M, adjs)
      BY DEF W
    <3>. HIDE DEF A
    <3>3. AdjsCalled(A, last, K, n, M, W)
      BY <1>3, <2>1, <2>2, <3>1, <3>2, AdjsGood
    <3>. QED  BY <3>3 DEF AdjsCalled
  <2>4. /\ VisitOK(W) /\ W \in Visits /\ M.visited \subseteq W.visited /\ W.visited \ M.visited \subseteq K
        /\ Len(M.seen) <= Len(W.seen) /\ \A i \in 1 .. Len(M.seen) : W.seen[i] = M.seen[i]
        /\ \A i \in New(M, W) : W.seen[i] \in W.visited \ M.visited
        /\ W.stop => W.seen # << >> /\ Last(W.seen) = last
        /\ ~W.stop => Finished(A, last, A[n], M, W)
    BY <2>3 DEF Went, VisitOK
  <2>5. New(M, W) = New(V, W) /\ Len(M.seen) = Len(V.seen)
    BY <1>2 DEF New
  <2>6. V.visited \subseteq W.visited /\ W.visited \ V.visited \subseteq K /\ n \in W.visited
    BY <1>2, <2>4
  <2>7. CASE W.stop
    <3>1. R = W
      BY <1>1, <1>5, <2>7
    <3>2. Went(A, last, K, {n}, V, W)
      BY <1>2, <2>4, <2>5, <2>6, <2>7 DEF Went
    <3>. QED  BY <2>7, <3>1, <3>2 DEF Called, A
  <2>8. CASE ~W.stop
    <3>1. R = Given(W, n, last)
      BY <1>1, <1>5, <2>8
    <3>2. R \in Visits /\ R.visited = W.visited /\ R.seen = Append(W.seen, n) /\ (R.stop <=> n = last)
      BY <1>0, <2>4, <3>1, GivenIs
    <3>. DEFINE a == Len(V.seen)
                b == Len(W.seen)
    <3>3. /\ a \in Nat /\ b \in Nat /\ a <= b /\ DOMAIN W.seen = 1 .. b /\ DOMAIN V.seen = 1 .. a
          /\ V.seen \in Seq(UdNode) /\ W.seen \in Seq(UdNode)
      BY <1>0, <2>4, <2>5, VisitFacts
    <3>4. /\ Len(R.seen) = b + 1 /\ \A i \in 1 .. b : R.seen[i] = W.seen[i]
          /\ R.seen[b + 1] = n /\ R.seen # << >> /\ Last(R.seen) = n
          /\ ToSet(R.seen) = ToSet(W.seen) \cup {n}
          /\ IsInjective(W.seen) /\ n \notin ToSet(W.seen) => IsInjective(R.seen)
      BY <1>0, <3>2, <3>3, Appended, SMTT(30)
    <3>5. New(V, W) = a + 1 .. b /\ New(V, R) = a + 1 .. b + 1
      BY <3>4 DEF New
    <3>6. \A i \in 1 .. a : W.seen[i] = V.seen[i] /\ V.seen[i] \in V.visited
      BY <1>2, <2>4, <3>3 DEF VisitOK, ToSet
    <3>7. \A i \in a + 1 .. b : W.seen[i] \in W.visited \ M.visited
      BY <2>4, <2>5, <3>5
    <3>8. n \notin ToSet(W.seen)
      <4>1. SUFFICES ASSUME NEW i \in 1 .. b, W.seen[i] = n  PROVE FALSE
        BY <3>3 DEF ToSet
      <4>2. i \in 1 .. a \/ i \in a + 1 .. b
        BY <3>3
      <4>. QED  BY <1>2, <1>5, <3>6, <3>7, <4>1, <4>2
    <3>9. VisitOK(R)
      BY <2>4, <2>6, <3>2, <3>4, <3>8 DEF VisitOK
    <3>10. /\ \A x \in W.visited \ M.visited : \E i \in a + 1 .. b : W.seen[i] = x
           /\ \A i \in a + 1 .. b :
                /\ W.seen[i] # last /\ A[W.seen[i]] \subseteq W.visited
                /\ W.seen[i] \in A[n] \/ \E j \in i + 1 .. b : W.seen[j] \in A[W.seen[i]]
      BY <2>4, <2>5, <2>8, <3>5 DEF Finished
    <3>. HIDE DEF a, b
    <3>11. \A i \in a + 1 .. b + 1 : i = b + 1 \/ (i \in a + 1 .. b /\ R.seen[i] = W.seen[i])
      BY <3>3, <3>4
    <3>12. b + 1 \in a + 1 .. b + 1
      BY <3>3
    <3>13. \A i \in a + 1 .. b + 1 : R.seen[i] \in R.visited \ V.visited
      BY <1>2, <1>5, <2>6, <3>2, <3>4, <3>7, <3>11
    <3>14. ASSUME ~R.stop  PROVE Finished(A, last, {n}, V, R)
      <4>1. ASSUME NEW x \in R.visited \ V.visited  PROVE \E i \in a + 1 .. b + 1 : R.seen[i] = x
        <5>1. CASE x = n
          BY <3>4, <3>12, <5>1
        <5>2. CASE x # n
          <6>1. PICK i \in a + 1 .. b : W.seen[i] = x
            BY <1>2, <3>2, <3>10, <4>1, <5>2
          <6>2. i \in a + 1 .. b + 1 /\ R.seen[i] = x
            BY <3>3, <3>4, <6>1
          <6>. QED  BY <6>2
        <5>. QED  BY <5>1, <5>2
      <4>2. ASSUME NEW i \in a + 1 .. b + 1
            PROVE  /\ R.seen[i] # last /\ A[R.seen[i]] \subseteq R.visited
                   /\ R.seen[i] \in {n} \/ \E j \in i + 1 .. b + 1 : R.seen[j] \in A[R.seen[i]]
        <5>1. CASE i = b + 1
          BY <2>3, <2>8, <3>2, <3>4, <3>14, <5>1
        <5>2. CASE i \in a + 1 .. b /\ R.seen[i] = W.seen[i]
          <6>1. R.seen[i] # last /\ A[R.seen[i]] \subseteq R.visited
            BY <3>2, <3>10, <5>2
          <6>2. CASE W.seen[i] \in A[n]
            <7>1. n \in A[W.seen[i]]
              BY <1>0, <6>2 DEF A
            <7>2. b + 1 \in i + 1 .. b + 1
              BY <3>3, <5>2
            <7>. QED  BY <3>4, <5>2, <6>1, <7>1, <7>2
          <6>3. CASE \E j \in i + 1 .. b : W.seen[j] \in A[W.seen[i]]
            <7>1. PICK j \in i + 1 .. b : W.seen[j] \in A[W.seen[i]]
              BY <6>3
            <7>2. j \in i + 1 .. b + 1 /\ R.seen[j] = W.seen[j]
              BY <3>3, <3>4, <5>2
            <7>. QED  BY <5>2, <6>1, <7>1, <7>2
          <6>. QED  BY <3>10, <5>2, <6>2, <6>3
        <5>. QED  BY <3>11, <5>1, <5>2
      <4>. QED  BY <3>4, <3>5, <4>1, <4>2 DEF Finished
    <3>15. Went(A, last, K, {n}, V, R)
      <4>1. Len(V.seen) <= Len(R.seen) /\ \A i \in 1 .. Len(V.seen) : R.seen[i] = V.seen[i]
        BY <3>3, <3>4, <3>6 DEF a
      <4>2. R.stop => R.seen # << >> /\ Last(R.seen) = last
        BY <3>2, <3>4
      <4>. QED  BY <2>6, <3>2, <3>5, <3>9, <3>13, <3>14, <4>1, <4>2 DEF Went
    <3>. QED  BY <2>6, <3>2, <3>4, <3>15 DEF Called, A
  <2>. QED  BY <2>7, <2>8
<1>. QED  BY <1>4, <1>5

\* The calls, by the depth they may nest to.
LEMMA DfVisit ==
    ASSUME n_adjs \in AdjSets, \A x \in UdNode : \A y \in n_adjs[x] : x \in n_adjs[y],
           NEW last, NEW K \in SUBSET UdNode, \A x \in K : n_adjs[x] \subseteq K, NEW from \in K
    PROVE  \E V, R : /\ VisitOK(V) /\ V.visited = {} /\ V.seen = << >>
                     /\ Called(n_adjs, last, K, from, V, R) /\ _udg_iterate_df(from, last) = R.seen
<1>. DEFINE N == Cardinality(UdNode)
            D == VisitFcns
            Calls(i, h) == [V \in Visits |-> [n \in UdNode |-> IF i = 0 THEN V ELSE Visited(h, V, n, last)]]
            a == [V \in Visits |-> [n \in UdNode |-> V]]
            F == [i \in Nat |-> [h \in D |-> Calls(i, h)]]
            Solves(f) == f = [i \in 0 .. N |-> Calls(i, f[i - 1])]
            V0 == [visited |-> {}, seen |-> << >>, stop |-> FALSE]
<1>0. N \in Nat /\ N \in 0 .. N
  BY NodeCount
<1>1. a \in D
  BY DEF VisitFcns
<1>2. \A h : Calls(0, h) = a
  OBVIOUS
<1>3. \A i \in Nat, h \in D : Calls(i, h) \in D
  <2>1. \A h \in D, V \in Visits, n \in UdNode : Visited(h, V, n, last) \in Visits
    BY VisitedType
  <2>. QED  BY <2>1 DEF VisitFcns
<1>4. \A i \in 1 .. N, h \in D, V \in Visits, n \in UdNode : Calls(i, h)[V][n] = Visited(h, V, n, last)
  BY <1>0
<1>. HIDE DEF N, D, a, Calls
<1>5. F \in [Nat -> [D -> D]]
  BY <1>3
<1>6. PICK g \in [0 .. N -> D] : Iterates(g, a, F, N)
  <2>. HIDE DEF F
  <2>. QED  BY <1>0, <1>1, <1>5, Iterated
<1>7. Solves(g)
  <2>1. g[0] = Calls(0, g[0 - 1])
    BY <1>2, <1>6 DEF Iterates
  <2>2. ASSUME NEW i \in 1 .. N  PROVE g[i] = Calls(i, g[i - 1])
    <3>1. i \in Nat /\ g[i - 1] \in D
      BY <1>0, <1>6
    <3>. QED  BY <1>6, <3>1 DEF Iterates
  <2>3. \A i \in 0 .. N : g[i] = Calls(i, g[i - 1])
    BY <1>0, <2>1, <2>2
  <2>. QED  BY <1>6, <2>3
<1>. DEFINE f == CHOOSE f : Solves(f)
<1>8. Solves(f)
  <2>. HIDE DEF Solves
  <2>. QED  BY <1>7
<1>9. _udg_iterate_df(from, last) = f[N][V0][from].seen
  BY DEF _udg_iterate_df, N, Calls
<1>. HIDE DEF f
<1>10. f[0] = a /\ \A i \in 1 .. N : f[i] = Calls(i, f[i - 1])
  BY <1>0, <1>2, <1>8
<1>. HIDE DEF Solves, F
<1>11. \A i \in 0 .. N : f[i] \in D
  <2>1. \A i \in 1 .. N : f[i - 1] \in D => f[i] \in D
    BY <1>0, <1>3, <1>10
  <2>. QED  BY <1>0, <1>1, <1>10, <2>1, StaysIn
<1>. DEFINE P == {i \in 0 .. N : VisitGood(n_adjs, last, K, i, f[i])}
<1>12. 0 \in P
  <2>1. ASSUME NEW V \in Visits, NEW n \in K, VisitOK(V), ~V.stop, Left(V) <= 0
        PROVE  Called(n_adjs, last, K, n, V, f[0][V][n])
    <3>1. f[0][V][n] = V
      BY <1>10 DEF a
    <3>2. n \in V.visited
      BY <2>1, LeftShrinks
    <3>3. Went(n_adjs, last, K, {n}, V, V)
      BY <2>1, StayedThere
    <3>. QED  BY <3>1, <3>2, <3>3 DEF Called
  <2>2. 0 \in 0 .. N /\ f[0] \in VisitFcns
    BY <1>0, <1>11 DEF D
  <2>3. VisitGood(n_adjs, last, K, 0, f[0])
    BY <2>1, <2>2 DEF VisitGood
  <2>. QED  BY <2>2, <2>3
<1>13. ASSUME NEW i \in 1 .. N, i - 1 \in P  PROVE i \in P
  <2>1. /\ VisitGood(n_adjs, last, K, i - 1, f[i - 1]) /\ i \in 0 .. N /\ i \in Nat \ {0}
        /\ f[i] \in VisitFcns /\ f[i - 1] \in D
    BY <1>0, <1>11, <1>13 DEF D
  <2>2. ASSUME NEW V \in Visits, NEW n \in K, VisitOK(V), ~V.stop, Left(V) <= i
        PROVE  Called(n_adjs, last, K, n, V, f[i][V][n])
    <3>1. f[i][V][n] = Visited(f[i - 1], V, n, last)
      BY <1>4, <1>10, <2>1
    <3>. QED  BY <2>1, <2>2, <3>1, CalledOnce
  <2>3. VisitGood(n_adjs, last, K, i, f[i])
    BY <2>1, <2>2 DEF VisitGood
  <2>. QED  BY <2>1, <2>3
<1>14. VisitGood(n_adjs, last, K, N, f[N])
  <2>1. N \in P
    <3>. HIDE DEF P
    <3>. QED  BY <1>0, <1>12, <1>13, UpTo
  <2>. QED  BY <2>1
<1>15. V0 \in Visits /\ V0.visited = {} /\ V0.seen = << >> /\ ~V0.stop
  BY DEF Visits
<1>. HIDE DEF V0
<1>16. VisitOK(V0)
  <2>1. ToSet(<< >>) = {} /\ IsInjective(<< >>)
    BY DEF ToSet, IsInjective
  <2>. QED  BY <1>15, <2>1 DEF VisitOK
<1>17. Left(V0) <= N
  <2>1. UdNode \ V0.visited = UdNode
    BY <1>15
  <2>2. Left(V0) = N
    BY <2>1, Zenon DEF Left, N
  <2>. QED  BY <1>0, <2>2
<1>18. Called(n_adjs, last, K, from, V0, f[N][V0][from])
  BY <1>14, <1>15, <1>16, <1>17 DEF VisitGood
<1>. QED  BY <1>9, <1>15, <1>16, <1>18

(* A depth-first traversal gives each node that can be reached once, the   *)
(* start last and the others before a neighbour, up to last.               *)
LEMMA DfCovers ==
    ASSUME n_adjs \in AdjSets, \A x \in UdNode : \A y \in n_adjs[x] : x \in n_adjs[y],
           NEW from \in UdNode, NEW last, NEW d, Measures(n_adjs, from, d),
           NEW seen, seen = _udg_iterate_df(from, last)
    PROVE  /\ CoversUpTo(seen, last, DOMAIN d)
           /\ \A i \in DOMAIN seen : i < Len(seen) /\ last \notin DOMAIN d =>
                \E j \in i + 1 .. Len(seen) : seen[j] \in n_adjs[seen[i]]
<1>. DEFINE K == DOMAIN d
            A == n_adjs
<1>1. K \in SUBSET UdNode /\ from \in K /\ \A x \in K : A[x] \subseteq K
  BY DEF Measures
<1>2. PICK V, R : /\ VisitOK(V) /\ V.visited = {} /\ V.seen = << >>
                  /\ Called(A, last, K, from, V, R) /\ _udg_iterate_df(from, last) = R.seen
  <2>. HIDE DEF K
  <2>. QED  BY <1>1, DfVisit, Zenon
<1>. HIDE DEF K, A
<1>3. /\ VisitOK(R) /\ R.visited \subseteq K
      /\ R.stop => seen # << >> /\ Last(seen) = last
      /\ ~R.stop => Finished(A, last, {from}, V, R)
      /\ ~R.stop => from \in R.visited /\ seen # << >> /\ seen[Len(seen)] = from
  BY <1>2 DEF Called, Went
<1>4. /\ R \in Visits /\ R.stop \in BOOLEAN /\ seen \in Seq(UdNode) /\ IsInjective(seen) /\ ToSet(seen) \subseteq R.visited
      /\ Len(seen) \in Nat /\ DOMAIN seen = 1 .. Len(seen)
  BY <1>2, <1>3, VisitFacts DEF VisitOK
<1>5. New(V, R) = 1 .. Len(seen)
  <2>1. Len(V.seen) = 0
    BY <1>2
  <2>. QED  BY <1>2, <2>1 DEF New
<1>6. ASSUME ~R.stop
      PROVE  /\ ToSet(seen) = K /\ last \notin ToSet(seen)
             /\ \A i \in 1 .. Len(seen) :
                  seen[i] = from \/ \E j \in i + 1 .. Len(seen) : seen[j] \in A[seen[i]]
  <2>1. /\ \A x \in R.visited : \E i \in 1 .. Len(seen) : seen[i] = x
        /\ \A i \in 1 .. Len(seen) :
             /\ seen[i] # last /\ A[seen[i]] \subseteq R.visited
             /\ seen[i] = from \/ \E j \in i + 1 .. Len(seen) : seen[j] \in A[seen[i]]
    <3>1. Finished(A, last, {from}, V, R)
      BY <1>3, <1>6
    <3>. QED  BY <1>2, <1>5, <3>1 DEF Finished
  <2>2. R.visited \subseteq ToSet(seen)
    BY <1>4, <2>1 DEF ToSet
  <2>3. last \notin ToSet(seen)
    BY <1>4, <2>1 DEF ToSet
  <2>4. \A x \in R.visited : A[x] \subseteq R.visited
    BY <2>1
  <2>5. K \subseteq R.visited
    BY <1>3, <1>6, <2>4, ClosedCovers DEF K, A
  <2>6. ToSet(seen) = K
    BY <1>3, <1>4, <2>2, <2>5
  <2>. QED  BY <2>1, <2>3, <2>6
<1>7. ToSet(seen) \subseteq K
  BY <1>3, <1>4
<1>8. CoversUpTo(seen, last, K) /\ (R.stop <=> last \in K)
  BY <1>3, <1>4, <1>6, <1>7, CoversIfStopped
<1>9. ASSUME NEW i \in DOMAIN seen, i < Len(seen), last \notin K
      PROVE  \E j \in i + 1 .. Len(seen) : seen[j] \in A[seen[i]]
  <2>1. ~R.stop /\ i \in 1 .. Len(seen) /\ Len(seen) \in 1 .. Len(seen) /\ i # Len(seen)
    BY <1>4, <1>8, <1>9
  <2>2. seen[i] # from
    BY <1>3, <1>4, <2>1 DEF IsInjective
  <2>. QED  BY <1>6, <2>1, <2>2
<1>. QED  BY <1>8, <1>9 DEF K, A

-----------------------------------------------------------------------------
(* The graph                                                               *)

\* The adjacencies are those of nodes of the graph, and mutual; a reply is right
\* for the graph as it is until the next call.
UdInv ==
    /\ g_nodes \subseteq UdNode /\ n_adjs \in AdjSets
    /\ GraphChecks /\ TraversalsCover /\ PathsAreShortest

\* A reply of another kind, or none, says nothing.
LEMMA OtherReplies ==
    ASSUME ud_reply.op \notin {"iterate_df", "iterate_bf", "path_df", "path_bf"}
    PROVE  TraversalsCover /\ PathsAreShortest
BY DEF TraversalsCover, PathsAreShortest

\* An insertion that is taken back leaves nothing.
LEMMA TakingBackUndoes ==
    ASSUME NEW A \in AdjSets, NEW n1 \in UdNode, NEW n2 \in UdNode, n2 \notin A[n1]
    PROVE  TakenBack([A EXCEPT ![n1] = @ \cup {n2}], n1, n2) = A
<1>1. (A[n1] \cup {n2}) \ {n2} = A[n1]
  OBVIOUS
<1>. QED  BY <1>1 DEF TakenBack, AdjSets

(* The two traversals give what they must.                                 *)
LEMMA TraversalReplies ==
    ASSUME UdInv, NEW from \in UdNode, NEW last, n_adjs' = n_adjs,
           NEW op \in {"iterate_df", "iterate_bf"},
           ud_reply' = [op |-> op, from |-> from, last |-> last, res |-> "ok",
                        seen |-> IF op = "iterate_df" THEN _udg_iterate_df(from, last) ELSE _udg_iterate_bf(from, last)]
    PROVE  TraversalsCover' /\ PathsAreShortest'
<1>. DEFINE A == n_adjs
            d == DistancesFrom(A, from)
            C == Component(A, from)
            seen == IF op = "iterate_df" THEN _udg_iterate_df(from, last) ELSE _udg_iterate_bf(from, last)
<1>1. /\ ud_reply'.op = op /\ ud_reply'.from = from /\ ud_reply'.last = last /\ ud_reply'.seen = seen
      /\ op = "iterate_df" \/ op = "iterate_bf"
  OBVIOUS
<1>2. /\ A \in AdjSets /\ \A x \in UdNode : \A y \in A[x] : x \in A[y]
      /\ Measures(A, from, d) /\ DOMAIN d = C /\ \A x \in C : d[x] = Distance(A, from, x)
  BY DistancesMeasure DEF UdInv, GraphChecks, DistancesFrom
<1>3. op = "iterate_df" => seen = _udg_iterate_df(from, last)
  OBVIOUS
<1>4. op # "iterate_df" => seen = _udg_iterate_bf(from, last)
  OBVIOUS
<1>. HIDE DEF d, C, seen
<1>5. ASSUME op = "iterate_df"
      PROVE  /\ CoversUpTo(seen, last, C)
             /\ \A i \in DOMAIN seen : i < Len(seen) /\ last \notin C =>
                  \E j \in i + 1 .. Len(seen) : seen[j] \in A[seen[i]]
  <2>1. /\ CoversUpTo(seen, last, DOMAIN d)
        /\ \A i \in DOMAIN seen : i < Len(seen) /\ last \notin DOMAIN d =>
             \E j \in i + 1 .. Len(seen) : seen[j] \in A[seen[i]]
    BY <1>2, <1>3, <1>5, DfCovers
  <2>. QED  BY <1>2, <2>1
<1>6. ASSUME op # "iterate_df"
      PROVE  /\ CoversUpTo(seen, last, C)
             /\ \A i \in 1 .. Len(seen) - 1 : Distance(A, from, seen[i]) <= Distance(A, from, seen[i + 1])
  <2>1. CoversUpTo(seen, last, DOMAIN d) /\ \A i \in 1 .. Len(seen) - 1 : d[seen[i]] <= d[seen[i + 1]]
    BY <1>2, <1>4, <1>6, BfCovers
  <2>2. seen \in Seq(UdNode) /\ ToSet(seen) \subseteq C
    BY <1>2, <2>1 DEF CoversUpTo
  <2>3. ASSUME NEW i \in 1 .. Len(seen) - 1
        PROVE  Distance(A, from, seen[i]) <= Distance(A, from, seen[i + 1])
    <3>1. i \in DOMAIN seen /\ i + 1 \in DOMAIN seen
      BY <2>2
    <3>2. seen[i] \in C /\ seen[i + 1] \in C
      BY <2>2, <3>1 DEF ToSet
    <3>. QED  BY <1>2, <2>1, <3>2
  <2>. QED  BY <1>2, <2>1, <2>3
<1>7. CoversUpTo(seen, last, C)
  BY <1>5, <1>6
<1>8. /\ IsInjective(seen)
      /\ IF last \in C THEN ToSet(seen) \subseteq C /\ Last(seen) = last ELSE ToSet(seen) = C
  BY <1>7 DEF CoversUpTo
<1>9. TraversalsCover'
  <2>1. Component(n_adjs', from) = C
    BY DEF C
  <2>2. IF op = "iterate_df"
        THEN \A i \in DOMAIN seen : i < Len(seen) /\ last \notin C =>
               \E j \in i + 1 .. Len(seen) : seen[j] \in n_adjs'[seen[i]]
        ELSE \A i \in 1 .. Len(seen) - 1 : Distance(n_adjs', from, seen[i]) <= Distance(n_adjs', from, seen[i + 1])
    BY <1>5, <1>6
  <2>. HIDE DEF A
  <2>. QED  BY <1>1, <1>8, <2>1, <2>2 DEF TraversalsCover
<1>10. PathsAreShortest'
  BY <1>1 DEF PathsAreShortest
<1>. QED  BY <1>9, <1>10

(* The two searches return what they must.                                 *)
LEMMA PathReplies ==
    ASSUME UdInv, NEW from \in UdNode, NEW to \in UdNode, n_adjs' = n_adjs,
           NEW op \in {"path_df", "path_bf"},
           ud_reply' = [op |-> op, from |-> from, to |-> to, res |-> Found(to),
                        spath |-> IF n_adjs[to] = {} THEN Unset
                                  ELSE IF op = "path_df" THEN _udg_shortest_path_df(from, to)
                                  ELSE _udg_shortest_path_bf(from, to)]
    PROVE  TraversalsCover' /\ PathsAreShortest'
<1>. DEFINE A == n_adjs
            d == DistancesFrom(A, from)
            C == Component(A, from)
            found == IF op = "path_df" THEN _udg_shortest_path_df(from, to) ELSE _udg_shortest_path_bf(from, to)
            path == IF A[to] = {} THEN Unset ELSE found
<1>1. /\ ud_reply'.op = op /\ ud_reply'.from = from /\ ud_reply'.to = to /\ ud_reply'.spath = path
      /\ op = "path_df" \/ op = "path_bf"
  OBVIOUS
<1>2. /\ A \in AdjSets /\ Measures(A, from, d) /\ DOMAIN d = C /\ \A x \in C : d[x] = Distance(A, from, x)
  BY DistancesMeasure DEF UdInv, DistancesFrom
<1>3. ShortestIs(A, from, to, d, found)
  <2>1. CASE op = "path_df"
    BY <1>2, <2>1, DfPathIs
  <2>2. CASE op # "path_df"
    BY <1>2, <2>2, BfPathIs
  <2>. QED  BY <2>1, <2>2
<1>. HIDE DEF d, C, found
<1>4. CASE A[to] = {}
  <2>1. path = Unset /\ n_adjs'[to] = {}
    BY <1>4
  <2>. HIDE DEF path
  <2>. QED  BY <1>1, <2>1 DEF TraversalsCover, PathsAreShortest
<1>5. CASE A[to] # {}
  <2>1. path = found /\ n_adjs'[to] # {}
    BY <1>5
  <2>. HIDE DEF path, A
  <2>2. n_adjs' = A /\ Component(n_adjs', from) = C
    BY DEF A, C
  <2>3. CASE to \notin C \ {from}
    <3>1. path = NoPath
      BY <1>2, <1>3, <2>1, <2>3 DEF ShortestIs
    <3>. QED  BY <1>1, <2>1, <2>2, <2>3, <3>1 DEF TraversalsCover, PathsAreShortest
  <2>4. CASE to \in C \ {from}
    <3>1. Leads(A, path, from, to) /\ Len(path) = 1 + Distance(A, from, to)
      BY <1>2, <1>3, <2>1, <2>4 DEF ShortestIs
    <3>2. /\ Head(path) = from /\ Last(path) = to
          /\ \A i \in 1 .. Len(path) - 1 : path[i + 1] \in A[path[i]]
      BY <3>1 DEF Leads, Last
    <3>. QED  BY <1>1, <2>1, <2>2, <2>4, <3>1, <3>2 DEF TraversalsCover, PathsAreShortest
  <2>. QED  BY <2>3, <2>4
<1>. QED  BY <1>4, <1>5

\* An edge is added to both of its ends, or to none.
LEMMA EdgeKeepsChecks ==
    ASSUME g_nodes \subseteq UdNode, n_adjs \in AdjSets, GraphChecks,
           NEW n1 \in UdNode, NEW n2 \in UdNode, udg_add_edge(n1, n2) \/ udg_add_edge_ENOMEM(n1, n2)
    PROVE  n_adjs' \in AdjSets /\ GraphChecks' /\ g_nodes' = g_nodes /\ ud_reply'.op = "add_edge"
<1>. DEFINE linked == [n_adjs EXCEPT ![n1] = @ \cup {n2}]
            both == [linked EXCEPT ![n2] = @ \cup {n1}]
<1>1. n2 \notin n_adjs[n1] => TakenBack(linked, n1, n2) = n_adjs
  BY TakingBackUndoes
<1>. HIDE DEF linked
<1>2. /\ {n1, n2} \subseteq g_nodes /\ g_nodes' = g_nodes /\ ud_reply'.op = "add_edge"
      /\ n_adjs' = n_adjs \/ (n1 \notin linked[n2] /\ n_adjs' = both)
  BY <1>1 DEF udg_add_edge, udg_add_edge_ENOMEM, linked
<1>3. CASE n_adjs' = n_adjs
  BY <1>2, <1>3 DEF GraphChecks
<1>4. CASE n1 \notin linked[n2] /\ n_adjs' = both
  <2>1. n1 # n2
    <3>1. SUFFICES ASSUME n1 = n2  PROVE FALSE
      OBVIOUS
    <3>2. n1 \in linked[n2]
      BY <3>1 DEF linked, AdjSets
    <3>. QED  BY <1>4, <3>2
  <2>2. /\ n_adjs' \in AdjSets /\ n_adjs'[n1] = n_adjs[n1] \cup {n2} /\ n_adjs'[n2] = n_adjs[n2] \cup {n1}
        /\ \A x \in UdNode \ {n1, n2} : n_adjs'[x] = n_adjs[x]
    BY <1>4, <2>1 DEF linked, AdjSets
  <2>3. ASSUME NEW x \in UdNode  PROVE n_adjs'[x] \subseteq g_nodes' \ {x}
    <3>1. n_adjs[x] \subseteq g_nodes \ {x}
      BY DEF GraphChecks
    <3>. QED  BY <1>2, <2>1, <2>2, <3>1
  <2>4. ASSUME NEW x \in UdNode, NEW y \in n_adjs'[x]  PROVE x \in n_adjs'[y]
    <3>1. y \in UdNode
      BY <2>2 DEF AdjSets
    <3>2. y \in n_adjs[x] => x \in n_adjs[y]
      BY DEF GraphChecks
    <3>3. n_adjs[y] \subseteq n_adjs'[y]
      BY <2>2, <3>1
    <3>4. y \in n_adjs[x] \/ (x = n1 /\ y = n2) \/ (x = n2 /\ y = n1)
      BY <2>2, <2>4
    <3>. QED  BY <2>2, <3>2, <3>3, <3>4
  <2>. QED  BY <1>2, <2>2, <2>3, <2>4 DEF GraphChecks
<1>. QED  BY <1>2, <1>3, <1>4

(* The adjacencies stay mutual, and every reply is right for the graph it  *)
(* is about: Init establishes this and every step keeps it.                *)
THEOREM UdGraphInvariant == UdSpec => []UdInv
<1>1. UdInit => UdInv
  <2>. SUFFICES ASSUME UdInit  PROVE UdInv
    OBVIOUS
  <2>1. g_nodes = {} /\ n_adjs = [n \in UdNode |-> {}] /\ ud_reply.op = "none"
    BY DEF UdInit, NoCall
  <2>2. TraversalsCover /\ PathsAreShortest
    BY <2>1, OtherReplies
  <2>. QED  BY <2>1, <2>2 DEF UdInv, GraphChecks, AdjSets
<1>2. UdInv /\ [UdNext]_udvars => UdInv'
  <2>. SUFFICES ASSUME UdInv, [UdNext]_udvars  PROVE UdInv'
    OBVIOUS
  <2>0. g_nodes \subseteq UdNode /\ n_adjs \in AdjSets /\ GraphChecks
    BY DEF UdInv
  <2>1. ASSUME g_nodes' \subseteq UdNode, g_nodes \subseteq g_nodes', n_adjs' = n_adjs,
               TraversalsCover' /\ PathsAreShortest'
        PROVE  UdInv'
    <3>1. GraphChecks'
      BY <2>0, <2>1 DEF GraphChecks
    <3>. QED  BY <2>0, <2>1, <3>1 DEF UdInv
  <2>2. ASSUME ud_reply'.op \notin {"iterate_df", "iterate_bf", "path_df", "path_bf"}
        PROVE  TraversalsCover' /\ PathsAreShortest'
    BY <2>2 DEF TraversalsCover, PathsAreShortest
  <2>3. ASSUME NEW d \in UdNode, udg_add_node(d) \/ udg_add_node_ENOMEM(d) \/ udg_get_node(d)
        PROVE  UdInv'
    <3>1. g_nodes' \subseteq UdNode /\ g_nodes \subseteq g_nodes' /\ n_adjs' = n_adjs
      BY <2>0, <2>3 DEF udg_add_node, udg_add_node_ENOMEM, udg_get_node, Replies
    <3>2. ud_reply'.op = "add_node" \/ ud_reply'.op = "get_node"
      BY <2>3 DEF udg_add_node, udg_add_node_ENOMEM, udg_get_node, Replies
    <3>. QED  BY <2>1, <2>2, <3>1, <3>2
  <2>4. ASSUME NEW n1 \in UdNode, NEW n2 \in UdNode, udg_add_edge(n1, n2) \/ udg_add_edge_ENOMEM(n1, n2)
        PROVE  UdInv'
    <3>1. n_adjs' \in AdjSets /\ GraphChecks' /\ g_nodes' = g_nodes /\ ud_reply'.op = "add_edge"
      BY <2>0, <2>4, EdgeKeepsChecks
    <3>. QED  BY <2>0, <2>2, <3>1 DEF UdInv
  <2>5. ASSUME NEW n1 \in UdNode, NEW n2 \in UdNode, udg_shortest_path_df(n1, n2)  PROVE UdInv'
    <3>1. n_adjs' = n_adjs /\ g_nodes' = g_nodes
      BY <2>5 DEF udg_shortest_path_df, Replies
    <3>2. ud_reply' = [op |-> "path_df", from |-> n1, to |-> n2, res |-> Found(n2),
                       spath |-> IF n_adjs[n2] = {} THEN Unset
                                 ELSE IF "path_df" = "path_df" THEN _udg_shortest_path_df(n1, n2)
                                 ELSE _udg_shortest_path_bf(n1, n2)]
      BY <2>5 DEF udg_shortest_path_df, Replies
    <3>3. TraversalsCover' /\ PathsAreShortest'
      BY <3>1, <3>2, PathReplies
    <3>. QED  BY <2>0, <2>1, <3>1, <3>3
  <2>6. ASSUME NEW n1 \in UdNode, NEW n2 \in UdNode, udg_shortest_path_bf(n1, n2)  PROVE UdInv'
    <3>1. n_adjs' = n_adjs /\ g_nodes' = g_nodes
      BY <2>6 DEF udg_shortest_path_bf
    <3>2. ud_reply' = [op |-> "path_bf", from |-> n1, to |-> n2, res |-> Found(n2),
                       spath |-> IF n_adjs[n2] = {} THEN Unset
                                 ELSE IF "path_bf" = "path_df" THEN _udg_shortest_path_df(n1, n2)
                                 ELSE _udg_shortest_path_bf(n1, n2)]
      BY <2>6 DEF udg_shortest_path_bf
    <3>3. TraversalsCover' /\ PathsAreShortest'
      BY <3>1, <3>2, PathReplies
    <3>. QED  BY <2>0, <2>1, <3>1, <3>3
  <2>7. ASSUME NEW n \in UdNode, NEW last \in UdNode \cup {Nil}, udg_iterate_df(n, last)  PROVE UdInv'
    <3>1. n_adjs' = n_adjs /\ g_nodes' = g_nodes
      BY <2>7 DEF udg_iterate_df, Replies
    <3>2. ud_reply' = [op |-> "iterate_df", from |-> n, last |-> last, res |-> "ok",
                       seen |-> IF "iterate_df" = "iterate_df" THEN _udg_iterate_df(n, last)
                                ELSE _udg_iterate_bf(n, last)]
      BY <2>7 DEF udg_iterate_df, Replies
    <3>3. TraversalsCover' /\ PathsAreShortest'
      BY <3>1, <3>2, TraversalReplies
    <3>. QED  BY <2>0, <2>1, <3>1, <3>3
  <2>8. ASSUME NEW n \in UdNode, NEW last \in UdNode \cup {Nil}, udg_iterate_bf(n, last)  PROVE UdInv'
    <3>1. n_adjs' = n_adjs /\ g_nodes' = g_nodes
      BY <2>8 DEF udg_iterate_bf, Replies
    <3>2. ud_reply' = [op |-> "iterate_bf", from |-> n, last |-> last, res |-> "ok",
                       seen |-> IF "iterate_bf" = "iterate_df" THEN _udg_iterate_df(n, last)
                                ELSE _udg_iterate_bf(n, last)]
      BY <2>8 DEF udg_iterate_bf, Replies
    <3>3. TraversalsCover' /\ PathsAreShortest'
      BY <3>1, <3>2, TraversalReplies
    <3>. QED  BY <2>0, <2>1, <3>1, <3>3
  <2>9. ASSUME NEW breadth \in BOOLEAN, udg_iterate_or_path_ENOMEM(breadth)  PROVE UdInv'
    <3>1. n_adjs' = n_adjs /\ g_nodes' = g_nodes /\ ud_reply'.op = "search"
      BY <2>9 DEF udg_iterate_or_path_ENOMEM
    <3>. QED  BY <2>0, <2>1, <2>2, <3>1
  <2>10. ASSUME udg_destroy  PROVE UdInv'
    <3>1. g_nodes' = {} /\ n_adjs' = [n \in UdNode |-> {}] /\ ud_reply'.op = "none"
      BY <2>10 DEF udg_destroy, Calling, NoCall
    <3>2. n_adjs' \in AdjSets /\ GraphChecks'
      BY <3>1 DEF GraphChecks, AdjSets
    <3>. QED  BY <2>2, <3>1, <3>2 DEF UdInv
  <2>11. ASSUME TakeReply  PROVE UdInv'
    <3>1. n_adjs' = n_adjs /\ g_nodes' = g_nodes /\ ud_reply'.op = "none"
      BY <2>11 DEF TakeReply, NoCall
    <3>. QED  BY <2>0, <2>1, <2>2, <3>1
  <2>12. CASE UNCHANGED udvars
    <3>1. n_adjs' = n_adjs /\ g_nodes' = g_nodes /\ ud_reply' = ud_reply
      BY <2>12 DEF udvars
    <3>2. TraversalsCover /\ PathsAreShortest
      BY DEF UdInv
    <3>3. TraversalsCover' /\ PathsAreShortest'
      BY <3>1, <3>2 DEF TraversalsCover, PathsAreShortest
    <3>. QED  BY <2>0, <2>1, <3>1, <3>3
  <2>. QED  BY <2>3, <2>4, <2>5, <2>6, <2>7, <2>8, <2>9, <2>10, <2>11, <2>12 DEF UdNext
<1>. QED  BY <1>1, <1>2, PTL DEF UdSpec

(* udg_check: every adjacency is mutual, of a node of the graph and not of *)
(* the node itself, also after an insertion that failed half way.          *)
THEOREM GraphAlwaysChecks == UdSpec => []GraphChecks
<1>1. UdInv => GraphChecks
  BY DEF UdInv
<1>. QED  BY <1>1, UdGraphInvariant, PTL

(* udg_iterate_df and udg_iterate_bf give what can be reached, each once   *)
(* and in order, up to the node they stop at.                              *)
THEOREM TraversalsAlwaysCover == UdSpec => []TraversalsCover
<1>1. UdInv => TraversalsCover
  BY DEF UdInv
<1>. QED  BY <1>1, UdGraphInvariant, PTL

(* udg_shortest_path_df, with its pruning, and udg_shortest_path_bf return *)
(* a shortest path whenever there is one.                                  *)
THEOREM PathsAreAlwaysShortest == UdSpec => []PathsAreShortest
<1>1. UdInv => PathsAreShortest
  BY DEF UdInv
<1>. QED  BY <1>1, UdGraphInvariant, PTL

===============================================================================
