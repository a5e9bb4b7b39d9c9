----------------------------- MODULE TreesProofs -----------------------------
(***************************************************************************)
(* Proofs about AvlTree and BinaryTree, for any data, any start and any    *)
(* sequence of calls; first about the AVL tree.                            *)
(*                                                                         *)
(* AVL(S, n, D, h) says that below n is an AVL tree with the data D and    *)
(* the height h, and that the balances in it are true.  It is not defined  *)
(* by recursion but by its witnesses: sets and heights, one of each to a   *)
(* node, that fit the node and its children everywhere (Fits).  So a tree  *)
(* is taken apart at a node (Split) and put together at one (Join), and    *)
(* is what it was if its nodes are (AVLFrame).                             *)
(*                                                                         *)
(* The rotations are shown to mend a node that is out of balance by two    *)
(* (BalanceIs).  From that follows what the way back up does at one node   *)
(* (RaisedIs, LoweredIs): if the account from below of a change of height  *)
(* is true, the subtree is an AVL tree again, no assertion fails, and the  *)
(* account it passes on is true.  Insertion, the search for a replacement  *)
(* and removal then are inductions over the depth (InsertGrows,            *)
(* PluckTakes, RemoveShrinks).                                             *)
(*                                                                         *)
(* The recursions are functions of the depth.  Each is unfolded once, by   *)
(* showing that its defining equation has a solution (the lemmas ...       *)
(* Recursion); that no branch is longer than there are data (HeightBound)  *)
(* is what lets the whole tree be reached.                                 *)
(*                                                                         *)
(* Of the binary tree it is enough to say where the search for each key    *)
(* goes (Leads): an insertion lengthens those that end where it puts its   *)
(* node, by one, and changes no other.                                     *)
(***************************************************************************)
EXTENDS AvlTree, BinaryTree, FiniteSetTheorems, WellFoundedInduction, TLAPS

-----------------------------------------------------------------------------
(* Trees and subtrees                                                      *)

\* What a record of the model is, whatever the tree in it looks like: abort is ""
\* or an assertion's text.
Trees == [root : NodeOrNull, kid : [Data -> [Sides -> NodeOrNull]], bal : [Data -> Int],
          used : SUBSET Data, abort : STRING \cup {""}]

\* All data of D are on side s of n.
OnSide(D, n, s) == \A d \in D : IF s = 1 THEN d > n ELSE d < n

\* The greater of two heights.
Taller(a, b) == IF a > b THEN a ELSE b

\* X and H are the data and the height below every node of a tree; n is joined
\* to its children as an AVL tree demands.
Joined(S, X, H, n) ==
    LET l == S.kid[n][-1]
        r == S.kid[n][1]
    IN  /\ l \in NodeOrNull /\ l \in X[l] \cup {NULL}
        /\ r \in NodeOrNull /\ r \in X[r] \cup {NULL}
        /\ X[n] = X[l] \cup X[r] \cup {n}
        /\ OnSide(X[l], n, -1) /\ OnSide(X[r], n, 1)
        /\ H[n] = 1 + Taller(H[l], H[r])
        /\ S.bal[n] = H[r] - H[l]
        /\ S.bal[n] \in -1 .. 1

\* X and H are right at every node of D, and D is closed under X.
Fits(S, X, H, D) ==
    /\ X \in [NodeOrNull -> SUBSET Data] /\ X[NULL] = {}
    /\ H \in [NodeOrNull -> Nat] /\ H[NULL] = 0
    /\ \A m \in D : /\ Joined(S, X, H, m) /\ X[m] \subseteq D
                     /\ \A k \in X[m] : X[k] \subseteq X[m]

\* The subtree of n is an AVL tree of height h with the data D.
AVL(S, n, D, h) ==
    /\ D \in SUBSET Data /\ n \in D \cup {NULL}
    /\ \E X, H : Fits(S, X, H, D) /\ X[n] = D /\ H[n] = h

\* n has the subtree of A, of height a, on side s, and that of B, of height b,
\* on the other side, and its balance says so.
Node(S, n, s, A, a, B, b) ==
    /\ n \in Data /\ s \in Sides
    /\ AVL(S, S.kid[n][s], A, a) /\ OnSide(A, n, s)
    /\ AVL(S, S.kid[n][-s], B, b) /\ OnSide(B, n, -s)
    /\ S.bal[n] = IF s = 1 THEN a - b ELSE b - a

\* The constants, as the proofs below use them.
LEMMA Basics ==
    /\ Sides = {-1, 1} /\ NULL \in NodeOrNull /\ NULL \notin Data
    /\ IsFiniteSet(Data) /\ Deepest \in Nat
    /\ \A d \in Data : d \in Int /\ d \in NodeOrNull /\ d # NULL
BY AvlAssumption, FS_CardinalityType DEF Sides, NodeOrNull, Deepest

\* The other side.
LEMMA Opposite ==
    ASSUME NEW s \in Sides
    PROVE  /\ s \in Int /\ -s \in Sides /\ -(-s) = s /\ -s # s
           /\ \/ s = 1 /\ -s = -1 /\ -s # 1
              \/ s = -1 /\ -s = 1 /\ s # 1
<1>1. s \in Int /\ (s = 1 \/ s = 0 - 1)
  BY DEF Sides
<1>2. -s = 0 - s /\ -(-s) = s
  BY <1>1
<1>. DEFINE t == -s
<1>3. t = 0 - s /\ t \in Int
  BY <1>1, <1>2
<1>. HIDE DEF t
<1>4. /\ t \in {-1, 1} /\ t # s
      /\ \/ s = 1 /\ t = -1 /\ t # 1
         \/ s = -1 /\ t = 1 /\ s # 1
  BY <1>1, <1>3
<1>. QED  BY <1>1, <1>2, <1>4 DEF t, Sides

\* An AVL tree is empty, of height 0, or has a root and a height above 0.
LEMMA AVLType ==
    ASSUME NEW S, NEW n, NEW D, NEW h, AVL(S, n, D, h)
    PROVE  /\ n \in NodeOrNull /\ D \in SUBSET Data /\ h \in Nat
           /\ n = NULL => D = {} /\ h = 0
           /\ n # NULL => n \in Data /\ n \in D /\ h >= 1
<1>1. PICK X, H : Fits(S, X, H, D) /\ X[n] = D /\ H[n] = h
  BY DEF AVL
<1>2. n \in D \cup {NULL}
  BY DEF AVL
<1>3. /\ X \in [NodeOrNull -> SUBSET Data] /\ X[NULL] = {}
      /\ H \in [NodeOrNull -> Nat] /\ H[NULL] = 0
      /\ \A m \in D : Joined(S, X, H, m) /\ X[m] \subseteq D
  BY <1>1 DEF Fits
<1>4. D \in SUBSET Data
  BY DEF AVL
<1>5. n \in NodeOrNull /\ h \in Nat
  BY <1>1, <1>2, <1>3, <1>4 DEF NodeOrNull
<1>6. ASSUME n # NULL  PROVE h >= 1
  <2>1. n \in D /\ Joined(S, X, H, n)
    BY <1>2, <1>3, <1>6
  <2>2. /\ S.kid[n][-1] \in NodeOrNull /\ S.kid[n][1] \in NodeOrNull
        /\ h = 1 + Taller(H[S.kid[n][-1]], H[S.kid[n][1]])
    BY <1>1, <2>1 DEF Joined
  <2>3. H[S.kid[n][-1]] \in Nat /\ H[S.kid[n][1]] \in Nat
    BY <1>3, <2>2
  <2>. QED  BY <2>2, <2>3 DEF Taller
<1>. QED  BY <1>1, <1>2, <1>3, <1>4, <1>5, <1>6 DEF NodeOrNull

\* NULL is the empty AVL tree.
LEMMA EmptyAVL ==
    ASSUME NEW S
    PROVE  AVL(S, NULL, {}, 0)
<1>. DEFINE X == [n \in NodeOrNull |-> {}]
            H == [n \in NodeOrNull |-> 0]
<1>1. Fits(S, X, H, {}) /\ X[NULL] = {} /\ H[NULL] = 0
  BY Basics DEF Fits
<1>. HIDE DEF X, H
<1>. QED  BY <1>1, Basics DEF AVL
\* A subtree is what it is whatever happens elsewhere.
Same(S, R, D) ==
    \A k \in D : R.bal[k] = S.bal[k] /\ \A t \in Sides : R.kid[k][t] = S.kid[k][t]

\* An AVL tree is one wherever the children and balances of its data are the same.
LEMMA AVLFrame ==
    ASSUME NEW S, NEW R, NEW n, NEW D, NEW h, AVL(S, n, D, h), Same(S, R, D)
    PROVE  AVL(R, n, D, h)
<1>1. PICK X, H : Fits(S, X, H, D) /\ X[n] = D /\ H[n] = h
  BY DEF AVL
<1>2. ASSUME NEW m \in D  PROVE Joined(R, X, H, m)
  <2>1. Joined(S, X, H, m)
    BY <1>1 DEF Fits
  <2>2. R.bal[m] = S.bal[m] /\ R.kid[m][-1] = S.kid[m][-1] /\ R.kid[m][1] = S.kid[m][1]
    BY DEF Same, Sides
  <2>. QED  BY <2>1, <2>2 DEF Joined
<1>3. Fits(R, X, H, D)
  BY <1>1, <1>2 DEF Fits
<1>. QED  BY <1>1, <1>3 DEF AVL

\* Every node of a subtree has one.
LEMMA AVLBelow ==
    ASSUME NEW S, NEW n, NEW D, NEW h, AVL(S, n, D, h), NEW m \in D
    PROVE  \E Dm \in SUBSET D, hm \in Nat : AVL(S, m, Dm, hm) /\ m \in Dm
<1>1. PICK X, H : Fits(S, X, H, D) /\ X[n] = D /\ H[n] = h
  BY DEF AVL
<1>2. /\ X \in [NodeOrNull -> SUBSET Data] /\ X[NULL] = {}
      /\ H \in [NodeOrNull -> Nat] /\ H[NULL] = 0
      /\ \A k \in D : Joined(S, X, H, k) /\ X[k] \subseteq D /\ \A j \in X[k] : X[j] \subseteq X[k]
  BY <1>1 DEF Fits
<1>3. m \in X[m] /\ X[m] \subseteq D /\ m \in NodeOrNull
  <2>1. D \in SUBSET Data
    BY DEF AVL
  <2>. QED  BY <1>2, <2>1 DEF Joined, NodeOrNull
<1>4. Fits(S, X, H, X[m])
  BY <1>2, <1>3 DEF Fits
<1>5. AVL(S, m, X[m], H[m])
  BY <1>2, <1>3, <1>4 DEF AVL
<1>. QED  BY <1>2, <1>3, <1>5

\* A subtree without its root.
LEMMA Split ==
    ASSUME NEW S, NEW n, NEW D, NEW h, AVL(S, n, D, h), n # NULL, NEW s \in Sides
    PROVE  \E A, B \in SUBSET D, a, b \in Nat :
             /\ Node(S, n, s, A, a, B, b)
             /\ D = A \cup B \cup {n} /\ h = 1 + Taller(a, b) /\ a - b \in -1 .. 1
<1>1. PICK X, H : Fits(S, X, H, D) /\ X[n] = D /\ H[n] = h
  BY DEF AVL
<1>2. /\ X \in [NodeOrNull -> SUBSET Data] /\ X[NULL] = {}
      /\ H \in [NodeOrNull -> Nat] /\ H[NULL] = 0
      /\ \A k \in D : Joined(S, X, H, k) /\ X[k] \subseteq D /\ \A j \in X[k] : X[j] \subseteq X[k]
  BY <1>1 DEF Fits
<1>3. n \in D /\ D \in SUBSET Data /\ Joined(S, X, H, n)
  BY <1>2 DEF AVL
<1>4. ASSUME NEW t \in Sides  PROVE AVL(S, S.kid[n][t], X[S.kid[n][t]], H[S.kid[n][t]]) /\ H[S.kid[n][t]] \in Nat
  <2>. DEFINE c == S.kid[n][t]
  <2>1. c \in NodeOrNull /\ c \in X[c] \cup {NULL} /\ X[c] \subseteq D
    BY <1>1, <1>3, Basics DEF Joined
  <2>. HIDE DEF c
  <2>2. X[c] \in SUBSET Data /\ H[c] \in Nat
    BY <1>2, <2>1
  <2>3. Fits(S, X, H, X[c])
    <3>1. \A k \in X[c] : X[k] \subseteq X[c]
      BY <1>2, <2>1
    <3>. QED  BY <1>2, <2>1, <3>1 DEF Fits
  <2>4. AVL(S, c, X[c], H[c])
    BY <2>1, <2>2, <2>3 DEF AVL
  <2>. QED  BY <2>2, <2>4 DEF c
<1>. DEFINE l == S.kid[n][-1]
            r == S.kid[n][1]
<1>5. /\ AVL(S, l, X[l], H[l]) /\ AVL(S, r, X[r], H[r]) /\ H[l] \in Nat /\ H[r] \in Nat
  BY <1>4, Basics
<1>6. /\ D = X[l] \cup X[r] \cup {n} /\ OnSide(X[l], n, -1) /\ OnSide(X[r], n, 1)
      /\ h = 1 + Taller(H[l], H[r]) /\ S.bal[n] = H[r] - H[l] /\ S.bal[n] \in -1 .. 1
  BY <1>1, <1>3 DEF Joined
<1>7. CASE s = 1
  <2>1. Node(S, n, s, X[r], H[r], X[l], H[l])
    BY <1>3, <1>5, <1>6, <1>7 DEF Node
  <2>. HIDE DEF l, r
  <2>2. h = 1 + Taller(H[r], H[l])
    BY <1>5, <1>6 DEF Taller
  <2>. QED  BY <1>5, <1>6, <2>1, <2>2
<1>8. CASE s = -1
  <2>1. Node(S, n, s, X[l], H[l], X[r], H[r])
    <3>1. -s = 1 /\ s # 1
      BY <1>8, Opposite
    <3>. QED  BY <1>3, <1>5, <1>6, <1>8, <3>1 DEF Node
  <2>. HIDE DEF l, r
  <2>. QED  BY <1>5, <1>6, <2>1
<1>. QED  BY <1>7, <1>8 DEF Sides

\* The data below a node are below it on both sides.
Apart(S, n, s, A, a, B, b) ==
    /\ n \in Data /\ s \in Sides /\ A \in SUBSET Data /\ B \in SUBSET Data
    /\ a \in Nat /\ b \in Nat /\ n \notin A /\ n \notin B /\ A \cap B = {}
    /\ AVL(S, S.kid[n][s], A, a) /\ AVL(S, S.kid[n][-s], B, b)
    /\ OnSide(A, n, s) /\ OnSide(B, n, -s)
    /\ s = 1 => S.bal[n] = a - b
    /\ s = -1 => S.bal[n] = b - a
    /\ Node(S, n, -s, B, b, A, a)

\* The two subtrees of a node share nothing and do not contain it.
LEMMA NodeType ==
    ASSUME NEW S, NEW n, NEW s, NEW A, NEW a, NEW B, NEW b, Node(S, n, s, A, a, B, b)
    PROVE  Apart(S, n, s, A, a, B, b)
<1>1. /\ n \in Data /\ s \in Sides /\ A \in SUBSET Data /\ B \in SUBSET Data /\ a \in Nat /\ b \in Nat
      /\ AVL(S, S.kid[n][s], A, a) /\ AVL(S, S.kid[n][-s], B, b) /\ OnSide(A, n, s) /\ OnSide(B, n, -s)
  BY AVLType DEF Node
<1>2. /\ s = 1 => S.bal[n] = a - b
      /\ s # 1 => S.bal[n] = b - a
  BY DEF Node
<1>3. /\ -s \in Sides /\ -(-s) = s
      /\ \/ s = 1 /\ -s = -1 /\ -s # 1
         \/ s = -1 /\ -s = 1 /\ s # 1
  BY <1>1, Opposite
<1>4. \A d \in Data : d \in Int
  BY Basics
<1>5. n \notin A /\ n \notin B /\ A \cap B = {}
  BY <1>1, <1>3, <1>4 DEF OnSide
<1>6. Node(S, n, -s, B, b, A, a)
  BY <1>1, <1>2, <1>3, Basics DEF Node
<1>. QED  BY <1>1, <1>2, <1>3, <1>5, <1>6 DEF Apart

\* A node with its subtrees is one, if it is in balance.
LEMMA Join ==
    ASSUME NEW S, NEW n, NEW s, NEW A, NEW a, NEW B, NEW b, Node(S, n, s, A, a, B, b), a - b \in -1 .. 1
    PROVE  AVL(S, n, A \cup B \cup {n}, 1 + Taller(a, b))
<1>1. /\ n \in Data /\ s \in Sides /\ A \in SUBSET Data /\ B \in SUBSET Data
      /\ a \in Nat /\ b \in Nat /\ n \notin A /\ n \notin B /\ A \cap B = {}
      /\ AVL(S, S.kid[n][s], A, a) /\ AVL(S, S.kid[n][-s], B, b) /\ OnSide(A, n, s) /\ OnSide(B, n, -s)
      /\ s = 1 => S.bal[n] = a - b
      /\ s = -1 => S.bal[n] = b - a
  <2>1. Apart(S, n, s, A, a, B, b)
    BY NodeType
  <2>. QED  BY <2>1 DEF Apart
<1>. DEFINE D == A \cup B \cup {n}
            h == 1 + Taller(a, b)
            c == S.kid[n][s]
            e == S.kid[n][-s]
<1>2. PICK X1, H1 : Fits(S, X1, H1, A) /\ X1[c] = A /\ H1[c] = a
  BY <1>1 DEF AVL
<1>3. PICK X2, H2 : Fits(S, X2, H2, B) /\ X2[e] = B /\ H2[e] = b
  BY <1>1 DEF AVL
<1>. DEFINE X == [k \in NodeOrNull |-> IF k \in A THEN X1[k] ELSE IF k \in B THEN X2[k] ELSE IF k = n THEN D ELSE {}]
            H == [k \in NodeOrNull |-> IF k \in A THEN H1[k] ELSE IF k \in B THEN H2[k] ELSE IF k = n THEN h ELSE 0]
<1>4. /\ X1 \in [NodeOrNull -> SUBSET Data] /\ X1[NULL] = {} /\ H1 \in [NodeOrNull -> Nat] /\ H1[NULL] = 0
      /\ \A k \in A : Joined(S, X1, H1, k) /\ X1[k] \subseteq A /\ \A j \in X1[k] : X1[j] \subseteq X1[k]
  BY <1>2 DEF Fits
<1>5. /\ X2 \in [NodeOrNull -> SUBSET Data] /\ X2[NULL] = {} /\ H2 \in [NodeOrNull -> Nat] /\ H2[NULL] = 0
      /\ \A k \in B : Joined(S, X2, H2, k) /\ X2[k] \subseteq B /\ \A j \in X2[k] : X2[j] \subseteq X2[k]
  BY <1>3 DEF Fits
<1>6. h \in Nat /\ D \in SUBSET Data
  BY <1>1 DEF Taller
<1>. HIDE DEF h, D
<1>7. /\ X \in [NodeOrNull -> SUBSET Data] /\ X[NULL] = {} /\ H \in [NodeOrNull -> Nat] /\ H[NULL] = 0
      /\ \A k \in A : X[k] = X1[k] /\ H[k] = H1[k]
      /\ \A k \in B : X[k] = X2[k] /\ H[k] = H2[k]
      /\ X[n] = D /\ H[n] = h
  BY <1>1, <1>4, <1>5, <1>6, Basics
<1>. HIDE DEF X, H
<1>8. \A k \in A \cup {NULL} : X[k] = X1[k] /\ H[k] = H1[k]
  BY <1>4, <1>7
<1>9. \A k \in B \cup {NULL} : X[k] = X2[k] /\ H[k] = H2[k]
  BY <1>5, <1>7
<1>10. ASSUME NEW k \in A  PROVE Joined(S, X, H, k) /\ X[k] \subseteq A /\ \A j \in X[k] : X[j] \subseteq X[k]
  <2>1. Joined(S, X1, H1, k) /\ X1[k] \subseteq A /\ \A j \in X1[k] : X1[j] \subseteq X1[k]
    BY <1>4
  <2>2. S.kid[k][-1] \in A \cup {NULL} /\ S.kid[k][1] \in A \cup {NULL}
    BY <2>1 DEF Joined
  <2>. QED  BY <1>8, <2>1, <2>2 DEF Joined
<1>11. ASSUME NEW k \in B  PROVE Joined(S, X, H, k) /\ X[k] \subseteq B /\ \A j \in X[k] : X[j] \subseteq X[k]
  <2>1. Joined(S, X2, H2, k) /\ X2[k] \subseteq B /\ \A j \in X2[k] : X2[j] \subseteq X2[k]
    BY <1>5
  <2>2. S.kid[k][-1] \in B \cup {NULL} /\ S.kid[k][1] \in B \cup {NULL}
    BY <2>1 DEF Joined
  <2>. QED  BY <1>9, <2>1, <2>2 DEF Joined
<1>12. c \in A \cup {NULL} /\ e \in B \cup {NULL} /\ X[c] = A /\ H[c] = a /\ X[e] = B /\ H[e] = b
  <2>1. c \in A \cup {NULL} /\ e \in B \cup {NULL}
    BY <1>1 DEF AVL
  <2>. QED  BY <1>2, <1>3, <1>8, <1>9, <2>1
<1>13. Joined(S, X, H, n)
  <2>1. c \in NodeOrNull /\ c \in X[c] \cup {NULL} /\ e \in NodeOrNull /\ e \in X[e] \cup {NULL}
    BY <1>1, <1>12 DEF NodeOrNull
  <2>2. CASE s = 1
    <3>1. c = S.kid[n][1] /\ e = S.kid[n][-1] /\ -s = -1
      BY <1>1, <2>2, Opposite
    <3>2. S.bal[n] = a - b /\ S.bal[n] \in -1 .. 1
      BY <1>1, <2>2
    <3>3. h = 1 + Taller(b, a)
      BY <1>1 DEF h, Taller
    <3>4. OnSide(A, n, 1) /\ OnSide(B, n, -1)
      BY <1>1, <2>2, Opposite
    <3>. HIDE DEF c, e
    <3>. QED  BY <1>1, <1>7, <1>12, <2>1, <3>1, <3>2, <3>3, <3>4 DEF Joined, D
  <2>3. CASE s = -1
    <3>1. c = S.kid[n][-1] /\ e = S.kid[n][1] /\ -s = 1
      BY <1>1, <2>3, Opposite
    <3>2. S.bal[n] = b - a /\ S.bal[n] \in -1 .. 1
      BY <1>1, <2>3
    <3>. HIDE DEF c, e
    <3>. QED  BY <1>1, <1>7, <1>12, <2>1, <3>1, <3>2, <2>3 DEF Joined, D, h
  <2>. QED  BY <1>1, <2>2, <2>3 DEF Sides
<1>14. \A k \in D : /\ Joined(S, X, H, k) /\ X[k] \subseteq D
                    /\ \A j \in X[k] : X[j] \subseteq X[k]
  BY <1>7, <1>10, <1>11, <1>13 DEF D
<1>15. Fits(S, X, H, D)
  BY <1>7, <1>14 DEF Fits
<1>16. n \in D
  BY DEF D
<1>17. AVL(S, n, D, h)
  BY <1>6, <1>7, <1>15, <1>16 DEF AVL
<1>. QED  BY <1>17 DEF D, h

-----------------------------------------------------------------------------
(* Rotations                                                               *)

\* The node at a place: in p on side t, or the root.
Under(S, p, t) == IF p = NULL THEN S.root ELSE S.kid[p][t]

\* The arithmetic of sides.
Times(s, x) == IF s = 1 THEN x ELSE 0 - x

\* Products with a side are linear: the provers know none that are not.
LEMMA SideProducts ==
    ASSUME NEW s \in Sides, NEW x \in Int
    PROVE  s * x = Times(s, x) /\ x * s = Times(s, x)
<1>1. CASE s = 1
  BY <1>1 DEF Times
<1>2. CASE s = -1
  <2>1. x * s = 0 - x /\ s * x = 0 - x /\ s # 1 /\ -x = 0 - x
    BY <1>2
  <2>. QED  BY <2>1 DEF Times
<1>. QED  BY <1>1, <1>2 DEF Sides

\* A comparison with the parent finds the side a node is on.
LEMMA SideIs ==
    ASSUME NEW D \in SUBSET Data, NEW p \in Data, NEW t \in Sides, OnSide(D, p, t), NEW d \in D
    PROVE  Side(d, p) = t /\ d # p
BY Basics DEF OnSide, Side, Sides

\* The fields of a tree and their types.
LEMMA TreesFields ==
    ASSUME NEW S \in Trees
    PROVE  /\ S.root \in NodeOrNull /\ S.used \in SUBSET Data
           /\ S.kid \in [Data -> [Sides -> NodeOrNull]] /\ S.bal \in [Data -> Int]
           /\ \A k \in Data : S.bal[k] \in Int /\ \A u \in Sides : S.kid[k][u] \in NodeOrNull
           /\ DOMAIN S = {"root", "kid", "bal", "used", "abort"}
BY DEF Trees

\* R is S with m in the place on side t of p, or at the root, and nothing else changed.
Replaced(S, R, p, t, m) ==
    /\ R \in Trees /\ R.bal = S.bal /\ R.used = S.used /\ R.abort = S.abort
    /\ R.root = IF p = NULL THEN m ELSE S.root
    /\ \A k \in Data, u \in Sides : R.kid[k][u] = IF k = p /\ u = t THEN m ELSE S.kid[k][u]

\* Replace changes just the one link.
LEMMA ReplaceIs ==
    ASSUME NEW S \in Trees, NEW n, NEW p \in NodeOrNull, NEW m \in NodeOrNull,
           NEW t \in Sides, p # NULL => Side(n, p) = t
    PROVE  Replaced(S, Replace(S, n, p, m), p, t, m)
<1>. DEFINE R == Replace(S, n, p, m)
<1>1. CASE p = NULL
  <2>1. R = [S EXCEPT !.root = m] /\ p \notin Data
    BY <1>1, Basics DEF Replace
  <2>2. /\ R \in Trees /\ R.bal = S.bal /\ R.used = S.used /\ R.abort = S.abort /\ R.root = m
        /\ R.kid = S.kid
    BY <2>1 DEF Trees
  <2>. HIDE DEF R
  <2>3. \A k \in Data : k # p
    BY <2>1
  <2>. QED  BY <1>1, <2>2, <2>3 DEF Replaced, R
<1>2. CASE p # NULL
  <2>1. R = [S EXCEPT !.kid[p][t] = m] /\ p \in Data
    BY <1>2 DEF Replace, NodeOrNull
  <2>. DEFINE K == [S.kid EXCEPT ![p][t] = m]
  <2>2. R = [S EXCEPT !.kid = K]
    BY <2>1
  <2>3. K \in [Data -> [Sides -> NodeOrNull]] /\ \A k \in Data, u \in Sides : K[k][u] = IF k = p /\ u = t THEN m ELSE S.kid[k][u]
    <3>1. S.kid \in [Data -> [Sides -> NodeOrNull]]
      BY DEF Trees
    <3>. QED  BY <2>1, <3>1
  <2>. HIDE DEF K, R
  <2>4. /\ R \in Trees /\ R.bal = S.bal /\ R.used = S.used /\ R.abort = S.abort /\ R.root = S.root
        /\ R.kid = K
    BY <2>2, <2>3 DEF Trees
  <2>. QED  BY <1>2, <2>3, <2>4 DEF Replaced, R
<1>. QED  BY <1>1, <1>2

\* n is rotated away from side s, under p, and c takes its place.
Turning(S, R, n, c, p, t, s) ==
    /\ R \in Trees /\ R.used = S.used /\ R.abort = S.abort
    /\ R.root = IF p = NULL THEN c ELSE S.root
    /\ \A k \in Data : R.bal[k] = IF k = c THEN ChildBalance(S, n, c, s)
                                  ELSE IF k = n THEN RotatedBalance(S, n, c, s) ELSE S.bal[k]
    /\ \A k \in Data, u \in Sides :
         R.kid[k][u] = IF k = n /\ u = s THEN S.kid[c][-s]
                       ELSE IF k = c /\ u = -s THEN n
                       ELSE IF k = p /\ u = t THEN c ELSE S.kid[k][u]

\* What a rotation computes as balances are numbers.
LEMMA BalancesAreInts ==
    ASSUME NEW S \in Trees, NEW n \in Data, NEW c \in Data, NEW s \in Sides
    PROVE  RotatedBalance(S, n, c, s) \in Int /\ ChildBalance(S, n, c, s) \in Int
<1>1. S.bal[n] \in Int /\ S.bal[c] \in Int /\ s \in Int /\ -s \in Int
  BY TreesFields, Opposite
<1>2. s * 1 \in Int /\ s * 2 \in Int /\ s * 3 \in Int
  BY <1>1
<1>. QED  BY <1>1, <1>2 DEF RotatedBalance, ChildBalance

\* If none of its assertions fails, a rotation changes three links and two balances.
LEMMA RotateIs ==
    ASSUME NEW S \in Trees, NEW n \in Data, NEW c \in Data, NEW p \in NodeOrNull, NEW t \in Sides,
           NEW s \in Sides, S.kid[n][s] = c, n # c, p # n, p # c,
           p # NULL => Side(n, p) = t, p = NULL => n = S.root,
           Heavy(S, n, s), Heavy(S, c, s) /\ Unbalanced(S, c) => Unbalanced(S, n)
    PROVE  Turning(S, Rotate(S, n, p, s), n, c, p, t, s)
<1>. DEFINE R == Rotate(S, n, p, s)
            T == Replace(S, n, p, c)
            K == [[T.kid EXCEPT ![c][-s] = n] EXCEPT ![n][s] = S.kid[c][-s]]
            b == RotatedBalance(S, n, c, s)
            e == ChildBalance(S, n, c, s)
            L == [[T.bal EXCEPT ![n] = b] EXCEPT ![c] = e]
<1>1. R = Turned(S, n, p, c, s)
  BY DEF Rotate, Claim
<1>2. R = [T EXCEPT !.kid = K, !.bal = L]
  BY <1>1, ZenonT(30) DEF Turned
<1>3. Replaced(S, T, p, t, c)
  BY ReplaceIs, Basics
<1>. HIDE DEF T
<1>4. /\ T \in Trees /\ T.bal = S.bal /\ T.used = S.used /\ T.abort = S.abort
      /\ T.root = IF p = NULL THEN c ELSE S.root
      /\ \A k \in Data, u \in Sides : T.kid[k][u] = IF k = p /\ u = t THEN c ELSE S.kid[k][u]
  BY <1>3 DEF Replaced
<1>5. b \in Int /\ e \in Int /\ -s \in Sides /\ n \in NodeOrNull /\ S.kid[c][-s] \in NodeOrNull
  BY BalancesAreInts, Opposite, Basics, TreesFields
<1>. HIDE DEF b, e
<1>6. /\ L \in [Data -> Int]
      /\ \A k \in Data : L[k] = IF k = c THEN e ELSE IF k = n THEN b ELSE S.bal[k]
  BY <1>4, <1>5, TreesFields
<1>7. T.kid \in [Data -> [Sides -> NodeOrNull]]
  BY <1>4, TreesFields
<1>8. /\ K \in [Data -> [Sides -> NodeOrNull]]
      /\ \A k \in Data, u \in Sides :
           K[k][u] = IF k = n /\ u = s THEN S.kid[c][-s] ELSE IF k = c /\ u = -s THEN n ELSE T.kid[k][u]
  <2>. DEFINE K1 == [T.kid EXCEPT ![c][-s] = n]
  <2>1. /\ K1 \in [Data -> [Sides -> NodeOrNull]]
        /\ \A k \in Data, u \in Sides : K1[k][u] = IF k = c /\ u = -s THEN n ELSE T.kid[k][u]
    BY <1>5, <1>7
  <2>2. K = [K1 EXCEPT ![n][s] = S.kid[c][-s]]
    OBVIOUS
  <2>. HIDE DEF K1, K
  <2>. QED  BY <1>5, <2>1, <2>2
<1>. HIDE DEF K, L, R
<1>9. /\ R \in Trees /\ R.used = T.used /\ R.abort = T.abort /\ R.root = T.root /\ R.kid = K /\ R.bal = L
  BY <1>2, <1>4, <1>6, <1>8 DEF Trees
<1>. QED  BY <1>4, <1>6, <1>8, <1>9 DEF Turning, R, b, e

\* The balance of a node is the difference of the heights below it.
LEMMA NodeBalance ==
    ASSUME NEW S, NEW n, NEW s, NEW A, NEW a \in Nat, NEW B, NEW b \in Nat, Node(S, n, s, A, a, B, b)
    PROVE  S.bal[n] = Times(s, a - b) /\ a - b \in Int
BY DEF Node, Times

\* What the balance of a node says, as seen from side s.
LEMMA Leaning ==
    ASSUME NEW S, NEW n, NEW s \in Sides, NEW x \in Int, S.bal[n] = Times(s, x)
    PROVE  /\ Heavy(S, n, s) <=> x > 0
           /\ Heavy(S, n, -s) <=> x < 0
           /\ Unbalanced(S, n) <=> x \notin -1 .. 1
<1>1. /\ -s \in Sides
      /\ \/ s = 1 /\ -s = -1 /\ -s # 1
         \/ s = -1 /\ -s = 1 /\ s # 1
  BY Opposite
<1>2. S.bal[n] \in Int /\ Times(s, x) \in Int
  BY DEF Times
<1>3. S.bal[n] * s = Times(s, S.bal[n]) /\ S.bal[n] * (-s) = Times(-s, S.bal[n])
  BY <1>1, <1>2, SideProducts
<1>4. Times(s, S.bal[n]) = x /\ Times(-s, S.bal[n]) = 0 - x
  <2>1. CASE s = 1
    BY <1>1, <2>1 DEF Times
  <2>2. CASE s = -1
    BY <1>1, <2>2 DEF Times
  <2>. QED  BY <1>1, <2>1, <2>2
<1>5. /\ Heavy(S, n, s) <=> x > 0
      /\ Heavy(S, n, -s) <=> x < 0
  BY <1>3, <1>4 DEF Heavy
<1>6. Unbalanced(S, n) <=> x \notin -1 .. 1
  BY <1>1 DEF Unbalanced, Times
<1>. QED  BY <1>5, <1>6

\* What the balances of a node and its child say, as seen from side s.
LEMMA Balances ==
    ASSUME NEW S, NEW n, NEW c, NEW s \in Sides, NEW x \in Int, NEW y \in Int,
           S.bal[n] = Times(s, x), S.bal[c] = Times(s, y)
    PROVE  /\ RotatedBalance(S, n, c, s) =
                Times(s, x - (IF y <= 0 THEN 1 ELSE IF y > 1 THEN 3 ELSE 2))
           /\ ChildBalance(S, n, c, s) =
                Times(s, IF y <= 0 THEN y - 1 ELSE IF x \in -1 .. 1 THEN -1 ELSE 0)
<1>1. /\ -s \in Sides
      /\ \/ s = 1 /\ -s = -1 /\ -s # 1
         \/ s = -1 /\ -s = 1 /\ s # 1
  BY Opposite
<1>2. S.bal[n] \in Int /\ S.bal[c] \in Int
  BY DEF Times
<1>5. Heavy(S, c, s) <=> y > 0
  BY Leaning
<1>6. /\ Unbalanced(S, n) <=> x \notin -1 .. 1
      /\ Unbalanced(S, c) <=> y \notin -1 .. 1
  BY Leaning
<1>7. s * 1 = Times(s, 1) /\ s * 2 = Times(s, 2) /\ s * 3 = Times(s, 3)
  BY SideProducts
<1>8. RotatedBalance(S, n, c, s) = Times(s, x - (IF y <= 0 THEN 1 ELSE IF y > 1 THEN 3 ELSE 2))
  <2>. DEFINE k == IF y <= 0 THEN 1 ELSE IF y > 1 THEN 3 ELSE 2
  <2>1. RotatedBalance(S, n, c, s) = S.bal[n] - Times(s, k)
    <3>1. y <= 0 => RotatedBalance(S, n, c, s) = S.bal[n] - s * 1
      BY <1>5 DEF RotatedBalance
    <3>2. y > 1 => RotatedBalance(S, n, c, s) = S.bal[n] - s * 3
      BY <1>5, <1>6 DEF RotatedBalance
    <3>3. y = 1 => RotatedBalance(S, n, c, s) = S.bal[n] - s * 2
      BY <1>5, <1>6 DEF RotatedBalance
    <3>. QED  BY <1>7, <3>1, <3>2, <3>3
  <2>2. k \in Int
    OBVIOUS
  <2>. HIDE DEF k
  <2>3. S.bal[n] - Times(s, k) = Times(s, x - k)
    BY <2>2 DEF Times
  <2>. QED  BY <2>1, <2>3 DEF k
<1>9. ChildBalance(S, n, c, s) = Times(s, IF y <= 0 THEN y - 1 ELSE IF x \in -1 .. 1 THEN -1 ELSE 0)
  <2>1. CASE s = 1
    BY <1>1, <1>2, <1>5, <1>6, <2>1 DEF ChildBalance, Times
  <2>2. CASE s = -1
    BY <1>1, <1>2, <1>5, <1>6, <2>2 DEF ChildBalance, Times
  <2>. QED  BY <1>1, <2>1, <2>2
<1>. QED  BY <1>8, <1>9

\* The subtree of n, with data D, is at its place.
At(S, n, D, p, t) ==
    /\ p \in NodeOrNull /\ t \in Sides /\ Under(S, p, t) = n
    /\ D \in SUBSET Data /\ p \notin D /\ (p # NULL => OnSide(D, p, t))

\* R is S but for the nodes in E, and m is at a place.
Moved(S, R, E, p, t, m) ==
    /\ R \in Trees /\ R.abort = S.abort
    /\ Under(R, p, t) = m /\ (p # NULL => R.root = S.root)
    /\ \A k \in Data \ E : /\ R.bal[k] = S.bal[k]
                          /\ \A u \in Sides : ~(k = p /\ u = t) => R.kid[k][u] = S.kid[k][u]

\* What is beyond a node is beyond what is on its other side.
LEMMA Across ==
    ASSUME NEW n \in Data, NEW s \in Sides, NEW A \in SUBSET Data, NEW B \in SUBSET Data,
           OnSide(A, n, s), OnSide(B, n, -s), NEW c \in A
    PROVE  OnSide(B \cup {n}, c, -s)
<1>1. /\ \/ s = 1 /\ -s = -1 /\ -s # 1
         \/ s = -1 /\ -s = 1 /\ s # 1
  BY Opposite
<1>2. \A d \in Data : d \in Int
  BY Basics
<1>. QED  BY <1>1, <1>2 DEF OnSide

\* The order survives a rotation, and so do the subtrees.
LEMMA Rotated ==
    ASSUME NEW S \in Trees, NEW R, NEW n \in Data, NEW c \in Data, NEW p \in NodeOrNull, NEW t \in Sides,
           NEW s \in Sides, NEW A, NEW a, NEW C, NEW e, NEW B, NEW b,
           S.kid[n][s] = c, AVL(S, S.kid[n][-s], B, b), OnSide(B, n, -s),
           Node(S, c, s, A, a, C, e), OnSide(A \cup C \cup {c}, n, s),
           p \notin A \cup C \cup {c} \cup B \cup {n},
           Turning(S, R, n, c, p, t, s),
           R.bal[n] = Times(s, e - b), e - b \in -1 .. 1, R.bal[c] = Times(s, a - 1 - Taller(e, b))
    PROVE  /\ Node(R, c, s, A, a, C \cup B \cup {n}, 1 + Taller(e, b))
           /\ Moved(S, R, A \cup C \cup {c} \cup B \cup {n}, p, t, c)
<1>1. Apart(S, c, s, A, a, C, e)
  BY NodeType
<1>2. /\ A \in SUBSET Data /\ C \in SUBSET Data /\ a \in Nat /\ e \in Nat
      /\ c \notin A /\ c \notin C /\ A \cap C = {} /\ OnSide(A, c, s) /\ OnSide(C, c, -s)
      /\ AVL(S, S.kid[c][s], A, a) /\ AVL(S, S.kid[c][-s], C, e)
  BY <1>1 DEF Apart
<1>3. B \in SUBSET Data /\ b \in Nat
  BY AVLType
<1>4. OnSide(B \cup {n}, c, -s)
  <2>1. A \cup C \cup {c} \in SUBSET Data /\ c \in A \cup C \cup {c}
    BY <1>2
  <2>. QED  BY <1>3, <2>1, Across
<1>5. /\ -s \in Sides /\ -s # s
      /\ \/ s = 1 /\ -s = -1 /\ -s # 1
         \/ s = -1 /\ -s = 1 /\ s # 1
  BY Opposite
<1>6. \A d \in Data : d \in Int
  BY Basics
<1>7. /\ n \notin A \cup C \cup {c} /\ n \notin B /\ c \notin B
      /\ B \cap (A \cup C \cup {c}) = {}
  BY <1>2, <1>3, <1>4, <1>5, <1>6 DEF OnSide
<1>8. /\ R \in Trees /\ R.abort = S.abort
      /\ R.root = IF p = NULL THEN c ELSE S.root
      /\ \A k \in Data \ {n, c} : R.bal[k] = S.bal[k]
      /\ \A k \in Data, u \in Sides :
           R.kid[k][u] = IF k = n /\ u = s THEN S.kid[c][-s]
                         ELSE IF k = c /\ u = -s THEN n
                         ELSE IF k = p /\ u = t THEN c ELSE S.kid[k][u]
  BY DEF Turning
<1>9. Same(S, R, A) /\ Same(S, R, B) /\ Same(S, R, C)
  <2>1. ASSUME NEW k \in A \cup B \cup C  PROVE k \in Data /\ k # n /\ k # c /\ k # p
    BY <1>2, <1>3, <1>7
  <2>. QED  BY <1>8, <2>1 DEF Same
<1>10. /\ R.kid[n][s] = S.kid[c][-s] /\ R.kid[n][-s] = S.kid[n][-s]
       /\ R.kid[c][-s] = n /\ R.kid[c][s] = S.kid[c][s]
  BY <1>5, <1>7, <1>8
<1>11. Node(R, n, s, C, e, B, b)
  <2>1. AVL(R, R.kid[n][s], C, e) /\ AVL(R, R.kid[n][-s], B, b)
    BY <1>2, <1>9, <1>10, AVLFrame
  <2>2. OnSide(C, n, s)
    BY DEF OnSide
  <2>3. R.bal[n] = IF s = 1 THEN e - b ELSE b - e
    BY <1>2, <1>3 DEF Times
  <2>. QED  BY <2>1, <2>2, <2>3 DEF Node
<1>12. AVL(R, n, C \cup B \cup {n}, 1 + Taller(e, b))
  BY <1>11, Join
<1>13. Node(R, c, s, A, a, C \cup B \cup {n}, 1 + Taller(e, b))
  <2>1. AVL(R, R.kid[c][s], A, a)
    BY <1>2, <1>9, <1>10, AVLFrame
  <2>2. OnSide(C \cup B \cup {n}, c, -s)
    BY <1>2, <1>4 DEF OnSide
  <2>3. R.bal[c] = IF s = 1 THEN a - (1 + Taller(e, b)) ELSE (1 + Taller(e, b)) - a
    BY <1>2, <1>3 DEF Times, Taller
  <2>. HIDE DEF Taller
  <2>. QED  BY <1>2, <1>10, <1>12, <2>1, <2>2, <2>3 DEF Node
<1>14. Moved(S, R, A \cup C \cup {c} \cup B \cup {n}, p, t, c)
  <2>1. Under(R, p, t) = c
    BY <1>8 DEF Under, NodeOrNull
  <2>2. \A k \in Data \ (A \cup C \cup {c} \cup B \cup {n}) : k # n /\ k # c
    OBVIOUS
  <2>. QED  BY <1>8, <2>1, <2>2 DEF Moved
<1>. QED  BY <1>13, <1>14

\* Two moves inside of one subtree are a move of it.
LEMMA MovedTwice ==
    ASSUME NEW S, NEW T, NEW R, NEW E, NEW q, NEW u, NEW l, NEW F, NEW p, NEW t, NEW m, NEW G,
           Moved(S, T, E, q, u, l), Moved(T, R, F, p, t, m),
           E \subseteq G, F \subseteq G, q \in G, q # NULL
    PROVE  Moved(S, R, G, p, t, m)
BY DEF Moved

\* at_balance mends a node whose side s is too high by two.
Mended(S, R, D, p, t, h) ==
    /\ R.used = S.used
    /\ \E m \in D : Moved(S, R, D, p, t, m) /\ AVL(R, m, D, h)

\* One rotation mends a node with a side two higher that is not heavy on the inside.
LEMMA RotatedOnce ==
    ASSUME NEW S \in Trees, NEW n, NEW s, NEW A, NEW a, NEW B, NEW b, Node(S, n, s, A, a, B, b), a = b + 2,
           NEW p, NEW t, At(S, n, A \cup B \cup {n}, p, t),
           ~Heavy(S, S.kid[n][s], -s)
    PROVE  /\ Mended(S, Rotate(S, n, p, s), A \cup B \cup {n}, p, t, IF S.bal[S.kid[n][s]] = 0 THEN a + 1 ELSE a)
           /\ ~Unbalanced(Rotate(S, n, p, s), n)
<1>. DEFINE c == S.kid[n][s]
            R == Rotate(S, n, p, s)
            D == A \cup B \cup {n}
<1>1. Apart(S, n, s, A, a, B, b)
  BY NodeType
<1>2. /\ n \in Data /\ s \in Sides /\ A \in SUBSET Data /\ B \in SUBSET Data /\ a \in Nat /\ b \in Nat
      /\ n \notin A /\ n \notin B /\ A \cap B = {} /\ OnSide(A, n, s) /\ OnSide(B, n, -s)
      /\ AVL(S, c, A, a) /\ AVL(S, S.kid[n][-s], B, b)
  BY <1>1 DEF Apart
<1>3. c # NULL /\ c \in A /\ c \in Data
  BY <1>2, AVLType
<1>4. PICK A1, A2 \in SUBSET A, a1, a2 \in Nat :
        /\ Node(S, c, s, A1, a1, A2, a2)
        /\ A = A1 \cup A2 \cup {c} /\ a = 1 + Taller(a1, a2) /\ a1 - a2 \in -1 .. 1
  BY <1>2, <1>3, Split
<1>5. /\ p \in NodeOrNull /\ t \in Sides /\ Under(S, p, t) = n /\ p \notin D
      /\ (p # NULL => OnSide(D, p, t))
  BY DEF At
<1>6. /\ p # NULL => Side(n, p) = t
      /\ p = NULL => n = S.root
  <2>1. p # NULL => p \in Data
    BY <1>5 DEF NodeOrNull
  <2>2. D \in SUBSET Data /\ n \in D
    BY <1>2
  <2>. HIDE DEF D
  <2>. QED  BY <1>5, <2>1, <2>2, SideIs DEF Under
<1>7. S.bal[n] = Times(s, 2)
  BY <1>2 DEF Node, Times
<1>8. S.bal[c] = Times(s, a1 - a2) /\ a1 - a2 \in Int
  BY <1>4 DEF Node, Times
<1>9. a1 - a2 \in 0 .. 1 /\ Heavy(S, n, s) /\ Unbalanced(S, n)
  <2>. HIDE DEF c
  <2>1. ~(a1 - a2 < 0)
    <3>1. Heavy(S, c, -s) <=> a1 - a2 < 0
      BY <1>2, <1>8, Leaning
    <3>. QED  BY <3>1 DEF c
  <2>2. Heavy(S, n, s) /\ Unbalanced(S, n)
    BY <1>2, <1>7, Leaning
  <2>. QED  BY <1>4, <2>1, <2>2
<1>10. Turning(S, R, n, c, p, t, s)
  <2>. HIDE DEF c
  <2>1. n # c /\ p # n /\ p # c
    BY <1>2, <1>3, <1>5
  <2>. QED  BY <1>2, <1>3, <1>5, <1>6, <1>9, <2>1, RotateIs DEF c
<1>. HIDE DEF R, c
<1>11. /\ R.bal[n] = Times(s, IF a1 - a2 = 0 THEN 1 ELSE 0)
       /\ R.bal[c] = Times(s, IF a1 - a2 = 0 THEN -1 ELSE 0)
  <2>1. R.bal[n] = RotatedBalance(S, n, c, s) /\ R.bal[c] = ChildBalance(S, n, c, s)
    BY <1>2, <1>3, <1>10 DEF Turning
  <2>2. /\ RotatedBalance(S, n, c, s) = Times(s, 2 - (IF a1 - a2 <= 0 THEN 1 ELSE IF a1 - a2 > 1 THEN 3 ELSE 2))
        /\ ChildBalance(S, n, c, s) = Times(s, IF a1 - a2 <= 0 THEN (a1 - a2) - 1 ELSE IF 2 \in -1 .. 1 THEN -1 ELSE 0)
    BY <1>2, <1>7, <1>8, Balances
  <2>. QED  BY <1>9, <2>1, <2>2
<1>12. /\ a1 = b + 1 /\ a2 = IF a1 - a2 = 0 THEN b + 1 ELSE b
       /\ a2 - b \in 0 .. 1 /\ Taller(a2, b) = a2
       /\ R.bal[n] = Times(s, a2 - b)
       /\ R.bal[c] = Times(s, a1 - 1 - Taller(a2, b))
  <2>1. a1 = b + 1 /\ a2 = IF a1 - a2 = 0 THEN b + 1 ELSE b
    BY <1>2, <1>4, <1>9 DEF Taller
  <2>2. Taller(a2, b) = a2 /\ a2 - b \in 0 .. 1 /\ a2 - b = (IF a1 - a2 = 0 THEN 1 ELSE 0)
    BY <1>2, <2>1 DEF Taller
  <2>3. a1 - 1 - Taller(a2, b) = IF a1 - a2 = 0 THEN -1 ELSE 0
    BY <1>2, <2>1, <2>2
  <2>. QED  BY <1>11, <2>1, <2>2, <2>3
<1>. DEFINE C == A2 \cup B \cup {n}
<1>13. Node(R, c, s, A1, a1, C, 1 + Taller(a2, b)) /\ Moved(S, R, D, p, t, c)
  <2>1. A1 \cup A2 \cup {c} \cup B \cup {n} = D
    BY <1>4
  <2>2. OnSide(A1 \cup A2 \cup {c}, n, s) /\ a2 - b \in -1 .. 1 /\ p \notin D
    BY <1>2, <1>4, <1>5, <1>12
  <2>3. S.kid[n][s] = c
    BY DEF c
  <2>. HIDE DEF D
  <2>. QED  BY <1>2, <1>3, <1>4, <1>5, <1>10, <1>12, <2>1, <2>2, <2>3, Rotated
<1>14. AVL(R, c, A1 \cup C \cup {c}, 1 + Taller(a1, 1 + Taller(a2, b)))
  <2>1. a1 - (1 + Taller(a2, b)) \in -1 .. 1
    BY <1>2, <1>12
  <2>. HIDE DEF C
  <2>. QED  BY <1>13, <2>1, Join
<1>15. A1 \cup C \cup {c} = D
  BY <1>4
<1>16. 1 + Taller(a1, 1 + Taller(a2, b)) = IF S.bal[c] = 0 THEN a + 1 ELSE a
  <2>1. S.bal[c] = 0 <=> a1 - a2 = 0
    BY <1>8 DEF Times
  <2>. QED  BY <1>2, <1>12, <2>1 DEF Taller
<1>17. R.used = S.used
  BY <1>10 DEF Turning
<1>18. ~Unbalanced(R, n)
  <2>. DEFINE x == IF a1 - a2 = 0 THEN 1 ELSE 0
  <2>1. x \in Int /\ x \in -1 .. 1
    OBVIOUS
  <2>. HIDE DEF x
  <2>2. R.bal[n] = Times(s, x)
    BY <1>11 DEF x
  <2>. QED  BY <1>2, <2>1, <2>2, Leaning
<1>. QED  BY <1>3, <1>13, <1>14, <1>15, <1>16, <1>17, <1>18 DEF Mended, R, c

\* The rotation of the child and then of the node mends one that is heavy on the inside.
LEMMA RotatedTwice ==
    ASSUME NEW S \in Trees, NEW n, NEW s, NEW A, NEW a, NEW B, NEW b, Node(S, n, s, A, a, B, b), a = b + 2,
           NEW p, NEW t, At(S, n, A \cup B \cup {n}, p, t),
           NEW c, c = S.kid[n][s], Heavy(S, c, -s),
           NEW T, T = Rotate(S, c, n, -s), NEW R, R = Rotate(T, n, p, s)
    PROVE  /\ Mended(S, R, A \cup B \cup {n}, p, t, a)
           /\ ~Unbalanced(R, n) /\ S.bal[c] # 0
<1>. DEFINE D == A \cup B \cup {n}
<1>0. Apart(S, n, s, A, a, B, b)
  BY NodeType
<1>1. /\ n \in Data /\ s \in Sides /\ A \in SUBSET Data /\ B \in SUBSET Data /\ a \in Nat /\ b \in Nat
      /\ n \notin A /\ n \notin B /\ A \cap B = {} /\ OnSide(A, n, s) /\ OnSide(B, n, -s)
      /\ AVL(S, c, A, a) /\ AVL(S, S.kid[n][-s], B, b)
  BY <1>0 DEF Apart
<1>2. -s \in Sides /\ -(-s) = s /\ -s # s
  BY <1>1, Opposite
<1>3. c # NULL /\ c \in A /\ c \in Data
  BY <1>1, AVLType
<1>4. PICK A1, A2 \in SUBSET A, a1, a2 \in Nat :
        /\ Node(S, c, s, A1, a1, A2, a2)
        /\ A = A1 \cup A2 \cup {c} /\ a = 1 + Taller(a1, a2) /\ a1 - a2 \in -1 .. 1
  BY <1>1, <1>3, Split
<1>5. S.bal[n] = Times(s, 2) /\ S.bal[c] = Times(s, a1 - a2) /\ a1 - a2 \in Int
  BY <1>1, <1>4, SMTT(30) DEF Node, Times
<1>6. a1 - a2 < 0 /\ Unbalanced(S, n)
  BY <1>1, <1>5, Leaning
<1>7. a1 = b /\ a2 = b + 1 /\ S.bal[c] = Times(s, 0 - 1) /\ S.bal[c] # 0
  <2>1. a1 = b /\ a2 = b + 1 /\ a1 - a2 = 0 - 1
    BY <1>1, <1>4, <1>6 DEF Taller
  <2>. QED  BY <1>5, <2>1 DEF Times
<1>8. Apart(S, c, s, A1, a1, A2, a2)
  BY <1>4, NodeType
<1>. DEFINE g == S.kid[c][-s]
<1>9. AVL(S, g, A2, a2) /\ AVL(S, S.kid[c][s], A1, a1) /\ OnSide(A1, c, s) /\ OnSide(A2, c, -s)
      /\ c \notin A2
  BY <1>8 DEF Apart
<1>10. g # NULL /\ g \in A2 /\ g \in Data
  BY <1>1, <1>7, <1>9, AVLType, SMTT(30)
<1>11. PICK G1, G2 \in SUBSET A2, g1, g2 \in Nat :
        /\ Node(S, g, -s, G1, g1, G2, g2)
        /\ A2 = G1 \cup G2 \cup {g} /\ a2 = 1 + Taller(g1, g2) /\ g1 - g2 \in -1 .. 1
  <2>. DEFINE m == -s
  <2>1. AVL(S, g, A2, a2) /\ g # NULL /\ m \in Sides
    BY <1>2, <1>9, <1>10
  <2>. HIDE DEF g, m
  <2>2. \E G1, G2 \in SUBSET A2, g1, g2 \in Nat :
          /\ Node(S, g, m, G1, g1, G2, g2)
          /\ A2 = G1 \cup G2 \cup {g} /\ a2 = 1 + Taller(g1, g2) /\ g1 - g2 \in -1 .. 1
    BY <2>1, Split, SMTT(30)
  <2>. QED  BY <2>2 DEF m
<1>12. S.bal[g] = Times(-s, g1 - g2) /\ g1 - g2 \in Int
  BY <1>11, NodeBalance
<1>13. S.bal[c] = Times(-s, 1)
  <2>1. \/ s = 1 /\ -s # 1
        \/ s # 1 /\ -s = 1
    BY <1>1, Opposite
  <2>. QED  BY <1>7, <2>1 DEF Times
<1>. HIDE DEF g
<1>14. At(S, c, A, n, s)
  BY <1>1, Basics DEF At, Under
<1>15. /\ n # NULL /\ n # c /\ n # g /\ c # g /\ Side(c, n) = s /\ n \in NodeOrNull
  BY <1>1, <1>3, <1>9, <1>10, SideIs, Basics
<1>16. Heavy(S, c, -s) /\ ~Unbalanced(S, g)
  <2>1. Unbalanced(S, g) <=> g1 - g2 \notin -1 .. 1
    BY <1>2, <1>12, Leaning
  <2>. QED  BY <1>11, <2>1
<1>17. Turning(S, T, c, g, n, s, -s)
  <2>1. S.kid[c][-s] = g
    BY DEF g
  <2>. QED  BY <1>1, <1>2, <1>3, <1>10, <1>15, <1>16, <2>1, RotateIs
<1>. DEFINE y == g1 - g2
<1>18. /\ T.bal[c] = Times(-s, IF y <= 0 THEN 0 ELSE 0 - 1)
       /\ T.bal[g] = Times(-s, IF y <= 0 THEN y - 1 ELSE 0 - 1)
  <2>1. T.bal[c] = RotatedBalance(S, c, g, -s) /\ T.bal[g] = ChildBalance(S, c, g, -s)
    BY <1>3, <1>10, <1>15, <1>17 DEF Turning
  <2>2. /\ RotatedBalance(S, c, g, -s) = Times(-s, 1 - (IF y <= 0 THEN 1 ELSE IF y > 1 THEN 3 ELSE 2))
        /\ ChildBalance(S, c, g, -s) = Times(-s, IF y <= 0 THEN y - 1 ELSE IF 1 \in -1 .. 1 THEN -1 ELSE 0)
    <3>1. y \in Int /\ 1 \in Int /\ S.bal[g] = Times(-s, y)
      BY <1>12
    <3>. HIDE DEF y
    <3>. QED  BY <1>2, <1>13, <3>1, Balances
  <2>. QED  BY <1>11, <2>1, <2>2
<1>19. /\ g2 = IF y <= 0 THEN b ELSE b - 1
       /\ g1 = IF y <= 0 THEN b + y ELSE b
       /\ Taller(g2, a1) = b /\ g2 - a1 \in -1 .. 1
       /\ T.bal[c] = Times(-s, g2 - a1)
       /\ T.bal[g] = Times(-s, g1 - 1 - Taller(g2, a1))
  <2>1. /\ g2 = IF y <= 0 THEN b ELSE b - 1
        /\ g1 = IF y <= 0 THEN b + y ELSE b
    BY <1>1, <1>7, <1>11 DEF Taller
  <2>2. /\ Taller(g2, a1) = b /\ g2 - a1 \in -1 .. 1
        /\ g2 - a1 = IF y <= 0 THEN 0 ELSE 0 - 1
    BY <1>1, <1>7, <2>1 DEF Taller
  <2>3. g1 - 1 - Taller(g2, a1) = IF y <= 0 THEN y - 1 ELSE 0 - 1
    BY <1>1, <1>11, <2>1, <2>2
  <2>. QED  BY <1>18, <2>1, <2>2, <2>3
<1>. DEFINE C1 == G2 \cup A1 \cup {c}
<1>20. Node(T, g, -s, G1, g1, C1, 1 + b) /\ Moved(S, T, A, n, s, g)
  <2>1. G1 \cup G2 \cup {g} \cup A1 \cup {c} = A
    BY <1>4, <1>11
  <2>2. /\ S.kid[c][-s] = g /\ S.kid[c][-(-s)] = S.kid[c][s] /\ OnSide(A1, c, -(-s))
        /\ OnSide(G1 \cup G2 \cup {g}, c, -s) /\ n \notin A
    BY <1>1, <1>2, <1>9, <1>11 DEF g
  <2>. QED  BY <1>2, <1>3, <1>9, <1>10, <1>11, <1>15, <1>17, <1>19, <1>1, <2>1, <2>2, Rotated
<1>. HIDE DEF y, C1
<1>. DEFINE z == (1 + b) - g1
<1>21. y \in Int /\ z \in 1 .. 2 /\ g1 - b = 1 - z /\ Taller(g1, b) = b
  <2>1. y = g1 - g2 /\ y \in -1 .. 1
    BY <1>11 DEF y
  <2>. QED  BY <1>1, <1>19, <2>1 DEF Taller
<1>22. /\ T \in Trees /\ T.abort = S.abort /\ T.kid[n][s] = g /\ T.root = S.root
       /\ \A k \in Data \ A : /\ T.bal[k] = S.bal[k]
                             /\ \A u \in Sides : ~(k = n /\ u = s) => T.kid[k][u] = S.kid[k][u]
  BY <1>15, <1>20 DEF Moved, Under
<1>23. /\ T.bal[n] = Times(s, 2) /\ T.kid[n][-s] = S.kid[n][-s] /\ Same(S, T, B)
  <2>1. \A k \in B : k \in Data \ A /\ k # n
    BY <1>1
  <2>. QED  BY <1>1, <1>2, <1>5, <1>22, <2>1 DEF Same
<1>24. Node(T, g, s, C1, 1 + b, G1, g1)
  <2>1. Apart(T, g, -s, G1, g1, C1, 1 + b)
    BY <1>20, NodeType
  <2>. QED  BY <1>2, <2>1 DEF Apart
<1>25. T.bal[g] = Times(s, z) /\ z \in Int
  BY <1>1, <1>21, <1>24, NodeBalance
<1>26. Heavy(T, n, s) /\ Unbalanced(T, n)
  <2>. DEFINE x == 2
  <2>1. s \in Sides /\ T.bal[n] = Times(s, x) /\ x \in Int /\ x > 0 /\ x \notin -1 .. 1
    BY <1>1, <1>23
  <2>. HIDE DEF x
  <2>. QED  BY <2>1, Leaning
<1>27. /\ p \in NodeOrNull /\ t \in Sides /\ p \notin D
       /\ p # NULL => Side(n, p) = t
       /\ p = NULL => n = T.root
  <2>1. /\ p \in NodeOrNull /\ t \in Sides /\ Under(S, p, t) = n /\ p \notin D
        /\ (p # NULL => OnSide(D, p, t)) /\ D \in SUBSET Data /\ n \in D
    BY DEF At
  <2>2. p # NULL => p \in Data
    BY <2>1 DEF NodeOrNull
  <2>. HIDE DEF D
  <2>. QED  BY <1>22, <2>1, <2>2, SideIs DEF Under
<1>28. Turning(T, R, n, g, p, t, s)
  <2>1. p # n /\ p # g
    BY <1>10, <1>27, <1>1
  <2>. HIDE DEF D, z
  <2>. QED  BY <1>1, <1>10, <1>15, <1>22, <1>26, <1>27, <2>1, RotateIs
<1>29. R.bal[n] = Times(s, g1 - b) /\ R.bal[g] = Times(s, (1 + b) - 1 - Taller(g1, b))
  <2>1. R.bal[n] = RotatedBalance(T, n, g, s) /\ R.bal[g] = ChildBalance(T, n, g, s)
    BY <1>1, <1>10, <1>15, <1>28 DEF Turning
  <2>2. /\ RotatedBalance(T, n, g, s) = Times(s, 2 - (IF z <= 0 THEN 1 ELSE IF z > 1 THEN 3 ELSE 2))
        /\ ChildBalance(T, n, g, s) = Times(s, IF z <= 0 THEN z - 1 ELSE IF 2 \in -1 .. 1 THEN -1 ELSE 0)
    <3>. HIDE DEF z
    <3>. QED  BY <1>1, <1>23, <1>25, Balances
  <2>3. /\ g1 - b = 2 - (IF z <= 0 THEN 1 ELSE IF z > 1 THEN 3 ELSE 2)
        /\ ~(z <= 0) /\ 2 \notin -1 .. 1 /\ (1 + b) - 1 - Taller(g1, b) = 0
    <3>. HIDE DEF z
    <3>. QED  BY <1>1, <1>21
  <2>. QED  BY <2>1, <2>2, <2>3
<1>30. /\ Node(R, g, s, C1, 1 + b, G1 \cup B \cup {n}, 1 + Taller(g1, b))
       /\ Moved(T, R, D, p, t, g)
  <2>1. C1 \cup G1 \cup {g} = A
    BY <1>4, <1>11 DEF C1
  <2>2. /\ OnSide(C1 \cup G1 \cup {g}, n, s) /\ C1 \cup G1 \cup {g} \cup B \cup {n} = D
    BY <1>1, <2>1
  <2>3. g1 - b \in -1 .. 1
    BY <1>21
  <2>4. AVL(T, T.kid[n][-s], B, b)
    BY <1>1, <1>23, AVLFrame
  <2>. HIDE DEF D
  <2>. QED  BY <1>1, <1>10, <1>22, <1>24, <1>27, <1>28, <1>29, <2>2, <2>3, <2>4, Rotated
<1>31. AVL(R, g, D, a)
  <2>1. /\ (1 + b) - (1 + Taller(g1, b)) \in -1 .. 1
        /\ 1 + Taller(1 + b, 1 + Taller(g1, b)) = a
    BY <1>1, <1>21 DEF Taller
  <2>2. C1 \cup (G1 \cup B \cup {n}) \cup {g} = D
    BY <1>4, <1>11 DEF C1
  <2>3. AVL(R, g, C1 \cup (G1 \cup B \cup {n}) \cup {g}, 1 + Taller(1 + b, 1 + Taller(g1, b)))
    BY <1>30, <2>1, Join
  <2>. HIDE DEF D
  <2>. QED  BY <2>1, <2>2, <2>3
<1>32. Moved(S, R, D, p, t, g)
  <2>1. A \subseteq D /\ n \in D
    OBVIOUS
  <2>. QED  BY <1>15, <1>20, <1>30, <2>1, MovedTwice
<1>33. ~Unbalanced(R, n)
  <2>1. g1 - b \in Int /\ g1 - b \in -1 .. 1
    BY <1>1, <1>21
  <2>. QED  BY <1>1, <1>29, <2>1, Leaning
<1>34. R.used = S.used /\ g \in D
  BY <1>10, <1>17, <1>28 DEF Turning
<1>. QED  BY <1>7, <1>31, <1>32, <1>33, <1>34 DEF Mended

\* at_balance mends any node with a side two higher than the other: the subtree is an
\* AVL tree of the same data, and lower by one unless the higher side was in balance.
LEMMA BalanceIs ==
    ASSUME NEW S \in Trees, NEW n, NEW s, NEW A, NEW a, NEW B, NEW b, Node(S, n, s, A, a, B, b), a = b + 2,
           NEW p, NEW t, At(S, n, A \cup B \cup {n}, p, t)
    PROVE  Mended(S, at_balance(S, n, p), A \cup B \cup {n}, p, t, IF S.bal[S.kid[n][s]] = 0 THEN a + 1 ELSE a)
<1>1. Apart(S, n, s, A, a, B, b)
  BY NodeType
<1>2. s \in Sides /\ a \in Nat /\ b \in Nat
  BY <1>1 DEF Apart
<1>3. S.bal[n] = Times(s, 2)
  BY <1>2 DEF Node, Times
<1>4. (IF S.bal[n] > 0 THEN 1 ELSE -1) = s
  <2>1. \/ s = 1
        \/ s # 1 /\ s = -1
    BY <1>2 DEF Sides
  <2>2. (S.bal[n] > 0) <=> s = 1
    BY <1>3, <2>1 DEF Times
  <2>. QED  BY <2>1, <2>2
<1>. DEFINE T == PreRotated(S, n, s)
            R == Rotate(T, n, p, s)
<1>5. at_balance(S, n, p) = Claim(R, ~Unbalanced(R, n), "!atn_unbalanced(atn)")
  BY <1>4 DEF at_balance
<1>6. /\ Mended(S, R, A \cup B \cup {n}, p, t, IF S.bal[S.kid[n][s]] = 0 THEN a + 1 ELSE a)
      /\ ~Unbalanced(R, n)
  <2>1. CASE Heavy(S, S.kid[n][s], -s)
    <3>1. T = Rotate(S, S.kid[n][s], n, -s)
      BY <2>1 DEF PreRotated
    <3>. HIDE DEF T
    <3>2. /\ Mended(S, R, A \cup B \cup {n}, p, t, a)
          /\ ~Unbalanced(R, n) /\ S.bal[S.kid[n][s]] # 0
      BY <2>1, <3>1, RotatedTwice
    <3>. QED  BY <3>2
  <2>2. CASE ~Heavy(S, S.kid[n][s], -s)
    <3>1. T = S
      BY <2>2 DEF PreRotated
    <3>. QED  BY <2>2, <3>1, RotatedOnce
  <2>. QED  BY <2>1, <2>2
<1>7. at_balance(S, n, p) = R
  BY <1>5, <1>6 DEF Claim
<1>. QED  BY <1>6, <1>7

-----------------------------------------------------------------------------
(* Mending a node after a change below it                                  *)

\* n's subtree on side s had height a0 when n was last balanced.
Stale(S, n, s, A, a, B, b, a0) ==
    /\ n \in Data /\ s \in Sides
    /\ AVL(S, S.kid[n][s], A, a) /\ OnSide(A, n, s)
    /\ AVL(S, S.kid[n][-s], B, b) /\ OnSide(B, n, -s)
    /\ a0 \in Nat /\ a0 - b \in -1 .. 1 /\ S.bal[n] = Times(s, a0 - b)

\* A subtree of n was replaced.
LEMMA ChildMoved ==
    ASSUME NEW S \in Trees, NEW n, NEW s, NEW A0, NEW a0, NEW B, NEW b, Node(S, n, s, A0, a0, B, b),
           a0 - b \in -1 .. 1,
           NEW T, NEW E \in SUBSET Data, NEW m, Moved(S, T, E, n, s, m), OnSide(E, n, s),
           NEW A, NEW a, AVL(T, m, A, a), A \subseteq E,
           NEW F, NEW p, NEW t, At(S, n, F, p, t), E \subseteq F, n \in F
    PROVE  Stale(T, n, s, A, a, B, b, a0) /\ At(T, n, F, p, t)
<1>1. Apart(S, n, s, A0, a0, B, b)
  BY NodeType
<1>2. /\ n \in Data /\ s \in Sides /\ B \in SUBSET Data /\ a0 \in Nat /\ b \in Nat
      /\ n \notin B /\ OnSide(B, n, -s) /\ AVL(S, S.kid[n][-s], B, b)
  BY <1>1 DEF Apart
<1>3. S.bal[n] = Times(s, a0 - b)
  BY <1>2, NodeBalance
<1>4. /\ \/ s = 1 /\ -s = -1 /\ -s # 1
         \/ s = -1 /\ -s = 1 /\ s # 1
      /\ -s # s /\ -s \in Sides
  BY <1>2, Opposite
<1>5. \A d \in Data : d \in Int
  BY Basics
<1>6. B \cap E = {} /\ n \notin E
  BY <1>2, <1>4, <1>5 DEF OnSide
<1>7. n # NULL
  BY <1>2, Basics
<1>8. /\ T.kid[n][s] = m /\ T.root = S.root
      /\ \A k \in Data \ E : /\ T.bal[k] = S.bal[k]
                            /\ \A u \in Sides : ~(k = n /\ u = s) => T.kid[k][u] = S.kid[k][u]
  BY <1>7 DEF Moved, Under
<1>9. Same(S, T, B)
  <2>1. \A k \in B : k \in Data \ E /\ k # n
    BY <1>2, <1>6
  <2>. QED  BY <1>8, <2>1 DEF Same
<1>10. AVL(T, T.kid[n][-s], B, b)
  <2>1. T.kid[n][-s] = S.kid[n][-s]
    BY <1>2, <1>4, <1>6, <1>8
  <2>. QED  BY <1>2, <1>9, <2>1, AVLFrame
<1>11. T.bal[n] = Times(s, a0 - b)
  BY <1>2, <1>3, <1>6, <1>8
<1>12. OnSide(A, n, s)
  BY DEF OnSide
<1>13. Stale(T, n, s, A, a, B, b, a0)
  BY <1>2, <1>8, <1>10, <1>11, <1>12 DEF Stale
<1>14. At(T, n, F, p, t)
  <2>1. /\ p \in NodeOrNull /\ t \in Sides /\ Under(S, p, t) = n /\ p \notin F
    BY DEF At
  <2>2. Under(T, p, t) = n
    <3>1. CASE p = NULL
      BY <1>8, <2>1, <3>1 DEF Under
    <3>2. CASE p # NULL
      <4>1. p \in Data \ E /\ p # n
        BY <2>1, <3>2 DEF NodeOrNull
      <4>. QED  BY <1>8, <2>1, <3>2, <4>1 DEF Under
    <3>. QED  BY <3>1, <3>2
  <2>. QED  BY <2>2 DEF At
<1>. QED  BY <1>13, <1>14

\* The balance of n is set right.
Weighed(S, R, n, s, A, a, B, b, p, t) ==
    /\ R \in Trees /\ Node(R, n, s, A, a, B, b) /\ At(R, n, A \cup B \cup {n}, p, t)
    /\ Moved(S, R, A \cup B \cup {n}, p, t, n) /\ R.used = S.used
    /\ R.kid = S.kid /\ \A k \in Data \ {n} : R.bal[k] = S.bal[k]

\* A node with its balance corrected is an AVL node, or has a side two higher.
LEMMA Reweighed ==
    ASSUME NEW S \in Trees, NEW n, NEW s, NEW A, NEW a, NEW B, NEW b, NEW a0, Stale(S, n, s, A, a, B, b, a0),
           NEW p, NEW t, At(S, n, A \cup B \cup {n}, p, t),
           NEW v, v = Times(s, a - b), NEW R, R = [S EXCEPT !.bal[n] = v]
    PROVE  Weighed(S, R, n, s, A, a, B, b, p, t)
<1>1. /\ n \in Data /\ s \in Sides
      /\ AVL(S, S.kid[n][s], A, a) /\ OnSide(A, n, s)
      /\ AVL(S, S.kid[n][-s], B, b) /\ OnSide(B, n, -s)
  BY DEF Stale
<1>2. A \in SUBSET Data /\ B \in SUBSET Data /\ a \in Nat /\ b \in Nat
  BY <1>1, AVLType
<1>3. v \in Int /\ v = IF s = 1 THEN a - b ELSE b - a
  BY <1>2 DEF Times
<1>4. /\ R \in Trees /\ R.used = S.used /\ R.kid = S.kid /\ R.abort = S.abort /\ R.root = S.root
      /\ R.bal[n] = v /\ \A k \in Data \ {n} : R.bal[k] = S.bal[k]
  BY <1>1, <1>3 DEF Trees
<1>5. n \notin A /\ n \notin B
  BY <1>1, <1>2, Basics DEF OnSide
<1>6. Same(S, R, A) /\ Same(S, R, B)
  BY <1>2, <1>4, <1>5 DEF Same
<1>7. Node(R, n, s, A, a, B, b)
  <2>1. AVL(R, R.kid[n][s], A, a) /\ AVL(R, R.kid[n][-s], B, b)
    BY <1>1, <1>4, <1>6, AVLFrame
  <2>. QED  BY <1>1, <1>3, <1>4, <2>1 DEF Node
<1>8. At(R, n, A \cup B \cup {n}, p, t)
  BY <1>4 DEF At, Under
<1>9. Moved(S, R, A \cup B \cup {n}, p, t, n)
  <2>1. Under(R, p, t) = n
    BY <1>8 DEF At
  <2>. QED  BY <1>4, <2>1 DEF Moved
<1>. QED  BY <1>4, <1>7, <1>8, <1>9 DEF Weighed

\* The result of a call for a place: r.s has there an AVL tree of D, of height h, and
\* is S outside E.
Result(S, r, E, p, t, D, h) ==
    /\ r.err = "ok" /\ r.changed \in BOOLEAN
    /\ \E m \in D \cup {NULL} : Moved(S, r.s, E, p, t, m) /\ AVL(r.s, m, D, h)

\* By how much a height has changed.
ByOne(r) == IF r.changed THEN 1 ELSE 0

\* A tree that grew has more on one side.
Leans(r, p, t, h) == r.changed => r.s.bal[Under(r.s, p, t)] # 0 \/ h = 1

\* The subtree of D has been raised, or lowered: it is at its place with height h.
Higher(S, r, D, p, t, h) ==
    Result(S, r, D, p, t, D, h) /\ Leans(r, p, t, h) /\ r.s.used = S.used
\* The same data are left below, the height is h, and nothing was freed.
Lower(S, r, D, p, t, h) ==
    Result(S, r, D, p, t, D, h) /\ r.s.used = S.used

\* Raised, given a true account of whether the subtree on side s has grown, leaves an
\* AVL tree and gives a true account of whether that has grown.
LEMMA RaisedIs ==
    ASSUME NEW S \in Trees, NEW n, NEW s, NEW A, NEW a, NEW B, NEW b, NEW a0, Stale(S, n, s, A, a, B, b, a0),
           NEW changed \in BOOLEAN, a = IF changed THEN a0 + 1 ELSE a0,
           changed => S.bal[S.kid[n][s]] # 0 \/ a = 1,
           NEW p, NEW t, At(S, n, A \cup B \cup {n}, p, t),
           NEW r, r = Raised(Changed(S, "ok", changed), n, p, s)
    PROVE  Higher(S, r, A \cup B \cup {n}, p, t, (1 + Taller(a0, b)) + ByOne(r))
<1>. DEFINE D == A \cup B \cup {n}
            h == 1 + Taller(a0, b)
<1>0. SUFFICES Result(S, r, D, p, t, D, h + ByOne(r)) /\ Leans(r, p, t, h + ByOne(r)) /\ r.s.used = S.used
  BY DEF Higher
<1>1. /\ n \in Data /\ s \in Sides
      /\ AVL(S, S.kid[n][s], A, a) /\ OnSide(A, n, s)
      /\ AVL(S, S.kid[n][-s], B, b) /\ OnSide(B, n, -s)
      /\ a0 \in Nat /\ a0 - b \in -1 .. 1 /\ S.bal[n] = Times(s, a0 - b)
  BY DEF Stale
<1>2. a \in Nat /\ b \in Nat /\ a0 - b \in Int /\ h \in Nat
  BY <1>1, AVLType DEF Taller
<1>3. CASE ~changed
  <2>1. ~Unbalanced(S, n)
    BY <1>1, <1>2, Leaning
  <2>2. r = Changed(S, "ok", FALSE)
    BY <1>3, <2>1 DEF Raised, Changed, Claim
  <2>3. r.s = S /\ r.err = "ok" /\ r.changed = FALSE
    BY <2>2 DEF Changed
  <2>4. Node(S, n, s, A, a, B, b) /\ a = a0
    BY <1>1, <1>2, <1>3 DEF Node, Times
  <2>5. AVL(S, n, D, h)
    BY <1>1, <2>4, Join
  <2>6. Moved(S, S, D, p, t, n)
    BY DEF Moved, At
  <2>. HIDE DEF h
  <2>7. h + 0 = h
    BY <1>2
  <2>. QED  BY <2>3, <2>5, <2>6, <2>7 DEF Result, Leans, ByOne, h
<1>4. CASE changed
  <2>. DEFINE v == S.bal[n] + s
              T == [S EXCEPT !.bal[n] = v]
              up == ~Heavy(S, n, -s)
  <2>1. r = Balanced(T, n, p, up)
    BY <1>4 DEF Raised, Changed
  <2>2. v = Times(s, a - b) /\ a = a0 + 1
    BY <1>1, <1>2, <1>4 DEF Times, Sides
  <2>. HIDE DEF v
  <2>3. /\ T \in Trees /\ Node(T, n, s, A, a, B, b) /\ At(T, n, D, p, t)
        /\ Moved(S, T, D, p, t, n) /\ T.used = S.used
        /\ T.kid = S.kid /\ \A k \in Data \ {n} : T.bal[k] = S.bal[k]
    <3>1. Weighed(S, T, n, s, A, a, B, b, p, t)
      BY <2>2, Reweighed
    <3>. HIDE DEF T
    <3>. QED  BY <3>1 DEF Weighed
  <2>. HIDE DEF T
  <2>4. T.bal[n] = Times(s, a - b) /\ a - b \in Int
    BY <1>2, <2>3, NodeBalance
  <2>5. Unbalanced(T, n) <=> a - b \notin -1 .. 1
    BY <1>1, <2>4, Leaning
  <2>6. up <=> ~(a0 - b < 0)
    BY <1>1, <1>2, Leaning
  <2>. HIDE DEF up
  <2>7. CASE a = b + 2
    <3>1. Unbalanced(T, n)
      BY <1>2, <2>5, <2>7
    <3>2. r = Changed(at_balance(T, n, p), "ok", FALSE)
      BY <2>1, <3>1 DEF Balanced
    <3>3. S.kid[n][s] \in Data \ {n}
      <4>1. S.kid[n][s] # NULL
        BY <1>1, <1>2, <2>7, AVLType
      <4>2. S.kid[n][s] \in A /\ S.kid[n][s] \in Data
        BY <1>1, <4>1, AVLType
      <4>3. A \in SUBSET Data
        BY <1>1, AVLType
      <4>. QED  BY <1>1, <4>2, <4>3, SideIs
    <3>4. T.bal[T.kid[n][s]] # 0
      BY <1>2, <1>4, <2>3, <2>7, <3>3
    <3>5. Mended(T, at_balance(T, n, p), D, p, t, a)
      <4>. HIDE DEF D
      <4>1. Mended(T, at_balance(T, n, p), D, p, t, IF T.bal[T.kid[n][s]] = 0 THEN a + 1 ELSE a)
        BY <2>3, <2>7, BalanceIs DEF D
      <4>. QED  BY <3>4, <4>1
    <3>6. PICK m \in D : Moved(T, at_balance(T, n, p), D, p, t, m) /\ AVL(at_balance(T, n, p), m, D, a)
      BY <3>5 DEF Mended
    <3>7. r.s = at_balance(T, n, p) /\ r.err = "ok" /\ r.changed = FALSE
      BY <3>2 DEF Changed
    <3>8. Moved(S, r.s, D, p, t, m)
      BY <1>1, <2>3, <3>6, <3>7 DEF Moved
    <3>9. h + 0 = a
      <4>1. a0 = b + 1
        BY <1>1, <1>2, <2>2, <2>7
      <4>. QED  BY <1>2, <2>7, <4>1 DEF Taller
    <3>10. r.s.used = S.used
      BY <2>3, <3>5, <3>7 DEF Mended
    <3>. HIDE DEF D, h
    <3>. QED  BY <3>6, <3>7, <3>8, <3>9, <3>10 DEF Result, Leans, ByOne, D, h
  <2>8. CASE a # b + 2
    <3>1. a - b \in -1 .. 1 /\ ~Unbalanced(T, n)
      BY <1>1, <1>2, <2>2, <2>5, <2>8
    <3>2. r = Changed(T, "ok", up)
      BY <2>1, <3>1 DEF Balanced
    <3>3. r.s = T /\ r.err = "ok" /\ r.changed = up /\ up \in BOOLEAN
      BY <3>2 DEF Changed, up
    <3>4. AVL(T, n, D, 1 + Taller(a, b))
      BY <2>3, <3>1, Join
    <3>5. 1 + Taller(a, b) = h + (IF up THEN 1 ELSE 0)
      <4>1. CASE up
        <5>1. ~(a0 < b)
          BY <1>1, <1>2, <2>6, <4>1
        <5>. QED  BY <1>1, <1>2, <2>2, <4>1, <5>1 DEF Taller
      <4>2. CASE ~up
        <5>1. a0 < b
          BY <1>1, <1>2, <2>6, <4>2
        <5>. QED  BY <1>1, <1>2, <2>2, <4>2, <5>1 DEF Taller
      <4>. QED  BY <4>1, <4>2
    <3>6. up => T.bal[n] # 0 /\ Under(T, p, t) = n
      BY <1>1, <1>2, <2>2, <2>3, <2>4, <2>6 DEF Times, At
    <3>. HIDE DEF D, h
    <3>7. n \in D
      BY DEF D
    <3>. QED  BY <2>3, <3>3, <3>4, <3>5, <3>6, <3>7 DEF Result, Leans, ByOne, D, h
  <2>. QED  BY <2>7, <2>8
<1>. QED  BY <1>3, <1>4

\* Lowered, given a true account of whether the subtree on side s has shrunk, leaves
\* an AVL tree and gives a true account of whether that has shrunk.
LEMMA LoweredIs ==
    ASSUME NEW S \in Trees, NEW n, NEW s, NEW A, NEW a, NEW B, NEW b, NEW a0, Stale(S, n, s, A, a, B, b, a0),
           NEW changed \in BOOLEAN, a = IF changed THEN a0 - 1 ELSE a0,
           NEW p, NEW t, At(S, n, A \cup B \cup {n}, p, t),
           NEW r, r = Lowered(Changed(S, "ok", changed), n, p, s)
    PROVE  Lower(S, r, A \cup B \cup {n}, p, t, (1 + Taller(a0, b)) - ByOne(r))
<1>. DEFINE D == A \cup B \cup {n}
            h == 1 + Taller(a0, b)
            l == h - ByOne(r)
<1>0. SUFFICES Result(S, r, D, p, t, D, l) /\ r.s.used = S.used
  BY DEF Lower
<1>1. /\ n \in Data /\ s \in Sides
      /\ AVL(S, S.kid[n][s], A, a) /\ OnSide(A, n, s)
      /\ AVL(S, S.kid[n][-s], B, b) /\ OnSide(B, n, -s)
      /\ a0 \in Nat /\ a0 - b \in -1 .. 1 /\ S.bal[n] = Times(s, a0 - b)
  BY DEF Stale
<1>2. a \in Nat /\ b \in Nat /\ a0 - b \in Int /\ h \in Nat
  BY <1>1, AVLType DEF Taller
<1>3. CASE ~changed
  <2>1. ~Unbalanced(S, n)
    BY <1>1, <1>2, Leaning
  <2>2. r = Changed(S, "ok", FALSE)
    BY <1>3, <2>1 DEF Lowered, Changed, Claim
  <2>3. r.s = S /\ r.err = "ok" /\ r.changed = FALSE
    BY <2>2 DEF Changed
  <2>4. Node(S, n, s, A, a, B, b) /\ a = a0
    BY <1>1, <1>2, <1>3 DEF Node, Times
  <2>5. AVL(S, n, D, h)
    BY <1>1, <2>4, Join
  <2>6. Moved(S, S, D, p, t, n)
    BY DEF Moved, At
  <2>7. l = h
    BY <1>2, <2>3 DEF ByOne
  <2>8. n \in D
    OBVIOUS
  <2>. HIDE DEF h, l, D
  <2>9. Result(S, r, D, p, t, D, l)
    BY <2>3, <2>5, <2>6, <2>7, <2>8 DEF Result
  <2>. QED  BY <2>3, <2>9
<1>4. CASE changed
  <2>. DEFINE v == S.bal[n] - s
              T == [S EXCEPT !.bal[n] = v]
              down == Heavy(S, n, s)
  <2>1. r = Rebalanced(T, n, p, down)
    BY <1>4 DEF Lowered, Changed
  <2>2. v = Times(s, a - b) /\ a = a0 - 1
    BY <1>1, <1>2, <1>4 DEF Times, Sides
  <2>. HIDE DEF v
  <2>3. /\ T \in Trees /\ Node(T, n, s, A, a, B, b) /\ At(T, n, D, p, t)
        /\ Moved(S, T, D, p, t, n) /\ T.used = S.used
        /\ T.kid = S.kid /\ \A k \in Data \ {n} : T.bal[k] = S.bal[k]
    <3>1. Weighed(S, T, n, s, A, a, B, b, p, t)
      BY <2>2, Reweighed
    <3>. HIDE DEF T
    <3>. QED  BY <3>1 DEF Weighed
  <2>. HIDE DEF T
  <2>4. T.bal[n] = Times(s, a - b) /\ a - b \in Int
    BY <1>2, <2>3, NodeBalance
  <2>5. Unbalanced(T, n) <=> a - b \notin -1 .. 1
    BY <1>1, <2>4, Leaning
  <2>6. down <=> a0 - b > 0
    BY <1>1, <1>2, Leaning
  <2>. HIDE DEF down
  <2>7. CASE b = a + 2
    <3>1. Unbalanced(T, n) /\ ~down /\ a0 = b - 1
      BY <1>1, <1>2, <2>2, <2>5, <2>6, <2>7
    <3>2. r = Changed(at_balance(T, n, p), "ok", HeightDrops(T, n))
      BY <2>1, <3>1 DEF Rebalanced, Claim
    <3>3. HeightDrops(T, n) <=> T.bal[T.kid[n][-s]] # 0
      <4>1. (IF T.bal[n] > 0 THEN 1 ELSE -1) = -s
        <5>1. \/ s = 1 /\ -s = -1
              \/ s # 1 /\ -s = 1
          BY <1>1, Opposite
        <5>2. T.bal[n] > 0 <=> s # 1
          BY <1>2, <2>4, <2>7, <5>1 DEF Times
        <5>. QED  BY <5>1, <5>2
      <4>. QED  BY <4>1 DEF HeightDrops
    <3>4. Mended(T, at_balance(T, n, p), D, p, t, IF T.bal[T.kid[n][-s]] = 0 THEN b + 1 ELSE b)
      <4>1. Apart(T, n, s, A, a, B, b)
        BY <2>3, NodeType
      <4>2. Node(T, n, -s, B, b, A, a) /\ B \cup A \cup {n} = D
        BY <4>1 DEF Apart
      <4>3. At(T, n, B \cup A \cup {n}, p, t)
        BY <2>3, <4>2
      <4>4. Mended(T, at_balance(T, n, p), B \cup A \cup {n}, p, t, IF T.bal[T.kid[n][-s]] = 0 THEN b + 1 ELSE b)
        BY <2>3, <2>7, <4>2, <4>3, BalanceIs
      <4>. HIDE DEF D
      <4>. QED  BY <4>2, <4>4
    <3>. DEFINE e == IF T.bal[T.kid[n][-s]] = 0 THEN b + 1 ELSE b
                U == at_balance(T, n, p)
    <3>5. PICK m \in D : Moved(T, U, D, p, t, m) /\ AVL(U, m, D, e)
      BY <3>4 DEF Mended
    <3>6. r.s = U /\ r.err = "ok" /\ (r.changed <=> e = b) /\ r.changed \in BOOLEAN
      <4>1. r.s = U /\ r.err = "ok" /\ r.changed = HeightDrops(T, n)
        BY <3>2 DEF Changed
      <4>2. e = b <=> T.bal[T.kid[n][-s]] # 0
        BY <1>2
      <4>3. HeightDrops(T, n) \in BOOLEAN
        BY DEF HeightDrops
      <4>. QED  BY <3>3, <4>1, <4>2, <4>3, Zenon
    <3>7. Moved(S, r.s, D, p, t, m)
      BY <1>1, <2>3, <3>5, <3>6 DEF Moved
    <3>8. h - (IF r.changed THEN 1 ELSE 0) = e
      <4>1. h = 1 + b /\ (e = b \/ e = b + 1)
        BY <1>2, <2>7, <3>1 DEF Taller
      <4>. HIDE DEF h, e
      <4>2. CASE r.changed
        BY <1>2, <3>6, <4>1, <4>2
      <4>3. CASE ~r.changed
        BY <1>2, <3>6, <4>1, <4>3
      <4>. QED  BY <4>2, <4>3
    <3>9. r.s.used = S.used
      BY <2>3, <3>4, <3>6 DEF Mended
    <3>10. l = e
      BY <3>8 DEF ByOne
    <3>. HIDE DEF D, h, e, U, l
    <3>11. Result(S, r, D, p, t, D, l)
      BY <3>5, <3>6, <3>7, <3>10 DEF Result
    <3>. QED  BY <3>9, <3>11
  <2>8. CASE b # a + 2
    <3>1. a - b \in -1 .. 1 /\ ~Unbalanced(T, n)
      BY <1>1, <1>2, <2>2, <2>5, <2>8
    <3>2. r = Changed(T, "ok", down)
      BY <2>1, <3>1 DEF Rebalanced
    <3>3. r.s = T /\ r.err = "ok" /\ r.changed = down /\ down \in BOOLEAN
      BY <3>2 DEF Changed, Heavy, down
    <3>4. AVL(T, n, D, 1 + Taller(a, b))
      BY <2>3, <3>1, Join
    <3>5. 1 + Taller(a, b) = h - (IF down THEN 1 ELSE 0)
      <4>1. CASE down
        <5>1. a0 = b + 1 /\ a = b
          BY <1>1, <1>2, <2>2, <2>6, <4>1
        <5>2. Taller(a0, b) = b + 1 /\ Taller(a, b) = b /\ b \in Int
          BY <1>1, <1>2, <5>1 DEF Taller
        <5>3. h = 1 + (b + 1)
          BY <5>2
        <5>. HIDE DEF h, down
        <5>. QED  BY <4>1, <5>2, <5>3
      <4>2. CASE ~down
        <5>1. ~(a0 > b)
          BY <1>1, <1>2, <2>6, <4>2
        <5>2. Taller(a0, b) = b /\ Taller(a, b) = b /\ b \in Int
          BY <1>1, <1>2, <2>2, <5>1 DEF Taller
        <5>3. h = 1 + b
          BY <5>2
        <5>. HIDE DEF h, down
        <5>. QED  BY <4>2, <5>2, <5>3
      <4>. QED  BY <4>1, <4>2
    <3>6. n \in D /\ l = 1 + Taller(a, b)
      BY <3>3, <3>5 DEF ByOne
    <3>. HIDE DEF D, h, l
    <3>7. Result(S, r, D, p, t, D, l)
      BY <2>3, <3>3, <3>4, <3>6 DEF Result
    <3>. QED  BY <2>3, <3>3, <3>7
  <2>. QED  BY <2>7, <2>8
<1>. QED  BY <1>3, <1>4

-----------------------------------------------------------------------------
(* Induction and recursion on the depth                                    *)

\* A set that has 0, and i if it has i - 1, has the numbers up to N.
LEMMA Climb ==
    ASSUME NEW N \in Nat, NEW P, 0 \in P, \A i \in 1 .. N : i - 1 \in P => i \in P
    PROVE  \A i \in 0 .. N : i \in P
<1>. DEFINE R == {ss \in Nat \X Nat : ss[1] < ss[2]}
            missing == {i \in 0 .. N : i \notin P}
<1>1. SUFFICES ASSUME missing # {}  PROVE FALSE
  OBVIOUS
<1>2. R = OpToRel(<, Nat)
  BY Zenon DEF OpToRel
<1>3. IsWellFoundedOn(R, Nat)
  BY <1>2, NatLessThanWellFounded, Zenon
<1>4. missing \subseteq Nat
  OBVIOUS
<1>5. PICK i \in missing : \A k \in missing : <<k, i>> \notin R
  <2>. HIDE DEF R, missing
  <2>. QED  BY <1>1, <1>3, <1>4, WFMin
<1>6. i \in 1 .. N /\ i \notin P
  BY <1>5
<1>7. i - 1 \in Nat /\ i \in Nat /\ i - 1 < i
  BY <1>6
<1>8. <<i - 1, i>> \in R
  BY <1>7
<1>9. i - 1 \in 0 .. N /\ i - 1 \notin missing
  BY <1>5, <1>6, <1>8
<1>. QED  BY <1>6, <1>9

\* What the recursion of _at_insert returns at a node, given what it returned below.
InsertBelow(S, d, below, n, p) ==
    LET s == Side(d, n) IN
    IF S.kid[n][s] = NULL THEN Raised(Linked(S, n, s, d), n, p, s)
    ELSE Raised(below[S.kid[n][s]][n], n, p, s)

\* f is the function of the depth that _at_insert is the last value of.
Inserts(S, d, f) ==
    \A k \in 0 .. Deepest, n \in NodeOrNull, p \in NodeOrNull :
      f[k][n][p] = IF k = 0 \/ d = n THEN Changed(S, "EEXIST", FALSE)
                   ELSE InsertBelow(S, d, f[k - 1], n, p)

\* There is such a recursion.
LEMMA InsertRecursion ==
    ASSUME NEW S, NEW d
    PROVE  \E f : Inserts(S, d, f) /\ _at_insert(S, d) = f[Deepest][S.root][NULL]
<1>. DEFINE Level(f, i) ==
              [n \in NodeOrNull |-> [p \in NodeOrNull |->
                 IF i = 0 \/ d = n THEN Changed(S, "EEXIST", FALSE)
                 ELSE LET s == Side(d, n) IN
                      IF S.kid[n][s] = NULL THEN Raised(Linked(S, n, s, d), n, p, s)
                      ELSE Raised(f[i - 1][S.kid[n][s]][n], n, p, s)]]
            Solves(f, k) == f = [i \in 0 .. k |-> Level(f, i)]
            P == {k \in 0 .. Deepest : \E f : Solves(f, k)}
<1>1. \A f, g : Level(f, 0) = Level(g, 0)
  OBVIOUS
<1>2. \A f, g, i : f[i - 1] = g[i - 1] => Level(f, i) = Level(g, i)
  OBVIOUS
<1>3. \A f, i : \A n, p \in NodeOrNull :
        Level(f, i)[n][p] = IF i = 0 \/ d = n THEN Changed(S, "EEXIST", FALSE)
                            ELSE InsertBelow(S, d, f[i - 1], n, p)
  BY DEF InsertBelow
<1>4. _at_insert(S, d) = (CHOOSE f : Solves(f, Deepest))[Deepest][S.root][NULL]
  BY DEF _at_insert
<1>. HIDE DEF Level
<1>5. 0 \in P
  <2>. DEFINE g == [i \in 0 .. 0 |-> Level(0, 0)]
  <2>1. Solves(g, 0)
    BY <1>1
  <2>. QED  BY <2>1, Basics
<1>6. ASSUME NEW k \in 1 .. Deepest, k - 1 \in P  PROVE k \in P
  <2>1. PICK f : Solves(f, k - 1)
    BY <1>6
  <2>. DEFINE g == [i \in 0 .. k |-> IF i = k THEN Level(f, k) ELSE f[i]]
  <2>2. \A i \in 0 .. k - 1 : g[i] = f[i] /\ f[i] = Level(f, i)
    BY <2>1
  <2>3. \A i \in 0 .. k : g[i] = Level(g, i)
    <3>1. g[k] = Level(g, k)
      BY <1>2, <2>2
    <3>2. ASSUME NEW i \in 1 .. k - 1  PROVE g[i] = Level(g, i)
      <4>1. i - 1 \in 0 .. k - 1 /\ i \in 0 .. k - 1
        OBVIOUS
      <4>2. g[i - 1] = f[i - 1] /\ g[i] = Level(f, i)
        BY <2>2, <4>1
      <4>. HIDE DEF g
      <4>. QED  BY <1>2, <4>2
    <3>3. g[0] = Level(g, 0)
      BY <1>1, <2>2
    <3>. QED  BY <3>1, <3>2, <3>3
  <2>4. Solves(g, k)
    BY <2>3
  <2>5. k \in 0 .. Deepest
    OBVIOUS
  <2>. HIDE DEF Solves, g
  <2>. QED  BY <2>4, <2>5
<1>7. \E f : Solves(f, Deepest)
  <2>. HIDE DEF Solves
  <2>1. \A k \in 0 .. Deepest : k \in P
    BY <1>5, <1>6, Basics, Climb
  <2>. QED  BY <2>1, Basics
<1>. DEFINE f == CHOOSE f : Solves(f, Deepest)
<1>8. Solves(f, Deepest)
  <2>. HIDE DEF Solves
  <2>. QED  BY <1>7
<1>9. \A k \in 0 .. Deepest : f[k] = Level(f, k)
  <2>. HIDE DEF f
  <2>. QED  BY <1>8
<1>10. Inserts(S, d, f)
  <2>. HIDE DEF f
  <2>1. SUFFICES ASSUME NEW k \in 0 .. Deepest, NEW n \in NodeOrNull, NEW p \in NodeOrNull
                 PROVE  f[k][n][p] = IF k = 0 \/ d = n THEN Changed(S, "EEXIST", FALSE)
                                     ELSE InsertBelow(S, d, f[k - 1], n, p)
    BY Zenon DEF Inserts
  <2>2. f[k] = Level(f, k)
    BY <1>9
  <2>3. Level(f, k)[n][p] = IF k = 0 \/ d = n THEN Changed(S, "EEXIST", FALSE)
                            ELSE InsertBelow(S, d, f[k - 1], n, p)
    BY <1>3
  <2>. QED  BY <2>2, <2>3
<1>. QED  BY <1>4, <1>10

-----------------------------------------------------------------------------
(* Insertion                                                               *)

\* The result of inserting d into the subtree of D, of height h.
Grown(S, r, D, d, p, t, h) ==
    IF d \in D THEN r = Changed(S, "EEXIST", FALSE)
    ELSE Higher(S, r, D \cup {d}, p, t, h + ByOne(r))

\* From the subtree below a node to that of the node.
LEMMA GrownAbove ==
    ASSUME NEW S \in Trees, NEW n, NEW s, NEW A, NEW a, NEW B, NEW b, Node(S, n, s, A, a, B, b),
           a - b \in -1 .. 1,
           NEW d \in Data, d \notin A, d # n, Side(d, n) = s,
           NEW q, Grown(S, q, A, d, n, s, a),
           NEW p, NEW t, At(S, n, (A \cup B \cup {n}) \cup {d}, p, t),
           NEW r, r = Raised(q, n, p, s)
    PROVE  Grown(S, r, A \cup B \cup {n}, d, p, t, 1 + Taller(a, b))
<1>. DEFINE D == A \cup B \cup {n}
            E == A \cup {d}
            h == 1 + Taller(a, b)
            T == q.s
<1>1. Apart(S, n, s, A, a, B, b)
  BY NodeType
<1>2. /\ n \in Data /\ s \in Sides /\ A \in SUBSET Data /\ B \in SUBSET Data /\ a \in Nat /\ b \in Nat
      /\ OnSide(A, n, s) /\ OnSide(B, n, -s)
  BY <1>1 DEF Apart
<1>3. OnSide(E, n, s) /\ d \notin B
  <2>1. /\ \/ s = 1 /\ -s = -1 /\ -s # 1
           \/ s = -1 /\ -s = 1 /\ s # 1
    BY <1>2, Opposite
  <2>2. d \in Int /\ n \in Int
    BY <1>2, Basics
  <2>. QED  BY <1>2, <2>1, <2>2 DEF OnSide, Side
<1>4. /\ Result(S, q, E, n, s, E, a + ByOne(q))
      /\ Leans(q, n, s, a + ByOne(q)) /\ T.used = S.used
  BY DEF Grown, Higher
<1>5. PICK m \in E \cup {NULL} : Moved(S, T, E, n, s, m) /\ AVL(T, m, E, a + ByOne(q))
  BY <1>4 DEF Result
<1>6. q.err = "ok" /\ q.changed \in BOOLEAN
  BY <1>4 DEF Result
<1>7. T \in Trees /\ T.kid[n][s] = m
  BY <1>2, <1>5, Basics DEF Moved, Under
<1>8. a - b \in -1 .. 1 /\ E \in SUBSET Data /\ E \subseteq D \cup {d} /\ n \in D \cup {d}
  BY <1>2
<1>. HIDE DEF T
<1>. DEFINE e == a + ByOne(q)
            c == q.changed
            F == D \cup {d}
<1>9. Stale(T, n, s, E, e, B, b, a) /\ At(T, n, F, p, t)
  <2>1. At(S, n, F, p, t) /\ E \subseteq E /\ E \subseteq F /\ n \in F
    OBVIOUS
  <2>2. Moved(S, T, E, n, s, m) /\ AVL(T, m, E, e) /\ E \in SUBSET Data
    BY <1>5, <1>8
  <2>. HIDE DEF F, E, e
  <2>. QED  BY <1>3, <2>1, <2>2, ChildMoved
<1>10. r = Raised(Changed(T, "ok", q.changed), n, p, s)
  BY <1>6 DEF Raised, Changed, T
<1>11. q.changed => T.bal[T.kid[n][s]] # 0 \/ e = 1
  <2>1. Under(T, n, s) = T.kid[n][s]
    BY <1>2, Basics DEF Under
  <2>. QED  BY <1>4, <2>1 DEF Leans, T
<1>12. e = IF q.changed THEN a + 1 ELSE a
  BY <1>2 DEF ByOne
<1>13. E \cup B \cup {n} = F
  OBVIOUS
<1>14. Higher(T, r, F, p, t, h + ByOne(r))
  <2>1. /\ Stale(T, n, s, E, e, B, b, a) /\ At(T, n, E \cup B \cup {n}, p, t)
        /\ c \in BOOLEAN /\ e = (IF c THEN a + 1 ELSE a)
        /\ c => T.bal[T.kid[n][s]] # 0 \/ e = 1
        /\ r = Raised(Changed(T, "ok", c), n, p, s)
    BY <1>6, <1>9, <1>10, <1>11, <1>12, <1>13
  <2>. HIDE DEF D, E, F, e, c
  <2>2. Higher(T, r, E \cup B \cup {n}, p, t, h + ByOne(r))
    BY <1>7, <2>1, RaisedIs
  <2>. QED  BY <1>13, <2>2
<1>. DEFINE g == h + ByOne(r)
<1>15. Higher(S, r, F, p, t, g)
  <2>. HIDE DEF g, F
  <2>1. Result(T, r, F, p, t, F, g) /\ Leans(r, p, t, g) /\ r.s.used = S.used
    BY <1>4, <1>14 DEF Higher, g, T
  <2>2. PICK k \in F \cup {NULL} : Moved(T, r.s, F, p, t, k) /\ AVL(r.s, k, F, g)
    BY <2>1 DEF Result
  <2>3. Moved(S, r.s, F, p, t, k)
    <3>1. n # NULL /\ E \subseteq F /\ F \subseteq F /\ n \in F
      BY <1>2, Basics DEF F
    <3>. HIDE DEF E
    <3>. QED  BY <1>5, <2>2, <3>1, MovedTwice
  <2>. QED  BY <2>1, <2>2, <2>3 DEF Result, Higher
<1>16. d \notin D
  BY <1>3
<1>. HIDE DEF D, h
<1>17. Grown(S, r, D, d, p, t, h)
  BY <1>15, <1>16 DEF Grown
<1>. QED  BY <1>17 DEF D, h

\* d is not linked anywhere yet, if it is not in D.
Loose(S, D, d) == d \notin D => S.kid[d] = Childless /\ S.bal[d] = 0

\* One node is an AVL tree.
LEMMA LoneNode ==
    ASSUME NEW S, NEW d \in Data, S.kid[d] = Childless, S.bal[d] = 0
    PROVE  AVL(S, d, {d}, 1)
<1>1. 1 \in Sides /\ -1 \in Sides /\ S.kid[d][1] = NULL /\ S.kid[d][-1] = NULL
  BY DEF Childless, Sides
<1>2. AVL(S, NULL, {}, 0)
  BY EmptyAVL
<1>. DEFINE s == 1
<1>3. s \in Sides /\ S.kid[d][s] = NULL /\ S.kid[d][-s] = NULL
  BY <1>1
<1>4. Node(S, d, s, {}, 0, {}, 0)
  <2>. HIDE DEF s
  <2>. QED  BY <1>2, <1>3 DEF Node, OnSide
<1>5. 0 - 0 \in -1 .. 1 /\ {} \cup {} \cup {d} = {d} /\ 1 + Taller(0, 0) = 1
  BY DEF Taller
<1>6. AVL(S, d, {} \cup {} \cup {d}, 1 + Taller(0, 0))
  <2>. HIDE DEF s
  <2>. QED  BY <1>4, <1>5, Join
<1>. QED  BY <1>5, <1>6

\* A node linked where a child was missing is an AVL tree of itself, of height 1.
LEMMA LinkedGrows ==
    ASSUME NEW S \in Trees, NEW d \in Data, S.kid[d] = Childless, S.bal[d] = 0,
           NEW n \in Data, d # n, NEW s \in Sides
    PROVE  Grown(S, Linked(S, n, s, d), {}, d, n, s, 0)
<1>. DEFINE T == [S EXCEPT !.kid[n][s] = d]
            q == Linked(S, n, s, d)
            F == {} \cup {d}
            K == [S.kid EXCEPT ![n][s] = d]
<1>1. q.s = T /\ q.err = "ok" /\ q.changed = TRUE
  BY DEF Linked, Changed
<1>2. K \in [Data -> [Sides -> NodeOrNull]] /\ \A k \in Data, u \in Sides : K[k][u] = IF k = n /\ u = s THEN d ELSE S.kid[k][u]
  BY TreesFields, Basics
<1>3. T = [S EXCEPT !.kid = K]
  OBVIOUS
<1>. HIDE DEF K
<1>4. T \in Trees /\ T.kid = K /\ T.bal = S.bal /\ T.used = S.used /\ T.abort = S.abort /\ T.root = S.root
  BY <1>2, <1>3 DEF Trees
<1>. HIDE DEF T
<1>5. T.kid[d] = Childless /\ T.bal[d] = 0
  <2>1. T.kid[d] \in [Sides -> NodeOrNull] /\ S.kid[d] \in [Sides -> NodeOrNull]
    BY <1>4, TreesFields
  <2>2. \A u \in Sides : T.kid[d][u] = S.kid[d][u]
    BY <1>2, <1>4
  <2>. QED  BY <1>4, <2>1, <2>2
<1>6. AVL(T, d, {d}, 1) /\ F = {d}
  BY <1>5, LoneNode
<1>7. Moved(S, T, {d}, n, s, d)
  <2>1. Under(T, n, s) = d
    BY <1>2, <1>4, Basics DEF Under
  <2>. QED  BY <1>2, <1>4, <2>1 DEF Moved
<1>. HIDE DEF q, F
<1>8. ByOne(q) = 1 /\ 0 + 1 = 1
  BY <1>1 DEF ByOne
<1>9. Higher(S, q, F, n, s, 1)
  <2>1. Result(S, q, F, n, s, F, 1)
    BY <1>1, <1>6, <1>7 DEF Result
  <2>. QED  BY <1>1, <1>4, <2>1 DEF Higher, Leans
<1>10. Grown(S, q, {}, d, n, s, 0)
  BY <1>8, <1>9 DEF Grown, F
<1>. QED  BY <1>10 DEF q

\* An insertion does what it should at every node, at every depth.
LEMMA InsertGrows ==
    ASSUME NEW S \in Trees, NEW d \in Data, NEW f, Inserts(S, d, f),
           NEW k \in 0 .. Deepest, NEW n, NEW D, NEW h \in 0 .. k, AVL(S, n, D, h), n # NULL,
           NEW p, NEW t, At(S, n, D \cup {d}, p, t), Loose(S, D, d)
    PROVE  Grown(S, f[k][n][p], D, d, p, t, h)
<1>. DEFINE Good(i, m, X, e, q, u) ==
              AVL(S, m, X, e) /\ m # NULL /\ At(S, m, X \cup {d}, q, u) /\ Loose(S, X, d) /\ e <= i
                => Grown(S, f[i][m][q], X, d, q, u, e)
            P == {i \in 0 .. Deepest : \A m, X, e, q, u : Good(i, m, X, e, q, u)}
<1>1. 0 \in P
  <2>1. ASSUME NEW m, NEW X, NEW e, AVL(S, m, X, e), m # NULL  PROVE ~(e <= 0)
    BY <2>1, AVLType
  <2>. QED  BY <2>1, Basics
<1>2. ASSUME NEW i \in 1 .. Deepest, i - 1 \in P  PROVE i \in P
  <2>. SUFFICES ASSUME NEW m, NEW X, NEW e, NEW q, NEW u,
                       AVL(S, m, X, e), m # NULL, At(S, m, X \cup {d}, q, u), Loose(S, X, d), e <= i
                PROVE  Grown(S, f[i][m][q], X, d, q, u, e)
    OBVIOUS
  <2>. DEFINE s == Side(d, m)
              c == S.kid[m][s]
              r == f[i][m][q]
  <2>1. m \in Data /\ m \in NodeOrNull /\ m \in X /\ X \in SUBSET Data /\ e \in Nat
    BY AVLType
  <2>2. q \in NodeOrNull
    BY DEF At
  <2>3. r = IF d = m THEN Changed(S, "EEXIST", FALSE) ELSE InsertBelow(S, d, f[i - 1], m, q)
    <3>1. i \in 0 .. Deepest /\ i # 0
      OBVIOUS
    <3>. HIDE DEF P, Good
    <3>. QED  BY <2>1, <2>2, <3>1 DEF Inserts
  <2>. HIDE DEF r
  <2>4. CASE d = m
    <3>1. d \in X /\ r = Changed(S, "EEXIST", FALSE)
      BY <2>1, <2>3, <2>4
    <3>2. Grown(S, r, X, d, q, u, e)
      BY <3>1 DEF Grown
    <3>. QED  BY <3>2 DEF r
  <2>5. CASE d # m
    <3>1. s \in Sides
      BY DEF Side, Sides
    <3>2. PICK A, B \in SUBSET X, a, b \in Nat :
             /\ Node(S, m, s, A, a, B, b)
             /\ X = A \cup B \cup {m} /\ e = 1 + Taller(a, b) /\ a - b \in -1 .. 1
      BY <3>1, Split
    <3>3. AVL(S, c, A, a) /\ OnSide(A, m, s) /\ OnSide(B, m, -s)
      BY <3>2 DEF Node
    <3>. HIDE DEF s
    <3>4. d \in X => d \in A
      <4>1. /\ \/ s = 1 /\ -s = -1 /\ -s # 1
               \/ s = -1 /\ -s = 1 /\ s # 1
        BY <3>1, Opposite
      <4>2. d \in Int /\ m \in Int /\ s = Side(d, m)
        BY <2>1, Basics DEF s
      <4>3. d \notin B
        BY <3>3, <4>1, <4>2 DEF OnSide, Side
      <4>. QED  BY <2>5, <3>2, <4>3
    <3>5. CASE c = NULL
      <4>1. A = {} /\ a = 0
        BY <3>3, <3>5, AVLType
      <4>2. S.kid[d] = Childless /\ S.bal[d] = 0 /\ d \notin A
        BY <3>4, <4>1 DEF Loose
      <4>3. Grown(S, Linked(S, m, s, d), A, d, m, s, a)
        BY <2>1, <2>5, <3>1, <4>1, <4>2, LinkedGrows
      <4>4. r = Raised(Linked(S, m, s, d), m, q, s)
        BY <2>3, <2>5, <3>5 DEF InsertBelow, s
      <4>5. Side(d, m) = s /\ At(S, m, (A \cup B \cup {m}) \cup {d}, q, u)
        BY <3>2 DEF s
      <4>6. Grown(S, r, A \cup B \cup {m}, d, q, u, 1 + Taller(a, b))
        BY <2>5, <3>2, <4>2, <4>3, <4>4, <4>5, GrownAbove
      <4>. QED  BY <3>2, <4>6 DEF r
    <3>6. CASE c # NULL
      <4>. DEFINE w == f[i - 1][c][m]
      <4>1. At(S, c, A \cup {d}, m, s)
        <5>1. Under(S, m, s) = c
          BY <2>1, Basics DEF Under
        <5>2. OnSide({d}, m, s) /\ d # m
          BY <2>1, <2>5, Basics DEF OnSide, Side, s
        <5>3. m \notin A
          <6>1. Apart(S, m, s, A, a, B, b)
            BY <3>2, NodeType
          <6>. QED  BY <6>1 DEF Apart
        <5>4. A \cup {d} \in SUBSET Data /\ OnSide(A \cup {d}, m, s)
          BY <2>1, <3>3, <5>2 DEF OnSide
        <5>. QED  BY <2>1, <3>1, <5>1, <5>2, <5>3, <5>4 DEF At
      <4>2. Loose(S, A, d)
        BY <2>5, <3>2, <3>4 DEF Loose
      <4>3. a <= i - 1
        BY <3>2 DEF Taller
      <4>4. Good(i - 1, c, A, a, m, s)
        <5>. HIDE DEF Good, c
        <5>. QED  BY <1>2
      <4>5. Grown(S, w, A, d, m, s, a)
        BY <3>3, <3>6, <4>1, <4>2, <4>3, <4>4
      <4>6. r = Raised(w, m, q, s)
        BY <2>3, <2>5, <3>6 DEF InsertBelow, s
      <4>. HIDE DEF w
      <4>7. CASE d \in A
        <5>1. w = Changed(S, "EEXIST", FALSE)
          BY <4>5, <4>7 DEF Grown
        <5>2. r = w
          BY <4>6, <5>1 DEF Raised, Changed
        <5>. QED  BY <3>2, <4>7, <5>1, <5>2 DEF Grown, r
      <4>8. CASE d \notin A
        <5>1. Side(d, m) = s /\ At(S, m, (A \cup B \cup {m}) \cup {d}, q, u)
          BY <3>2 DEF s
        <5>2. Grown(S, r, A \cup B \cup {m}, d, q, u, 1 + Taller(a, b))
          BY <2>5, <3>2, <4>5, <4>6, <4>8, <5>1, GrownAbove
        <5>. QED  BY <3>2, <5>2 DEF r
      <4>. QED  BY <4>7, <4>8
    <3>. QED  BY <3>5, <3>6
  <2>. QED  BY <2>4, <2>5
<1>3. \A i \in 0 .. Deepest : i \in P
  <2>. HIDE DEF P
  <2>. QED  BY <1>1, <1>2, Basics, Climb
<1>4. Good(k, n, D, h, p, t)
  <2>. HIDE DEF Good
  <2>. QED  BY <1>3
<1>. QED  BY <1>4

\* A tree is no higher than it has data.
LEMMA HeightBound ==
    ASSUME NEW S, NEW n, NEW D, NEW h, AVL(S, n, D, h)
    PROVE  h <= Cardinality(D) /\ Cardinality(D) <= Deepest /\ h \in 0 .. Deepest
           /\ IsFiniteSet(D) /\ Cardinality(D) \in Nat
<1>1. \A X \in SUBSET Data : IsFiniteSet(X) /\ Cardinality(X) \in Nat /\ Cardinality(X) <= Deepest
  BY Basics, FS_Subset, FS_CardinalityType DEF Deepest
<1>2. h \in Nat /\ D \in SUBSET Data
  BY AVLType
<1>. DEFINE Low(i, m, X, e) == AVL(S, m, X, e) /\ e <= i => e <= Cardinality(X)
            P == {i \in 0 .. h : \A m, X, e : Low(i, m, X, e)}
<1>3. 0 \in P
  <2>1. ASSUME NEW m, NEW X, NEW e, AVL(S, m, X, e), e <= 0  PROVE e <= Cardinality(X)
    <3>1. X \in SUBSET Data
      BY <2>1, AVLType
    <3>. QED  BY <1>1, <2>1, <3>1, AVLType
  <2>. QED  BY <1>2, <2>1
<1>4. ASSUME NEW i \in 1 .. h, i - 1 \in P  PROVE i \in P
  <2>. SUFFICES ASSUME NEW m, NEW X, NEW e, AVL(S, m, X, e), e <= i  PROVE e <= Cardinality(X)
    OBVIOUS
  <2>1. X \in SUBSET Data /\ e \in Nat
    BY AVLType
  <2>2. CASE m = NULL
    BY <1>1, <2>1, <2>2, AVLType
  <2>3. CASE m # NULL
    <3>. DEFINE s == 1
    <3>1. s \in Sides
      BY DEF Sides
    <3>. HIDE DEF s
    <3>2. PICK A, B \in SUBSET X, a, b \in Nat :
             /\ Node(S, m, s, A, a, B, b)
             /\ X = A \cup B \cup {m} /\ e = 1 + Taller(a, b) /\ a - b \in -1 .. 1
      BY <2>3, <3>1, Split
    <3>3. /\ AVL(S, S.kid[m][s], A, a) /\ AVL(S, S.kid[m][-s], B, b) /\ m \notin A /\ m \notin B
      <4>1. Apart(S, m, s, A, a, B, b)
        BY <3>2, NodeType
      <4>. QED  BY <4>1 DEF Apart
    <3>4. a <= i - 1 /\ b <= i - 1
      BY <3>2 DEF Taller
    <3>5. Low(i - 1, S.kid[m][s], A, a) /\ Low(i - 1, S.kid[m][-s], B, b)
      <4>. HIDE DEF Low
      <4>. QED  BY <1>4
    <3>6. a <= Cardinality(A) /\ b <= Cardinality(B)
      BY <3>3, <3>4, <3>5
    <3>7. ASSUME NEW Y \in SUBSET X, m \notin Y  PROVE Cardinality(Y) + 1 <= Cardinality(X)
      <4>1. IsFiniteSet(Y) /\ IsFiniteSet(X) /\ Y \cup {m} \subseteq X
        BY <1>1, <2>1, <3>2, <3>7
      <4>2. Cardinality(Y \cup {m}) = Cardinality(Y) + 1
        BY <3>7, <4>1, FS_AddElement
      <4>. QED  BY <4>1, <4>2, FS_Subset
    <3>8. Cardinality(A) \in Nat /\ Cardinality(B) \in Nat /\ Cardinality(X) \in Nat
      BY <1>1, <2>1
    <3>9. Cardinality(A) + 1 <= Cardinality(X) /\ Cardinality(B) + 1 <= Cardinality(X)
      BY <3>3, <3>7
    <3>. QED  BY <3>2, <3>6, <3>8, <3>9 DEF Taller
  <2>. QED  BY <2>2, <2>3
<1>5. \A i \in 0 .. h : i \in P
  <2>. HIDE DEF P
  <2>. QED  BY <1>2, <1>3, <1>4, Climb
<1>6. Low(h, n, D, h)
  <2>. HIDE DEF Low
  <2>. QED  BY <1>2, <1>5
<1>. QED  BY <1>1, <1>2, <1>6, Basics

\* A tree in which no assertion has failed.
Sound(S) ==
    /\ S \in Trees /\ S.abort = ""
    /\ \E h : AVL(S, S.root, S.used, h)
    /\ \A m \in Data \ S.used : S.kid[m] = Childless /\ S.bal[m] = 0

\* The whole tree is at its place.
LEMMA AtRoot ==
    ASSUME NEW S \in Trees, NEW D \in SUBSET Data
    PROVE  At(S, S.root, D, NULL, 1)
BY Basics DEF At, Under, Sides

\* What has moved the whole tree has left a sound one.
LEMMA SoundAgain ==
    ASSUME NEW S, Sound(S), NEW R, NEW E, NEW t, NEW m, Moved(S, R, E, NULL, t, m),
           NEW T, T = [R EXCEPT !.used = T.used], NEW h, AVL(R, m, T.used, h), T.used \in SUBSET Data,
           S.used \subseteq E, E \in SUBSET Data,
           \A k \in E \ T.used : R.kid[k] = Childless /\ R.bal[k] = 0
    PROVE  Sound(T)
<1>1. R \in Trees /\ R.abort = S.abort /\ R.root = m
  BY DEF Moved, Under
<1>2. T \in Trees /\ T.abort = "" /\ T.root = m /\ T.kid = R.kid /\ T.bal = R.bal
  BY <1>1 DEF Trees, Sound
<1>3. AVL(T, m, T.used, h)
  <2>1. Same(R, T, T.used)
    BY <1>2 DEF Same
  <2>. QED  BY <2>1, AVLFrame
<1>4. ASSUME NEW k \in Data \ T.used  PROVE T.kid[k] = Childless /\ T.bal[k] = 0
  <2>1. CASE k \in E
    BY <1>2, <1>4, <2>1
  <2>2. CASE k \notin E
    <3>1. k \in Data \ E /\ k # NULL /\ S \in Trees
      BY <1>4, <2>2, Basics DEF Sound
    <3>2. R.bal[k] = S.bal[k] /\ \A u \in Sides : R.kid[k][u] = S.kid[k][u]
      BY <3>1 DEF Moved
    <3>3. R.kid[k] \in [Sides -> NodeOrNull] /\ S.kid[k] \in [Sides -> NodeOrNull]
      BY <1>1, <3>1, TreesFields
    <3>4. R.kid[k] = S.kid[k]
      BY <3>2, <3>3
    <3>5. S.kid[k] = Childless /\ S.bal[k] = 0
      BY <3>1 DEF Sound
    <3>. QED  BY <1>2, <3>2, <3>4, <3>5
  <2>. QED  BY <2>1, <2>2
<1>. QED  BY <1>2, <1>3, <1>4 DEF Sound

\* What Raised returns is a result.
LEMMA RaisedIsChanged ==
    ASSUME NEW q, NEW n, NEW p, NEW s, NEW r, r = Raised(q, n, p, s), r.err = "ok"
    PROVE  r = Changed(r.s, "ok", r.changed)
BY DEF Raised, Balanced, Changed

\* What at_insert does to a sound tree.
Inserting(S, d, r) ==
    IF d \in S.used THEN r.err = "EEXIST" /\ r.s = S
    ELSE r.err = "ok" /\ Sound(r.s) /\ r.s.used = S.used \cup {d}

\* An insertion into a sound tree makes a sound tree with the data added, or says that
\* the data is there and changes nothing.
LEMMA InsertedIs ==
    ASSUME NEW S, Sound(S), NEW d \in Data
    PROVE  Inserting(S, d, Inserted(S, d))
<1>. DEFINE D == S.used
            F == D \cup {d}
            q == IF S.root = NULL THEN Changed([S EXCEPT !.root = d], "ok", TRUE) ELSE _at_insert(S, d)
            r == Inserted(S, d)
<1>1. S \in Trees /\ S.abort = "" /\ \A m \in Data \ D : S.kid[m] = Childless /\ S.bal[m] = 0
  BY DEF Sound
<1>2. PICK h : AVL(S, S.root, D, h)
  BY DEF Sound
<1>3. D \in SUBSET Data /\ F \in SUBSET Data /\ S.root \in NodeOrNull
  BY <1>1, TreesFields
<1>4. r = IF q.err = "ok" THEN [q EXCEPT !.s.used = @ \cup {d}] ELSE q
  BY DEF Inserted
<1>5. CASE S.root = NULL
  <2>. DEFINE R == [S EXCEPT !.root = d]
              T == [R EXCEPT !.used = @ \cup {d}]
  <2>1. D = {}
    BY <1>2, <1>5, AVLType
  <2>2. R \in Trees /\ R.root = d /\ R.kid = S.kid /\ R.bal = S.bal /\ R.used = S.used /\ R.abort = S.abort
    BY <1>1, Basics DEF Trees
  <2>3. q = Changed(R, "ok", TRUE)
    BY <1>5
  <2>. HIDE DEF R, q
  <2>4. r.s = T /\ r.err = "ok"
    BY <1>4, <2>3 DEF Changed
  <2>5. T.used = {d} /\ T = [R EXCEPT !.used = T.used]
    BY <2>1, <2>2 DEF Trees
  <2>. HIDE DEF T, r
  <2>6. AVL(R, d, {d}, 1)
    BY <1>1, <2>1, <2>2, LoneNode
  <2>7. Moved(S, R, {d}, NULL, 1, d)
    BY <2>2 DEF Moved, Under
  <2>8. Sound(T)
    <3>1. S.used \subseteq {d} /\ {d} \in SUBSET Data /\ \A k \in {d} \ T.used : FALSE
      BY <2>1, <2>5
    <3>. QED  BY <2>5, <2>6, <2>7, <3>1, SoundAgain
  <2>. QED  BY <2>1, <2>4, <2>5, <2>8 DEF Inserting, r
<1>6. CASE S.root # NULL
  <2>1. PICK f : Inserts(S, d, f) /\ _at_insert(S, d) = f[Deepest][S.root][NULL]
    BY InsertRecursion
  <2>2. q = f[Deepest][S.root][NULL]
    BY <1>6, <2>1
  <2>. HIDE DEF q, r
  <2>3. Grown(S, q, D, d, NULL, 1, h)
    <3>0. Loose(S, D, d)
      BY <1>1 DEF Loose
    <3>1. At(S, S.root, F, NULL, 1)
      <4>. HIDE DEF F
      <4>. QED  BY <1>1, <1>3, AtRoot
    <3>2. h \in 0 .. Deepest /\ Deepest \in 0 .. Deepest
      <4>. HIDE DEF D
      <4>. QED  BY <1>2, HeightBound, Basics
    <3>. HIDE DEF D
    <3>. QED  BY <1>1, <1>2, <1>6, <2>1, <2>2, <3>0, <3>1, <3>2, InsertGrows
  <2>4. CASE d \in D
    <3>1. q = Changed(S, "EEXIST", FALSE)
      BY <2>3, <2>4 DEF Grown
    <3>. QED  BY <1>4, <2>4, <3>1 DEF Changed, Inserting, r
  <2>5. CASE d \notin D
    <3>. DEFINE R == q.s
                T == [R EXCEPT !.used = @ \cup {d}]
                e == h + ByOne(q)
    <3>1. Result(S, q, F, NULL, 1, F, e) /\ R.used = D
      BY <2>3, <2>5 DEF Grown, Higher
    <3>2. q.err = "ok"
      BY <3>1 DEF Result
    <3>. HIDE DEF e
    <3>3. PICK m : Moved(S, R, F, NULL, 1, m) /\ AVL(R, m, F, e)
      BY <3>1 DEF Result
    <3>4. q = Changed(R, "ok", q.changed)
      <4>1. q = IF Deepest = 0 \/ d = S.root THEN Changed(S, "EEXIST", FALSE)
                ELSE InsertBelow(S, d, f[Deepest - 1], S.root, NULL)
        <5>1. Deepest \in 0 .. Deepest /\ NULL \in NodeOrNull
          BY Basics
        <5>. QED  BY <1>3, <2>1, <2>2, <5>1 DEF Inserts
      <4>2. q = InsertBelow(S, d, f[Deepest - 1], S.root, NULL)
        BY <3>2, <4>1 DEF Changed
      <4>. QED  BY <3>2, <4>2, RaisedIsChanged DEF InsertBelow
    <3>5. r.s = T /\ r.err = "ok"
      BY <1>4, <3>2, <3>4 DEF Changed
    <3>6. R \in Trees
      BY <3>3 DEF Moved
    <3>7. T.used = F /\ T = [R EXCEPT !.used = T.used]
      BY <3>1, <3>6 DEF Trees
    <3>. HIDE DEF T, R
    <3>8. Sound(T)
      <4>1. S.used \subseteq F /\ \A k \in F \ T.used : FALSE
        BY <3>7
      <4>. HIDE DEF F
      <4>. QED  BY <1>3, <3>3, <3>7, <4>1, SoundAgain
    <3>. QED  BY <2>5, <3>5, <3>7, <3>8 DEF Inserting, r
  <2>. QED  BY <2>4, <2>5
<1>. QED  BY <1>5, <1>6

-----------------------------------------------------------------------------
(* Removal                                                                 *)

\* The result of removing x from the subtree of D, of height h.
Shrunk(S, r, D, x, p, t, h) == Result(S, r, D, p, t, D \ {x}, h - ByOne(r))

\* R has what T has at x.
Keeps(T, R, x) == R.used = T.used /\ R.kid[x] = T.kid[x] /\ R.bal[x] = T.bal[x]

\* From the subtree below a node to that of the node.
LEMMA ShrunkAbove ==
    ASSUME NEW S \in Trees, NEW n, NEW s, NEW A, NEW a, NEW B, NEW b, Node(S, n, s, A, a, B, b),
           a - b \in -1 .. 1,
           NEW x \in A, NEW q, Shrunk(S, q, A, x, n, s, a),
           NEW p, NEW t, At(S, n, A \cup B \cup {n}, p, t),
           NEW r, r = Lowered(q, n, p, s)
    PROVE  Shrunk(S, r, A \cup B \cup {n}, x, p, t, 1 + Taller(a, b)) /\ Keeps(q.s, r.s, x)
<1>. DEFINE D == A \cup B \cup {n}
            E == A \ {x}
            F == D \ {x}
            h == 1 + Taller(a, b)
            T == q.s
            e == a - ByOne(q)
            c == q.changed
            g == h - ByOne(r)
<1>1. Apart(S, n, s, A, a, B, b)
  BY NodeType
<1>2. /\ n \in Data /\ s \in Sides /\ A \in SUBSET Data /\ B \in SUBSET Data /\ a \in Nat /\ b \in Nat
      /\ OnSide(A, n, s) /\ OnSide(B, n, -s) /\ n \notin A /\ A \cap B = {}
  BY <1>1 DEF Apart
<1>3. Result(S, q, A, n, s, E, e)
  BY DEF Shrunk
<1>4. q.err = "ok" /\ c \in BOOLEAN /\ \E m \in E \cup {NULL} : Moved(S, T, A, n, s, m) /\ AVL(T, m, E, e)
  <2>. HIDE DEF E, e
  <2>. QED  BY <1>3 DEF Result
<1>5. PICK m \in E \cup {NULL} : Moved(S, T, A, n, s, m) /\ AVL(T, m, E, e)
  BY <1>4
<1>6. T \in Trees
  BY <1>5 DEF Moved
<1>. HIDE DEF T
<1>7. Stale(T, n, s, E, e, B, b, a) /\ At(T, n, D, p, t)
  <2>1. A \in SUBSET Data /\ E \subseteq A /\ A \subseteq D /\ n \in D /\ At(S, n, D, p, t)
    BY <1>2
  <2>. HIDE DEF D, E, e
  <2>. QED  BY <1>2, <1>5, <2>1, ChildMoved
<1>8. r = Lowered(Changed(T, "ok", c), n, p, s)
  BY <1>4 DEF Lowered, Changed, T
<1>9. e = IF c THEN a - 1 ELSE a
  BY <1>2 DEF ByOne
<1>10. E \cup B \cup {n} = F
  BY <1>2
<1>11. At(T, n, F, p, t)
  BY <1>7 DEF At, OnSide
<1>12. Lower(T, r, F, p, t, g)
  <2>. HIDE DEF D, E, F, e, c
  <2>1. Lower(T, r, E \cup B \cup {n}, p, t, h - ByOne(r))
    BY <1>4, <1>6, <1>7, <1>8, <1>9, <1>10, <1>11, LoweredIs
  <2>. QED  BY <1>10, <2>1
<1>. HIDE DEF g
<1>13. Result(T, r, F, p, t, F, g) /\ r.s.used = T.used
  BY <1>12 DEF Lower
<1>14. n # NULL /\ A \subseteq D /\ F \subseteq D /\ n \in D
  BY <1>2, Basics
<1>. HIDE DEF D, E, F
<1>15. PICK k \in F \cup {NULL} : Moved(T, r.s, F, p, t, k) /\ AVL(r.s, k, F, g)
  BY <1>13 DEF Result
<1>16. Moved(S, r.s, D, p, t, k)
  BY <1>5, <1>14, <1>15, MovedTwice
<1>17. Result(S, r, D, p, t, F, g)
  BY <1>13, <1>15, <1>16 DEF Result
<1>18. Keeps(T, r.s, x)
  <2>1. x \in Data \ F /\ x # p
    <3>1. x \in Data /\ x \in D
      BY <1>2 DEF D
    <3>2. p \notin D
      BY <1>7 DEF At
    <3>. QED  BY <3>1, <3>2 DEF F
  <2>2. r.s.bal[x] = T.bal[x] /\ \A u \in Sides : r.s.kid[x][u] = T.kid[x][u]
    BY <1>15, <2>1 DEF Moved
  <2>3. r.s \in Trees
    BY <1>15 DEF Moved
  <2>4. r.s.kid[x] \in [Sides -> NodeOrNull] /\ T.kid[x] \in [Sides -> NodeOrNull]
    BY <1>6, <2>1, <2>3, TreesFields
  <2>5. r.s.kid[x] = T.kid[x]
    BY <2>2, <2>4
  <2>. QED  BY <1>13, <2>2, <2>5 DEF Keeps
<1>19. Shrunk(S, r, D, x, p, t, h)
  BY <1>17 DEF Shrunk, F, g
<1>. QED  BY <1>18, <1>19 DEF D, h, T

\* What the recursion of at_get_max_for_removal and at_get_min_for_removal returns.
PluckAt(S, below, n, p, s) ==
    IF S.kid[n][s] = NULL THEN Plucked(Changed(Replace(S, n, p, S.kid[n][-s]), "ok", TRUE), n)
    ELSE PluckBelow(below[S.kid[n][s]][n][1], n, p, s)

\* f is the function of the depth that Pluck is the last value of.
Plucks(S, f) ==
    \A k \in 1 .. Deepest, n \in NodeOrNull, p \in NodeOrNull, s \in Sides :
      f[k][n][p][s] = PluckAt(S, f[k - 1], n, p, s)

\* There is such a recursion.
LEMMA PluckRecursion ==
    ASSUME NEW S
    PROVE  \E f : Plucks(S, f) /\ \A n, p, s : Pluck(S, n, p, s) = f[Deepest][n][p][s]
<1>. DEFINE Level(f, i) ==
              [n \in NodeOrNull |-> [p \in NodeOrNull |-> [s \in Sides |->
                 IF i = 0 \/ S.kid[n][s] = NULL
                 THEN Plucked(Changed(Replace(S, n, p, S.kid[n][-s]), "ok", TRUE), n)
                 ELSE PluckBelow(f[i - 1][S.kid[n][s]][n][1], n, p, s)]]]
            Solves(f, k) == f = [i \in 0 .. k |-> Level(f, i)]
            P == {k \in 0 .. Deepest : \E f : Solves(f, k)}
<1>1. \A f, g : Level(f, 0) = Level(g, 0)
  OBVIOUS
<1>2. \A f, g, i : f[i - 1] = g[i - 1] => Level(f, i) = Level(g, i)
  OBVIOUS
<1>3. \A f, i : i # 0 => \A n, p \in NodeOrNull, s \in Sides :
        Level(f, i)[n][p][s] = PluckAt(S, f[i - 1], n, p, s)
  BY ZenonT(30) DEF PluckAt
<1>4. \A n, p, s : Pluck(S, n, p, s) = (CHOOSE f : Solves(f, Deepest))[Deepest][n][p][s]
  BY DEF Pluck
<1>. HIDE DEF Level
<1>5. 0 \in P
  <2>. DEFINE g == [i \in 0 .. 0 |-> Level(0, 0)]
  <2>1. Solves(g, 0)
    BY <1>1
  <2>. QED  BY <2>1, Basics
<1>6. ASSUME NEW k \in 1 .. Deepest, k - 1 \in P  PROVE k \in P
  <2>1. PICK f : Solves(f, k - 1)
    BY <1>6
  <2>. DEFINE g == [i \in 0 .. k |-> IF i = k THEN Level(f, k) ELSE f[i]]
  <2>2. \A i \in 0 .. k - 1 : g[i] = f[i] /\ f[i] = Level(f, i)
    BY <2>1
  <2>3. \A i \in 0 .. k : g[i] = Level(g, i)
    <3>1. g[k] = Level(g, k)
      BY <1>2, <2>2
    <3>2. ASSUME NEW i \in 1 .. k - 1  PROVE g[i] = Level(g, i)
      <4>1. i - 1 \in 0 .. k - 1 /\ i \in 0 .. k - 1
        OBVIOUS
      <4>2. g[i - 1] = f[i - 1] /\ g[i] = Level(f, i)
        BY <2>2, <4>1
      <4>. HIDE DEF g
      <4>. QED  BY <1>2, <4>2
    <3>3. g[0] = Level(g, 0)
      BY <1>1, <2>2
    <3>. QED  BY <3>1, <3>2, <3>3
  <2>4. Solves(g, k)
    BY <2>3
  <2>5. k \in 0 .. Deepest
    OBVIOUS
  <2>. HIDE DEF Solves, g
  <2>. QED  BY <2>4, <2>5
<1>7. \E f : Solves(f, Deepest)
  <2>. HIDE DEF Solves
  <2>1. \A k \in 0 .. Deepest : k \in P
    BY <1>5, <1>6, Basics, Climb
  <2>. QED  BY <2>1, Basics
<1>. DEFINE f == CHOOSE f : Solves(f, Deepest)
<1>8. Solves(f, Deepest)
  <2>. HIDE DEF Solves
  <2>. QED  BY <1>7
<1>9. \A k \in 0 .. Deepest : f[k] = Level(f, k)
  <2>. HIDE DEF f
  <2>. QED  BY <1>8
<1>10. Plucks(S, f)
  <2>. HIDE DEF f
  <2>1. SUFFICES ASSUME NEW k \in 1 .. Deepest, NEW n \in NodeOrNull, NEW p \in NodeOrNull, NEW s \in Sides
                 PROVE  f[k][n][p][s] = PluckAt(S, f[k - 1], n, p, s)
    BY Zenon DEF Plucks
  <2>2. f[k] = Level(f, k) /\ k # 0
    BY <1>9
  <2>3. Level(f, k)[n][p][s] = PluckAt(S, f[k - 1], n, p, s)
    BY <1>3, <2>2
  <2>. QED  BY <2>2, <2>3
<1>. QED  BY <1>4, <1>10

\* r.node is the datum of D that is farthest on side s, and has been taken out.
TakenOut(S, r, D, p, t, h, s) ==
    /\ r.node \in D /\ OnSide(D \ {r.node}, r.node, -s)
    /\ Shrunk(S, r, D, r.node, p, t, h) /\ r.s.used = S.used

\* A node without a child on side s is replaced by the other one.
LEMMA EndIsTaken ==
    ASSUME NEW S \in Trees, NEW n, NEW s, NEW A, NEW a, NEW B, NEW b, Node(S, n, s, A, a, B, b),
           S.kid[n][s] = NULL,
           NEW p, NEW t, At(S, n, A \cup B \cup {n}, p, t)
    PROVE  TakenOut(S, Plucked(Changed(Replace(S, n, p, S.kid[n][-s]), "ok", TRUE), n),
                    A \cup B \cup {n}, p, t, 1 + Taller(a, b), s)
<1>. DEFINE D == A \cup B \cup {n}
            h == 1 + Taller(a, b)
            c == S.kid[n][-s]
            R == Replace(S, n, p, c)
            r == Plucked(Changed(R, "ok", TRUE), n)
            F == D \ {n}
<1>1. Apart(S, n, s, A, a, B, b)
  BY NodeType
<1>2. /\ n \in Data /\ s \in Sides /\ B \in SUBSET Data /\ a \in Nat /\ b \in Nat
      /\ AVL(S, S.kid[n][s], A, a) /\ AVL(S, c, B, b) /\ OnSide(B, n, -s) /\ n \notin B
  BY <1>1 DEF Apart
<1>3. A = {} /\ a = 0
  BY <1>2, AVLType
<1>4. /\ p \in NodeOrNull /\ t \in Sides /\ Under(S, p, t) = n /\ p \notin D
      /\ p # NULL => OnSide(D, p, t)
  BY DEF At
<1>5. F = B /\ h = b + 1 /\ n \in D /\ D \in SUBSET Data
  BY <1>2, <1>3 DEF Taller
<1>6. r.s = R /\ r.err = "ok" /\ r.changed = TRUE /\ r.node = n
  BY DEF Plucked, Changed
<1>7. Replaced(S, R, p, t, c)
  <2>1. c \in NodeOrNull
    BY <1>2, AVLType
  <2>2. p # NULL => Side(n, p) = t
    <3>1. SUFFICES ASSUME p # NULL  PROVE Side(n, p) = t
      OBVIOUS
    <3>2. p \in Data
      BY <1>4, <3>1 DEF NodeOrNull
    <3>3. OnSide(D, p, t) /\ D \in SUBSET Data /\ n \in D /\ t \in Sides
      BY <1>4, <1>5, <3>1
    <3>. HIDE DEF D
    <3>. QED  BY <3>2, <3>3, SideIs
  <2>. HIDE DEF c
  <2>. QED  BY <1>4, <2>1, <2>2, ReplaceIs
<1>. HIDE DEF R, r, h
<1>8. /\ R \in Trees /\ R.bal = S.bal /\ R.used = S.used /\ R.abort = S.abort
      /\ R.root = IF p = NULL THEN c ELSE S.root
      /\ \A k \in Data, u \in Sides : R.kid[k][u] = IF k = p /\ u = t THEN c ELSE S.kid[k][u]
  BY <1>7 DEF Replaced
<1>9. Moved(S, R, D, p, t, c)
  <2>1. Under(R, p, t) = c
    BY <1>4, <1>8 DEF Under, NodeOrNull
  <2>. QED  BY <1>8, <2>1 DEF Moved
<1>10. AVL(R, c, B, b) /\ c \in B \cup {NULL}
  <2>1. Same(S, R, B)
    <3>1. \A k \in B : k \in Data /\ k # p
      BY <1>2, <1>4
    <3>. QED  BY <1>8, <3>1 DEF Same
  <2>2. AVL(R, c, B, b)
    BY <1>2, <2>1, AVLFrame
  <2>. QED  BY <2>2 DEF AVL
<1>. HIDE DEF F, D, c
<1>11. h - ByOne(r) = b
  BY <1>2, <1>5, <1>6 DEF ByOne
<1>12. Result(S, r, D, p, t, F, h - ByOne(r))
  <2>. DEFINE g == h - ByOne(r)
  <2>1. Moved(S, r.s, D, p, t, c) /\ AVL(r.s, c, F, g) /\ c \in F \cup {NULL}
    BY <1>5, <1>6, <1>9, <1>10, <1>11
  <2>2. r.err = "ok" /\ r.changed \in BOOLEAN
    BY <1>6
  <2>. HIDE DEF g
  <2>3. Result(S, r, D, p, t, F, g)
    BY <2>1, <2>2 DEF Result
  <2>. QED  BY <2>3 DEF g
<1>13. Shrunk(S, r, D, n, p, t, h)
  BY <1>12 DEF Shrunk, F
<1>14. TakenOut(S, r, D, p, t, h, s)
  BY <1>2, <1>5, <1>6, <1>8, <1>13 DEF TakenOut, F
<1>. QED  BY <1>14 DEF r, R, D, h, c

\* The farthest datum is taken out at every depth; on the way to the least one
\* there is nothing to go down to.
LEMMA PluckTakes ==
    ASSUME NEW S \in Trees, NEW f, Plucks(S, f),
           NEW k \in 0 .. Deepest, NEW n, NEW D, NEW h \in 0 .. k, AVL(S, n, D, h), n # NULL,
           NEW p, NEW t, At(S, n, D, p, t), NEW s \in Sides, s = 1 \/ h = 1
    PROVE  TakenOut(S, f[k][n][p][s], D, p, t, h, s)
<1>. DEFINE Good(i, m, X, e, q, u, v) ==
              AVL(S, m, X, e) /\ m # NULL /\ At(S, m, X, q, u) /\ e <= i /\ (v = 1 \/ e = 1)
                => TakenOut(S, f[i][m][q][v], X, q, u, e, v)
            P == {i \in 0 .. Deepest : \A m, X, e, q, u : \A v \in Sides : Good(i, m, X, e, q, u, v)}
<1>1. 0 \in P
  <2>1. ASSUME NEW m, NEW X, NEW e, AVL(S, m, X, e), m # NULL  PROVE ~(e <= 0)
    BY <2>1, AVLType
  <2>. QED  BY <2>1, Basics
<1>2. ASSUME NEW i \in 1 .. Deepest, i - 1 \in P  PROVE i \in P
  <2>. SUFFICES ASSUME NEW m, NEW X, NEW e, NEW q, NEW u, NEW v \in Sides,
                       AVL(S, m, X, e), m # NULL, At(S, m, X, q, u), e <= i, v = 1 \/ e = 1
                PROVE  TakenOut(S, f[i][m][q][v], X, q, u, e, v)
    OBVIOUS
  <2>. DEFINE c == S.kid[m][v]
              r == f[i][m][q][v]
  <2>1. m \in Data /\ m \in NodeOrNull /\ m \in X /\ X \in SUBSET Data /\ e \in Nat /\ m # NULL
    BY AVLType
  <2>2. q \in NodeOrNull
    BY DEF At
  <2>3. r = PluckAt(S, f[i - 1], m, q, v)
    <3>. HIDE DEF P, Good
    <3>. QED  BY <2>1, <2>2 DEF Plucks
  <2>. HIDE DEF r
  <2>4. PICK A, B \in SUBSET X, a, b \in Nat :
           /\ Node(S, m, v, A, a, B, b)
           /\ X = A \cup B \cup {m} /\ e = 1 + Taller(a, b) /\ a - b \in -1 .. 1
    BY Split
  <2>5. Apart(S, m, v, A, a, B, b)
    BY <2>4, NodeType
  <2>6. AVL(S, c, A, a) /\ OnSide(A, m, v) /\ OnSide(B, m, -v) /\ m \notin A /\ A \in SUBSET Data /\ B \in SUBSET Data
    BY <2>5 DEF Apart
  <2>7. CASE c = NULL
    <3>1. r = Plucked(Changed(Replace(S, m, q, S.kid[m][-v]), "ok", TRUE), m)
      BY <2>3, <2>7 DEF PluckAt
    <3>2. At(S, m, A \cup B \cup {m}, q, u)
      BY <2>4
    <3>3. TakenOut(S, r, A \cup B \cup {m}, q, u, 1 + Taller(a, b), v)
      BY <2>4, <2>7, <3>1, <3>2, EndIsTaken
    <3>. QED  BY <2>4, <3>3 DEF r
  <2>8. CASE c # NULL
    <3>. DEFINE w == f[i - 1][c][m][1]
                z == Lowered(Changed(w.s, w.err, w.changed), m, q, v)
    <3>1. c \in A /\ a >= 1
      BY <2>6, <2>8, AVLType
    <3>2. v = 1
      BY <2>4, <3>1 DEF Taller
    <3>3. At(S, c, A, m, v)
      <4>1. Under(S, m, v) = c
        BY <2>1 DEF Under
      <4>. QED  BY <2>1, <2>6, <4>1 DEF At
    <3>4. Good(i - 1, c, A, a, m, v, 1)
      <4>1. 1 \in Sides
        BY DEF Sides
      <4>. HIDE DEF Good, c
      <4>. QED  BY <1>2, <4>1
    <3>5. a <= i - 1
      BY <2>4 DEF Taller
    <3>6. TakenOut(S, w, A, m, v, a, 1)
      BY <2>6, <2>8, <3>3, <3>4, <3>5
    <3>7. r = PluckBelow(w, m, q, v)
      BY <2>3, <2>8 DEF PluckAt
    <3>8. r = Plucked(z, w.node)
      BY <3>7 DEF PluckBelow
    <3>9. r.s = z.s /\ r.err = z.err /\ r.changed = z.changed /\ r.node = w.node
      BY <3>8 DEF Plucked
    <3>. DEFINE y == Changed(w.s, w.err, w.changed)
                x == w.node
    <3>10. y.s = w.s /\ y.err = w.err /\ y.changed = w.changed
      BY DEF Changed
    <3>. HIDE DEF w
    <3>11. x \in A /\ OnSide(A \ {x}, x, -1) /\ Shrunk(S, w, A, x, m, v, a) /\ w.s.used = S.used
      BY <3>6 DEF TakenOut
    <3>12. Shrunk(S, y, A, x, m, v, a)
      <4>. HIDE DEF y, x
      <4>1. ByOne(y) = ByOne(w)
        BY <3>10 DEF ByOne
      <4>. QED  BY <3>10, <3>11, <4>1 DEF Shrunk, Result
    <3>13. At(S, m, A \cup B \cup {m}, q, u)
      BY <2>4
    <3>14. z = Lowered(y, m, q, v)
      OBVIOUS
    <3>. HIDE DEF y, z, x
    <3>15. Shrunk(S, z, A \cup B \cup {m}, x, q, u, 1 + Taller(a, b)) /\ Keeps(y.s, z.s, x)
      BY <2>4, <3>11, <3>12, <3>13, <3>14, ShrunkAbove
    <3>16. Shrunk(S, z, X, x, q, u, e)
      BY <2>4, <3>15
    <3>17. Shrunk(S, r, X, x, q, u, e)
      <4>1. ByOne(r) = ByOne(z)
        BY <3>9 DEF ByOne
      <4>. QED  BY <3>9, <3>16, <4>1 DEF Shrunk, Result
    <3>18. r.s.used = S.used
      BY <3>9, <3>10, <3>11, <3>15 DEF Keeps
    <3>19. OnSide(X \ {x}, x, -v)
      <4>1. OnSide(B \cup {m}, x, -v)
        BY <2>1, <2>6, <3>11, Across
      <4>2. X \ {x} \subseteq (A \ {x}) \cup (B \cup {m})
        BY <2>4
      <4>. QED  BY <3>2, <3>11, <4>1, <4>2 DEF OnSide
    <3>20. r.node = x /\ x \in X
      BY <2>4, <3>9, <3>11 DEF x
    <3>21. TakenOut(S, r, X, q, u, e, v)
      BY <3>17, <3>18, <3>19, <3>20 DEF TakenOut
    <3>. QED  BY <3>21 DEF r
  <2>. QED  BY <2>7, <2>8
<1>3. \A i \in 0 .. Deepest : i \in P
  <2>. HIDE DEF P
  <2>. QED  BY <1>1, <1>2, Basics, Climb
<1>4. Good(k, n, D, h, p, t, s)
  <2>. HIDE DEF Good
  <2>. QED  BY <1>3
<1>. QED  BY <1>4

\* n has been taken out of D and freed.
Gone(S, r, D, n, p, t, h) ==
    /\ Shrunk(S, r, D, n, p, t, h)
    /\ r.s.used = S.used \ {n} /\ r.s.kid[n] = Childless /\ r.s.bal[n] = 0

\* m has taken n's place, children and balance in U.
Succeeds(T, U, n, m, p, t) ==
    /\ U \in Trees /\ U.used = T.used \ {n} /\ U.abort = T.abort
    /\ U.root = IF p = NULL THEN m ELSE T.root
    /\ U.kid[n] = Childless /\ U.bal[n] = 0
    /\ \A u \in Sides : U.kid[m][u] = T.kid[n][u]
    /\ U.bal[m] = T.bal[n]
    /\ \A k \in Data \ {n, m} : /\ U.bal[k] = T.bal[k]
                              /\ \A u \in Sides : U.kid[k][u] = IF k = p /\ u = t THEN m ELSE T.kid[k][u]

\* The replacement takes the place, the children and the balance of n, and n is freed.
LEMMA SwappedIs ==
    ASSUME NEW q, q.s \in Trees, NEW n \in Data, NEW m \in Data, q.node = m, n # m,
           NEW p \in NodeOrNull, NEW t \in Sides, p # n, p # m, p # NULL => Side(n, p) = t,
           m \notin {q.s.kid[n][-1], q.s.kid[n][1]}
    PROVE  Succeeds(q.s, Swapped(q, n, p), n, m, p, t)
<1>. DEFINE T == q.s
            R == Replace(T, n, p, m)
            V == [R EXCEPT !.kid[m] = T.kid[n], !.bal[m] = T.bal[n]]
            U == Swapped(q, n, p)
            K == [[R.kid EXCEPT ![m] = T.kid[n]] EXCEPT ![n] = Childless]
            L == [[R.bal EXCEPT ![m] = T.bal[n]] EXCEPT ![n] = 0]
<1>1. U = Destroyed(V, n)
  BY DEF Swapped, Claim
<1>2. Replaced(T, R, p, t, m)
  BY ReplaceIs, Basics
<1>. HIDE DEF R, T
<1>3. /\ R \in Trees /\ R.bal = T.bal /\ R.used = T.used /\ R.abort = T.abort
      /\ R.root = IF p = NULL THEN m ELSE T.root
      /\ \A k \in Data, u \in Sides : R.kid[k][u] = IF k = p /\ u = t THEN m ELSE T.kid[k][u]
  BY <1>2 DEF Replaced
<1>4. R.kid \in [Data -> [Sides -> NodeOrNull]] /\ R.bal \in [Data -> Int]
  BY <1>3, TreesFields
<1>5. T.kid[n] \in [Sides -> NodeOrNull] /\ T.bal[n] \in Int /\ Childless \in [Sides -> NodeOrNull]
  <2>1. T \in Trees
    BY DEF T
  <2>. QED  BY <2>1, TreesFields, Basics DEF Childless
<1>6. /\ K \in [Data -> [Sides -> NodeOrNull]] /\ L \in [Data -> Int]
      /\ K[n] = Childless /\ K[m] = T.kid[n] /\ L[n] = 0 /\ L[m] = T.bal[n]
      /\ \A k \in Data \ {n, m} : K[k] = R.kid[k] /\ L[k] = R.bal[k]
  BY <1>4, <1>5
<1>. DEFINE K1 == [R.kid EXCEPT ![m] = T.kid[n]]
            L1 == [R.bal EXCEPT ![m] = T.bal[n]]
<1>7. /\ K1 \in [Data -> [Sides -> NodeOrNull]] /\ L1 \in [Data -> Int]
      /\ K = [K1 EXCEPT ![n] = Childless] /\ L = [L1 EXCEPT ![n] = 0]
      /\ V = [R EXCEPT !.kid = K1, !.bal = L1]
  BY <1>4, <1>5
<1>. HIDE DEF K, L, U, V, K1, L1
<1>8. /\ U \in Trees /\ U.kid = K /\ U.bal = L /\ U.used = R.used \ {n} /\ U.abort = R.abort /\ U.root = R.root
  <2>1. /\ V \in Trees /\ V.kid = K1 /\ V.bal = L1 /\ V.used = R.used /\ V.abort = R.abort /\ V.root = R.root
    BY <1>3, <1>7 DEF Trees
  <2>2. U = [V EXCEPT !.kid = K, !.bal = L, !.used = V.used \ {n}]
    BY <1>1, <1>7, <2>1 DEF Destroyed
  <2>. QED  BY <1>6, <2>1, <2>2 DEF Trees
<1>9. Succeeds(T, U, n, m, p, t)
  BY <1>3, <1>6, <1>8 DEF Succeeds
<1>. QED  BY <1>9 DEF T, U

\* A node with a child is replaced by a datum from below.
LEMMA ReplacementIsSound ==
    ASSUME NEW S \in Trees, NEW n, NEW s, NEW A, NEW a, NEW B, NEW b, Node(S, n, s, A, a, B, b),
           a - b \in -1 .. 1,
           NEW p, NEW t, At(S, n, A \cup B \cup {n}, p, t),
           NEW q, TakenOut(S, q, A, n, s, a, -s),
           NEW r, r = ReplacedFrom(q, n, p, s)
    PROVE  Gone(S, r, A \cup B \cup {n}, n, p, t, 1 + Taller(a, b))
<1>. DEFINE D == A \cup B \cup {n}
            m == q.node
            T == q.s
            U == Swapped(q, n, p)
            E == A \ {m}
            F == D \ {n}
            h == 1 + Taller(a, b)
            e == a - ByOne(q)
            c == q.changed
            g == h - ByOne(r)
<1>1. Apart(S, n, s, A, a, B, b)
  BY NodeType
<1>2. /\ n \in Data /\ s \in Sides /\ A \in SUBSET Data /\ B \in SUBSET Data /\ a \in Nat /\ b \in Nat
      /\ AVL(S, S.kid[n][-s], B, b)
      /\ OnSide(A, n, s) /\ OnSide(B, n, -s) /\ n \notin A /\ n \notin B /\ A \cap B = {}
  BY <1>1 DEF Apart
<1>3. /\ -s \in Sides /\ -(-s) = s /\ -s # s
      /\ \/ s = 1 /\ -s = -1
         \/ s = -1 /\ -s = 1
  BY <1>2, Opposite
<1>4. m \in A /\ OnSide(E, m, s) /\ Shrunk(S, q, A, m, n, s, a) /\ T.used = S.used
  BY <1>3 DEF TakenOut
<1>5. Result(S, q, A, n, s, E, e)
  BY <1>4 DEF Shrunk
<1>6. q.err = "ok" /\ c \in BOOLEAN /\ \E k \in E \cup {NULL} : Moved(S, T, A, n, s, k) /\ AVL(T, k, E, e)
  <2>. HIDE DEF E, e
  <2>. QED  BY <1>5 DEF Result
<1>7. PICK k \in E \cup {NULL} : Moved(S, T, A, n, s, k) /\ AVL(T, k, E, e)
  BY <1>6
<1>8. T \in Trees /\ m \in Data /\ m # n
  BY <1>2, <1>4, <1>7 DEF Moved
<1>9. /\ p \in NodeOrNull /\ t \in Sides /\ p \notin D /\ (p # NULL => OnSide(D, p, t)) /\ n \in D /\ D \in SUBSET Data
  BY DEF At
<1>10. p # NULL => Side(n, p) = t
  <2>1. SUFFICES ASSUME p # NULL  PROVE Side(n, p) = t
    OBVIOUS
  <2>2. p \in Data /\ OnSide(D, p, t)
    BY <1>9, <2>1 DEF NodeOrNull
  <2>. HIDE DEF D
  <2>. QED  BY <1>9, <2>2, SideIs
<1>. HIDE DEF T
<1>11. Stale(T, n, s, E, e, B, b, a) /\ At(T, n, D, p, t)
  <2>1. A \in SUBSET Data /\ E \subseteq A /\ A \subseteq D /\ n \in D /\ At(S, n, D, p, t)
    BY <1>2
  <2>. HIDE DEF D, E, e, m
  <2>. QED  BY <1>2, <1>7, <2>1, ChildMoved
<1>12. /\ AVL(T, T.kid[n][s], E, e) /\ AVL(T, T.kid[n][-s], B, b)
       /\ a - b \in -1 .. 1 /\ T.bal[n] = Times(s, a - b)
  <2>. HIDE DEF E, e
  <2>. QED  BY <1>11 DEF Stale
<1>13. m \notin {T.kid[n][-1], T.kid[n][1]}
  <2>1. m \notin E /\ m \notin B /\ m # NULL
    BY <1>2, <1>4, <1>8, Basics
  <2>2. T.kid[n][s] \in E \cup {NULL} /\ T.kid[n][-s] \in B \cup {NULL}
    <3>. HIDE DEF E, e
    <3>. QED  BY <1>12 DEF AVL
  <2>. HIDE DEF m, E
  <2>. QED  BY <1>3, <2>1, <2>2
<1>14. Succeeds(T, U, n, m, p, t)
  <2>1. p # n /\ p # m
    BY <1>4, <1>9
  <2>2. q.s \in Trees /\ m \notin {q.s.kid[n][-1], q.s.kid[n][1]}
    BY <1>8, <1>13 DEF T
  <2>. HIDE DEF D
  <2>. QED  BY <1>2, <1>8, <1>9, <1>10, <2>1, <2>2, SwappedIs DEF T
<1>. HIDE DEF U
<1>15. /\ U \in Trees /\ U.used = T.used \ {n} /\ U.abort = T.abort
       /\ U.root = IF p = NULL THEN m ELSE T.root
       /\ U.kid[n] = Childless /\ U.bal[n] = 0
       /\ \A u \in Sides : U.kid[m][u] = T.kid[n][u]
       /\ U.bal[m] = T.bal[n]
       /\ \A j \in Data \ {n, m} : /\ U.bal[j] = T.bal[j]
                                 /\ \A u \in Sides : U.kid[j][u] = IF j = p /\ u = t THEN m ELSE T.kid[j][u]
  <2>. HIDE DEF m
  <2>. QED  BY <1>14 DEF Succeeds
<1>16. Same(T, U, E) /\ Same(T, U, B)
  <2>1. \A j \in E \cup B : j \in Data \ {n, m} /\ j # p
    BY <1>2, <1>4, <1>9
  <2>. HIDE DEF m, E
  <2>. QED  BY <1>15, <2>1 DEF Same
<1>17. Stale(U, m, s, E, e, B, b, a)
  <2>1. AVL(U, U.kid[m][s], E, e)
    <3>. HIDE DEF E, e, m
    <3>. QED  BY <1>2, <1>12, <1>15, <1>16, AVLFrame
  <2>2. AVL(U, U.kid[m][-s], B, b)
    <3>. HIDE DEF E, e, m
    <3>. QED  BY <1>3, <1>12, <1>15, <1>16, AVLFrame
  <2>3. OnSide(B, m, -s)
    <3>1. OnSide(B \cup {n}, m, -s)
      BY <1>2, <1>4, Across
    <3>. QED  BY <3>1 DEF OnSide
  <2>. HIDE DEF E, e, m
  <2>. QED  BY <1>2, <1>4, <1>8, <1>12, <1>15, <2>1, <2>2, <2>3 DEF Stale
<1>18. E \cup B \cup {m} = F
  BY <1>2, <1>4
<1>19. Under(U, p, t) = m
  <2>1. p # NULL => p \in Data \ {n, m}
    BY <1>4, <1>9 DEF NodeOrNull
  <2>. HIDE DEF m, D
  <2>. QED  BY <1>9, <1>15, <2>1 DEF Under
<1>20. At(U, m, F, p, t)
  BY <1>9, <1>19 DEF At, OnSide
<1>21. r = Lowered(Changed(U, "ok", c), m, p, s)
  BY DEF ReplacedFrom, U
<1>22. e = IF c THEN a - 1 ELSE a
  BY <1>2 DEF ByOne
<1>23. Lower(U, r, F, p, t, g)
  <2>. HIDE DEF D, E, F, e, c, m
  <2>1. At(U, m, E \cup B \cup {m}, p, t)
    BY <1>18, <1>20
  <2>2. Lower(U, r, E \cup B \cup {m}, p, t, h - ByOne(r))
    BY <1>6, <1>15, <1>17, <1>21, <1>22, <2>1, LoweredIs
  <2>. QED  BY <1>18, <2>2
<1>. HIDE DEF g
<1>24. Result(U, r, F, p, t, F, g) /\ r.s.used = U.used
  BY <1>23 DEF Lower
<1>25. PICK j \in F \cup {NULL} : Moved(U, r.s, F, p, t, j) /\ AVL(r.s, j, F, g)
  <2>. HIDE DEF F
  <2>. QED  BY <1>24 DEF Result
<1>26. Moved(S, r.s, D, p, t, j)
  <2>1. Moved(T, U, D, p, t, m)
    <3>1. \A i \in Data \ D : i \in Data \ {n, m}
      BY <1>4
    <3>. HIDE DEF m, D
    <3>. QED  BY <1>15, <1>19, <3>1 DEF Moved
  <2>2. Moved(S, T, D, p, t, n)
    <3>1. Under(T, p, t) = n
      BY <1>11 DEF At
    <3>2. n # NULL /\ n \in D /\ A \subseteq D
      BY <1>2, Basics
    <3>. HIDE DEF D
    <3>. QED  BY <1>7, <3>1, <3>2 DEF Moved
  <2>3. F \subseteq D
    OBVIOUS
  <2>. HIDE DEF D, F, m
  <2>. QED  BY <1>25, <2>1, <2>2, <2>3 DEF Moved
<1>27. r.s.kid[n] = Childless /\ r.s.bal[n] = 0
  <2>1. n \in Data \ F /\ n # p
    BY <1>2, <1>9
  <2>. HIDE DEF F
  <2>2. r.s.bal[n] = U.bal[n] /\ \A u \in Sides : r.s.kid[n][u] = U.kid[n][u]
    BY <1>25, <2>1 DEF Moved
  <2>3. r.s \in Trees
    BY <1>25 DEF Moved
  <2>4. r.s.kid[n] \in [Sides -> NodeOrNull] /\ U.kid[n] \in [Sides -> NodeOrNull]
    BY <1>2, <1>15, <2>3, TreesFields
  <2>5. r.s.kid[n] = U.kid[n]
    BY <2>2, <2>4
  <2>. QED  BY <1>15, <2>2, <2>5
<1>28. Result(S, r, D, p, t, F, g)
  <2>1. r.err = "ok" /\ r.changed \in BOOLEAN
    <3>. HIDE DEF F
    <3>. QED  BY <1>24 DEF Result
  <2>. HIDE DEF D, F
  <2>. QED  BY <1>25, <1>26, <2>1 DEF Result
<1>29. Shrunk(S, r, D, n, p, t, h)
  BY <1>28 DEF Shrunk, g
<1>30. r.s.used = S.used \ {n}
  BY <1>4, <1>15, <1>24 DEF T
<1>. HIDE DEF D, h
<1>31. Gone(S, r, D, n, p, t, h)
  BY <1>27, <1>29, <1>30 DEF Gone
<1>. QED  BY <1>31 DEF D, h

\* A node is taken out of the subtree it is the root of.
LEMMA RemovedIsGone ==
    ASSUME NEW S \in Trees, NEW n, NEW D, NEW h, AVL(S, n, D, h), n # NULL,
           NEW p, NEW t, At(S, n, D, p, t)
    PROVE  Gone(S, Removed(S, n, p), D, n, p, t, h)
<1>. DEFINE r == Removed(S, n, p)
<1>1. n \in Data /\ n \in D /\ D \in SUBSET Data /\ h \in Nat
  BY AVLType
<1>2. S.kid[n] \in [Sides -> NodeOrNull] /\ 1 \in Sides /\ -1 \in Sides /\ -(-1) = 1 /\ Sides = {-1, 1}
  BY <1>1, TreesFields, Opposite DEF Sides
<1>3. CASE S.kid[n][-1] = NULL /\ S.kid[n][1] = NULL
  <2>. DEFINE R == Replace(S, n, p, NULL)
              K == [R.kid EXCEPT ![n] = Childless]
              L == [R.bal EXCEPT ![n] = 0]
              U == Destroyed(R, n)
  <2>1. S.kid[n] = Childless
    BY <1>2, <1>3 DEF Childless
  <2>2. r = Changed(U, "ok", TRUE)
    BY <2>1 DEF Removed, atn_has_no_children
  <2>. DEFINE s == 1
  <2>3. PICK A, B \in SUBSET D, a, b \in Nat :
           /\ Node(S, n, s, A, a, B, b)
           /\ D = A \cup B \cup {n} /\ h = 1 + Taller(a, b) /\ a - b \in -1 .. 1
    <3>1. s \in Sides
      BY <1>2
    <3>. HIDE DEF s
    <3>. QED  BY <3>1, Split
  <2>4. AVL(S, S.kid[n][s], A, a) /\ AVL(S, S.kid[n][-s], B, b)
    BY <2>3 DEF Node
  <2>5. A = {} /\ B = {} /\ a = 0 /\ b = 0
    BY <1>3, <2>4, AVLType
  <2>6. D = {n} /\ h = 1
    BY <2>3, <2>5 DEF Taller
  <2>7. /\ p \in NodeOrNull /\ t \in Sides /\ p \notin D /\ (p # NULL => OnSide(D, p, t)) /\ Under(S, p, t) = n
    BY DEF At
  <2>8. p # NULL => Side(n, p) = t
    BY <1>1, <2>7, SideIs DEF NodeOrNull
  <2>9. Replaced(S, R, p, t, NULL)
    BY <2>7, <2>8, ReplaceIs, Basics
  <2>. HIDE DEF R, r
  <2>10. /\ R \in Trees /\ R.bal = S.bal /\ R.used = S.used /\ R.abort = S.abort
         /\ R.root = IF p = NULL THEN NULL ELSE S.root
         /\ \A k \in Data, u \in Sides : R.kid[k][u] = IF k = p /\ u = t THEN NULL ELSE S.kid[k][u]
    BY <2>9 DEF Replaced
  <2>11. /\ K \in [Data -> [Sides -> NodeOrNull]] /\ L \in [Data -> Int] /\ K[n] = Childless /\ L[n] = 0
         /\ \A k \in Data \ {n} : K[k] = R.kid[k] /\ L[k] = R.bal[k]
    BY <1>1, <1>2, <2>1, <2>10, TreesFields
  <2>12. U = [R EXCEPT !.kid = K, !.bal = L, !.used = R.used \ {n}]
    BY <2>10 DEF Destroyed, Trees
  <2>. HIDE DEF K, L, U
  <2>13. /\ U \in Trees /\ U.kid = K /\ U.bal = L /\ U.used = R.used \ {n} /\ U.abort = R.abort /\ U.root = R.root
    BY <2>10, <2>11, <2>12 DEF Trees
  <2>14. Under(U, p, t) = NULL
    <3>1. p # NULL => p \in Data \ {n}
      BY <2>6, <2>7 DEF NodeOrNull
    <3>. QED  BY <2>7, <2>10, <2>11, <2>13, <3>1 DEF Under
  <2>15. Moved(S, U, D, p, t, NULL)
    BY <2>6, <2>10, <2>11, <2>13, <2>14 DEF Moved
  <2>16. AVL(U, NULL, D \ {n}, 0)
    <3>1. D \ {n} = {}
      BY <2>6
    <3>. QED  BY <3>1, EmptyAVL
  <2>17. r.s = U /\ r.err = "ok" /\ r.changed = TRUE
    BY <2>2 DEF Changed
  <2>18. h - ByOne(r) = 0
    BY <2>6, <2>17 DEF ByOne
  <2>19. Shrunk(S, r, D, n, p, t, h)
    BY <2>15, <2>16, <2>17, <2>18 DEF Shrunk, Result
  <2>20. Gone(S, r, D, n, p, t, h)
    BY <2>10, <2>11, <2>13, <2>17, <2>19 DEF Gone
  <2>. QED  BY <2>20 DEF r
<1>4. ASSUME NEW s \in Sides, S.kid[n][s] # NULL, s = 1 => S.kid[n][-1] = NULL,
             r = ReplacedFrom(Pluck(S, S.kid[n][s], n, -s), n, p, s)
      PROVE  Gone(S, r, D, n, p, t, h)
  <2>. DEFINE c == S.kid[n][s]
              q == Pluck(S, c, n, -s)
  <2>1. PICK A, B \in SUBSET D, a, b \in Nat :
           /\ Node(S, n, s, A, a, B, b)
           /\ D = A \cup B \cup {n} /\ h = 1 + Taller(a, b) /\ a - b \in -1 .. 1
    BY Split
  <2>2. /\ AVL(S, c, A, a) /\ AVL(S, S.kid[n][-s], B, b) /\ OnSide(A, n, s) /\ n \notin A /\ A \in SUBSET Data
    <3>1. Apart(S, n, s, A, a, B, b)
      BY <2>1, NodeType
    <3>. QED  BY <3>1 DEF Apart
  <2>3. /\ -s \in Sides
        /\ \/ s = 1 /\ -s = -1 /\ -s # 1
           \/ s = -1 /\ -s = 1 /\ s # 1
    BY Opposite
  <2>. DEFINE v == -s
  <2>4. v \in Sides /\ (v = 1 \/ a = 1)
    <3>1. CASE s = -1
      BY <2>3, <3>1
    <3>2. CASE s = 1
      <4>1. b = 0
        BY <1>4, <2>2, <2>3, <3>2, AVLType
      <4>2. a >= 1
        BY <1>4, <2>2, AVLType
      <4>3. a = 1
        BY <2>1, <4>1, <4>2
      <4>. QED  BY <2>3, <4>3
    <3>. QED  BY <2>3, <3>1, <3>2
  <2>5. At(S, c, A, n, s)
    <3>1. Under(S, n, s) = c
      BY <1>1, Basics DEF Under
    <3>. QED  BY <1>1, <2>2, <3>1, Basics DEF At
  <2>6. PICK f : Plucks(S, f) /\ \A i, j, k : Pluck(S, i, j, k) = f[Deepest][i][j][k]
    BY PluckRecursion
  <2>7. q = f[Deepest][c][n][v] /\ Deepest \in 0 .. Deepest /\ a \in 0 .. Deepest
    <3>1. a \in 0 .. Deepest
      <4>. HIDE DEF c
      <4>. QED  BY <2>2, HeightBound
    <3>. QED  BY <2>6, <3>1, Basics
  <2>8. TakenOut(S, q, A, n, s, a, v)
    <3>1. c # NULL
      BY <1>4
    <3>. HIDE DEF c, q, v
    <3>. QED  BY <2>2, <2>4, <2>5, <2>6, <2>7, <3>1, PluckTakes
  <2>9. At(S, n, A \cup B \cup {n}, p, t)
    BY <2>1
  <2>. HIDE DEF r
  <2>10. TakenOut(S, q, A, n, s, a, -s) /\ r = ReplacedFrom(q, n, p, s)
    BY <1>4, <2>8
  <2>. HIDE DEF q
  <2>11. Gone(S, r, A \cup B \cup {n}, n, p, t, 1 + Taller(a, b))
    BY <2>1, <2>9, <2>10, ReplacementIsSound
  <2>. QED  BY <2>1, <2>11
<1>5. CASE S.kid[n][-1] # NULL
  <2>1. S.kid[n] # Childless
    BY <1>2, <1>5 DEF Childless
  <2>. DEFINE s == -1
  <2>2. -s = 1
    BY <1>2
  <2>3. r = ReplacedFrom(Pluck(S, S.kid[n][-1], n, 1), n, p, -1)
    BY <1>5, <2>1 DEF Removed, atn_has_no_children
  <2>4. s \in Sides /\ S.kid[n][s] # NULL /\ s # 1 /\ r = ReplacedFrom(Pluck(S, S.kid[n][s], n, -s), n, p, s)
    BY <1>2, <1>5, <2>2, <2>3
  <2>. HIDE DEF s, r
  <2>5. Gone(S, r, D, n, p, t, h)
    BY <1>4, <2>4
  <2>. QED  BY <2>5 DEF r
<1>6. CASE S.kid[n][-1] = NULL /\ S.kid[n][1] # NULL
  <2>1. S.kid[n] # Childless
    BY <1>2, <1>6 DEF Childless
  <2>2. r = ReplacedFrom(Pluck(S, S.kid[n][1], n, -1), n, p, 1)
    BY <1>6, <2>1 DEF Removed, atn_has_no_children
  <2>3. Gone(S, r, D, n, p, t, h)
    BY <1>2, <1>4, <1>6, <2>2
  <2>. QED  BY <2>3
<1>. QED  BY <1>3, <1>5, <1>6

\* What the recursion of _at_remove returns.
RemoveBelow(S, d, below, n, p) ==
    IF n = NULL THEN Changed(S, "ENOENT", FALSE)
    ELSE IF d = n THEN Removed(S, n, p)
    ELSE Lowered(below[S.kid[n][Side(d, n)]][n], n, p, Side(d, n))

\* f is the function of the depth that _at_remove is the last value of.
Removes(S, d, f) ==
    /\ \A p \in NodeOrNull : f[0][NULL][p] = Changed(S, "ENOENT", FALSE)
    /\ \A k \in 1 .. Deepest, n \in NodeOrNull, p \in NodeOrNull :
         f[k][n][p] = RemoveBelow(S, d, f[k - 1], n, p)

\* There is such a recursion.
LEMMA RemoveRecursion ==
    ASSUME NEW S, NEW d
    PROVE  \E f : Removes(S, d, f) /\ _at_remove(S, d) = f[Deepest][S.root][NULL]
<1>. DEFINE Level(f, i) ==
              [n \in NodeOrNull |-> [p \in NodeOrNull |->
                 IF i = 0 \/ n = NULL THEN Changed(S, "ENOENT", FALSE)
                 ELSE IF d = n THEN Removed(S, n, p)
                 ELSE LET s == Side(d, n) IN Lowered(f[i - 1][S.kid[n][s]][n], n, p, s)]]
            Solves(f, k) == f = [i \in 0 .. k |-> Level(f, i)]
            P == {k \in 0 .. Deepest : \E f : Solves(f, k)}
<1>1. \A f, g : Level(f, 0) = Level(g, 0)
  OBVIOUS
<1>2. \A f, g, i : f[i - 1] = g[i - 1] => Level(f, i) = Level(g, i)
  OBVIOUS
<1>3. /\ \A f, i : i # 0 => \A n, p \in NodeOrNull : Level(f, i)[n][p] = RemoveBelow(S, d, f[i - 1], n, p)
      /\ \A f : \A p \in NodeOrNull : Level(f, 0)[NULL][p] = Changed(S, "ENOENT", FALSE)
  BY Basics DEF RemoveBelow
<1>4. _at_remove(S, d) = (CHOOSE f : Solves(f, Deepest))[Deepest][S.root][NULL]
  BY DEF _at_remove
<1>. HIDE DEF Level
<1>5. 0 \in P
  <2>. DEFINE g == [i \in 0 .. 0 |-> Level(0, 0)]
  <2>1. Solves(g, 0)
    BY <1>1
  <2>. QED  BY <2>1, Basics
<1>6. ASSUME NEW k \in 1 .. Deepest, k - 1 \in P  PROVE k \in P
  <2>1. PICK f : Solves(f, k - 1)
    BY <1>6
  <2>. DEFINE g == [i \in 0 .. k |-> IF i = k THEN Level(f, k) ELSE f[i]]
  <2>2. \A i \in 0 .. k - 1 : g[i] = f[i] /\ f[i] = Level(f, i)
    BY <2>1
  <2>3. \A i \in 0 .. k : g[i] = Level(g, i)
    <3>1. g[k] = Level(g, k)
      BY <1>2, <2>2
    <3>2. ASSUME NEW i \in 1 .. k - 1  PROVE g[i] = Level(g, i)
      <4>1. i - 1 \in 0 .. k - 1 /\ i \in 0 .. k - 1
        OBVIOUS
      <4>2. g[i - 1] = f[i - 1] /\ g[i] = Level(f, i)
        BY <2>2, <4>1
      <4>. HIDE DEF g
      <4>. QED  BY <1>2, <4>2
    <3>3. g[0] = Level(g, 0)
      BY <1>1, <2>2
    <3>. QED  BY <3>1, <3>2, <3>3
  <2>4. Solves(g, k)
    BY <2>3
  <2>5. k \in 0 .. Deepest
    OBVIOUS
  <2>. HIDE DEF Solves, g
  <2>. QED  BY <2>4, <2>5
<1>7. \E f : Solves(f, Deepest)
  <2>. HIDE DEF Solves
  <2>1. \A k \in 0 .. Deepest : k \in P
    BY <1>5, <1>6, Basics, Climb
  <2>. QED  BY <2>1, Basics
<1>. DEFINE f == CHOOSE f : Solves(f, Deepest)
<1>8. Solves(f, Deepest)
  <2>. HIDE DEF Solves
  <2>. QED  BY <1>7
<1>9. \A k \in 0 .. Deepest : f[k] = Level(f, k)
  <2>. HIDE DEF f
  <2>. QED  BY <1>8
<1>10. Removes(S, d, f)
  <2>. HIDE DEF f
  <2>1. ASSUME NEW k \in 1 .. Deepest, NEW n \in NodeOrNull, NEW p \in NodeOrNull
        PROVE  f[k][n][p] = RemoveBelow(S, d, f[k - 1], n, p)
    <3>1. f[k] = Level(f, k) /\ k # 0
      BY <1>9
    <3>2. Level(f, k)[n][p] = RemoveBelow(S, d, f[k - 1], n, p)
      BY <1>3, <3>1
    <3>. QED  BY <3>1, <3>2
  <2>2. ASSUME NEW p \in NodeOrNull  PROVE f[0][NULL][p] = Changed(S, "ENOENT", FALSE)
    <3>1. f[0] = Level(f, 0)
      BY <1>9, Basics
    <3>2. Level(f, 0)[NULL][p] = Changed(S, "ENOENT", FALSE)
      BY <1>3
    <3>. QED  BY <3>1, <3>2
  <2>. QED  BY <2>1, <2>2, Zenon DEF Removes
<1>. QED  BY <1>4, <1>10

\* The result of removing d from the subtree of D.
Less(S, r, D, d, p, t, h) ==
    IF d \in D THEN Gone(S, r, D, d, p, t, h) ELSE r = Changed(S, "ENOENT", FALSE)

\* A removal does what it should at every node, at every depth.
LEMMA RemoveShrinks ==
    ASSUME NEW S \in Trees, NEW d \in Data, NEW f, Removes(S, d, f),
           NEW k \in 0 .. Deepest, NEW n, NEW D, NEW h \in 0 .. k, AVL(S, n, D, h),
           NEW p, NEW t, At(S, n, D, p, t)
    PROVE  Less(S, f[k][n][p], D, d, p, t, h)
<1>. DEFINE Good(i, m, X, e, q, u) ==
              AVL(S, m, X, e) /\ At(S, m, X, q, u) /\ e <= i
                => Less(S, f[i][m][q], X, d, q, u, e)
            P == {i \in 0 .. Deepest : \A m, X, e, q, u : Good(i, m, X, e, q, u)}
<1>0. \A q \in NodeOrNull : f[0][NULL][q] = Changed(S, "ENOENT", FALSE)
  BY DEF Removes
<1>1. 0 \in P
  <2>1. ASSUME NEW m, NEW X, NEW e, NEW q, NEW u, AVL(S, m, X, e), At(S, m, X, q, u), e <= 0
        PROVE  Less(S, f[0][m][q], X, d, q, u, e)
    <3>1. m = NULL /\ X = {}
      BY <2>1, AVLType
    <3>2. q \in NodeOrNull
      BY <2>1 DEF At
    <3>3. f[0][m][q] = Changed(S, "ENOENT", FALSE) /\ d \notin X
      BY <1>0, <3>1, <3>2
    <3>. QED  BY <3>3 DEF Less
  <2>. QED  BY <2>1, Basics
<1>2. ASSUME NEW i \in 1 .. Deepest, i - 1 \in P  PROVE i \in P
  <2>. SUFFICES ASSUME NEW m, NEW X, NEW e, NEW q, NEW u,
                       AVL(S, m, X, e), At(S, m, X, q, u), e <= i
                PROVE  Less(S, f[i][m][q], X, d, q, u, e)
    OBVIOUS
  <2>. DEFINE r == f[i][m][q]
  <2>1. m \in NodeOrNull /\ X \in SUBSET Data /\ e \in Nat
    BY AVLType
  <2>2. q \in NodeOrNull
    BY DEF At
  <2>3. r = RemoveBelow(S, d, f[i - 1], m, q)
    <3>. HIDE DEF P, Good
    <3>. QED  BY <2>1, <2>2 DEF Removes
  <2>. HIDE DEF r
  <2>4. CASE m = NULL
    <3>1. X = {}
      BY <2>4, AVLType
    <3>2. r = Changed(S, "ENOENT", FALSE) /\ d \notin X
      BY <2>3, <2>4, <3>1 DEF RemoveBelow
    <3>3. Less(S, r, X, d, q, u, e)
      BY <3>2 DEF Less
    <3>. QED  BY <3>3 DEF r
  <2>5. CASE m # NULL /\ d = m
    <3>1. m \in X
      BY <2>5, AVLType
    <3>2. r = Removed(S, m, q)
      BY <2>3, <2>5 DEF RemoveBelow
    <3>3. Gone(S, r, X, m, q, u, e)
      BY <2>5, <3>2, RemovedIsGone
    <3>4. Less(S, r, X, d, q, u, e)
      BY <2>5, <3>1, <3>3 DEF Less
    <3>. QED  BY <3>4 DEF r
  <2>6. CASE m # NULL /\ d # m
    <3>. DEFINE s == Side(d, m)
                c == S.kid[m][s]
                w == f[i - 1][c][m]
    <3>0. m \in Data /\ m \in X /\ m # NULL
      BY <2>6, AVLType
    <3>1. s \in Sides
      BY DEF Side, Sides
    <3>2. r = Lowered(w, m, q, s)
      BY <2>3, <2>6 DEF RemoveBelow
    <3>. HIDE DEF w
    <3>3. PICK A, B \in SUBSET X, a, b \in Nat :
             /\ Node(S, m, s, A, a, B, b)
             /\ X = A \cup B \cup {m} /\ e = 1 + Taller(a, b) /\ a - b \in -1 .. 1
      BY <2>6, <3>1, Split
    <3>4. AVL(S, c, A, a) /\ OnSide(A, m, s) /\ OnSide(B, m, -s) /\ m \notin A
      <4>1. Apart(S, m, s, A, a, B, b)
        BY <3>3, NodeType
      <4>. QED  BY <4>1 DEF Apart
    <3>. HIDE DEF s
    <3>5. d \in X => d \in A
      <4>1. /\ \/ s = 1 /\ -s = -1 /\ -s # 1
               \/ s = -1 /\ -s = 1 /\ s # 1
        BY <3>1, Opposite
      <4>2. d \in Int /\ m \in Int /\ s = Side(d, m)
        BY <3>0, Basics DEF s
      <4>3. d \notin B
        BY <3>4, <4>1, <4>2 DEF OnSide, Side
      <4>. QED  BY <2>6, <3>3, <4>3
    <3>6. At(S, c, A, m, s)
      <4>1. Under(S, m, s) = c
        BY <3>0 DEF Under
      <4>2. m \in NodeOrNull /\ A \in SUBSET Data
        BY <2>1, <3>3
      <4>. QED  BY <3>1, <3>4, <4>1, <4>2 DEF At
    <3>7. Good(i - 1, c, A, a, m, s)
      <4>. HIDE DEF Good, c
      <4>. QED  BY <1>2
    <3>8. a <= i - 1
      BY <3>3 DEF Taller
    <3>9. Less(S, w, A, d, m, s, a)
      BY <3>4, <3>6, <3>7, <3>8 DEF w
    <3>10. CASE d \in A
      <4>1. Gone(S, w, A, d, m, s, a)
        BY <3>9, <3>10 DEF Less
      <4>2. /\ Shrunk(S, w, A, d, m, s, a)
            /\ w.s.used = S.used \ {d} /\ w.s.kid[d] = Childless /\ w.s.bal[d] = 0
        BY <4>1 DEF Gone
      <4>3. At(S, m, A \cup B \cup {m}, q, u)
        BY <3>3
      <4>4. Shrunk(S, r, A \cup B \cup {m}, d, q, u, 1 + Taller(a, b)) /\ Keeps(w.s, r.s, d)
        BY <3>2, <3>3, <3>10, <4>2, <4>3, ShrunkAbove
      <4>5. Gone(S, r, X, d, q, u, e)
        BY <3>3, <4>2, <4>4 DEF Gone, Keeps
      <4>6. Less(S, r, X, d, q, u, e)
        BY <3>10, <4>5 DEF Less
      <4>. QED  BY <4>6 DEF r
    <3>11. CASE d \notin A
      <4>1. w = Changed(S, "ENOENT", FALSE)
        BY <3>9, <3>11 DEF Less
      <4>2. r = w
        BY <3>2, <4>1 DEF Lowered, Changed
      <4>3. Less(S, r, X, d, q, u, e)
        BY <3>5, <3>11, <4>1, <4>2 DEF Less
      <4>. QED  BY <4>3 DEF r
    <3>. QED  BY <3>10, <3>11
  <2>. QED  BY <2>4, <2>5, <2>6
<1>3. \A i \in 0 .. Deepest : i \in P
  <2>. HIDE DEF P
  <2>. QED  BY <1>1, <1>2, Basics, Climb
<1>4. Good(k, n, D, h, p, t)
  <2>. HIDE DEF Good
  <2>. QED  BY <1>3
<1>. QED  BY <1>4

\* What at_remove does to a sound tree.
Removing(S, d, r) ==
    IF d \in S.used THEN r.err = "ok" /\ Sound(r.s) /\ r.s.used = S.used \ {d}
    ELSE r.err = "ENOENT" /\ r.s = S

\* A removal from a sound tree makes a sound tree without the data, or says that the
\* data is not there and changes nothing.
LEMMA RemovalIs ==
    ASSUME NEW S, Sound(S), NEW d \in Data
    PROVE  Removing(S, d, _at_remove(S, d))
<1>. DEFINE D == S.used
            r == _at_remove(S, d)
            F == D \ {d}
<1>1. S \in Trees
  BY DEF Sound
<1>2. PICK h : AVL(S, S.root, D, h)
  BY DEF Sound
<1>3. D \in SUBSET Data
  BY <1>1, TreesFields
<1>4. PICK f : Removes(S, d, f) /\ r = f[Deepest][S.root][NULL]
  BY RemoveRecursion
<1>. HIDE DEF r
<1>5. Less(S, r, D, d, NULL, 1, h)
  <2>1. At(S, S.root, D, NULL, 1)
    <3>. HIDE DEF D
    <3>. QED  BY <1>1, <1>3, AtRoot
  <2>2. h \in 0 .. Deepest /\ Deepest \in 0 .. Deepest
    <3>. HIDE DEF D
    <3>. QED  BY <1>2, HeightBound, Basics
  <2>. HIDE DEF D
  <2>. QED  BY <1>1, <1>2, <1>4, <2>1, <2>2, RemoveShrinks
<1>6. CASE d \notin D
  BY <1>5, <1>6 DEF Less, Changed, Removing, r
<1>7. CASE d \in D
  <2>. DEFINE R == r.s
              e == h - ByOne(r)
  <2>1. /\ Shrunk(S, r, D, d, NULL, 1, h)
        /\ R.used = F /\ R.kid[d] = Childless /\ R.bal[d] = 0
    BY <1>5, <1>7 DEF Less, Gone
  <2>2. Result(S, r, D, NULL, 1, F, e)
    BY <2>1 DEF Shrunk
  <2>. HIDE DEF e
  <2>3. r.err = "ok" /\ \E m : Moved(S, R, D, NULL, 1, m) /\ AVL(R, m, F, e)
    BY <2>2 DEF Result
  <2>4. PICK m : Moved(S, R, D, NULL, 1, m) /\ AVL(R, m, F, e)
    BY <2>3
  <2>. HIDE DEF R
  <2>5. R \in Trees
    BY <2>4 DEF Moved
  <2>6. R = [R EXCEPT !.used = R.used]
    BY <2>5 DEF Trees
  <2>7. /\ S.used \subseteq D /\ R.used \in SUBSET Data
        /\ \A k \in D \ R.used : R.kid[k] = Childless /\ R.bal[k] = 0
    BY <1>3, <2>1
  <2>8. Sound(R)
    <3>. HIDE DEF D, F
    <3>. QED  BY <1>3, <2>1, <2>4, <2>6, <2>7, SoundAgain
  <2>. QED  BY <1>7, <2>1, <2>3, <2>8 DEF Removing, R, r
<1>. QED  BY <1>6, <1>7

-----------------------------------------------------------------------------
(* What the tree is read as                                                *)

\* v has the data of D once each, in ascending order.
Ascending(v, D) ==
    /\ v \in Seq(Data) /\ Len(v) \in Nat /\ Len(v) = Cardinality(D)
    /\ \A i \in 1 .. Len(v) : v[i] \in D
    /\ \A d \in D : \E i \in 1 .. Len(v) : v[i] = d
    /\ \A i, j \in 1 .. Len(v) : i < j => v[i] < v[j]

\* The elements of a concatenation.
Around(z, v, N, n, w, M) ==
    /\ z \in Seq(Data) /\ Len(z) \in Nat /\ Len(z) = N + 1 + M
    /\ N \in Nat /\ M \in Nat
    /\ \A i \in 1 .. N : z[i] = v[i]
    /\ z[N + 1] = n
    /\ \A i \in 1 .. M : z[N + 1 + i] = w[i]
    /\ \A i \in 1 .. Len(z) : \/ i \in 1 .. N
                              \/ i = N + 1
                              \/ \E j \in 1 .. M : i = N + 1 + j

\* A sequence put together from two and an element between them.
LEMMA AroundOne ==
    ASSUME NEW v \in Seq(Data), NEW n \in Data, NEW w \in Seq(Data),
           NEW z, z = v \o <<n>> \o w
    PROVE  Around(z, v, Len(v), n, w, Len(w))
<1>. DEFINE a == v \o <<n>>
<1>1. /\ a \in Seq(Data) /\ Len(a) = Len(v) + 1 /\ \A i \in 1 .. Len(v) : a[i] = v[i]
      /\ a[Len(v) + 1] = n /\ Len(v) \in Nat /\ Len(w) \in Nat
  OBVIOUS
<1>. HIDE DEF a
<1>2. z = a \o w
  BY DEF a
<1>3. /\ z \in Seq(Data) /\ Len(z) = Len(a) + Len(w)
      /\ \A i \in 1 .. Len(a) : z[i] = a[i]
      /\ \A i \in 1 .. Len(w) : z[Len(a) + i] = w[i]
  BY <1>1, <1>2
<1>4. ASSUME NEW i \in 1 .. Len(z), i > Len(v) + 1  PROVE \E j \in 1 .. Len(w) : i = Len(v) + 1 + j
  <2>1. i - (Len(v) + 1) \in 1 .. Len(w) /\ i = Len(v) + 1 + (i - (Len(v) + 1))
    BY <1>1, <1>3, <1>4
  <2>. QED  BY <2>1
<1>5. \A i \in 1 .. Len(z) : i \in 1 .. Len(v) \/ i = Len(v) + 1 \/ i > Len(v) + 1
  BY <1>1, <1>3
<1>6. \A i \in 1 .. Len(v) : z[i] = v[i]
  BY <1>1, <1>3
<1>7. z[Len(v) + 1] = n
  BY <1>1, <1>3
<1>8. \A i \in 1 .. Len(w) : z[Len(v) + 1 + i] = w[i]
  BY <1>1, <1>3
<1>. QED  BY <1>1, <1>3, <1>4, <1>5, <1>6, <1>7, <1>8 DEF Around

\* The data below a node, in order.
LEMMA AscendingJoin ==
    ASSUME NEW S, NEW n, NEW s, NEW A, NEW a, NEW B, NEW b, Node(S, n, s, A, a, B, b), s = -1,
           NEW v, Ascending(v, A), NEW w, Ascending(w, B)
    PROVE  Ascending(v \o <<n>> \o w, A \cup B \cup {n})
<1>. DEFINE D == A \cup B \cup {n}
            z == v \o <<n>> \o w
            N == Len(v)
            M == Len(w)
<1>1. Apart(S, n, s, A, a, B, b)
  BY NodeType
<1>2. /\ n \in Data /\ A \in SUBSET Data /\ B \in SUBSET Data /\ n \notin A /\ n \notin B /\ A \cap B = {}
      /\ s \in Sides /\ OnSide(A, n, s) /\ OnSide(B, n, -s)
  BY <1>1 DEF Apart
<1>3. (\A d \in A : d < n) /\ (\A d \in B : d > n)
  <2>1. -s = 1 /\ s # 1
    BY <1>2, Opposite
  <2>. QED  BY <1>2, <2>1 DEF OnSide
<1>4. /\ v \in Seq(Data) /\ N \in Nat /\ N = Cardinality(A)
      /\ \A i \in 1 .. N : v[i] \in A
      /\ \A d \in A : \E i \in 1 .. N : v[i] = d
      /\ \A i, j \in 1 .. N : i < j => v[i] < v[j]
  BY DEF Ascending
<1>5. /\ w \in Seq(Data) /\ M \in Nat /\ M = Cardinality(B)
      /\ \A i \in 1 .. M : w[i] \in B
      /\ \A d \in B : \E i \in 1 .. M : w[i] = d
      /\ \A i, j \in 1 .. M : i < j => w[i] < w[j]
  BY DEF Ascending
<1>6. /\ z \in Seq(Data) /\ Len(z) \in Nat /\ Len(z) = N + 1 + M
      /\ \A i \in 1 .. N : z[i] = v[i]
      /\ z[N + 1] = n
      /\ \A i \in 1 .. M : z[N + 1 + i] = w[i]
      /\ \A i \in 1 .. Len(z) : \/ i \in 1 .. N
                                \/ i = N + 1
                                \/ \E j \in 1 .. M : i = N + 1 + j
  <2>1. Around(z, v, N, n, w, M)
    BY <1>2, <1>4, <1>5, AroundOne
  <2>. HIDE DEF z, N, M
  <2>. QED  BY <2>1 DEF Around
<1>7. Cardinality(D) = N + 1 + M
  <2>1. IsFiniteSet(A) /\ IsFiniteSet(B) /\ IsFiniteSet(A \cup B)
    BY <1>2, Basics, FS_Subset
  <2>2. Cardinality(A \cup B) = Cardinality(A) + Cardinality(B) - Cardinality(A \cap B)
    BY <2>1, FS_Union
  <2>3. Cardinality({}) = 0
    BY FS_EmptySet
  <2>4. Cardinality(D) = Cardinality(A \cup B) + 1
    BY <1>2, <2>1, FS_AddElement
  <2>5. Cardinality(A \cap B) = 0
    <3>1. A \cap B = {}
      BY <1>2
    <3>. QED  BY <2>3, <3>1
  <2>. HIDE DEF N, M, D
  <2>6. Cardinality(A \cup B) = N + M
    BY <1>4, <1>5, <2>2, <2>3, <2>5
  <2>. QED  BY <1>4, <1>5, <2>4, <2>6
<1>. HIDE DEF z, N, M
<1>8. ASSUME NEW i \in 1 .. Len(z)  PROVE z[i] \in D
  <2>1. CASE i \in 1 .. N
    BY <1>4, <1>6, <2>1
  <2>2. CASE i = N + 1
    BY <1>6, <2>2
  <2>3. CASE \E j \in 1 .. M : i = N + 1 + j
    BY <1>5, <1>6, <2>3
  <2>. QED  BY <1>6, <2>1, <2>2, <2>3
<1>9. ASSUME NEW d \in D  PROVE \E i \in 1 .. Len(z) : z[i] = d
  <2>1. CASE d \in A
    <3>1. PICK i \in 1 .. N : v[i] = d
      BY <1>4, <2>1
    <3>2. i \in 1 .. Len(z) /\ z[i] = d
      BY <1>4, <1>5, <1>6, <3>1
    <3>. QED  BY <3>2
  <2>2. CASE d \in B
    <3>1. PICK i \in 1 .. M : w[i] = d
      BY <1>5, <2>2
    <3>2. N + 1 + i \in 1 .. Len(z) /\ z[N + 1 + i] = d
      BY <1>4, <1>5, <1>6, <3>1, SMTT(30)
    <3>. QED  BY <3>2
  <2>3. CASE d = n
    <3>1. N + 1 \in 1 .. Len(z) /\ z[N + 1] = d
      BY <1>4, <1>5, <1>6, <2>3
    <3>. QED  BY <3>1
  <2>. QED  BY <2>1, <2>2, <2>3
<1>10. ASSUME NEW i \in 1 .. Len(z), NEW j \in 1 .. Len(z), i < j  PROVE z[i] < z[j]
  <2>0. \A d \in Data : d \in Int
    BY Basics
  <2>1. CASE i \in 1 .. N
    <3>1. z[i] = v[i] /\ v[i] \in A
      BY <1>4, <1>6, <2>1
    <3>2. CASE j \in 1 .. N
      BY <1>4, <1>6, <1>10, <2>1, <3>2
    <3>3. CASE j = N + 1
      BY <1>3, <1>6, <3>1, <3>3
    <3>4. CASE \E k \in 1 .. M : j = N + 1 + k
      <4>1. PICK k \in 1 .. M : j = N + 1 + k
        BY <3>4
      <4>2. z[j] = w[k] /\ w[k] \in B
        BY <1>5, <1>6, <4>1
      <4>3. v[i] < n /\ n < w[k] /\ v[i] \in Int /\ w[k] \in Int /\ n \in Int
        BY <1>2, <1>3, <2>0, <3>1, <4>2
      <4>. QED  BY <3>1, <4>2, <4>3
    <3>. QED  BY <1>6, <3>2, <3>3, <3>4
  <2>2. CASE i = N + 1
    <3>0. j \notin 1 .. N /\ j # N + 1
      BY <1>4, <1>10, <2>2
    <3>1. PICK k \in 1 .. M : j = N + 1 + k
      BY <1>6, <3>0
    <3>2. z[j] = w[k] /\ w[k] \in B
      BY <1>5, <1>6, <3>1
    <3>. QED  BY <1>2, <1>3, <1>6, <2>0, <2>2, <3>2
  <2>3. CASE \E k \in 1 .. M : i = N + 1 + k
    <3>1. PICK k \in 1 .. M : i = N + 1 + k
      BY <2>3
    <3>0. j \notin 1 .. N /\ j # N + 1
      BY <1>4, <1>10, <3>1
    <3>2. PICK l \in 1 .. M : j = N + 1 + l
      BY <1>6, <3>0
    <3>3. z[i] = w[k] /\ z[j] = w[l] /\ k < l
      BY <1>4, <1>6, <1>10, <3>1, <3>2
    <3>. QED  BY <1>5, <3>3
  <2>. QED  BY <1>6, <2>1, <2>2, <2>3
<1>11. Ascending(z, D)
  <2>. HIDE DEF D
  <2>. QED  BY <1>4, <1>5, <1>6, <1>7, <1>8, <1>9, <1>10 DEF Ascending
<1>. QED  BY <1>11 DEF z

\* The recursion of _at_iterate visits the data below a node in ascending order.
Visits(S, f) ==
    /\ \A i \in 0 .. Deepest : f[i][NULL] = << >>
    /\ \A i \in 1 .. Deepest, n \in Data :
         f[i][n] = f[i - 1][S.kid[n][-1]] \o <<n>> \o f[i - 1][S.kid[n][1]]

\* The recursion of InOrder, unfolded.
LEMMA VisitRecursion ==
    ASSUME NEW S
    PROVE  \E f : Visits(S, f) /\ InOrder(S) = f[Deepest][S.root]
<1>. DEFINE Level(f, i) ==
              [n \in NodeOrNull |->
                 IF i = 0 \/ n = NULL THEN << >>
                 ELSE f[i - 1][S.kid[n][-1]] \o <<n>> \o f[i - 1][S.kid[n][1]]]
            Solves(f, k) == f = [i \in 0 .. k |-> Level(f, i)]
            P == {k \in 0 .. Deepest : \E f : Solves(f, k)}
<1>1. \A f, g : Level(f, 0) = Level(g, 0)
  OBVIOUS
<1>2. \A f, g, i : f[i - 1] = g[i - 1] => Level(f, i) = Level(g, i)
  OBVIOUS
<1>3. /\ \A f, i : Level(f, i)[NULL] = << >>
      /\ \A f, i : i # 0 => \A n \in Data :
           Level(f, i)[n] = f[i - 1][S.kid[n][-1]] \o <<n>> \o f[i - 1][S.kid[n][1]]
  BY Basics
<1>4. InOrder(S) = (CHOOSE f : Solves(f, Deepest))[Deepest][S.root]
  BY DEF InOrder
<1>. HIDE DEF Level
<1>5. 0 \in P
  <2>. DEFINE g == [i \in 0 .. 0 |-> Level(0, 0)]
  <2>1. Solves(g, 0)
    BY <1>1
  <2>. QED  BY <2>1, Basics
<1>6. ASSUME NEW k \in 1 .. Deepest, k - 1 \in P  PROVE k \in P
  <2>1. PICK f : Solves(f, k - 1)
    BY <1>6
  <2>. DEFINE g == [i \in 0 .. k |-> IF i = k THEN Level(f, k) ELSE f[i]]
  <2>2. \A i \in 0 .. k - 1 : g[i] = f[i] /\ f[i] = Level(f, i)
    BY <2>1
  <2>3. \A i \in 0 .. k : g[i] = Level(g, i)
    <3>1. g[k] = Level(g, k)
      BY <1>2, <2>2
    <3>2. ASSUME NEW i \in 1 .. k - 1  PROVE g[i] = Level(g, i)
      <4>1. i - 1 \in 0 .. k - 1 /\ i \in 0 .. k - 1
        OBVIOUS
      <4>2. g[i - 1] = f[i - 1] /\ g[i] = Level(f, i)
        BY <2>2, <4>1
      <4>. HIDE DEF g
      <4>. QED  BY <1>2, <4>2
    <3>3. g[0] = Level(g, 0)
      BY <1>1, <2>2
    <3>. QED  BY <3>1, <3>2, <3>3
  <2>4. Solves(g, k)
    BY <2>3
  <2>5. k \in 0 .. Deepest
    OBVIOUS
  <2>. HIDE DEF Solves, g
  <2>. QED  BY <2>4, <2>5
<1>7. \E f : Solves(f, Deepest)
  <2>. HIDE DEF Solves
  <2>1. \A k \in 0 .. Deepest : k \in P
    BY <1>5, <1>6, Basics, Climb
  <2>. QED  BY <2>1, Basics
<1>. DEFINE f == CHOOSE f : Solves(f, Deepest)
<1>8. Solves(f, Deepest)
  <2>. HIDE DEF Solves
  <2>. QED  BY <1>7
<1>9. \A k \in 0 .. Deepest : f[k] = Level(f, k)
  <2>. HIDE DEF f
  <2>. QED  BY <1>8
<1>10. Visits(S, f)
  <2>. HIDE DEF f
  <2>1. ASSUME NEW i \in 1 .. Deepest, NEW n \in Data
        PROVE  f[i][n] = f[i - 1][S.kid[n][-1]] \o <<n>> \o f[i - 1][S.kid[n][1]]
    <3>1. f[i] = Level(f, i) /\ i # 0
      BY <1>9
    <3>2. Level(f, i)[n] = f[i - 1][S.kid[n][-1]] \o <<n>> \o f[i - 1][S.kid[n][1]]
      BY <1>3, <3>1
    <3>. QED  BY <3>1, <3>2
  <2>2. ASSUME NEW i \in 0 .. Deepest  PROVE f[i][NULL] = << >>
    <3>1. f[i] = Level(f, i)
      BY <1>9
    <3>2. Level(f, i)[NULL] = << >>
      BY <1>3
    <3>. QED  BY <3>1, <3>2
  <2>. QED  BY <2>1, <2>2, Zenon DEF Visits
<1>. QED  BY <1>4, <1>10

\* A visit of an AVL tree is its data in ascending order, each once.
LEMMA InOrderIs ==
    ASSUME NEW S, NEW D, NEW h, AVL(S, S.root, D, h)
    PROVE  Ascending(InOrder(S), D)
<1>1. PICK f : Visits(S, f) /\ InOrder(S) = f[Deepest][S.root]
  BY VisitRecursion
<1>. DEFINE Good(i, m, X, e) == AVL(S, m, X, e) /\ e <= i => Ascending(f[i][m], X)
            P == {i \in 0 .. Deepest : \A m, X, e : Good(i, m, X, e)}
<1>2. Ascending(<< >>, {})
  <2>1. Cardinality({}) = 0
    BY FS_EmptySet
  <2>. QED  BY <2>1 DEF Ascending
<1>3. \A i \in 0 .. Deepest : f[i][NULL] = << >>
  BY <1>1 DEF Visits
<1>4. 0 \in P
  <2>1. ASSUME NEW m, NEW X, NEW e, AVL(S, m, X, e), e <= 0  PROVE Ascending(f[0][m], X)
    <3>1. m = NULL /\ X = {}
      BY <2>1, AVLType
    <3>2. f[0][m] = << >>
      BY <1>3, <3>1, Basics
    <3>. QED  BY <1>2, <3>1, <3>2
  <2>. QED  BY <2>1, Basics
<1>5. ASSUME NEW i \in 1 .. Deepest, i - 1 \in P  PROVE i \in P
  <2>. SUFFICES ASSUME NEW m, NEW X, NEW e, AVL(S, m, X, e), e <= i  PROVE Ascending(f[i][m], X)
    OBVIOUS
  <2>1. CASE m = NULL
    <3>1. X = {}
      BY <2>1, AVLType
    <3>2. f[i][m] = << >>
      BY <1>3, <2>1
    <3>. QED  BY <1>2, <3>1, <3>2
  <2>2. CASE m # NULL
    <3>. DEFINE s == -1
                l == S.kid[m][-1]
                r == S.kid[m][1]
    <3>1. s \in Sides /\ -s = 1
      BY Opposite DEF Sides
    <3>2. PICK A, B \in SUBSET X, a, b \in Nat :
             /\ Node(S, m, s, A, a, B, b)
             /\ X = A \cup B \cup {m} /\ e = 1 + Taller(a, b) /\ a - b \in -1 .. 1
      <4>. HIDE DEF s
      <4>. QED  BY <2>2, <3>1, Split
    <3>3. AVL(S, l, A, a) /\ AVL(S, r, B, b)
      BY <3>1, <3>2 DEF Node
    <3>4. a <= i - 1 /\ b <= i - 1
      BY <3>2 DEF Taller
    <3>5. Good(i - 1, l, A, a) /\ Good(i - 1, r, B, b)
      <4>. HIDE DEF Good, l, r
      <4>. QED  BY <1>5
    <3>6. Ascending(f[i - 1][l], A) /\ Ascending(f[i - 1][r], B)
      BY <3>3, <3>4, <3>5
    <3>7. Ascending(f[i - 1][l] \o <<m>> \o f[i - 1][r], A \cup B \cup {m})
      <4>1. s = -1
        OBVIOUS
      <4>. HIDE DEF s
      <4>. QED  BY <3>2, <3>6, <4>1, AscendingJoin
    <3>8. f[i][m] = f[i - 1][l] \o <<m>> \o f[i - 1][r]
      <4>1. m \in Data
        BY <2>2, AVLType
      <4>. HIDE DEF P, Good
      <4>. QED  BY <1>1, <4>1 DEF Visits
    <3>. QED  BY <3>2, <3>7, <3>8
  <2>. QED  BY <2>1, <2>2
<1>6. \A i \in 0 .. Deepest : i \in P
  <2>. HIDE DEF P
  <2>. QED  BY <1>4, <1>5, Basics, Climb
<1>7. Good(Deepest, S.root, D, h)
  <2>. HIDE DEF Good
  <2>. QED  BY <1>6, Basics
<1>8. h <= Deepest
  BY HeightBound, Basics
<1>. QED  BY <1>1, <1>7, <1>8

\* The recursion of _at_check computes the height below a node.
Heights(S, f) ==
    /\ \A i \in 0 .. Deepest : f[i][NULL] = 0
    /\ \A i \in 1 .. Deepest, n \in Data :
         f[i][n] = 1 + Taller(f[i - 1][S.kid[n][-1]], f[i - 1][S.kid[n][1]])

\* The recursion of Height, unfolded.
LEMMA HeightRecursion ==
    ASSUME NEW S
    PROVE  \E f : Heights(S, f) /\ \A n : Height(S, n) = f[Deepest][n]
<1>. DEFINE Level(f, i) ==
              [n \in NodeOrNull |->
                 IF i = 0 \/ n = NULL THEN 0
                 ELSE LET lheight == f[i - 1][S.kid[n][-1]]
                          rheight == f[i - 1][S.kid[n][1]]
                      IN  1 + (IF lheight > rheight THEN lheight ELSE rheight)]
            Solves(f, k) == f = [i \in 0 .. k |-> Level(f, i)]
            P == {k \in 0 .. Deepest : \E f : Solves(f, k)}
<1>1. \A f, g : Level(f, 0) = Level(g, 0)
  OBVIOUS
<1>2. \A f, g, i : f[i - 1] = g[i - 1] => Level(f, i) = Level(g, i)
  OBVIOUS
<1>3. /\ \A f, i : Level(f, i)[NULL] = 0
      /\ \A f, i : i # 0 => \A n \in Data :
           Level(f, i)[n] = 1 + Taller(f[i - 1][S.kid[n][-1]], f[i - 1][S.kid[n][1]])
  BY Basics DEF Taller
<1>4. \A n : Height(S, n) = (CHOOSE f : Solves(f, Deepest))[Deepest][n]
  BY DEF Height
<1>. HIDE DEF Level
<1>5. 0 \in P
  <2>. DEFINE g == [i \in 0 .. 0 |-> Level(0, 0)]
  <2>1. Solves(g, 0)
    BY <1>1
  <2>. QED  BY <2>1, Basics
<1>6. ASSUME NEW k \in 1 .. Deepest, k - 1 \in P  PROVE k \in P
  <2>1. PICK f : Solves(f, k - 1)
    BY <1>6
  <2>. DEFINE g == [i \in 0 .. k |-> IF i = k THEN Level(f, k) ELSE f[i]]
  <2>2. \A i \in 0 .. k - 1 : g[i] = f[i] /\ f[i] = Level(f, i)
    BY <2>1
  <2>3. \A i \in 0 .. k : g[i] = Level(g, i)
    <3>1. g[k] = Level(g, k)
      BY <1>2, <2>2
    <3>2. ASSUME NEW i \in 1 .. k - 1  PROVE g[i] = Level(g, i)
      <4>1. i - 1 \in 0 .. k - 1 /\ i \in 0 .. k - 1
        OBVIOUS
      <4>2. g[i - 1] = f[i - 1] /\ g[i] = Level(f, i)
        BY <2>2, <4>1
      <4>. HIDE DEF g
      <4>. QED  BY <1>2, <4>2
    <3>3. g[0] = Level(g, 0)
      BY <1>1, <2>2
    <3>. QED  BY <3>1, <3>2, <3>3
  <2>4. Solves(g, k)
    BY <2>3
  <2>5. k \in 0 .. Deepest
    OBVIOUS
  <2>. HIDE DEF Solves, g
  <2>. QED  BY <2>4, <2>5
<1>7. \E f : Solves(f, Deepest)
  <2>. HIDE DEF Solves
  <2>1. \A k \in 0 .. Deepest : k \in P
    BY <1>5, <1>6, Basics, Climb
  <2>. QED  BY <2>1, Basics
<1>. DEFINE f == CHOOSE f : Solves(f, Deepest)
<1>8. Solves(f, Deepest)
  <2>. HIDE DEF Solves
  <2>. QED  BY <1>7
<1>9. \A k \in 0 .. Deepest : f[k] = Level(f, k)
  <2>. HIDE DEF f
  <2>. QED  BY <1>8
<1>10. Heights(S, f)
  <2>. HIDE DEF f
  <2>1. ASSUME NEW i \in 1 .. Deepest, NEW n \in Data
        PROVE  f[i][n] = 1 + Taller(f[i - 1][S.kid[n][-1]], f[i - 1][S.kid[n][1]])
    <3>1. f[i] = Level(f, i) /\ i # 0
      BY <1>9
    <3>2. Level(f, i)[n] = 1 + Taller(f[i - 1][S.kid[n][-1]], f[i - 1][S.kid[n][1]])
      BY <1>3, <3>1
    <3>. QED  BY <3>1, <3>2
  <2>2. ASSUME NEW i \in 0 .. Deepest  PROVE f[i][NULL] = 0
    <3>1. f[i] = Level(f, i)
      BY <1>9
    <3>2. Level(f, i)[NULL] = 0
      BY <1>3
    <3>. QED  BY <3>1, <3>2
  <2>. QED  BY <2>1, <2>2, Zenon DEF Heights
<1>. QED  BY <1>4, <1>10

\* The height that _at_check computes is the height.
LEMMA HeightIs ==
    ASSUME NEW S, NEW n, NEW D, NEW h, AVL(S, n, D, h)
    PROVE  Height(S, n) = h
<1>1. PICK f : Heights(S, f) /\ \A m : Height(S, m) = f[Deepest][m]
  BY HeightRecursion
<1>. DEFINE Good(i, m, X, e) == AVL(S, m, X, e) /\ e <= i => f[i][m] = e
            P == {i \in 0 .. Deepest : \A m, X, e : Good(i, m, X, e)}
<1>2. \A i \in 0 .. Deepest : f[i][NULL] = 0
  BY <1>1 DEF Heights
<1>3. 0 \in P
  <2>1. ASSUME NEW m, NEW X, NEW e, AVL(S, m, X, e), e <= 0  PROVE f[0][m] = e
    BY <1>2, <2>1, AVLType, Basics
  <2>. QED  BY <2>1, Basics
<1>4. ASSUME NEW i \in 1 .. Deepest, i - 1 \in P  PROVE i \in P
  <2>. SUFFICES ASSUME NEW m, NEW X, NEW e, AVL(S, m, X, e), e <= i  PROVE f[i][m] = e
    OBVIOUS
  <2>1. CASE m = NULL
    <3>1. e = 0
      BY <2>1, AVLType
    <3>. QED  BY <1>2, <2>1, <3>1
  <2>2. CASE m # NULL
    <3>. DEFINE s == -1
                l == S.kid[m][-1]
                r == S.kid[m][1]
    <3>1. s \in Sides /\ -s = 1
      BY Opposite DEF Sides
    <3>2. PICK A, B \in SUBSET X, a, b \in Nat :
             /\ Node(S, m, s, A, a, B, b)
             /\ X = A \cup B \cup {m} /\ e = 1 + Taller(a, b) /\ a - b \in -1 .. 1
      <4>. HIDE DEF s
      <4>. QED  BY <2>2, <3>1, Split
    <3>3. AVL(S, l, A, a) /\ AVL(S, r, B, b)
      BY <3>1, <3>2 DEF Node
    <3>4. a <= i - 1 /\ b <= i - 1
      BY <3>2 DEF Taller
    <3>5. Good(i - 1, l, A, a) /\ Good(i - 1, r, B, b)
      <4>. HIDE DEF Good, l, r
      <4>. QED  BY <1>4
    <3>6. f[i - 1][l] = a /\ f[i - 1][r] = b
      BY <3>3, <3>4, <3>5
    <3>7. f[i][m] = 1 + Taller(f[i - 1][l], f[i - 1][r])
      <4>1. m \in Data
        BY <2>2, AVLType
      <4>. HIDE DEF P, Good
      <4>. QED  BY <1>1, <4>1 DEF Heights
    <3>. QED  BY <3>2, <3>6, <3>7
  <2>. QED  BY <2>1, <2>2
<1>5. \A i \in 0 .. Deepest : i \in P
  <2>. HIDE DEF P
  <2>. QED  BY <1>3, <1>4, Basics, Climb
<1>6. Good(Deepest, n, D, h)
  <2>. HIDE DEF Good
  <2>. QED  BY <1>5, Basics
<1>7. h <= Deepest
  BY HeightBound, Basics
<1>. QED  BY <1>1, <1>6, <1>7

\* The recursion of _at_find finds what is below a node.
Finds(S, d, f) ==
    /\ \A i \in 0 .. Deepest : f[i][NULL] = "ENOENT"
    /\ \A i \in 1 .. Deepest, n \in Data :
         f[i][n] = IF d = n THEN "ok" ELSE f[i - 1][S.kid[n][Side(d, n)]]

\* The recursion of _at_find, unfolded.
LEMMA FindRecursion ==
    ASSUME NEW S, NEW d
    PROVE  \E f : Finds(S, d, f) /\ _at_find(S, d) = f[Deepest][S.root]
<1>. DEFINE Level(f, i) ==
              [n \in NodeOrNull |->
                 IF i = 0 \/ n = NULL THEN "ENOENT"
                 ELSE IF d = n THEN "ok" ELSE f[i - 1][Below(S, n, d)]]
            Solves(f, k) == f = [i \in 0 .. k |-> Level(f, i)]
            P == {k \in 0 .. Deepest : \E f : Solves(f, k)}
<1>1. \A f, g : Level(f, 0) = Level(g, 0)
  OBVIOUS
<1>2. \A f, g, i : f[i - 1] = g[i - 1] => Level(f, i) = Level(g, i)
  OBVIOUS
<1>3. /\ \A f, i : Level(f, i)[NULL] = "ENOENT"
      /\ \A f, i : i # 0 => \A n \in Data :
           Level(f, i)[n] = IF d = n THEN "ok" ELSE f[i - 1][S.kid[n][Side(d, n)]]
  BY Basics DEF Below
<1>4. _at_find(S, d) = (CHOOSE f : Solves(f, Deepest))[Deepest][S.root]
  BY DEF _at_find
<1>. HIDE DEF Level
<1>5. 0 \in P
  <2>. DEFINE g == [i \in 0 .. 0 |-> Level(0, 0)]
  <2>1. Solves(g, 0)
    BY <1>1
  <2>. QED  BY <2>1, Basics
<1>6. ASSUME NEW k \in 1 .. Deepest, k - 1 \in P  PROVE k \in P
  <2>1. PICK f : Solves(f, k - 1)
    BY <1>6
  <2>. DEFINE g == [i \in 0 .. k |-> IF i = k THEN Level(f, k) ELSE f[i]]
  <2>2. \A i \in 0 .. k - 1 : g[i] = f[i] /\ f[i] = Level(f, i)
    BY <2>1
  <2>3. \A i \in 0 .. k : g[i] = Level(g, i)
    <3>1. g[k] = Level(g, k)
      BY <1>2, <2>2
    <3>2. ASSUME NEW i \in 1 .. k - 1  PROVE g[i] = Level(g, i)
      <4>1. i - 1 \in 0 .. k - 1 /\ i \in 0 .. k - 1
        OBVIOUS
      <4>2. g[i - 1] = f[i - 1] /\ g[i] = Level(f, i)
        BY <2>2, <4>1
      <4>. HIDE DEF g
      <4>. QED  BY <1>2, <4>2
    <3>3. g[0] = Level(g, 0)
      BY <1>1, <2>2
    <3>. QED  BY <3>1, <3>2, <3>3
  <2>4. Solves(g, k)
    BY <2>3
  <2>5. k \in 0 .. Deepest
    OBVIOUS
  <2>. HIDE DEF Solves, g
  <2>. QED  BY <2>4, <2>5
<1>7. \E f : Solves(f, Deepest)
  <2>. HIDE DEF Solves
  <2>1. \A k \in 0 .. Deepest : k \in P
    BY <1>5, <1>6, Basics, Climb
  <2>. QED  BY <2>1, Basics
<1>. DEFINE f == CHOOSE f : Solves(f, Deepest)
<1>8. Solves(f, Deepest)
  <2>. HIDE DEF Solves
  <2>. QED  BY <1>7
<1>9. \A k \in 0 .. Deepest : f[k] = Level(f, k)
  <2>. HIDE DEF f
  <2>. QED  BY <1>8
<1>10. Finds(S, d, f)
  <2>. HIDE DEF f
  <2>1. ASSUME NEW i \in 1 .. Deepest, NEW n \in Data
        PROVE  f[i][n] = IF d = n THEN "ok" ELSE f[i - 1][S.kid[n][Side(d, n)]]
    <3>1. f[i] = Level(f, i) /\ i # 0
      BY <1>9
    <3>2. Level(f, i)[n] = IF d = n THEN "ok" ELSE f[i - 1][S.kid[n][Side(d, n)]]
      BY <1>3, <3>1
    <3>. QED  BY <3>1, <3>2
  <2>2. ASSUME NEW i \in 0 .. Deepest  PROVE f[i][NULL] = "ENOENT"
    <3>1. f[i] = Level(f, i)
      BY <1>9
    <3>2. Level(f, i)[NULL] = "ENOENT"
      BY <1>3
    <3>. QED  BY <3>1, <3>2
  <2>. QED  BY <2>1, <2>2, Zenon DEF Finds
<1>. QED  BY <1>4, <1>10

\* A search of an AVL tree finds the data that are in it and no other.
LEMMA FindIs ==
    ASSUME NEW S, NEW D, NEW h, AVL(S, S.root, D, h), NEW d \in Data
    PROVE  _at_find(S, d) = IF d \in D THEN "ok" ELSE "ENOENT"
<1>1. PICK f : Finds(S, d, f) /\ _at_find(S, d) = f[Deepest][S.root]
  BY FindRecursion
<1>. DEFINE Found(X) == IF d \in X THEN "ok" ELSE "ENOENT"
            Good(i, m, X, e) == AVL(S, m, X, e) /\ e <= i => f[i][m] = Found(X)
            P == {i \in 0 .. Deepest : \A m, X, e : Good(i, m, X, e)}
<1>2. \A i \in 0 .. Deepest : f[i][NULL] = "ENOENT"
  BY <1>1 DEF Finds
<1>3. 0 \in P
  <2>1. ASSUME NEW m, NEW X, NEW e, AVL(S, m, X, e), e <= 0  PROVE f[0][m] = Found(X)
    <3>1. m = NULL /\ X = {}
      BY <2>1, AVLType
    <3>. QED  BY <1>2, <3>1, Basics
  <2>. QED  BY <2>1, Basics
<1>4. ASSUME NEW i \in 1 .. Deepest, i - 1 \in P  PROVE i \in P
  <2>. SUFFICES ASSUME NEW m, NEW X, NEW e, AVL(S, m, X, e), e <= i  PROVE f[i][m] = Found(X)
    OBVIOUS
  <2>1. CASE m = NULL
    <3>1. X = {}
      BY <2>1, AVLType
    <3>. QED  BY <1>2, <2>1, <3>1
  <2>2. CASE m # NULL
    <3>. DEFINE s == Side(d, m)
                c == S.kid[m][s]
    <3>1. s \in Sides /\ m \in Data /\ m \in X
      BY <2>2, AVLType DEF Side, Sides
    <3>2. f[i][m] = IF d = m THEN "ok" ELSE f[i - 1][c]
      <4>. HIDE DEF P, Good
      <4>. QED  BY <1>1, <3>1 DEF Finds
    <3>3. CASE d = m
      BY <3>1, <3>2, <3>3
    <3>4. CASE d # m
      <4>1. PICK A, B \in SUBSET X, a, b \in Nat :
               /\ Node(S, m, s, A, a, B, b)
               /\ X = A \cup B \cup {m} /\ e = 1 + Taller(a, b) /\ a - b \in -1 .. 1
        BY <2>2, <3>1, Split
      <4>2. AVL(S, c, A, a) /\ OnSide(B, m, -s)
        BY <4>1 DEF Node
      <4>3. a <= i - 1
        BY <4>1 DEF Taller
      <4>. HIDE DEF s
      <4>4. d \notin B
        <5>1. /\ \/ s = 1 /\ -s = -1 /\ -s # 1
                 \/ s = -1 /\ -s = 1 /\ s # 1
          BY <3>1, Opposite
        <5>2. d \in Int /\ m \in Int /\ s = Side(d, m)
          BY <3>1, Basics DEF s
        <5>. QED  BY <4>2, <5>1, <5>2 DEF OnSide, Side
      <4>5. Good(i - 1, c, A, a)
        <5>. HIDE DEF Good, c
        <5>. QED  BY <1>4
      <4>. HIDE DEF c
      <4>6. f[i - 1][c] = Found(A)
        BY <4>2, <4>3, <4>5
      <4>. QED  BY <3>2, <3>4, <4>1, <4>4, <4>6
    <3>. QED  BY <3>3, <3>4
  <2>. QED  BY <2>1, <2>2
<1>5. \A i \in 0 .. Deepest : i \in P
  <2>. HIDE DEF P
  <2>. QED  BY <1>3, <1>4, Basics, Climb
<1>6. Good(Deepest, S.root, D, h)
  <2>. HIDE DEF Good
  <2>. QED  BY <1>5, Basics
<1>7. h <= Deepest
  BY HeightBound, Basics
<1>. QED  BY <1>1, <1>6, <1>7

-----------------------------------------------------------------------------
(* The calls                                                               *)

\* The tree at_create makes is sound, and empty.
LEMMA CreatedIsSound == Sound(Created) /\ Created.used = {}
<1>1. Created \in Trees /\ Created.abort = "" /\ Created.root = NULL /\ Created.used = {}
  <2>1. Childless \in [Sides -> NodeOrNull] /\ NULL \in NodeOrNull
    BY Basics DEF Childless
  <2>. DEFINE K == [n \in Data |-> Childless]
              L == [n \in Data |-> 0]
              T == [root |-> NULL, kid |-> K, bal |-> L, used |-> {}, abort |-> ""]
  <2>2. K \in [Data -> [Sides -> NodeOrNull]] /\ L \in [Data -> Int]
    BY <2>1
  <2>3. Created = T
    BY DEF Created
  <2>. HIDE DEF K, L
  <2>4. T.abort = "" /\ T.root = NULL /\ T.used = {}
    OBVIOUS
  <2>5. "" \in STRING \cup {""} /\ {} \in SUBSET Data
    OBVIOUS
  <2>6. T \in Trees
    BY <2>1, <2>2, <2>5 DEF Trees
  <2>. QED  BY <2>3, <2>4, <2>6
<1>2. \A m \in Data : Created.kid[m] = Childless /\ Created.bal[m] = 0
  BY DEF Created
<1>3. AVL(Created, NULL, {}, 0)
  BY EmptyAVL
<1>. HIDE DEF Created
<1>. QED  BY <1>1, <1>2, <1>3 DEF Sound

\* Insertions make a sound tree.
LEMMA BuiltIsSound ==
    ASSUME NEW seq \in Seq(Data)
    PROVE  Sound(Built(seq))
<1>. DEFINE N == Len(seq)
            Level(f, i) == IF i = 0 THEN Created ELSE Inserted(f[i - 1], seq[i]).s
            Solves(f, k) == f = [i \in 0 .. k |-> Level(f, i)]
            P == {k \in 0 .. N : \E f : Solves(f, k)}
<1>0. N \in Nat /\ \A i \in 1 .. N : seq[i] \in Data
  OBVIOUS
<1>1. \A f, g : Level(f, 0) = Level(g, 0)
  OBVIOUS
<1>2. \A f, g, i : f[i - 1] = g[i - 1] => Level(f, i) = Level(g, i)
  OBVIOUS
<1>3. /\ \A f : Level(f, 0) = Created
      /\ \A f, i : i # 0 => Level(f, i) = Inserted(f[i - 1], seq[i]).s
  OBVIOUS
<1>4. Built(seq) = (CHOOSE f : Solves(f, N))[N]
  BY DEF Built
<1>. HIDE DEF Level, N
<1>5. 0 \in P
  <2>. DEFINE g == [i \in 0 .. 0 |-> Level(0, 0)]
  <2>1. Solves(g, 0)
    BY <1>1
  <2>. QED  BY <1>0, <2>1
<1>6. ASSUME NEW k \in 1 .. N, k - 1 \in P  PROVE k \in P
  <2>1. PICK f : Solves(f, k - 1)
    BY <1>6
  <2>. DEFINE g == [i \in 0 .. k |-> IF i = k THEN Level(f, k) ELSE f[i]]
  <2>2. \A i \in 0 .. k - 1 : g[i] = f[i] /\ f[i] = Level(f, i)
    BY <2>1, SMTT(30)
  <2>3. \A i \in 0 .. k : g[i] = Level(g, i)
    <3>1. g[k] = Level(g, k)
      BY <1>2, <2>2
    <3>2. ASSUME NEW i \in 1 .. k - 1  PROVE g[i] = Level(g, i)
      <4>1. i - 1 \in 0 .. k - 1 /\ i \in 0 .. k - 1
        OBVIOUS
      <4>2. g[i - 1] = f[i - 1] /\ g[i] = Level(f, i)
        BY <2>2, <4>1
      <4>. HIDE DEF g
      <4>. QED  BY <1>2, <4>2
    <3>3. g[0] = Level(g, 0)
      BY <1>1, <2>2
    <3>. QED  BY <3>1, <3>2, <3>3
  <2>4. Solves(g, k)
    BY <2>3
  <2>5. k \in 0 .. N
    OBVIOUS
  <2>. HIDE DEF Solves, g
  <2>. QED  BY <2>4, <2>5
<1>7. \E f : Solves(f, N)
  <2>. HIDE DEF Solves
  <2>1. \A k \in 0 .. N : k \in P
    BY <1>0, <1>5, <1>6, Climb
  <2>. QED  BY <1>0, <2>1
<1>. DEFINE f == CHOOSE f : Solves(f, N)
<1>8. Solves(f, N)
  <2>. HIDE DEF Solves
  <2>. QED  BY <1>7
<1>9. \A k \in 0 .. N : f[k] = Level(f, k)
  <2>. HIDE DEF f
  <2>. QED  BY <1>8
<1>. HIDE DEF f, Solves, P
<1>10. f[0] = Created /\ \A i \in 1 .. N : f[i] = Inserted(f[i - 1], seq[i]).s
  <2>1. f[0] = Created
    BY <1>0, <1>3, <1>9
  <2>2. ASSUME NEW i \in 1 .. N  PROVE f[i] = Inserted(f[i - 1], seq[i]).s
    <3>1. f[i] = Level(f, i) /\ i # 0
      BY <1>0, <1>9
    <3>. QED  BY <1>3, <3>1
  <2>. QED  BY <2>1, <2>2
<1>. DEFINE Q == {i \in 0 .. N : Sound(f[i])}
<1>11. 0 \in Q
  BY <1>0, <1>10, CreatedIsSound
<1>12. ASSUME NEW i \in 1 .. N, i - 1 \in Q  PROVE i \in Q
  <2>1. Sound(f[i - 1]) /\ seq[i] \in Data
    BY <1>0, <1>12
  <2>2. Inserting(f[i - 1], seq[i], Inserted(f[i - 1], seq[i]))
    BY <2>1, InsertedIs
  <2>3. Sound(Inserted(f[i - 1], seq[i]).s)
    BY <2>1, <2>2 DEF Inserting
  <2>4. i \in 0 .. N
    BY <1>0
  <2>. QED  BY <1>10, <2>3, <2>4
<1>13. \A i \in 0 .. N : i \in Q
  <2>. HIDE DEF Q
  <2>. QED  BY <1>0, <1>11, <1>12, Climb
<1>. QED  BY <1>0, <1>4, <1>13 DEF f

\* The inductive invariant.
AvlIInv ==
    /\ start \in Starts
    /\ Sound(at)
    /\ at_nnodes = Cardinality(at.used)

\* Every start is a sound tree.
LEMMA AvlStarts == AvlInit => AvlIInv
<1>1. SUFFICES ASSUME AvlInit  PROVE AvlIInv
  OBVIOUS
<1>2. start.built \in Seq(Data)
  BY <1>1, AvlAssumption DEF AvlInit
<1>3. Sound(Built(start.built))
  BY <1>2, BuiltIsSound
<1>. QED  BY <1>1, <1>3 DEF AvlInit, AvlIInv

\* The data in a sound tree are finitely many.
LEMMA Counted ==
    ASSUME NEW S, Sound(S)
    PROVE  /\ S.used \in SUBSET Data /\ IsFiniteSet(S.used) /\ Cardinality(S.used) \in Nat
           /\ S \in Trees /\ \E h : AVL(S, S.root, S.used, h)
<1>1. S \in Trees /\ \E h : AVL(S, S.root, S.used, h)
  BY DEF Sound
<1>2. S.used \in SUBSET Data
  BY <1>1, TreesFields
<1>. QED  BY <1>1, <1>2, Basics, FS_Subset, FS_CardinalityType

\* A call keeps the tree sound and does what it does to a set.
Obeys == AvlIInv' /\ AvlSet!Next

\* at_insert keeps the tree sound and inserts into the set.
LEMMA InsertObeys ==
    ASSUME AvlIInv, NEW d \in Data, at_insert(d)
    PROVE  Obeys
<1>. DEFINE r == Inserted(at, d)
<1>1. Sound(at) /\ at_nnodes = Cardinality(at.used) /\ start \in Starts
  BY DEF AvlIInv
<1>2. Inserting(at, d, r)
  BY <1>1, InsertedIs
<1>3. /\ at' = r.s /\ at_nnodes' = (IF r.err = "ok" THEN at_nnodes + 1 ELSE at_nnodes)
      /\ at_reply' = Reply("insert", d, r.err) /\ start' = start
  BY DEF at_insert, Ends
<1>. HIDE DEF r
<1>4. CASE d \in at.used
  <2>1. at' = at /\ at_nnodes' = at_nnodes /\ at_reply' = Reply("insert", d, "EEXIST")
    BY <1>2, <1>3, <1>4 DEF Inserting
  <2>2. AvlIInv'
    BY <1>1, <1>3, <2>1 DEF AvlIInv
  <2>3. AvlSet!InsertAgain(d)
    BY <1>4, <2>1 DEF AvlSet!InsertAgain, AvlSet!Reply, Reply
  <2>. QED  BY <2>2, <2>3 DEF Obeys, AvlSet!Next
<1>5. CASE d \notin at.used
  <2>1. Sound(at') /\ at'.used = at.used \cup {d} /\ at_nnodes' = at_nnodes + 1 /\ at_reply' = Reply("insert", d, "ok")
    BY <1>2, <1>3, <1>5 DEF Inserting
  <2>2. Cardinality(at.used \cup {d}) = Cardinality(at.used) + 1
    BY <1>1, <1>5, Counted, FS_AddElement
  <2>3. AvlIInv'
    BY <1>1, <1>3, <2>1, <2>2 DEF AvlIInv
  <2>4. AvlSet!Insert(d)
    BY <1>5, <2>1 DEF AvlSet!Insert, AvlSet!Reply, Reply
  <2>. QED  BY <2>3, <2>4 DEF Obeys, AvlSet!Next
<1>. QED  BY <1>4, <1>5

\* An insertion that has no memory changes nothing.
LEMMA NoMemoryObeys ==
    ASSUME AvlIInv, NEW d \in Data, at_insert_ENOMEM(d)
    PROVE  Obeys
<1>1. at' = at /\ at_nnodes' = at_nnodes /\ at_reply' = Reply("insert", d, "ENOMEM") /\ start' = start
  BY DEF at_insert_ENOMEM, Ends, Changed
<1>2. AvlIInv'
  BY <1>1 DEF AvlIInv
<1>3. AvlSet!NoMemory(d)
  BY <1>1 DEF AvlSet!NoMemory, AvlSet!Reply, Reply
<1>. QED  BY <1>2, <1>3 DEF Obeys, AvlSet!Next

\* at_remove keeps the tree sound and removes from the set.
LEMMA RemoveObeys ==
    ASSUME AvlIInv, NEW d \in Data, at_remove(d)
    PROVE  Obeys
<1>. DEFINE r == _at_remove(at, d)
<1>1. Sound(at) /\ at_nnodes = Cardinality(at.used) /\ start \in Starts
  BY DEF AvlIInv
<1>2. Removing(at, d, r)
  BY <1>1, RemovalIs
<1>3. /\ at' = r.s /\ at_nnodes' = (IF r.err = "ok" THEN at_nnodes - 1 ELSE at_nnodes)
      /\ at_reply' = Reply("remove", d, r.err) /\ start' = start
  BY DEF at_remove, Ends
<1>. HIDE DEF r
<1>4. CASE d \notin at.used
  <2>1. at' = at /\ at_nnodes' = at_nnodes /\ at_reply' = Reply("remove", d, "ENOENT") /\ at.used = at.used \ {d}
    BY <1>2, <1>3, <1>4 DEF Removing
  <2>2. AvlIInv'
    BY <1>1, <1>3, <2>1 DEF AvlIInv
  <2>3. AvlSet!Remove(d)
    BY <1>4, <2>1 DEF AvlSet!Remove, AvlSet!Reply, Reply
  <2>. QED  BY <2>2, <2>3 DEF Obeys, AvlSet!Next
<1>5. CASE d \in at.used
  <2>1. Sound(at') /\ at'.used = at.used \ {d} /\ at_nnodes' = at_nnodes - 1 /\ at_reply' = Reply("remove", d, "ok")
    BY <1>2, <1>3, <1>5 DEF Removing
  <2>2. Cardinality(at.used \ {d}) = Cardinality(at.used) - 1
    BY <1>1, <1>5, Counted, FS_RemoveElement
  <2>3. AvlIInv'
    BY <1>1, <1>3, <2>1, <2>2 DEF AvlIInv
  <2>4. AvlSet!Remove(d)
    BY <1>5, <2>1 DEF AvlSet!Remove, AvlSet!Reply, Reply
  <2>. QED  BY <2>3, <2>4 DEF Obeys, AvlSet!Next
<1>. QED  BY <1>4, <1>5

\* at_find says whether the data is in the set.
LEMMA FindObeys ==
    ASSUME AvlIInv, NEW d \in Data, at_find(d)
    PROVE  Obeys
<1>1. Sound(at)
  BY DEF AvlIInv
<1>2. at_reply' = Reply("find", d, _at_find(at, d)) /\ UNCHANGED <<start, at, at_nnodes>>
  BY DEF at_find, Answer
<1>3. _at_find(at, d) = IF d \in at.used THEN "ok" ELSE "ENOENT"
  <2>1. PICK h : AVL(at, at.root, at.used, h)
    BY <1>1 DEF Sound
  <2>. QED  BY <2>1, FindIs
<1>4. AvlIInv'
  BY <1>2 DEF AvlIInv
<1>5. AvlSet!Find(d)
  BY <1>2, <1>3 DEF AvlSet!Find, AvlSet!Reply, Reply
<1>. QED  BY <1>4, <1>5 DEF Obeys, AvlSet!Next

\* An iteration visits all of the set, or the part up to where it is stopped.
LEMMA IterateObeys ==
    ASSUME AvlIInv, NEW d \in Data \cup {NULL}, at_iterate(d)
    PROVE  Obeys
<1>. DEFINE all == InOrder(at)
            n == IF d \in ToSet(all) THEN CHOOSE i \in DOMAIN all : all[i] = d ELSE Len(all)
<1>1. Sound(at)
  BY DEF AvlIInv
<1>2. at_reply' = Reply("iterate", d, n) /\ UNCHANGED <<start, at, at_nnodes>>
  BY DEF at_iterate, Answer
<1>3. Ascending(all, at.used)
  BY <1>1, Counted, InOrderIs
<1>. HIDE DEF all
<1>4. /\ all \in Seq(Data) /\ Len(all) = Cardinality(at.used) /\ DOMAIN all = 1 .. Len(all)
      /\ \A i \in 1 .. Len(all) : all[i] \in at.used
      /\ \A e \in at.used : \E i \in 1 .. Len(all) : all[i] = e
  BY <1>3 DEF Ascending
<1>5. d \in ToSet(all) <=> d \in at.used
  BY <1>4 DEF ToSet
<1>6. d \in at.used => n \in 1 .. Cardinality(at.used)
  BY <1>4, <1>5
<1>7. d \notin at.used => n = Cardinality(at.used)
  BY <1>4, <1>5
<1>8. AvlIInv'
  BY <1>2 DEF AvlIInv
<1>. HIDE DEF n
<1>9. AvlSet!Iterate(d)
  <2>1. at_reply'.op = "iterate" /\ at_reply'.data = d /\ at_reply'.res = n /\ at'.used = at.used
    BY <1>2 DEF Reply
  <2>2. IF d \in at.used THEN at_reply'.res \in 1 .. Cardinality(at.used)
                            ELSE at_reply'.res = Cardinality(at.used)
    BY <1>6, <1>7, <2>1
  <2>. QED  BY <2>1, <2>2 DEF AvlSet!Iterate, AvlSet!Cardinality, Cardinality
<1>. QED  BY <1>8, <1>9 DEF Obeys, AvlSet!Next

\* at_destroy and at_create leave the empty set.
LEMMA DestroyObeys ==
    ASSUME AvlIInv, at_destroy
    PROVE  Obeys
<1>1. at' = Created /\ at_nnodes' = 0 /\ at_reply' = Reply("create", NULL, "ok") /\ start' = start
  BY DEF at_destroy, Ends, Changed
<1>2. Sound(at') /\ at'.used = {} /\ Cardinality({}) = 0
  BY <1>1, CreatedIsSound, FS_EmptySet
<1>3. AvlIInv'
  BY <1>1, <1>2 DEF AvlIInv
<1>4. AvlSet!Destroy
  BY <1>1, <1>2 DEF AvlSet!Destroy, AvlSet!Reply, Reply
<1>. QED  BY <1>3, <1>4 DEF Obeys, AvlSet!Next

\* So does every call.
LEMMA AvlSteps ==
    ASSUME AvlIInv, AvlNext
    PROVE  Obeys
<1>1. start.data \subseteq Data
  BY AvlAssumption DEF AvlIInv
<1>2. ASSUME NEW d \in start.data, at_insert(d)  PROVE Obeys
  BY <1>1, <1>2, InsertObeys
<1>3. ASSUME NEW d \in start.data, at_insert_ENOMEM(d)  PROVE Obeys
  BY <1>1, <1>3, NoMemoryObeys
<1>4. ASSUME NEW d \in start.data, at_remove(d)  PROVE Obeys
  BY <1>1, <1>4, RemoveObeys
<1>5. ASSUME NEW d \in start.data, at_find(d)  PROVE Obeys
  BY <1>1, <1>5, FindObeys
<1>6. ASSUME NEW d \in start.data \cup {NULL}, at_iterate(d)  PROVE Obeys
  BY <1>1, <1>6, IterateObeys
<1>7. ASSUME at_destroy  PROVE Obeys
  BY <1>7, DestroyObeys
<1>. QED  BY <1>2, <1>3, <1>4, <1>5, <1>6, <1>7 DEF AvlNext

(* The tree is an AVL tree of its data with the true balances, what is not *)
(* in it is linked to nothing, and no assertion has failed.                *)
THEOREM AvlInvariant == AvlSpec => []AvlIInv
<1>1. AvlIInv /\ [AvlNext]_avlvars => AvlIInv'
  <2>1. SUFFICES ASSUME AvlIInv, [AvlNext]_avlvars  PROVE AvlIInv'
    OBVIOUS
  <2>2. CASE AvlNext
    BY <2>1, <2>2, AvlSteps DEF Obeys
  <2>3. CASE UNCHANGED avlvars
    BY <2>1, <2>3 DEF avlvars, AvlIInv
  <2>. QED  BY <2>1, <2>2, <2>3
<1>. QED  BY <1>1, AvlStarts, PTL DEF AvlSpec

\* A sound tree passes at_check.
LEMMA ChecksFollow == AvlIInv => AvlChecks
<1>1. SUFFICES ASSUME AvlIInv  PROVE AvlChecks
  OBVIOUS
<1>2. Sound(at) /\ at_nnodes = Cardinality(at.used)
  BY <1>1 DEF AvlIInv
<1>. DEFINE all == InOrder(at)
<1>3. PICK h : AVL(at, at.root, at.used, h)
  BY <1>2 DEF Sound
<1>4. Ascending(all, at.used)
  BY <1>3, InOrderIs
<1>. HIDE DEF all
<1>5. /\ all \in Seq(Data) /\ Len(all) = Cardinality(at.used) /\ DOMAIN all = 1 .. Len(all)
      /\ \A i \in 1 .. Len(all) : all[i] \in at.used
  BY <1>4 DEF Ascending
<1>6. ASSUME NEW n \in at.used
      PROVE  /\ at.bal[n] = Height(at, at.kid[n][1]) - Height(at, at.kid[n][-1])
             /\ at.bal[n] \in -1 .. 1
             /\ \A s \in Sides : at.kid[n][s] # NULL => Side(at.kid[n][s], n) = s
  <2>0. n \in Data /\ n # NULL
    <3>1. n \in Data
      BY <1>2, Counted
    <3>. QED  BY <3>1, Basics
  <2>1. PICK D \in SUBSET at.used, e \in Nat : AVL(at, n, D, e)
    BY <1>3, AVLBelow
  <2>2. ASSUME NEW s \in Sides  PROVE at.kid[n][s] # NULL => Side(at.kid[n][s], n) = s
    <3>1. PICK A, B \in SUBSET D, a, b \in Nat : Node(at, n, s, A, a, B, b)
      BY <2>0, <2>1, Split
    <3>2. Apart(at, n, s, A, a, B, b)
      BY <3>1, NodeType
    <3>3. AVL(at, at.kid[n][s], A, a) /\ OnSide(A, n, s) /\ A \in SUBSET Data
      BY <3>2 DEF Apart
    <3>4. at.kid[n][s] # NULL => at.kid[n][s] \in A
      BY <3>3, AVLType
    <3>. QED  BY <2>0, <3>3, <3>4, SideIs
  <2>3. at.bal[n] = Height(at, at.kid[n][1]) - Height(at, at.kid[n][-1]) /\ at.bal[n] \in -1 .. 1
    <3>. DEFINE s == 1
    <3>1. s \in Sides /\ -s = -1 /\ s = 1
      BY Opposite DEF Sides
    <3>2. PICK A, B \in SUBSET D, a, b \in Nat : Node(at, n, s, A, a, B, b) /\ a - b \in -1 .. 1
      <4>. HIDE DEF s
      <4>. QED  BY <2>0, <2>1, <3>1, Split
    <3>3. AVL(at, at.kid[n][1], A, a) /\ AVL(at, at.kid[n][-1], B, b) /\ at.bal[n] = a - b
      <4>. HIDE DEF s
      <4>. QED  BY <3>1, <3>2 DEF Node
    <3>4. Height(at, at.kid[n][1]) = a /\ Height(at, at.kid[n][-1]) = b
      BY <3>3, HeightIs
    <3>. QED  BY <3>2, <3>3, <3>4
  <2>. QED  BY <2>2, <2>3
<1>7. at_check
  <2>1. \A i \in DOMAIN all :
          LET n == all[i] IN
          /\ at.bal[n] = Height(at, at.kid[n][1]) - Height(at, at.kid[n][-1])
          /\ at.bal[n] \in -1 .. 1
          /\ \A s \in Sides : at.kid[n][s] # NULL => Side(at.kid[n][s], n) = s
    BY <1>5, <1>6
  <2>2. at_nnodes = Len(all)
    BY <1>2, <1>5
  <2>. QED  BY <2>1, <2>2, Zenon DEF at_check, all
<1>8. AvlRunning
  BY <1>2 DEF AvlRunning, Sound
<1>. QED  BY <1>7, <1>8 DEF AvlChecks

(* No assertion of the rotations and the removal ever fails, and at_check  *)
(* passes after every call.                                                *)
THEOREM AvlAlwaysChecks == AvlSpec => []AvlChecks
BY AvlInvariant, ChecksFollow, PTL

\* A sound tree is visited in ascending order and completely.
LEMMA OrderFollows == AvlIInv => InOrderAndComplete
<1>1. SUFFICES ASSUME AvlIInv  PROVE InOrderAndComplete
  OBVIOUS
<1>. DEFINE all == InOrder(at)
<1>2. Ascending(all, at.used)
  <2>1. Sound(at)
    BY <1>1 DEF AvlIInv
  <2>. QED  BY <2>1, Counted, InOrderIs
<1>. HIDE DEF all
<1>3. /\ all \in Seq(Data) /\ Len(all) \in Nat /\ DOMAIN all = 1 .. Len(all)
      /\ \A i \in 1 .. Len(all) : all[i] \in at.used
      /\ \A e \in at.used : \E i \in 1 .. Len(all) : all[i] = e
      /\ \A i, j \in 1 .. Len(all) : i < j => all[i] < all[j]
  BY <1>2 DEF Ascending
<1>4. ASSUME NEW i \in 1 .. Len(all) - 1  PROVE all[i] < all[i + 1]
  <2>1. i \in 1 .. Len(all) /\ i + 1 \in 1 .. Len(all) /\ i < i + 1
    BY <1>3
  <2>. QED  BY <1>3, <2>1
<1>5. ToSet(all) = at.used
  BY <1>3 DEF ToSet
<1>. QED  BY <1>4, <1>5 DEF InOrderAndComplete, all

(* An iteration always visits all data of the tree in ascending order.     *)
THEOREM AlwaysInOrder == AvlSpec => []InOrderAndComplete
BY AvlInvariant, OrderFollows, PTL

(* Every call that returns is a step of a set.                             *)
THEOREM AvlImplementsSet == AvlSpec => IsAvlSet
<1>1. AvlIInv /\ [AvlNext]_avlvars => [AvlSet!Next]_<<at.used, at_reply>>
  <2>1. SUFFICES ASSUME AvlIInv, [AvlNext]_avlvars  PROVE [AvlSet!Next]_<<at.used, at_reply>>
    OBVIOUS
  <2>2. CASE AvlNext
    BY <2>1, <2>2, AvlSteps DEF Obeys
  <2>3. CASE UNCHANGED avlvars
    BY <2>3 DEF avlvars
  <2>. QED  BY <2>1, <2>2, <2>3
<1>. QED  BY <1>1, AvlInvariant, PTL DEF AvlSpec, IsAvlSet

-----------------------------------------------------------------------------
(* The binary tree                                                         *)

\* The keys whose nodes are in the tree.
Stored == {k \in BtKey : bt_value[k] # Absent}

\* q[0], ..., q[m] are the places a search for key comes to, the last where it ends.
Leads(q, m, key) ==
    /\ q[0] = Root
    /\ \A i \in 0 .. m : q[i] \in Place
    /\ \A i \in 1 .. m : /\ bt_ptr[q[i - 1]] \in BtKey /\ bt_ptr[q[i - 1]] # key
                         /\ q[i] = Toward(bt_ptr[q[i - 1]], key)
    /\ bt_ptr[q[m]] = IF key \in Stored THEN key ELSE NoNode

\* The inductive invariant: a search for a key that is stored finds it, one for another
\* ends where nothing is, neither takes more steps than there are nodes, and nothing
\* points to or from a node that is not in the tree.
BtIInv ==
    /\ bt_ptr \in [Place -> Stored \cup {NoNode}]
    /\ bt_value \in [BtKey -> BtValue \cup {Absent}]
    /\ \A k \in BtKey \ Stored, c \in {"lchild", "rchild"} : bt_ptr[<<k, c>>] = NoNode
    /\ \A k \in BtKey : \E m \in 0 .. Cardinality(Stored) : \E q : Leads(q, m, k)

\* The places.
LEMMA Places ==
    /\ Root \in Place /\ \A k \in BtKey, c \in {"lchild", "rchild"} : <<k, c>> \in Place
    /\ \A n \in BtKey, k \in BtKey : Toward(n, k) \in Place
    /\ \A n \in BtKey : \A k : \E c \in {"lchild", "rchild"} : Toward(n, k) = <<n, c>>
BY DEF Place, Toward

\* The numbers of keys and of nodes.
LEMMA Numbers ==
    /\ Cardinality(BtKey) \in Nat /\ Cardinality(Stored) \in Nat
    /\ Cardinality(Stored) <= Cardinality(BtKey) /\ IsFiniteSet(Stored)
<1>1. Stored \subseteq BtKey
  BY DEF Stored
<1>. QED  BY <1>1, BtAssumption, FS_Subset, FS_CardinalityType

\* What the recursion of Descend returns at a place, given what it returned below.
Descents(key, f) ==
    /\ \A i \in 0 .. Cardinality(BtKey), p \in Place :
         bt_ptr[p] \in {NoNode, key} => f[i][p] = p
    /\ \A i \in 1 .. Cardinality(BtKey), p \in Place :
         bt_ptr[p] \notin {NoNode, key} => f[i][p] = f[i - 1][Toward(bt_ptr[p], key)]

\* The recursion of Descend, unfolded.
LEMMA DescendRecursion ==
    ASSUME NEW key
    PROVE  \E f : Descents(key, f) /\ Descend(key) = f[Cardinality(BtKey)][Root]
<1>. DEFINE N == Cardinality(BtKey)
            Level(f, i) ==
              [p \in Place |->
                 IF i = 0 \/ bt_ptr[p] \in {NoNode, key} THEN p
                 ELSE f[i - 1][Toward(bt_ptr[p], key)]]
            Solves(f, k) == f = [i \in 0 .. k |-> Level(f, i)]
            P == {k \in 0 .. N : \E f : Solves(f, k)}
<1>0. N \in Nat
  BY Numbers
<1>1. \A f, g : Level(f, 0) = Level(g, 0)
  OBVIOUS
<1>2. \A f, g, i : f[i - 1] = g[i - 1] => Level(f, i) = Level(g, i)
  OBVIOUS
<1>3. \A f, i : \A p \in Place :
        /\ bt_ptr[p] \in {NoNode, key} => Level(f, i)[p] = p
        /\ i # 0 /\ bt_ptr[p] \notin {NoNode, key} => Level(f, i)[p] = f[i - 1][Toward(bt_ptr[p], key)]
  OBVIOUS
<1>4. Descend(key) = (CHOOSE f : Solves(f, N))[N][Root]
  BY DEF Descend
<1>. HIDE DEF Level, N
<1>5. 0 \in P
  <2>. DEFINE g == [i \in 0 .. 0 |-> Level(0, 0)]
  <2>1. Solves(g, 0)
    BY <1>1
  <2>. QED  BY <2>1, <1>0
<1>6. ASSUME NEW k \in 1 .. N, k - 1 \in P  PROVE k \in P
  <2>1. PICK f : Solves(f, k - 1)
    BY <1>6
  <2>. DEFINE g == [i \in 0 .. k |-> IF i = k THEN Level(f, k) ELSE f[i]]
  <2>2. \A i \in 0 .. k - 1 : g[i] = f[i] /\ f[i] = Level(f, i)
    BY <2>1, <1>0
  <2>3. \A i \in 0 .. k : g[i] = Level(g, i)
    <3>1. g[k] = Level(g, k)
      BY <1>0, <1>2, <2>2
    <3>2. ASSUME NEW i \in 1 .. k - 1  PROVE g[i] = Level(g, i)
      <4>1. i - 1 \in 0 .. k - 1 /\ i \in 0 .. k - 1
        BY <1>0
      <4>2. g[i - 1] = f[i - 1] /\ g[i] = Level(f, i)
        BY <2>2, <4>1
      <4>. HIDE DEF g
      <4>. QED  BY <1>2, <4>2
    <3>3. g[0] = Level(g, 0)
      BY <1>0, <1>1, <2>2
    <3>. QED  BY <1>0, <3>1, <3>2, <3>3
  <2>4. Solves(g, k)
    BY <2>3
  <2>5. k \in 0 .. N
    BY <1>0
  <2>. HIDE DEF Solves, g
  <2>. QED  BY <2>4, <2>5
<1>7. \E f : Solves(f, N)
  <2>. HIDE DEF Solves
  <2>1. \A k \in 0 .. N : k \in P
    BY <1>0, <1>5, <1>6, Climb
  <2>. QED  BY <1>0, <2>1
<1>. DEFINE f == CHOOSE f : Solves(f, N)
<1>8. Solves(f, N)
  <2>. HIDE DEF Solves
  <2>. QED  BY <1>7
<1>9. \A k \in 0 .. N : f[k] = Level(f, k)
  <2>. HIDE DEF f
  <2>. QED  BY <1>8
<1>10. Descents(key, f)
  <2>. HIDE DEF f
  <2>1. ASSUME NEW i \in 1 .. N, NEW p \in Place, bt_ptr[p] \notin {NoNode, key}
        PROVE  f[i][p] = f[i - 1][Toward(bt_ptr[p], key)]
    <3>1. f[i] = Level(f, i) /\ i # 0
      BY <1>0, <1>9
    <3>. QED  BY <1>3, <2>1, <3>1
  <2>2. ASSUME NEW i \in 0 .. N, NEW p \in Place, bt_ptr[p] \in {NoNode, key}
        PROVE  f[i][p] = p
    <3>1. f[i] = Level(f, i)
      BY <1>9
    <3>. QED  BY <1>3, <2>2, <3>1
  <2>. QED  BY <2>1, <2>2, Zenon DEF Descents, N
<1>. QED  BY <1>4, <1>10 DEF N

\* _bt_insert and _bt_find come to the place where the search ends.
LEMMA DescendIs ==
    ASSUME NEW key \in BtKey, NEW q, NEW m \in 0 .. Cardinality(BtKey), Leads(q, m, key)
    PROVE  Descend(key) = q[m]
<1>. DEFINE N == Cardinality(BtKey)
<1>1. N \in Nat /\ m \in Nat /\ m <= N
  BY Numbers
<1>2. PICK f : Descents(key, f) /\ Descend(key) = f[N][Root]
  BY DescendRecursion
<1>. DEFINE P == {i \in 0 .. m : Descend(key) = f[N - i][q[i]]}
<1>. HIDE DEF N
<1>3. 0 \in P
  BY <1>1, <1>2 DEF Leads
<1>4. ASSUME NEW i \in 1 .. m, i - 1 \in P  PROVE i \in P
  <2>1. Descend(key) = f[N - (i - 1)][q[i - 1]]
    BY <1>4
  <2>2. /\ q[i - 1] \in Place /\ bt_ptr[q[i - 1]] \notin {NoNode, key}
        /\ q[i] = Toward(bt_ptr[q[i - 1]], key)
    <3>1. i - 1 \in 0 .. m
      BY <1>1
    <3>. QED  BY <3>1, BtAssumption DEF Leads
  <2>3. N - (i - 1) \in 1 .. N /\ (N - (i - 1)) - 1 = N - i
    BY <1>1
  <2>4. f[N - (i - 1)][q[i - 1]] = f[N - i][q[i]]
    BY <1>2, <2>2, <2>3 DEF Descents, N
  <2>. QED  BY <1>1, <2>1, <2>4
<1>5. m \in P
  <2>. HIDE DEF P
  <2>. QED  BY <1>1, <1>3, <1>4, Climb
<1>6. N - m \in 0 .. N /\ q[m] \in Place /\ bt_ptr[q[m]] \in {NoNode, key}
  BY <1>1 DEF Leads
<1>7. f[N - m][q[m]] = q[m]
  BY <1>2, <1>6 DEF Descents, N
<1>. QED  BY <1>5, <1>7

\* What a search finds.
Found(key) ==
    /\ Descend(key) \in Place
    /\ bt_ptr[Descend(key)] = IF bt_value[key] # Absent THEN key ELSE NoNode

\* A search finds a key that is stored, and for another the place it would have.
LEMMA FoundIs ==
    ASSUME BtIInv, NEW key \in BtKey
    PROVE  Found(key)
<1>1. PICK m \in 0 .. Cardinality(Stored) : \E q : Leads(q, m, key)
  BY DEF BtIInv
<1>. PICK q : Leads(q, m, key)
  BY <1>1
<1>2. m \in 0 .. Cardinality(BtKey) /\ m \in 0 .. m
  BY Numbers
<1>3. Descend(key) = q[m]
  BY <1>1, <1>2, DescendIs
<1>. QED  BY <1>2, <1>3 DEF Leads, Found, Stored

\* A call keeps the invariant and does what it does to a map.
BtObeys == BtIInv' /\ BinaryMap!Next

\* What has changed neither pointers nor values.
LEMMA SameTree ==
    ASSUME BtIInv, UNCHANGED <<bt_ptr, bt_value>>
    PROVE  BtIInv'
BY DEF BtIInv, Leads, Stored

\* An empty tree.
LEMMA EmptyTree ==
    ASSUME NEW ptr, ptr = [p \in Place |-> NoNode], NEW val, val = [k \in BtKey |-> Absent]
    PROVE  /\ bt_ptr = ptr /\ bt_value = val => BtIInv
           /\ bt_ptr' = ptr /\ bt_value' = val => BtIInv'
<1>. DEFINE q == [i \in 0 .. 0 |-> Root]
<1>0. 0 \in 0 .. Cardinality({}) /\ 0 .. 0 = {0} /\ 1 .. 0 = {}
  BY FS_EmptySet
<1>1. ASSUME bt_ptr = ptr, bt_value = val  PROVE BtIInv
  <2>1. Stored = {}
    BY <1>1 DEF Stored
  <2>2. \A k \in BtKey : Leads(q, 0, k)
    BY <1>0, <1>1, <2>1, Places DEF Leads
  <2>3. bt_ptr \in [Place -> Stored \cup {NoNode}] /\ bt_value \in [BtKey -> BtValue \cup {Absent}]
    BY <1>1
  <2>4. \A k \in BtKey \ Stored, c \in {"lchild", "rchild"} : bt_ptr[<<k, c>>] = NoNode
    BY <1>1, Places
  <2>5. \A k \in BtKey : \E m \in 0 .. Cardinality(Stored) : \E qq : Leads(qq, m, k)
    <3>. HIDE DEF q
    <3>. QED  BY <1>0, <2>1, <2>2
  <2>. QED  BY <2>3, <2>4, <2>5 DEF BtIInv
<1>2. ASSUME bt_ptr' = ptr, bt_value' = val  PROVE BtIInv'
  <2>1. Stored' = {}
    BY <1>2 DEF Stored
  <2>2. \A k \in BtKey : Leads(q, 0, k)'
    BY <1>0, <1>2, <2>1, Places DEF Leads
  <2>3. bt_ptr' \in [Place -> Stored' \cup {NoNode}] /\ bt_value' \in [BtKey -> BtValue \cup {Absent}]
    BY <1>2
  <2>4. \A k \in BtKey \ Stored', c \in {"lchild", "rchild"} : bt_ptr'[<<k, c>>] = NoNode
    BY <1>2, Places
  <2>5. \A k \in BtKey : \E m \in 0 .. Cardinality(Stored') : \E qq : Leads(qq, m, k)'
    <3>. HIDE DEF q
    <3>. QED  BY <1>0, <2>1, <2>2
  <2>. QED  BY <2>3, <2>4, <2>5 DEF BtIInv
<1>. QED  BY <1>1, <1>2

\* The node of key is put at the empty place its search ends at.
Placed(key, v) ==
    /\ bt_ptr[Descend(key)] = NoNode
    /\ bt_ptr' = [bt_ptr EXCEPT ![Descend(key)] = key]
    /\ bt_value' = [bt_value EXCEPT ![key] = v]

\* A search that came to the empty place goes on to a child of the new node; all
\* others are as they were.
LEMMA PlacedKeeps ==
    ASSUME BtIInv, NEW key \in BtKey, NEW v \in BtValue, Placed(key, v)
    PROVE  BtIInv' /\ bt_value[key] = Absent
<1>. DEFINE p == Descend(key)
<1>0. PICK n \in 0 .. Cardinality(Stored) : \E r : Leads(r, n, key)
  BY DEF BtIInv
<1>1. PICK r : Leads(r, n, key)
  BY <1>0
<1>2. n \in 0 .. Cardinality(BtKey) /\ n \in Nat /\ n \in 0 .. n
  BY Numbers
<1>3. p = r[n]
  BY <1>1, <1>2, DescendIs
<1>4. /\ bt_ptr[p] = NoNode
      /\ bt_ptr' = [bt_ptr EXCEPT ![p] = key]
      /\ bt_value' = [bt_value EXCEPT ![key] = v]
  BY DEF Placed
<1>. HIDE DEF p
<1>5. p \in Place /\ key \notin Stored
  BY <1>1, <1>2, <1>3, <1>4, BtAssumption DEF Leads
<1>6. /\ bt_ptr \in [Place -> Stored \cup {NoNode}]
      /\ bt_value \in [BtKey -> BtValue \cup {Absent}]
      /\ \A k \in BtKey \ Stored, c \in {"lchild", "rchild"} : bt_ptr[<<k, c>>] = NoNode
      /\ \A k \in BtKey : \E m \in 0 .. Cardinality(Stored) : \E q : Leads(q, m, k)
  BY DEF BtIInv
<1>7. p = Root \/ \E x \in Stored : x # key /\ p = Toward(x, key)
  <2>1. CASE n = 0
    BY <1>1, <1>3, <2>1 DEF Leads
  <2>2. CASE n # 0
    <3>1. n \in 1 .. n /\ n - 1 \in 0 .. n
      BY <1>2, <2>2
    <3>2. /\ bt_ptr[r[n - 1]] \in BtKey /\ bt_ptr[r[n - 1]] # key /\ p = Toward(bt_ptr[r[n - 1]], key)
          /\ r[n - 1] \in Place
      BY <1>1, <1>3, <3>1 DEF Leads
    <3>3. bt_ptr[r[n - 1]] \in Stored
      BY <1>6, <3>2, BtAssumption
    <3>. QED  BY <3>2, <3>3
  <2>. QED  BY <2>1, <2>2
<1>8. \A k \in BtKey, c \in {"lchild", "rchild"} : k = key \/ k \notin Stored => p # <<k, c>>
  <2>1. Root \notin BtKey \X {"lchild", "rchild"}
    BY BtAssumption DEF Root
  <2>. QED  BY <1>7, <2>1, Places DEF Toward, Stored
<1>9. /\ bt_ptr' \in [Place -> Stored \cup {key, NoNode}]
      /\ bt_value' \in [BtKey -> BtValue \cup {Absent}]
      /\ bt_ptr'[p] = key /\ \A x \in Place \ {p} : bt_ptr'[x] = bt_ptr[x]
  BY <1>4, <1>5, <1>6
<1>10. Stored' = Stored \cup {key}
  BY <1>4, <1>6, BtAssumption DEF Stored
<1>11. Cardinality(Stored') = Cardinality(Stored) + 1 /\ Cardinality(Stored) \in Nat
  BY <1>5, <1>10, Numbers, FS_AddElement
<1>12. \A k \in BtKey \ Stored', c \in {"lchild", "rchild"} : bt_ptr'[<<k, c>>] = NoNode
  BY <1>6, <1>8, <1>9, <1>10, Places
<1>13. ASSUME NEW k \in BtKey  PROVE \E m \in 0 .. Cardinality(Stored') : \E q : Leads(q, m, k)'
  <2>1. PICK m \in 0 .. Cardinality(Stored) : \E q : Leads(q, m, k)
    BY <1>6
  <2>2. PICK q : Leads(q, m, k)
    BY <2>1
  <2>3. m \in Nat /\ m \in 0 .. Cardinality(Stored') /\ m + 1 \in 0 .. Cardinality(Stored')
    BY <1>11
  <2>4. /\ q[0] = Root /\ \A i \in 0 .. m : q[i] \in Place
        /\ \A i \in 1 .. m : /\ bt_ptr'[q[i - 1]] \in BtKey /\ bt_ptr'[q[i - 1]] # k
                             /\ q[i] = Toward(bt_ptr'[q[i - 1]], k)
    <3>1. ASSUME NEW i \in 1 .. m  PROVE q[i - 1] \in Place /\ q[i - 1] # p /\ bt_ptr'[q[i - 1]] = bt_ptr[q[i - 1]]
      <4>1. i - 1 \in 0 .. m
        BY <2>3
      <4>2. q[i - 1] \in Place /\ bt_ptr[q[i - 1]] \in BtKey
        BY <2>2, <4>1 DEF Leads
      <4>3. q[i - 1] # p
        BY <1>4, <4>2, BtAssumption
      <4>. QED  BY <1>9, <4>2, <4>3
    <3>. QED  BY <2>2, <3>1 DEF Leads
  <2>5. q[m] \in Place /\ bt_ptr[q[m]] = IF k \in Stored THEN k ELSE NoNode
    BY <2>2, <2>3 DEF Leads
  <2>6. CASE k = key
    <3>1. q[m] = p
      <4>1. m \in 0 .. Cardinality(BtKey)
        BY Numbers
      <4>. QED  BY <2>2, <2>6, <4>1, DescendIs DEF p
    <3>2. bt_ptr'[q[m]] = k /\ k \in Stored'
      BY <1>9, <1>10, <2>6, <3>1
    <3>. QED  BY <2>3, <2>4, <3>2 DEF Leads
  <2>7. CASE k # key /\ q[m] # p
    <3>1. bt_ptr'[q[m]] = IF k \in Stored' THEN k ELSE NoNode
      BY <1>9, <1>10, <2>5, <2>7
    <3>. QED  BY <2>3, <2>4, <3>1 DEF Leads
  <2>8. CASE k # key /\ q[m] = p
    <3>. DEFINE t == Toward(key, k)
                g == [i \in 0 .. m + 1 |-> IF i = m + 1 THEN t ELSE q[i]]
    <3>1. k \notin Stored'
      BY <1>4, <1>10, <2>5, <2>8, BtAssumption
    <3>2. t \in Place /\ t # p /\ bt_ptr'[t] = NoNode
      <4>1. PICK c \in {"lchild", "rchild"} : t = <<key, c>>
        BY Places
      <4>. QED  BY <1>5, <1>6, <1>8, <1>9, <4>1, Places
    <3>. HIDE DEF t
    <3>3. g[m + 1] = t /\ \A i \in 0 .. m : g[i] = q[i]
      BY <2>3
    <3>. HIDE DEF g
    <3>4. g[0] = Root /\ \A i \in 0 .. m + 1 : g[i] \in Place
      <4>1. \A i \in 0 .. m + 1 : i = m + 1 \/ i \in 0 .. m
        BY <2>3
      <4>2. 0 \in 0 .. m
        BY <2>3
      <4>. QED  BY <2>4, <3>2, <3>3, <4>1, <4>2
    <3>5. ASSUME NEW i \in 1 .. m + 1
          PROVE  /\ bt_ptr'[g[i - 1]] \in BtKey /\ bt_ptr'[g[i - 1]] # k
                 /\ g[i] = Toward(bt_ptr'[g[i - 1]], k)
      <4>1. CASE i = m + 1
        <5>1. i - 1 = m /\ m \in 0 .. m
          BY <2>3, <4>1
        <5>2. g[i - 1] = p /\ g[i] = t
          BY <2>8, <3>3, <4>1, <5>1
        <5>. QED  BY <1>9, <2>8, <5>2 DEF t
      <4>2. CASE i # m + 1
        <5>1. i \in 1 .. m /\ i \in 0 .. m /\ i - 1 \in 0 .. m
          BY <2>3, <4>2
        <5>2. g[i] = q[i] /\ g[i - 1] = q[i - 1]
          BY <3>3, <5>1
        <5>. QED  BY <2>4, <5>1, <5>2
      <4>. QED  BY <4>1, <4>2
    <3>6. Leads(g, m + 1, k)'
      BY <3>1, <3>2, <3>3, <3>4, <3>5 DEF Leads
    <3>. QED  BY <2>3, <3>6
  <2>. QED  BY <2>6, <2>7, <2>8
<1>14. bt_ptr' \in [Place -> Stored' \cup {NoNode}]
  BY <1>9, <1>10
<1>15. bt_value[key] = Absent
  BY <1>5 DEF Stored
<1>. QED  BY <1>9, <1>12, <1>13, <1>14, <1>15 DEF BtIInv

\* The insertion of a key the map has not.
LEMMA MapStep ==
    ASSUME NEW key \in BtKey, NEW v \in BtValue, bt_value \in [BtKey -> BtValue \cup {Absent}],
           bt_value[key] = Absent, bt_value' = [bt_value EXCEPT ![key] = v], bt_reply' = BtReply("ok")
    PROVE  BinaryMap!Next
<1>1. bt_value'[key] = v /\ \A j \in BtKey \ {key} : bt_value'[j] = bt_value[j]
  OBVIOUS
<1>2. BinaryMap!Insert(key, v)
  BY <1>1 DEF BtReply, BinaryMap!Insert, BinaryMap!Reply, BinaryMap!OnlyAt
<1>. QED  BY <1>2 DEF BinaryMap!Next

\* Every call keeps the invariant and does what it does to a map.
LEMMA BtSteps ==
    ASSUME BtIInv, BtNext
    PROVE  BtObeys
<1>1. ASSUME NEW k \in BtKey, NEW v \in BtValue, bt_insert(k, v)  PROVE BtObeys
  <2>1. CASE /\ bt_ptr[Descend(k)] = NoNode
             /\ bt_ptr' = [bt_ptr EXCEPT ![Descend(k)] = k]
             /\ bt_value' = [bt_value EXCEPT ![k] = v]
             /\ bt_reply' = BtReply("ok")
    <3>1. Placed(k, v)
      BY <2>1 DEF Placed
    <3>2. BtIInv' /\ bt_value[k] = Absent
      BY <3>1, PlacedKeeps
    <3>3. bt_value \in [BtKey -> BtValue \cup {Absent}]
      BY DEF BtIInv
    <3>. QED  BY <2>1, <3>2, <3>3, MapStep DEF BtObeys
  <2>2. CASE bt_ptr[Descend(k)] = k /\ bt_reply' = BtReply("EEXIST") /\ UNCHANGED <<bt_ptr, bt_value>>
    <3>1. Found(k)
      BY FoundIs
    <3>2. bt_value[k] # Absent
      BY <2>2, <3>1, BtAssumption DEF Found
    <3>3. BinaryMap!InsertAgain(k)
      BY <2>2, <3>2 DEF BtReply, BinaryMap!InsertAgain, BinaryMap!Reply
    <3>. QED  BY <2>2, <3>3, SameTree DEF BtObeys, BinaryMap!Next
  <2>. QED  BY <1>1, <2>1, <2>2 DEF bt_insert
<1>2. ASSUME NEW k \in BtKey, bt_insert_ENOMEM(k)  PROVE BtObeys
  <2>1. bt_reply' = BtReply("ENOMEM") /\ UNCHANGED <<bt_ptr, bt_value>>
    BY <1>2 DEF bt_insert_ENOMEM
  <2>2. BinaryMap!Failed
    BY <2>1 DEF BtReply, BinaryMap!Failed, BinaryMap!Reply
  <2>. QED  BY <2>1, <2>2, SameTree DEF BtObeys, BinaryMap!Next
<1>3. ASSUME NEW k \in BtKey, bt_find(k)  PROVE BtObeys
  <2>1. /\ bt_reply' = IF bt_ptr[Descend(k)] = NoNode THEN BtReply("ENOENT")
                       ELSE [err |-> "ok", val |-> bt_value[bt_ptr[Descend(k)]]]
        /\ UNCHANGED <<bt_ptr, bt_value>>
    BY <1>3 DEF bt_find
  <2>2. Found(k)
    BY FoundIs
  <2>3. BinaryMap!Find(k)
    <3>1. bt_reply' = [err |-> IF bt_value[k] = Absent THEN "ENOENT" ELSE "ok", val |-> bt_value[k]]
      BY <2>1, <2>2, BtAssumption DEF Found, BtReply
    <3>. QED  BY <2>1, <3>1 DEF BinaryMap!Find
  <2>. QED  BY <2>1, <2>3, SameTree DEF BtObeys, BinaryMap!Next
<1>5. ASSUME bt_destroy  PROVE BtObeys
  <2>1. BtIInv'
    BY <1>5, EmptyTree DEF bt_destroy
  <2>2. BinaryMap!Renew
    BY <1>5 DEF bt_destroy, BtReply, BinaryMap!Renew, BinaryMap!Reply
  <2>. QED  BY <2>1, <2>2 DEF BtObeys, BinaryMap!Next
<1>. QED  BY <1>1, <1>2, <1>3, <1>5 DEF BtNext

(* Every key in the binary tree is where a search for it comes to, and a   *)
(* search for any other ends at an empty place, in no more steps than there*)
(* are nodes.                                                              *)
THEOREM BinaryTreeInvariant == BtSpec => []BtIInv
<1>1. BtInit => BtIInv
  BY EmptyTree DEF BtInit
<1>2. BtIInv /\ [BtNext]_btvars => BtIInv'
  <2>1. SUFFICES ASSUME BtIInv, [BtNext]_btvars  PROVE BtIInv'
    OBVIOUS
  <2>2. CASE BtNext
    BY <2>1, <2>2, BtSteps DEF BtObeys
  <2>3. CASE UNCHANGED btvars
    BY <2>1, <2>3, SameTree DEF btvars
  <2>. QED  BY <2>1, <2>2, <2>3
<1>. QED  BY <1>1, <1>2, PTL DEF BtSpec

(* Every call of the binary tree is a step of a map: bt_find returns the   *)
(* value of the first insertion of the key.                                *)
THEOREM BinaryTreeIsMap == BtSpec => IsBinaryMap
<1>1. BtIInv /\ [BtNext]_btvars => [BinaryMap!Next]_<<bt_value, bt_reply>>
  <2>1. SUFFICES ASSUME BtIInv, [BtNext]_btvars  PROVE [BinaryMap!Next]_<<bt_value, bt_reply>>
    OBVIOUS
  <2>2. CASE BtNext
    BY <2>1, <2>2, BtSteps DEF BtObeys
  <2>3. CASE UNCHANGED btvars
    BY <2>3 DEF btvars
  <2>. QED  BY <2>1, <2>2, <2>3
<1>. QED  BY <1>1, BinaryTreeInvariant, PTL DEF BtSpec, IsBinaryMap

=============================================================================
