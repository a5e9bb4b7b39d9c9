------------------------- MODULE SpaceManagerProofs -------------------------
(***************************************************************************)
(* Proofs about the space manager.  The counts and the bitmaps are kept    *)
(* exact by an invariant that is inductive once it also says that the      *)
(* fixed blocks are not among those given out (without it, sm_bfree of an  *)
(* owned block might clear the bit of a fixed one).  The refinement of     *)
(* BlockAllocator then follows step by step.                               *)
(***************************************************************************)
EXTENDS SpaceManager, FiniteSetTheorems, WellFoundedInduction, TLAPS

(* Division with remainder, as in sm_bfree's blkno / blks_per_bm and blkno *)
(* % blks_per_bm.                                                          *)
LEMMA Division ==
    ASSUME NEW n \in Nat, NEW b \in Nat, b > 0
    PROVE  /\ n \div b \in Nat
           /\ n % b \in 0 .. b - 1
           /\ n = b * (n \div b) + (n % b)
OBVIOUS

(* A bitmap number and a bit number are determined by blks_per_bm * i + j. *)
LEMMA Digits ==
    ASSUME NEW b \in Nat, NEW i \in Nat, NEW k \in Nat, NEW j \in 0 .. b - 1, NEW l \in 0 .. b - 1,
           b * i + j = b * k + l
    PROVE  i = k /\ j = l
<1>1. CASE i < k
  <2>1. k >= i + 1
    BY <1>1
  <2>2. b * k >= b * (i + 1)
    BY <2>1
  <2>3. b * (i + 1) = b * i + b
    OBVIOUS
  <2>4. QED BY <2>2, <2>3
<1>2. CASE k < i
  <2>1. i >= k + 1
    BY <1>2
  <2>2. b * i >= b * (k + 1)
    BY <2>1
  <2>3. b * (k + 1) = b * k + b
    OBVIOUS
  <2>4. QED BY <2>2, <2>3
<1>3. CASE i = k
  BY <1>3
<1>4. QED BY <1>1, <1>2, <1>3

(* What bt_create's arithmetic gives: at least two bitmaps, and in the last *)
(* one fewer bits too many than a bitmap has.                              *)
LEMMA Layout ==
    /\ nbmblks \in Nat
    /\ nbmblks >= 2
    /\ nextra \in 0 .. Bpb - 1
    /\ nbmblks * Bpb = NBlocks + nextra
    /\ Bpb * nbmblks = nbmblks * Bpb
<1> DEFINE n == NBlocks + Bpb - 1
<1>0. n \in Nat /\ Bpb \in Nat /\ Bpb > 0 /\ NBlocks \in Nat /\ NBlocks > Bpb
  BY SpaceAssumption
<1>1. nbmblks \in Nat /\ n % Bpb \in 0 .. Bpb - 1 /\ n = Bpb * nbmblks + (n % Bpb)
  <2>1. nbmblks = n \div Bpb
    BY DEF nbmblks
  <2> HIDE DEF n
  <2>2. QED BY <2>1, <1>0, Division
<1>2. Bpb * nbmblks = nbmblks * Bpb
  BY <1>0, <1>1
<1>3. nextra = Bpb * nbmblks - NBlocks
  BY <1>2 DEF nextra
<1>4. Bpb * nbmblks \in Nat
  BY <1>0, <1>1
<1>5. nextra \in 0 .. Bpb - 1
  BY <1>0, <1>1, <1>3, <1>4
<1>6. nbmblks >= 2
  <2>1. Bpb * nbmblks > Bpb
    BY <1>0, <1>3, <1>4, <1>5
  <2>2. CASE nbmblks = 0
    BY <2>1, <2>2, <1>0
  <2>3. CASE nbmblks = 1
    BY <2>1, <2>3, <1>0
  <2>4. QED BY <1>1, <2>2, <2>3
<1>7. QED BY <1>1, <1>2, <1>3, <1>4, <1>5, <1>6, <1>0

(* A nonempty set of numbers has a smallest one: what the loops of         *)
(* sm_balloc and bm_balloc stop at.                                        *)
LEMMA Smallest ==
    ASSUME NEW S \in SUBSET Nat, S # {}
    PROVE  \E x \in S : \A y \in S : x <= y
<1>1. PICK x \in S : \A y \in S : <<y, x>> \notin OpToRel(<, Nat)
  BY WFMin, NatLessThanWellFounded
<1>2. \A y \in S : ~(y < x)
  BY <1>1 DEF OpToRel
<1>3. QED BY <1>2

(* Every bit stands for a block number.                                    *)
LEMMA BlknoTyped ==
    ASSUME NEW i \in Maps, NEW j \in Bits
    PROVE  Blkno(i, j) \in Nat
BY SpaceAssumption, Layout DEF Blkno, Maps, Bits

(* No two bits stand for the same block.                                   *)
LEMMA BlknoInjective ==
    ASSUME NEW i \in Maps, NEW j \in Bits, NEW k \in Maps, NEW l \in Bits,
           Blkno(i, j) = Blkno(k, l)
    PROVE  i = k /\ j = l
<1>1. i \in Nat /\ k \in Nat /\ Bpb \in Nat
  BY SpaceAssumption, Layout DEF Maps
<1>2. QED BY <1>1, Digits DEF Blkno, Bits

(* sm_bfree's division finds the bit of every block of the file.           *)
LEMMA BlknoBack ==
    ASSUME NEW n \in Block
    PROVE  /\ MapOf(n) \in Maps
           /\ BitOf(n) \in Bits
           /\ Blkno(MapOf(n), BitOf(n)) = n
<1>0. n \in Nat /\ n < NBlocks /\ Bpb \in Nat /\ Bpb > 0 /\ NBlocks \in Nat
  BY SpaceAssumption DEF Block
<1> DEFINE q == n \div Bpb
           r == n % Bpb
<1>1. q \in Nat /\ r \in 0 .. Bpb - 1 /\ n = Bpb * q + r
  BY <1>0, Division
<1>2. q < nbmblks
  <2>1. SUFFICES ASSUME q >= nbmblks PROVE FALSE
    BY <1>1, Layout
  <2> HIDE DEF q, r
  <2>2. Bpb * q >= Bpb * nbmblks
    BY <2>1, <1>0, <1>1, Layout
  <2>3. Bpb * q \in Nat /\ Bpb * nbmblks \in Nat
    BY <1>0, <1>1, Layout
  <2>4. QED BY <2>2, <2>3, <1>0, <1>1, Layout
<1>3. QED BY <1>1, <1>2, Layout DEF MapOf, BitOf, Maps, Bits, Blkno

(* The bits of the blocks in use from the start are the first of the first *)
(* bitmap, as bt_create sets them.                                         *)
LEMMA FixedBits ==
    ASSUME NEW i \in Maps, NEW j \in Bits
    PROVE  Blkno(i, j) \in Fixed <=> i = 0 /\ j \in 0 .. nbmblks + 1
<1>0. Bpb \in Nat /\ Bpb > 0 /\ nbmblks + 2 <= Bpb /\ nbmblks \in Nat /\ i \in Nat /\ j \in Nat
  BY SpaceAssumption, Layout DEF Maps, Bits
<1>1. CASE i = 0
  BY <1>0, <1>1 DEF Blkno, Fixed
<1>2. CASE i # 0
  <2>1. i >= 1
    BY <1>0, <1>2
  <2>2. Bpb * i >= Bpb * 1
    BY <1>0, <2>1
  <2>3. Bpb * i \in Nat
    BY <1>0
  <2>4. QED BY <1>0, <1>2, <2>2, <2>3 DEF Blkno, Fixed
<1>3. QED BY <1>1, <1>2

(* The bits that stand for no block of the file are the ones bt_create sets *)
(* at the end of the last bitmap.                                          *)
LEMMA ExtraBitsPastEnd ==
    ASSUME NEW i \in Maps, NEW j \in Bits
    PROVE  Blkno(i, j) >= NBlocks <=> i = nbmblks - 1 /\ j \in ExtraBits
<1>0. Bpb \in Nat /\ Bpb > 0 /\ nbmblks \in Nat /\ i \in Nat /\ j \in Nat /\ j < Bpb /\ i <= nbmblks - 1
      /\ NBlocks \in Nat /\ nbmblks >= 2
  BY SpaceAssumption, Layout DEF Maps, Bits
<1>1. Bpb * (nbmblks - 1) = Bpb * nbmblks - Bpb
  BY <1>0
<1>2. CASE i = nbmblks - 1
  BY <1>0, <1>1, <1>2, Layout DEF Blkno, ExtraBits
<1>3. CASE i # nbmblks - 1
  <2>1. i + 1 <= nbmblks - 1
    BY <1>0, <1>3
  <2>2. Bpb * (i + 1) <= Bpb * (nbmblks - 1)
    BY <1>0, <2>1
  <2>3. Bpb * (i + 1) = Bpb * i + Bpb
    BY <1>0
  <2>4. Bpb * i \in Nat /\ Bpb * nbmblks \in Nat
    BY <1>0
  <2>5. QED BY <1>0, <1>1, <1>3, <2>2, <2>3, <2>4, Layout DEF Blkno
<1>4. QED BY <1>2, <1>3

\* Nothing that is always in use has been given out.
Apart == owned \cap Fixed = {}

SpaceInv == TypeOK /\ NfreeExact /\ BitsExact /\ Apart

(* The clear bits of a bitmap can be counted.                              *)
LEMMA ClearFinite ==
    ASSUME NEW i \in Maps
    PROVE  /\ IsFiniteSet(Clear(i))
           /\ Cardinality(Clear(i)) \in Nat
           /\ Clear(i) \subseteq Bits
<1>1. IsFiniteSet(Bits)
  BY SpaceAssumption, FS_Interval DEF Bits
<1>2. Clear(i) \in SUBSET Bits
  BY DEF Clear
<1>3. QED BY <1>1, <1>2, FS_Subset, FS_CardinalityType

(* The file bt_create writes satisfies the invariant.                      *)
LEMMA InitSpace ==
    ASSUME Init
    PROVE  SpaceInv
<1>0. /\ Bpb \in Nat /\ Bpb > 0 /\ NBlocks \in Nat /\ nbmblks + 2 <= Bpb
      /\ nbmblks \in Nat /\ nbmblks >= 2 /\ nextra \in 0 .. Bpb - 1
  BY SpaceAssumption, Layout
<1>1. TypeOK
  BY <1>0 DEF Init, TypeOK, Maps, Bits, ExtraBits, Block
<1>2. ASSUME NEW i \in Maps
      PROVE  bmp_nfree[i] = Cardinality(Clear(i))
  <2>1. CASE i = 0
    <3>1. Clear(i) = nbmblks + 2 .. Bpb - 1
      BY <1>0, <2>1 DEF Init, Clear, Bits, Maps
    <3>2. Cardinality(nbmblks + 2 .. Bpb - 1) = Bpb - (nbmblks + 2)
      BY <1>0, FS_Interval
    <3>3. QED BY <3>1, <3>2, <2>1 DEF Init, Maps
  <2>2. CASE i # 0 /\ i = nbmblks - 1
    <3>1. Clear(i) = 0 .. Bpb - nextra - 1
      BY <1>0, <2>2 DEF Init, Clear, Bits, Maps, ExtraBits
    <3>2. Cardinality(0 .. Bpb - nextra - 1) = Bpb - nextra
      BY <1>0, FS_Interval
    <3>3. QED BY <3>1, <3>2, <2>2 DEF Init, Maps
  <2>3. CASE i # 0 /\ i # nbmblks - 1
    <3>1. Clear(i) = 0 .. Bpb - 1
      BY <1>0, <2>3 DEF Init, Clear, Bits, Maps
    <3>2. Cardinality(0 .. Bpb - 1) = Bpb
      BY <1>0, FS_Interval
    <3>3. QED BY <3>1, <3>2, <2>3 DEF Init, Maps
  <2>4. QED BY <2>1, <2>2, <2>3
<1>3. ASSUME NEW i \in Maps, NEW j \in Bits
      PROVE  j \in bmp_bm[i] <=> Blkno(i, j) \in Fixed \cup owned \/ Blkno(i, j) >= NBlocks
  <2>1. j \in bmp_bm[i] <=>
          (i = 0 /\ j \in 0 .. nbmblks + 1) \/ (i = nbmblks - 1 /\ j \in ExtraBits)
    BY <1>0 DEF Init, Maps
  <2>2. QED BY <2>1, FixedBits, ExtraBitsPastEnd DEF Init
<1>4. QED BY <1>1, <1>2, <1>3 DEF SpaceInv, NfreeExact, BitsExact, Apart, Init

(* In a bitmap that counts a free block, bm_balloc's scan finds a clear    *)
(* bit.                                                                    *)
LEMMA FirstClearIsClear ==
    ASSUME SpaceInv, NEW i \in Maps, First(i)
    PROVE  /\ Clear(i) # {}
           /\ FirstClear(i) \in Clear(i)
           /\ FirstClear(i) \in Bits
<1>1. Clear(i) # {}
  BY ClearFinite, FS_EmptySet DEF SpaceInv, NfreeExact, First, HasFree
<1>2. Clear(i) \in SUBSET Nat
  BY SpaceAssumption DEF Clear, Bits
<1>3. \E j \in Clear(i) : \A k \in Clear(i) : j <= k
  BY <1>1, <1>2, Smallest
<1>4. FirstClear(i) \in Clear(i)
  BY <1>1, <1>3 DEF FirstClear
<1>5. QED BY <1>1, <1>4 DEF Clear

(* sm_balloc keeps the invariant and gives out a block of the file that is *)
(* not in use.                                                             *)
LEMMA AllocStep ==
    ASSUME SpaceInv, sm_balloc
    PROVE  /\ SpaceInv'
           /\ \E n \in Block \ (Fixed \cup owned) : owned' = owned \cup {n} /\ reply' = Gives(n)
<1>1. PICK i \in Maps : First(i) /\ bm_balloc(i) /\ cached' = cached \cup 0 .. i
  BY DEF sm_balloc
<1> DEFINE j == FirstClear(i)
<1>2. Clear(i) # {} /\ j \in Clear(i) /\ j \in Bits
  BY <1>1, FirstClearIsClear
<1> HIDE DEF j
<1>3. /\ bmp_bm' = [bmp_bm EXCEPT ![i] = @ \cup {j}]
      /\ bmp_nfree' = [bmp_nfree EXCEPT ![i] = @ - 1]
      /\ owned' = owned \cup {Blkno(i, j)}
      /\ reply' = Gives(Blkno(i, j))
  BY <1>1, <1>2 DEF bm_balloc, Taken, j
<1>4. j \notin bmp_bm[i]
  BY <1>2 DEF Clear
<1>5. Blkno(i, j) \in Block \ (Fixed \cup owned)
  BY <1>2, <1>4, BlknoTyped, SpaceAssumption DEF SpaceInv, BitsExact, Block
<1>6. Clear(i)' = Clear(i) \ {j} /\ \A k \in Maps : k # i => Clear(k)' = Clear(k)
  BY <1>3 DEF Clear, SpaceInv, TypeOK
<1>7. Cardinality(Clear(i) \ {j}) = Cardinality(Clear(i)) - 1
  BY <1>2, ClearFinite, FS_RemoveElement
<1>8. NfreeExact'
  BY <1>3, <1>6, <1>7, ClearFinite DEF NfreeExact, SpaceInv, TypeOK
<1>9. TypeOK'
  <2>1. bmp_nfree[i] # 0
    BY <1>1 DEF First, HasFree
  <2>2. cached' \subseteq Maps
    <3>1. 0 .. i \subseteq Maps
      BY Layout DEF Maps
    <3>2. QED BY <1>1, <3>1 DEF SpaceInv, TypeOK
  <2>3. bmp_nfree' \in [Maps -> 0 .. Bpb]
    <3>1. bmp_nfree \in [Maps -> 0 .. Bpb] /\ bmp_nfree[i] - 1 \in 0 .. Bpb
      BY <2>1, SpaceAssumption DEF SpaceInv, TypeOK
    <3>2. QED BY <1>3, <3>1
  <2>4. QED BY <1>2, <1>3, <1>5, <2>2, <2>3 DEF SpaceInv, TypeOK, sm_balloc
<1>10. BitsExact'
  <2>1. SUFFICES ASSUME NEW k \in Maps, NEW l \in Bits
                 PROVE  l \in bmp_bm'[k] <=> Blkno(k, l) \in Fixed \cup owned' \/ Blkno(k, l) >= NBlocks
    BY DEF BitsExact, Fixed, Maps, Bits, Blkno, nbmblks
  <2>2. l \in bmp_bm'[k] <=> l \in bmp_bm[k] \/ (k = i /\ l = j)
    BY <1>3 DEF SpaceInv, TypeOK
  <2>3. Blkno(k, l) = Blkno(i, j) <=> k = i /\ l = j
    BY <1>2, BlknoInjective
  <2>4. QED BY <1>3, <2>2, <2>3 DEF SpaceInv, BitsExact
<1>11. Apart'
  <2>1. Fixed' = Fixed
    BY DEF Fixed, nbmblks
  <2>2. QED BY <1>3, <1>5, <2>1 DEF SpaceInv, Apart
<1>12. QED BY <1>3, <1>5, <1>8, <1>9, <1>10, <1>11 DEF SpaceInv

(* sm_bfree keeps the invariant, and what it frees is not one of the fixed *)
(* blocks.                                                                 *)
LEMMA FreeStep ==
    ASSUME SpaceInv, NEW n \in owned, sm_bfree(n)
    PROVE  SpaceInv' /\ owned' = owned \ {n} /\ n \notin Fixed
<1> DEFINE i == MapOf(n)
           j == BitOf(n)
<1>1. n \in Block
  BY DEF SpaceInv, TypeOK
<1>2. i \in Maps /\ j \in Bits /\ Blkno(i, j) = n
  BY <1>1, BlknoBack
<1>3. /\ j \in bmp_bm[i]
      /\ bmp_bm' = [bmp_bm EXCEPT ![i] = @ \ {j}]
      /\ bmp_nfree' = [bmp_nfree EXCEPT ![i] = @ + 1]
      /\ owned' = owned \ {n}
      /\ cached' = cached \cup {i}
      /\ abort' = abort
  BY DEF sm_bfree, bm_bfree, CanFree
<1> HIDE DEF i, j
<1>4. n \notin Fixed /\ n < NBlocks /\ n \in Nat
  BY <1>1, SpaceAssumption DEF SpaceInv, Apart, Block
<1>5. Clear(i)' = Clear(i) \cup {j} /\ \A k \in Maps : k # i => Clear(k)' = Clear(k)
  BY <1>2, <1>3 DEF Clear, SpaceInv, TypeOK
<1>6. j \notin Clear(i) /\ Cardinality(Clear(i) \cup {j}) = Cardinality(Clear(i)) + 1
  BY <1>2, <1>3, ClearFinite, FS_AddElement DEF Clear
<1>7. NfreeExact'
  BY <1>2, <1>3, <1>5, <1>6, ClearFinite DEF NfreeExact, SpaceInv, TypeOK
<1>8. TypeOK'
  <2>1. IsFiniteSet(Bits) /\ Cardinality(Bits) = Bpb
    BY SpaceAssumption, FS_Interval, SMTT(30) DEF Bits
  <2>2. Clear(i) \cup {j} \in SUBSET Bits
    BY <1>2 DEF Clear
  <2>3. bmp_nfree[i] + 1 <= Bpb
    BY <1>2, <1>6, <2>1, <2>2, FS_Subset DEF SpaceInv, NfreeExact
  <2>4. bmp_nfree' \in [Maps -> 0 .. Bpb]
    <3>1. bmp_nfree \in [Maps -> 0 .. Bpb] /\ bmp_nfree[i] + 1 \in 0 .. Bpb
      BY <1>2, <2>3, SpaceAssumption DEF SpaceInv, TypeOK
    <3>2. QED BY <1>3, <3>1
  <2>5. QED BY <1>2, <1>3, <2>4 DEF SpaceInv, TypeOK
<1>9. BitsExact'
  <2>1. SUFFICES ASSUME NEW k \in Maps, NEW l \in Bits
                 PROVE  l \in bmp_bm'[k] <=> Blkno(k, l) \in Fixed \cup owned' \/ Blkno(k, l) >= NBlocks
    BY DEF BitsExact, Fixed, Maps, Bits, Blkno, nbmblks
  <2>2. l \in bmp_bm'[k] <=> l \in bmp_bm[k] /\ ~(k = i /\ l = j)
    BY <1>2, <1>3 DEF SpaceInv, TypeOK
  <2>3. Blkno(k, l) = n <=> k = i /\ l = j
    BY <1>2, BlknoInjective
  <2>4. n < NBlocks => ~(n >= NBlocks)
    BY <1>4, SpaceAssumption
  <2>5. QED BY <1>3, <1>4, <2>2, <2>3, <2>4 DEF SpaceInv, BitsExact
<1>10. Apart'
  <2>1. Fixed' = Fixed
    BY DEF Fixed, nbmblks
  <2>2. QED BY <1>3, <2>1 DEF SpaceInv, Apart
<1>11. QED BY <1>3, <1>4, <1>7, <1>8, <1>9, <1>10 DEF SpaceInv

(* A step that leaves bitmaps, counts and owners alone keeps the invariant. *)
LEMMA QuietStep ==
    ASSUME SpaceInv,
           UNCHANGED <<bmp_bm, bmp_nfree, owned>>,
           cached' \subseteq Maps,
           abort' \in {"none", "bm_bfree", "bm_bco_check"}
    PROVE  SpaceInv'
<1>1. Fixed' = Fixed
  BY DEF Fixed, nbmblks
<1>2. TypeOK'
  BY DEF SpaceInv, TypeOK
<1>3. NfreeExact'
  BY DEF SpaceInv, NfreeExact, Clear
<1>4. BitsExact'
  BY DEF SpaceInv, BitsExact
<1>5. QED BY <1>1, <1>2, <1>3, <1>4 DEF SpaceInv, Apart

(* Every step keeps the invariant.                                         *)
LEMMA NextSpace ==
    ASSUME SpaceInv, [Next]_vars
    PROVE  SpaceInv'
<1> USE DEF SpaceInv
<1>0. TypeOK
  OBVIOUS
<1>1. CASE sm_balloc
  BY <1>1, AllocStep
<1>2. CASE sm_balloc_ENOSPC
  BY <1>0, <1>2, QuietStep DEF sm_balloc_ENOSPC, TypeOK
<1>3. ASSUME NEW n \in owned, sm_bfree(n)
      PROVE  SpaceInv'
  BY <1>3, FreeStep
<1>4. ASSUME NEW n \in owned, sm_bfree_abort(n)
      PROVE  SpaceInv'
  BY <1>0, <1>4, QuietStep DEF sm_bfree_abort, Abort, TypeOK
<1>5. ASSUME NEW i \in Maps, bm_get_error(i)
      PROVE  SpaceInv'
  <2>1. 0 .. i - 1 \subseteq Maps
    BY Layout DEF Maps
  <2>2. QED BY <1>0, <1>5, <2>1, QuietStep DEF bm_get_error, TypeOK
<1>6. ASSUME NEW i \in Maps, bc_evict(i)
      PROVE  SpaceInv'
  BY <1>0, <1>6, QuietStep DEF bc_evict, TypeOK
<1>7. CASE bt_check
  BY <1>0, <1>7, QuietStep DEF bt_check, Abort, TypeOK
<1>8. CASE bt_close
  BY <1>0, <1>8, QuietStep DEF bt_close, TypeOK
<1>9. CASE UNCHANGED vars
  BY <1>0, <1>9, QuietStep DEF vars, TypeOK
<1>10. QED BY <1>1, <1>2, <1>3, <1>4, <1>5, <1>6, <1>7, <1>8, <1>9 DEF Next

(* The inductive invariant holds in every reachable state: for every size  *)
(* of the file and of a bitmap, and with any bm_get failing.               *)
THEOREM SpaceInvariant == Spec => []SpaceInv
BY InitSpace, NextSpace, PTL DEF Spec

(* Types: in particular bmp_nfree stays within 0 .. blks_per_bm, so the    *)
(* uint32_t never wraps, and only blocks of the file are given out.        *)
THEOREM SpaceTypes == Spec => []TypeOK
<1>1. SpaceInv => TypeOK
  BY DEF SpaceInv
<1>2. QED BY <1>1, SpaceInvariant, PTL

(* bmp_nfree always is the number of clear bits: the second assertion of   *)
(* bm_bco_check cannot fail, and bm_balloc's scan never runs past the last *)
(* bit of a bitmap.  And a bit is set exactly when its block is fixed, in  *)
(* use or past the end of the file: sm_balloc never gives a block out      *)
(* twice, and none is lost.                                                *)
THEOREM BitmapsAgree == Spec => []BitmapsExact
<1>1. SpaceInv => BitmapsExact
  BY DEF SpaceInv, BitmapsExact
<1>2. QED BY <1>1, SpaceInvariant, PTL

(* The space manager, the root and the bitmaps lie within the file.        *)
LEMMA FixedInFile == Fixed \subseteq Block
BY SpaceAssumption, Layout DEF Fixed, Block

(* When sm_balloc finds no bitmap with a free block, every block is in use. *)
LEMMA FullStep ==
    ASSUME SpaceInv, \A i \in Maps : ~First(i)
    PROVE  Fixed \cup owned = Block
<1>1. ASSUME NEW i \in Maps
      PROVE  ~HasFree(i)
  <2>1. SUFFICES ASSUME HasFree(i) PROVE FALSE
    OBVIOUS
  <2> DEFINE S == {k \in Maps : HasFree(k)}
  <2>2. S \in SUBSET Nat /\ S # {}
    BY <2>1, Layout DEF Maps
  <2>3. PICK k \in S : \A l \in S : k <= l
    BY <2>2, Smallest
  <2>4. \A l \in 0 .. k - 1 : l \in Maps /\ ~(k <= l)
    BY Layout DEF Maps
  <2>5. First(k)
    BY <2>3, <2>4 DEF First
  <2>6. QED BY <2>5
<1>2. ASSUME NEW n \in Block
      PROVE  n \in Fixed \cup owned
  <2>1. MapOf(n) \in Maps /\ BitOf(n) \in Bits /\ Blkno(MapOf(n), BitOf(n)) = n
    BY BlknoBack
  <2>2. Clear(MapOf(n)) = {}
    BY <1>1, <2>1, ClearFinite, FS_EmptySet DEF HasFree, SpaceInv, NfreeExact
  <2>3. BitOf(n) \in bmp_bm[MapOf(n)]
    BY <2>1, <2>2 DEF Clear
  <2>4. n < NBlocks /\ n \in Nat
    BY SpaceAssumption DEF Block
  <2>5. QED BY <2>1, <2>3, <2>4, SpaceAssumption DEF SpaceInv, BitsExact
<1>3. QED BY <1>2, FixedInFile DEF SpaceInv, TypeOK

(* Every step of the bitmaps is a step of the abstract allocator, or       *)
(* changes nothing it shows.                                               *)
LEMMA RefinesStep ==
    ASSUME SpaceInv, [Next]_vars
    PROVE  [Allocator!Next]_(Allocator!allocVars)
<1>0. Fixed' = Fixed
  BY DEF Fixed, nbmblks
<1> USE DEF Allocator!Next, Allocator!Says, Says
<1>1. CASE sm_balloc
  BY <1>0, <1>1, AllocStep DEF Allocator!Alloc, Gives
<1>2. CASE sm_balloc_ENOSPC
  BY <1>0, <1>2, FullStep DEF Allocator!Full, sm_balloc_ENOSPC
<1>3. ASSUME NEW n \in owned, sm_bfree(n)
      PROVE  Allocator!Next
  <2>1. owned' = owned \ {n} /\ n \notin Fixed /\ reply' = Says("ok")
    BY <1>3, FreeStep DEF sm_bfree
  <2>2. QED BY <1>0, <2>1 DEF Allocator!Free
<1>4. ASSUME NEW n \in owned, sm_bfree_abort(n)
      PROVE  Allocator!Next
  BY <1>0, <1>4 DEF sm_bfree_abort, Abort, Allocator!Unchanged
<1>5. ASSUME NEW i \in Maps, bm_get_error(i)
      PROVE  Allocator!Next
  BY <1>0, <1>5 DEF bm_get_error, Allocator!Unchanged
<1>6. ASSUME NEW i \in Maps, bc_evict(i)
      PROVE  UNCHANGED Allocator!allocVars
  BY <1>0, <1>6 DEF bc_evict, Allocator!allocVars
<1>7. CASE bt_check
  BY <1>0, <1>7 DEF bt_check, Abort, Allocator!Unchanged
<1>8. CASE bt_close
  BY <1>0, <1>8 DEF bt_close, Allocator!Unchanged
<1>9. CASE UNCHANGED vars
  BY <1>0, <1>9 DEF vars, Allocator!allocVars
<1>10. QED BY <1>1, <1>2, <1>3, <1>4, <1>5, <1>6, <1>7, <1>8, <1>9 DEF Next

(* The bitmaps implement BlockAllocator: sm_balloc returns a block that is *)
(* not in use and reports ENOSPC only when there is none, sm_bfree frees   *)
(* just the block it is given, and a call that fails changes nothing.      *)
THEOREM ImplementsAllocator == Spec => IsAllocator
<1>1. Init => Allocator!Init
  BY DEF Init, Allocator!Init, Allocator!Says, Says
<1>2. QED BY <1>1, RefinesStep, SpaceInvariant, PTL DEF Spec, IsAllocator, Allocator!Spec

=============================================================================
