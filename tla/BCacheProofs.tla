---------------------------- MODULE BCacheProofs ----------------------------
(***************************************************************************)
(* Proofs about BCache, for any number of clients, buffers and blocks, and *)
(* whichever calls fail.                                                   *)
(*                                                                         *)
(* What bc_check asserts is not inductive: that an unused buffer is on the *)
(* free list says nothing about the count, and a count that drifts breaks  *)
(* the list one call later.  StructureInv adds what the code relies on:    *)
(* the lists hold exactly the free and the dirty buffers, once each; the   *)
(* reference count is the number of clients between bc_get and bc_release; *)
(* a held buffer keeps its block; a client has a buffer exactly while its  *)
(* control is past bc_get, and bc_lock exactly while it is in bc_flush.    *)
(***************************************************************************)
EXTENDS BCache, FiniteSetTheorems, SequenceTheorems, TLAPS

-----------------------------------------------------------------------------
(* The two lists                                                           *)

\* TAILQ_REMOVE and LIST_REMOVE take out one buffer and keep the others.
LEMMA UnlinkProperties ==
    ASSUME NEW s \in Seq(Bufs), NEW b \in Bufs, NoDuplicates(s)
    PROVE  /\ Unlink(s, b) \in Seq(Bufs)
           /\ NoDuplicates(Unlink(s, b))
           /\ Listed(Unlink(s, b)) = Listed(s) \ {b}
<1>1. CASE ~ \E i \in 1 .. Len(s) : s[i] = b
  <2>1. Unlink(s, b) = s
    BY <1>1 DEF Unlink
  <2>2. b \notin Listed(s)
    BY <1>1 DEF Listed
  <2>. QED  BY <2>1, <2>2
<1>2. CASE \E i \in 1 .. Len(s) : s[i] = b
  <2>. DEFINE i == CHOOSE i \in 1 .. Len(s) : s[i] = b
              t == [j \in 1 .. Len(s) - 1 |-> IF j < i THEN s[j] ELSE s[j + 1]]
  <2>1. i \in 1 .. Len(s) /\ s[i] = b
    BY <1>2
  <2>2. Unlink(s, b) = t
    BY <1>2 DEF Unlink
  <2>3. Len(s) \in Nat /\ \A j \in 1 .. Len(s) : s[j] \in Bufs
    BY ElementOfSeq, LenProperties
  <2>. HIDE DEF i
  <2>4. t \in [1 .. Len(s) - 1 -> Bufs]
    BY <2>1, <2>3
  <2>5. t \in Seq(Bufs) /\ Len(t) = Len(s) - 1
    BY <2>1, <2>3, <2>4, IsASeq
  <2>6. NoDuplicates(t)
    BY <2>1, <2>3, <2>5 DEF NoDuplicates
  <2>7. \A x : x \in Listed(t) <=> x \in Listed(s) \ {b}
    <3>1. ASSUME NEW x, x \in Listed(t)  PROVE x \in Listed(s) \ {b}
      <4>1. PICK j \in 1 .. Len(t) : t[j] = x
        BY <3>1 DEF Listed
      <4>2. \E m \in 1 .. Len(s) : m # i /\ s[m] = x
        BY <4>1, <2>1, <2>3, <2>5
      <4>. QED  BY <4>2, <2>1 DEF Listed, NoDuplicates
    <3>2. ASSUME NEW x, x \in Listed(s) \ {b}  PROVE x \in Listed(t)
      <4>1. PICK j \in 1 .. Len(s) : s[j] = x /\ x # b
        BY <3>2 DEF Listed
      <4>2. CASE j < i
        <5>1. j \in 1 .. Len(t) /\ t[j] = x
          BY <4>1, <4>2, <2>1, <2>3, <2>5
        <5>. QED  BY <5>1 DEF Listed
      <4>3. CASE j > i
        <5>1. j - 1 \in 1 .. Len(t) /\ t[j - 1] = x
          BY <4>1, <4>3, <2>1, <2>3, <2>5
        <5>. QED  BY <5>1 DEF Listed
      <4>4. j # i
        BY <4>1, <2>1
      <4>. QED  BY <4>1, <4>2, <4>3, <4>4, <2>1, <2>3
    <3>. QED  BY <3>1, <3>2
  <2>. QED  BY <2>2, <2>5, <2>6, <2>7, SetExtensionality
<1>. QED  BY <1>1, <1>2

\* Taking the first buffer of a list.
LEMMA TailOfList ==
    ASSUME NEW s \in Seq(Bufs), s # << >>, NoDuplicates(s)
    PROVE  /\ Head(s) \in Bufs
           /\ Head(s) \in Listed(s)
           /\ Tail(s) \in Seq(Bufs)
           /\ NoDuplicates(Tail(s))
           /\ Listed(Tail(s)) = Listed(s) \ {Head(s)}
<1>1. Len(s) \in Nat \ {0} /\ Head(s) = s[1] /\ \A j \in 1 .. Len(s) : s[j] \in Bufs
  BY EmptySeq, LenProperties, ElementOfSeq
<1>2. /\ Tail(s) \in Seq(Bufs)
      /\ Len(Tail(s)) = Len(s) - 1
      /\ \A i \in 1 .. Len(s) - 1 : Tail(s)[i] = s[i + 1]
  BY HeadTailProperties
<1>3. NoDuplicates(Tail(s))
  BY <1>1, <1>2 DEF NoDuplicates
<1>4. \A x : x \in Listed(Tail(s)) <=> x \in Listed(s) \ {Head(s)}
  <2>1. ASSUME NEW x, x \in Listed(Tail(s))  PROVE x \in Listed(s) \ {Head(s)}
    <3>1. PICK j \in 1 .. Len(s) - 1 : s[j + 1] = x
      BY <2>1, <1>2 DEF Listed
    <3>2. j + 1 \in 1 .. Len(s) /\ j + 1 # 1
      BY <1>1
    <3>. QED  BY <3>1, <3>2, <1>1 DEF Listed, NoDuplicates
  <2>2. ASSUME NEW x, x \in Listed(s) \ {Head(s)}  PROVE x \in Listed(Tail(s))
    <3>1. PICK j \in 1 .. Len(s) : s[j] = x /\ j # 1
      BY <2>2, <1>1 DEF Listed
    <3>2. j - 1 \in 1 .. Len(Tail(s)) /\ Tail(s)[j - 1] = x
      BY <3>1, <1>1, <1>2
    <3>. QED  BY <3>2 DEF Listed
  <2>. QED  BY <2>1, <2>2
<1>5. Head(s) \in Listed(s)
  BY <1>1 DEF Listed
<1>. QED  BY <1>1, <1>2, <1>3, <1>4, <1>5, SetExtensionality

\* TAILQ_INSERT_TAIL of a buffer that is not on the list.
LEMMA AppendToList ==
    ASSUME NEW s \in Seq(Bufs), NEW b \in Bufs, NoDuplicates(s), b \notin Listed(s)
    PROVE  /\ Append(s, b) \in Seq(Bufs)
           /\ NoDuplicates(Append(s, b))
           /\ Listed(Append(s, b)) = Listed(s) \cup {b}
<1>. DEFINE t == Append(s, b)
<1>1. /\ t \in Seq(Bufs)
      /\ Len(s) \in Nat
      /\ Len(t) = Len(s) + 1
      /\ \A i \in 1 .. Len(s) : t[i] = s[i]
      /\ t[Len(s) + 1] = b
  BY AppendProperties, LenProperties
<1>. HIDE DEF t
<1>2. \A i \in 1 .. Len(s) : s[i] # b
  BY DEF Listed
<1>3. NoDuplicates(t)
  BY <1>1, <1>2 DEF NoDuplicates
<1>4. \A x : x \in Listed(t) <=> x \in Listed(s) \cup {b}
  <2>1. ASSUME NEW x, x \in Listed(t)  PROVE x \in Listed(s) \cup {b}
    <3>1. PICK j \in 1 .. Len(t) : t[j] = x
      BY <2>1 DEF Listed
    <3>2. j \in 1 .. Len(s) \/ j = Len(s) + 1
      BY <1>1
    <3>. QED  BY <3>1, <3>2, <1>1 DEF Listed
  <2>2. ASSUME NEW x, x \in Listed(s)  PROVE x \in Listed(t)
    <3>1. PICK j \in 1 .. Len(s) : s[j] = x
      BY <2>2 DEF Listed
    <3>2. j \in 1 .. Len(t) /\ t[j] = x
      BY <3>1, <1>1
    <3>. QED  BY <3>2 DEF Listed
  <2>3. b \in Listed(t)
    <3>1. Len(s) + 1 \in 1 .. Len(t)
      BY <1>1
    <3>. QED  BY <3>1, <1>1 DEF Listed
  <2>. QED  BY <2>1, <2>2, <2>3
<1>. QED  BY <1>1, <1>3, <1>4, SetExtensionality DEF t

\* LIST_INSERT_HEAD of a buffer that is not on the list.
LEMMA PrependToList ==
    ASSUME NEW s \in Seq(Bufs), NEW b \in Bufs, NoDuplicates(s), b \notin Listed(s)
    PROVE  /\ <<b>> \o s \in Seq(Bufs)
           /\ NoDuplicates(<<b>> \o s)
           /\ Listed(<<b>> \o s) = Listed(s) \cup {b}
<1>. DEFINE t == <<b>> \o s
<1>1. /\ t \in Seq(Bufs)
      /\ Len(s) \in Nat
      /\ Len(t) = Len(s) + 1
      /\ t[1] = b
      /\ \A i \in 1 .. Len(s) : t[i + 1] = s[i]
  OBVIOUS
<1>. HIDE DEF t
<1>2. \A i \in 1 .. Len(s) : s[i] # b
  BY DEF Listed
<1>3. \A j \in 1 .. Len(t) : j # 1 => j - 1 \in 1 .. Len(s) /\ t[j] = s[j - 1]
  BY <1>1
<1>4. NoDuplicates(t)
  <2>1. SUFFICES ASSUME NEW i \in 1 .. Len(t), NEW j \in 1 .. Len(t), t[i] = t[j]
                 PROVE  i = j
    BY DEF NoDuplicates
  <2>2. CASE i = 1 \/ j = 1
    BY <2>1, <2>2, <1>1, <1>2, <1>3
  <2>3. CASE i # 1 /\ j # 1
    <3>1. i - 1 = j - 1
      BY <2>1, <2>3, <1>3 DEF NoDuplicates
    <3>. QED  BY <3>1, <1>1
  <2>. QED  BY <2>2, <2>3
<1>5. \A x : x \in Listed(t) <=> x \in Listed(s) \cup {b}
  <2>1. ASSUME NEW x, x \in Listed(t)  PROVE x \in Listed(s) \cup {b}
    <3>1. PICK j \in 1 .. Len(t) : t[j] = x
      BY <2>1 DEF Listed
    <3>. QED  BY <3>1, <1>1, <1>3 DEF Listed
  <2>2. ASSUME NEW x, x \in Listed(s)  PROVE x \in Listed(t)
    <3>1. PICK j \in 1 .. Len(s) : s[j] = x
      BY <2>2 DEF Listed
    <3>2. j + 1 \in 1 .. Len(t) /\ t[j + 1] = x
      BY <3>1, <1>1
    <3>. QED  BY <3>2 DEF Listed
  <2>3. b \in Listed(t)
    <3>1. 1 \in 1 .. Len(t)
      BY <1>1
    <3>. QED  BY <3>1, <1>1 DEF Listed
  <2>. QED  BY <2>1, <2>2, <2>3
<1>. QED  BY <1>1, <1>4, <1>5, SetExtensionality DEF t

-----------------------------------------------------------------------------
(* The structure of the cache: an invariant whatever fails                 *)

Busy == {"got", "reading", "writing", "written"}

\* A client is past bc_get exactly when it has a buffer, and in bc_flush
\* exactly when it has bc_lock.
ClientsInStep ==
    \A c \in Clients :
        /\ hold[c] # NoBuf <=> pc[c] \in Busy
        /\ lock = c <=> pc[c] = "flushing"

\* The inductive invariant.
StructureInv ==
    /\ TypeOK
    /\ NoDuplicates(fl) /\ NoDuplicates(dl)
    /\ ListsExact
    /\ RefcntExact
    /\ HeldStaysPut
    /\ ClientsInStep
    /\ currsz = Cardinality(Cached)

(* The cache has room for a positive number of buffers.                    *)
LEMMA BufsCount == IsFiniteSet(Bufs) /\ Cardinality(Bufs) \in Nat \ {0}
<1>1. IsFiniteSet(Bufs) /\ Bufs # {}
  BY BCacheAssumption
<1>. QED  BY <1>1, FS_CardinalityType, FS_EmptySet

\* A block number's chain is one of the table's.
LEMMA BucketType ==
    ASSUME NEW n \in Nat
    PROVE  Bucket(n) \in Buckets /\ Bucket(n) # NoBucket
BY BufsCount DEF Bucket, Buckets, NBuckets, NoBucket

(* The clients that have a buffer can be counted.                          *)
LEMMA HoldersFinite ==
    ASSUME NEW b
    PROVE  IsFiniteSet(Holders(b)) /\ Cardinality(Holders(b)) \in Nat
<1>1. Holders(b) \in SUBSET Clients /\ IsFiniteSet(Clients)
  BY BCacheAssumption DEF Holders
<1>2. IsFiniteSet(Holders(b))
  BY <1>1, FS_Subset
<1>. QED  BY <1>2, FS_CardinalityType

\* A reference count of zero means that nobody has the buffer.
LEMMA UnheldIffZero ==
    ASSUME RefcntExact, NEW b \in Bufs
    PROVE  refcnt[b] = 0 <=> \A c \in Clients : hold[c] # b
<1>1. refcnt[b] = 0 <=> Holders(b) = {}
  BY HoldersFinite, FS_EmptySet DEF RefcntExact
<1>. QED  BY <1>1 DEF Holders

\* bc_get counts its caller.
LEMMA GetCounts ==
    ASSUME TypeOK, RefcntExact, NEW c \in Clients, NEW b \in Bufs,
           hold[c] = NoBuf, hold' = [hold EXCEPT ![c] = b], refcnt' = Counted(b)
    PROVE  RefcntExact'
<1>1. SUFFICES ASSUME NEW x \in Bufs  PROVE refcnt'[x] = Cardinality(Holders(x)')
  BY DEF RefcntExact
<1>2. refcnt[x] = Cardinality(Holders(x)) /\ NoBuf \notin Bufs
  BY BCacheAssumption DEF RefcntExact
<1>3. CASE x = b
  <2>1. Holders(x)' = Holders(x) \cup {c} /\ c \notin Holders(x)
    BY <1>2, <1>3 DEF Holders, TypeOK
  <2>2. Cardinality(Holders(x)') = Cardinality(Holders(x)) + 1
    BY <2>1, HoldersFinite, FS_AddElement
  <2>. QED  BY <1>2, <1>3, <2>2 DEF TypeOK, Counted
<1>4. CASE x # b
  <2>1. Holders(x)' = Holders(x)
    BY <1>2, <1>4 DEF Holders, TypeOK
  <2>. QED  BY <1>2, <1>4, <2>1 DEF TypeOK, Counted
<1>. QED  BY <1>3, <1>4

\* bc_release uncounts it, and never takes the count below zero.
LEMMA ReleaseCounts ==
    ASSUME TypeOK, RefcntExact, NEW c \in Clients, hold[c] \in Bufs,
           hold' = [hold EXCEPT ![c] = NoBuf],
           refcnt' = [refcnt EXCEPT ![hold[c]] = @ - 1]
    PROVE  RefcntExact' /\ refcnt[hold[c]] > 0 /\ refcnt' \in [Bufs -> Nat]
<1>1. NoBuf \notin Bufs
  BY BCacheAssumption
<1>2. refcnt[hold[c]] > 0
  <2>1. refcnt[hold[c]] # 0
    BY UnheldIffZero
  <2>. QED  BY <2>1 DEF TypeOK
<1>3. ASSUME NEW x \in Bufs  PROVE refcnt'[x] = Cardinality(Holders(x)')
  <2>1. refcnt[x] = Cardinality(Holders(x))
    BY DEF RefcntExact
  <2>2. CASE x = hold[c]
    <3>1. Holders(x)' = Holders(x) \ {c} /\ c \in Holders(x)
      BY <1>1, <2>2 DEF Holders, TypeOK
    <3>2. Cardinality(Holders(x)') = Cardinality(Holders(x)) - 1
      BY <3>1, HoldersFinite, FS_RemoveElement
    <3>. QED  BY <2>1, <2>2, <3>2 DEF TypeOK
  <2>3. CASE x # hold[c]
    <3>1. Holders(x)' = Holders(x)
      BY <1>1, <2>3 DEF Holders, TypeOK
    <3>. QED  BY <2>1, <2>3, <3>1 DEF TypeOK
  <2>. QED  BY <2>2, <2>3
<1>. QED  BY <1>2, <1>3 DEF RefcntExact, TypeOK

-----------------------------------------------------------------------------
(* Each action keeps the structure                                         *)

(* The empty cache bc_create makes satisfies the invariant.                *)
LEMMA InitStructure == Init => StructureInv
<1>1. SUFFICES ASSUME Init  PROVE StructureInv
  OBVIOUS
<1>2. /\ Blknos \subseteq Nat /\ MaxVer \in Nat
      /\ Cardinality(Bufs) \in Nat
      /\ NoClient \notin Clients /\ NoBuf \notin Bufs
  BY BCacheAssumption, BufsCount
<1>3. TypeOK
  <2>1. \A n \in Blknos : Initial(n) \in Nat
    BY <1>2 DEF Initial
  <2>. QED
    BY <1>1, <1>2, <2>1, EmptySeq DEF Init, TypeOK, Fresh, Phases, Results, NoBucket
<1>4. NoDuplicates(fl) /\ NoDuplicates(dl) /\ ListsExact
  BY <1>1 DEF Init, NoDuplicates, ListsExact, Listed, InCache, Fresh
<1>5. RefcntExact
  <2>1. ASSUME NEW b \in Bufs  PROVE Holders(b) = {}
    BY <1>1, <1>2 DEF Init, Fresh, Holders
  <2>. QED  BY <1>1, <2>1, FS_EmptySet DEF Init, Fresh, RefcntExact
<1>6. HeldStaysPut /\ ClientsInStep
  BY <1>1, <1>2 DEF Init, Fresh, HeldStaysPut, ClientsInStep, Busy
<1>7. currsz = Cardinality(Cached)
  <2>1. Cached = {}
    BY <1>1 DEF Init, Fresh, Cached, InCache
  <2>. QED  BY <1>1, <2>1, FS_EmptySet DEF Init
<1>. QED  BY <1>3, <1>4, <1>5, <1>6, <1>7 DEF StructureInv

\* Steps that leave the cache alone.
LEMMA QuietStep ==
    ASSUME StructureInv, TypeOK', ClientsInStep', UNCHANGED hold,
           UNCHANGED <<ht, blkno, refcnt, dirty, fl, dl, currsz>>,
           \A c \in Clients : hold[c] # NoBuf => want'[c] = want[c]
    PROVE  StructureInv'
<1>1. RefcntExact' /\ currsz' = Cardinality(Cached')
  BY DEF StructureInv, RefcntExact, Holders, Cached, InCache
<1>2. HeldStaysPut'
  BY DEF StructureInv, HeldStaysPut
<1>. QED  BY <1>1, <1>2 DEF StructureInv, NoDuplicates, ListsExact, Listed, InCache

\* What bc_get does for its caller when it returns 0.
LEMMA GotStep ==
    ASSUME StructureInv, NEW c \in Clients, NEW n \in Blknos, NEW b \in Bufs,
           Calling(c), Got(c, n, b), UNCHANGED lock
    PROVE  /\ RefcntExact'
           /\ ClientsInStep'
           /\ refcnt' \in [Bufs -> Nat]
           /\ pc' \in [Clients -> Phases]
           /\ hold' \in [Clients -> Bufs \cup {NoBuf}]
           /\ want' \in [Clients -> Nat]
           /\ ret' \in [Clients -> Results]
<1>1. /\ pc[c] = "idle" /\ lock = NoClient /\ NoBuf \notin Bufs /\ NoClient \notin Clients
      /\ Blknos \subseteq Nat
  BY BCacheAssumption DEF Calling
<1>2. hold[c] = NoBuf
  BY <1>1 DEF StructureInv, ClientsInStep, Busy
<1>3. RefcntExact'
  BY <1>2, GetCounts DEF StructureInv, Got
<1>4. ClientsInStep'
  BY <1>1 DEF StructureInv, TypeOK, ClientsInStep, Busy, Got
<1>. QED  BY <1>1, <1>3, <1>4, SMTT(30) DEF StructureInv, TypeOK, Got, Counted, Phases, Results

(* bc_get of a cached block: off the free list if it was on it.            *)
LEMMA GetHitStep ==
    ASSUME StructureInv, NEW c \in Clients, NEW n \in Blknos, GetHit(c, n)
    PROVE  StructureInv'
<1>1. PICK b \in Hits(n) : Got(c, n, b) /\ fl' = Claimed(b)
  BY DEF GetHit
<1>2. b \in Bufs /\ ht[b] = Bucket(n) /\ blkno[b] = n /\ InCache(b)
  BY BucketType, BCacheAssumption DEF Hits, InCache
<1>3. UNCHANGED <<ht, blkno, dirty, bco, phys, dl, currsz, lock, disk, media, oscache, blocks, synced>>
  BY DEF GetHit, deviceVars, ghostVars
<1>4. /\ RefcntExact' /\ ClientsInStep' /\ refcnt' \in [Bufs -> Nat]
      /\ pc' \in [Clients -> Phases] /\ hold' \in [Clients -> Bufs \cup {NoBuf}]
      /\ want' \in [Clients -> Nat] /\ ret' \in [Clients -> Results]
  BY <1>1, <1>2, <1>3, GotStep DEF GetHit
<1>5. fl' \in Seq(Bufs) /\ NoDuplicates(fl') /\ Listed(fl') = Listed(fl) \ {b}
  <2>1. CASE refcnt[b] = 0
    BY <1>1, <1>2, <2>1, UnlinkProperties DEF Claimed, StructureInv, TypeOK
  <2>2. CASE refcnt[b] # 0
    BY <1>1, <1>2, <2>2 DEF Claimed, StructureInv, TypeOK, ListsExact
  <2>. QED  BY <2>1, <2>2
<1>6. TypeOK'
  BY <1>3, <1>4, <1>5 DEF StructureInv, TypeOK
<1>7. ListsExact'
  <2>1. refcnt'[b] # 0 /\ \A x \in Bufs \ {b} : refcnt'[x] = refcnt[x]
    BY <1>1, <1>2 DEF Got, Counted, StructureInv, TypeOK
  <2>. QED  BY <1>2, <1>3, <1>5, <2>1 DEF StructureInv, ListsExact, InCache
<1>8. HeldStaysPut'
  BY <1>1, <1>2, <1>3 DEF Got, StructureInv, TypeOK, HeldStaysPut
<1>9. currsz' = Cardinality(Cached')
  BY <1>3 DEF StructureInv, Cached, InCache
<1>. QED  BY <1>3, <1>4, <1>5, <1>6, <1>7, <1>8, <1>9 DEF StructureInv

\* bc_get returning an error without having touched a buffer.
LEMMA FailedStep ==
    ASSUME StructureInv, NEW c \in Clients, NEW e \in Results, Failed(c, e),
           UNCHANGED <<cacheVars, deviceVars, ghostVars>>
    PROVE  StructureInv'
<1>1. /\ UNCHANGED <<ht, blkno, refcnt, dirty, bco, phys, fl, dl, currsz, lock>>
      /\ UNCHANGED <<disk, media, oscache, pc, hold, want, blocks, synced>>
      /\ ret' = [ret EXCEPT ![c] = e]
  BY DEF Failed, cacheVars, deviceVars, ghostVars
<1>2. TypeOK'
  BY <1>1 DEF StructureInv, TypeOK
<1>3. ClientsInStep'
  BY <1>1 DEF StructureInv, ClientsInStep
<1>. QED  BY <1>1, <1>2, <1>3, QuietStep

\* The victim of an eviction is cached and nobody has it; writing it back
\* takes it, and only it, off the dirty list.
LEMMA VictimStep ==
    ASSUME StructureInv, NEW c \in Clients, NEW n \in Blknos, Evicting(c, n), WriteBackVictim
    PROVE  /\ Victim \in Bufs /\ Victim \in Listed(fl)
           /\ InCache(Victim) /\ refcnt[Victim] = 0
           /\ \A d \in Clients : hold[d] # Victim
           /\ disk' \in [Blknos -> Nat] /\ media' \in [Blknos -> SUBSET Nat]
           /\ oscache' \in [Blknos -> BOOLEAN]
           /\ dirty' \in [Bufs -> BOOLEAN] /\ dirty'[Victim] = FALSE
           /\ \A b \in Bufs \ {Victim} : dirty'[b] = dirty[b]
           /\ dl' \in Seq(Bufs) /\ NoDuplicates(dl')
           /\ Listed(dl') = {b \in Bufs : dirty'[b]}
<1>1. Victim \in Bufs /\ Victim \in Listed(fl)
  BY TailOfList DEF StructureInv, TypeOK, Evicting, Victim
<1>2. InCache(Victim) /\ refcnt[Victim] = 0
  BY <1>1 DEF StructureInv, ListsExact
<1>3. \A d \in Clients : hold[d] # Victim
  BY <1>1, <1>2, UnheldIffZero DEF StructureInv
<1>4. CASE dirty[Victim]
  <2>1. /\ pwrite(blkno[Victim], phys[Victim])
        /\ dirty' = [dirty EXCEPT ![Victim] = FALSE]
        /\ dl' = Unlink(dl, Victim)
    BY <1>4 DEF WriteBackVictim
  <2>2. disk' \in [Blknos -> Nat] /\ oscache' \in [Blknos -> BOOLEAN]
    BY <1>1, <2>1 DEF pwrite, StructureInv, TypeOK
  <2>3. media' \in [Blknos -> SUBSET Nat]
    <3>1. phys[Victim] \in Nat
      BY <1>1 DEF StructureInv, TypeOK
    <3>. QED  BY <2>1, <3>1 DEF pwrite, StructureInv, TypeOK
  <2>4. /\ dirty' \in [Bufs -> BOOLEAN] /\ dirty'[Victim] = FALSE
        /\ \A b \in Bufs \ {Victim} : dirty'[b] = dirty[b]
    BY <1>1, <2>1 DEF StructureInv, TypeOK
  <2>5. dl' \in Seq(Bufs) /\ NoDuplicates(dl') /\ Listed(dl') = Listed(dl) \ {Victim}
    BY <1>1, <2>1, UnlinkProperties DEF StructureInv, TypeOK
  <2>6. Listed(dl') = {b \in Bufs : dirty'[b]}
    BY <2>4, <2>5 DEF StructureInv, ListsExact
  <2>. QED  BY <1>1, <1>2, <1>3, <2>2, <2>3, <2>4, <2>5, <2>6
<1>5. CASE ~dirty[Victim]
  <2>1. UNCHANGED <<disk, media, oscache, dirty, dl>>
    BY <1>5 DEF WriteBackVictim, deviceVars
  <2>2. dirty[Victim] = FALSE
    BY <1>1, <1>5 DEF StructureInv, TypeOK
  <2>. QED  BY <1>1, <1>2, <1>3, <2>1, <2>2 DEF StructureInv, TypeOK, ListsExact
<1>. QED  BY <1>4, <1>5

\* The free list, and the cached buffers, when the victim is handed out.
LEMMA GetEvictStep ==
    ASSUME StructureInv, NEW c \in Clients, NEW n \in Blknos, GetEvict(c, n)
    PROVE  StructureInv'
<1>1. /\ Evicting(c, n) /\ WriteBackVictim /\ Got(c, n, Victim)
      /\ phys' = [phys EXCEPT ![Victim] = disk'[n]]
      /\ blkno' = [blkno EXCEPT ![Victim] = n]
      /\ bco' = [bco EXCEPT ![Victim] = TRUE]
      /\ ht' = [ht EXCEPT ![Victim] = Bucket(n)]
      /\ fl' = Tail(fl)
      /\ UNCHANGED <<currsz, lock, blocks, synced>>
  BY DEF GetEvict, ghostVars
<1>2. /\ Victim \in Bufs /\ InCache(Victim)
      /\ \A d \in Clients : hold[d] # Victim
      /\ disk' \in [Blknos -> Nat] /\ media' \in [Blknos -> SUBSET Nat]
      /\ oscache' \in [Blknos -> BOOLEAN]
      /\ dirty' \in [Bufs -> BOOLEAN] /\ dirty'[Victim] = FALSE
      /\ \A b \in Bufs \ {Victim} : dirty'[b] = dirty[b]
      /\ dl' \in Seq(Bufs) /\ NoDuplicates(dl')
      /\ Listed(dl') = {b \in Bufs : dirty'[b]}
  BY <1>1, VictimStep
<1>3. /\ RefcntExact' /\ ClientsInStep' /\ refcnt' \in [Bufs -> Nat]
      /\ pc' \in [Clients -> Phases] /\ hold' \in [Clients -> Bufs \cup {NoBuf}]
      /\ want' \in [Clients -> Nat] /\ ret' \in [Clients -> Results]
  BY <1>1, <1>2, GotStep DEF Evicting, Missing
<1>4. fl' \in Seq(Bufs) /\ NoDuplicates(fl') /\ Listed(fl') = Listed(fl) \ {Victim}
  BY <1>1, TailOfList DEF Evicting, Victim, StructureInv, TypeOK
<1>5. Bucket(n) \in Buckets /\ Bucket(n) # NoBucket /\ n \in Nat
  BY BucketType, BCacheAssumption
<1>6. TypeOK'
  <2>1. phys' \in [Bufs -> Nat] /\ blkno' \in [Bufs -> Nat] /\ bco' \in [Bufs -> BOOLEAN]
    BY <1>1, <1>2, <1>5 DEF StructureInv, TypeOK
  <2>2. ht' \in [Bufs -> Buckets \cup {NoBucket}]
    BY <1>1, <1>2, <1>5 DEF StructureInv, TypeOK
  <2>. QED  BY <1>1, <1>2, <1>3, <1>4, <2>1, <2>2 DEF StructureInv, TypeOK
<1>7. \A b \in Bufs : InCache(b)' <=> InCache(b)
  BY <1>1, <1>2, <1>5 DEF StructureInv, TypeOK, InCache
<1>8. ListsExact'
  <2>1. refcnt'[Victim] # 0 /\ \A x \in Bufs \ {Victim} : refcnt'[x] = refcnt[x]
    BY <1>1, <1>2 DEF Got, Counted, StructureInv, TypeOK
  <2>2. Listed(fl') = {b \in Bufs : InCache(b)' /\ refcnt'[b] = 0}
    BY <1>2, <1>4, <1>7, <2>1 DEF StructureInv, ListsExact
  <2>3. \A b \in Bufs : dirty'[b] => InCache(b)'
    BY <1>2, <1>7 DEF StructureInv, ListsExact
  <2>. QED  BY <1>2, <2>2, <2>3 DEF ListsExact
<1>9. HeldStaysPut'
  <2>1. SUFFICES ASSUME NEW d \in Clients, hold'[d] # NoBuf
                 PROVE  blkno'[hold'[d]] = want'[d] /\ ht'[hold'[d]] = Bucket(want'[d])
    BY DEF HeldStaysPut
  <2>2. CASE d = c
    BY <1>1, <1>2, <2>2 DEF Got, StructureInv, TypeOK
  <2>3. CASE d # c
    <3>1. hold'[d] = hold[d] /\ want'[d] = want[d] /\ hold[d] \in Bufs \ {Victim}
      BY <1>1, <1>2, <2>1, <2>3 DEF Got, StructureInv, TypeOK
    <3>. QED  BY <1>1, <1>2, <2>1, <3>1 DEF StructureInv, TypeOK, HeldStaysPut
  <2>. QED  BY <2>2, <2>3
<1>10. currsz' = Cardinality(Cached')
  <2>1. Cached' = Cached
    BY <1>7 DEF Cached
  <2>. QED  BY <1>1, <2>1 DEF StructureInv
<1>. QED  BY <1>2, <1>3, <1>4, <1>6, <1>8, <1>9, <1>10 DEF StructureInv

\* An eviction that fails after the write-back leaves the victim where it is
\* on the free list and on its chain, whatever it is numbered.
LEMMA EvictFailedStep ==
    ASSUME StructureInv, NEW c \in Clients, NEW n \in Blknos, NEW e \in Results,
           Evicting(c, n), WriteBackVictim, Failed(c, e),
           phys' \in [Bufs -> Nat], bco' \in [Bufs -> BOOLEAN], blkno' \in [Bufs -> Nat],
           \A b \in Bufs \ {Victim} : blkno'[b] = blkno[b],
           UNCHANGED <<ht, refcnt, fl, currsz, lock, ghostVars>>
    PROVE  StructureInv'
<1>1. /\ UNCHANGED <<ht, refcnt, fl, currsz, lock, blocks, synced, pc, hold, want>>
      /\ ret' = [ret EXCEPT ![c] = e]
  BY DEF ghostVars, Failed
<1>2. /\ Victim \in Bufs /\ \A d \in Clients : hold[d] # Victim
      /\ disk' \in [Blknos -> Nat] /\ media' \in [Blknos -> SUBSET Nat]
      /\ oscache' \in [Blknos -> BOOLEAN]
      /\ dirty' \in [Bufs -> BOOLEAN] /\ dirty'[Victim] = FALSE
      /\ \A b \in Bufs \ {Victim} : dirty'[b] = dirty[b]
      /\ dl' \in Seq(Bufs) /\ NoDuplicates(dl')
      /\ Listed(dl') = {b \in Bufs : dirty'[b]}
  BY VictimStep
<1>3. TypeOK'
  BY <1>1, <1>2 DEF StructureInv, TypeOK
<1>4. ListsExact' /\ NoDuplicates(fl')
  <2>1. \A b \in Bufs : dirty'[b] => InCache(b)'
    BY <1>1, <1>2 DEF StructureInv, ListsExact, InCache
  <2>2. Listed(fl') = {b \in Bufs : InCache(b)' /\ refcnt'[b] = 0}
    BY <1>1 DEF StructureInv, ListsExact, InCache
  <2>. QED  BY <1>1, <1>2, <2>1, <2>2 DEF StructureInv, ListsExact
<1>5. RefcntExact' /\ ClientsInStep' /\ currsz' = Cardinality(Cached')
  BY <1>1 DEF StructureInv, RefcntExact, Holders, ClientsInStep, Cached, InCache
<1>6. HeldStaysPut'
  BY <1>1, <1>2 DEF StructureInv, TypeOK, HeldStaysPut
<1>. QED  BY <1>2, <1>3, <1>4, <1>5, <1>6 DEF StructureInv

(* bc_get whose pread fails or is short after the victim was written back: *)
(* the victim is clean now, and still free.                                *)
LEMMA GetEvictReadErrorStep ==
    ASSUME StructureInv, NEW c \in Clients, NEW n \in Blknos, GetEvictReadError(c, n)
    PROVE  StructureInv'
<1>1. Evicting(c, n) /\ WriteBackVictim /\ Failed(c, "EIO")
  BY DEF GetEvictReadError
<1>2. Victim \in Bufs /\ disk' \in [Blknos -> Nat]
  BY <1>1, VictimStep
<1>3. phys' \in [Bufs -> Nat]
  BY <1>2 DEF GetEvictReadError, StructureInv, TypeOK
<1>4. bco' \in [Bufs -> BOOLEAN] /\ blkno' \in [Bufs -> Nat] /\ blkno' = blkno
  BY DEF GetEvictReadError, StructureInv, TypeOK
<1>5. UNCHANGED <<ht, refcnt, fl, currsz, lock, ghostVars>>
  BY DEF GetEvictReadError
<1>. QED  BY <1>1, <1>3, <1>4, <1>5, EvictFailedStep DEF Results

(* bc_get whose bco_init fails after the victim was renumbered: nobody     *)
(* holds it, so HeldStaysPut is untouched (OneCopy is not: that is why it  *)
(* is not part of this invariant).                                         *)
LEMMA GetEvictInitErrorStep ==
    ASSUME StructureInv, NEW c \in Clients, NEW n \in Blknos, GetEvictInitError(c, n)
    PROVE  StructureInv'
<1>1. /\ Evicting(c, n) /\ WriteBackVictim /\ Failed(c, "ENOMEM")
      /\ phys' = [phys EXCEPT ![Victim] = disk'[n]]
      /\ blkno' = [blkno EXCEPT ![Victim] = n]
      /\ bco' = [bco EXCEPT ![Victim] = FALSE]
      /\ UNCHANGED <<ht, refcnt, fl, currsz, lock, ghostVars>>
  BY DEF GetEvictInitError
<1>2. Victim \in Bufs /\ disk' \in [Blknos -> Nat] /\ n \in Nat
  BY <1>1, VictimStep, BCacheAssumption
<1>3. /\ phys' \in [Bufs -> Nat] /\ bco' \in [Bufs -> BOOLEAN] /\ blkno' \in [Bufs -> Nat]
      /\ \A b \in Bufs \ {Victim} : blkno'[b] = blkno[b]
  BY <1>1, <1>2 DEF StructureInv, TypeOK
<1>. QED  BY <1>1, <1>3, EvictFailedStep DEF Results

(* bc_get of a block that is not cached, below the limit: one more buffer. *)
LEMMA GetAllocStep ==
    ASSUME StructureInv, NEW c \in Clients, NEW n \in Blknos, GetAlloc(c, n)
    PROVE  StructureInv'
<1>1. PICK b \in Bufs :
        /\ ~InCache(b) /\ Got(c, n, b)
        /\ ht' = [ht EXCEPT ![b] = Bucket(n)]
        /\ blkno' = [blkno EXCEPT ![b] = n]
        /\ phys' = [phys EXCEPT ![b] = disk[n]]
        /\ bco' = [bco EXCEPT ![b] = TRUE]
  BY DEF GetAlloc
<1>2. /\ Calling(c) /\ ~AtCapacity /\ currsz' = currsz + 1
      /\ UNCHANGED <<dirty, fl, dl, lock, disk, media, oscache, blocks, synced>>
  BY DEF GetAlloc, Missing, deviceVars, ghostVars
<1>3. /\ RefcntExact' /\ ClientsInStep' /\ refcnt' \in [Bufs -> Nat]
      /\ pc' \in [Clients -> Phases] /\ hold' \in [Clients -> Bufs \cup {NoBuf}]
      /\ want' \in [Clients -> Nat] /\ ret' \in [Clients -> Results]
  BY <1>1, <1>2, GotStep
<1>4. Bucket(n) \in Buckets /\ Bucket(n) # NoBucket /\ n \in Nat
  BY BucketType, BCacheAssumption
<1>5. \A d \in Clients : hold[d] # b
  <2>1. ASSUME NEW d \in Clients, hold[d] = b  PROVE FALSE
    <3>1. ht[b] = Bucket(want[d]) /\ want[d] \in Nat
      BY <2>1, BCacheAssumption DEF StructureInv, TypeOK, HeldStaysPut
    <3>. QED  BY <3>1, <1>1, BucketType DEF InCache
  <2>. QED  BY <2>1
<1>6. TypeOK'
  <2>1. currsz' \in 0 .. Cardinality(Bufs)
    BY <1>2, BufsCount, SMTT(30) DEF StructureInv, TypeOK, AtCapacity
  <2>2. phys' \in [Bufs -> Nat] /\ blkno' \in [Bufs -> Nat] /\ bco' \in [Bufs -> BOOLEAN]
    BY <1>1, <1>4 DEF StructureInv, TypeOK
  <2>3. ht' \in [Bufs -> Buckets \cup {NoBucket}]
    BY <1>1, <1>4 DEF StructureInv, TypeOK
  <2>. QED  BY <1>2, <1>3, <2>1, <2>2, <2>3 DEF StructureInv, TypeOK
<1>7. InCache(b)' /\ \A x \in Bufs \ {b} : InCache(x)' <=> InCache(x)
  BY <1>1, <1>4 DEF StructureInv, TypeOK, InCache
<1>8. ListsExact'
  <2>1. refcnt'[b] # 0 /\ \A x \in Bufs \ {b} : refcnt'[x] = refcnt[x]
    BY <1>1 DEF Got, Counted, StructureInv, TypeOK
  <2>2. Listed(fl') = {x \in Bufs : InCache(x)' /\ refcnt'[x] = 0}
    BY <1>1, <1>2, <1>7, <2>1 DEF StructureInv, ListsExact
  <2>. QED  BY <1>2, <1>7, <2>2 DEF StructureInv, ListsExact
<1>9. HeldStaysPut'
  <2>1. SUFFICES ASSUME NEW d \in Clients, hold'[d] # NoBuf
                 PROVE  blkno'[hold'[d]] = want'[d] /\ ht'[hold'[d]] = Bucket(want'[d])
    BY DEF HeldStaysPut
  <2>2. CASE d = c
    BY <1>1, <2>2 DEF Got, StructureInv, TypeOK
  <2>3. CASE d # c
    <3>1. hold'[d] = hold[d] /\ want'[d] = want[d] /\ hold[d] \in Bufs \ {b}
      BY <1>1, <1>5, <2>1, <2>3 DEF Got, StructureInv, TypeOK
    <3>. QED  BY <1>1, <2>1, <3>1 DEF StructureInv, TypeOK, HeldStaysPut
  <2>. QED  BY <2>2, <2>3
<1>10. currsz' = Cardinality(Cached')
  <2>1. Cached' = Cached \cup {b} /\ b \notin Cached
    BY <1>1, <1>7 DEF Cached
  <2>2. IsFiniteSet(Cached)
    BY BufsCount, FS_Subset DEF Cached
  <2>. QED  BY <1>2, <2>1, <2>2, FS_AddElement DEF StructureInv
<1>. QED  BY <1>2, <1>3, <1>6, <1>8, <1>9, <1>10 DEF StructureInv

(* bc_get keeps the invariant on each of its paths.                        *)
LEMMA bc_getStep ==
    ASSUME StructureInv, NEW c \in Clients, NEW n \in Blknos, bc_get(c, n)
    PROVE  StructureInv'
<1>1. CASE GetNoBlocks(c, n)
  BY <1>1, FailedStep DEF GetNoBlocks, Results
<1>2. CASE GetEvictWriteError(c, n)
  BY <1>2, FailedStep DEF GetEvictWriteError, Results
<1>3. CASE GetAllocError(c, n)
  BY <1>3, FailedStep DEF GetAllocError, Results
<1>. QED
  BY <1>1, <1>2, <1>3, GetHitStep, GetEvictStep, GetEvictReadErrorStep,
     GetEvictInitErrorStep, GetAllocStep DEF bc_get

\* A client with a buffer moves on to another phase of using it.
LEMMA PhaseStep ==
    ASSUME StructureInv, NEW c \in Clients, NEW p \in Busy, pc[c] \in Busy,
           pc' = [pc EXCEPT ![c] = p], UNCHANGED <<hold, lock>>
    PROVE  ClientsInStep' /\ pc' \in [Clients -> Phases] /\ hold[c] \in Bufs
<1>1. hold[c] \in Bufs
  BY DEF StructureInv, TypeOK, ClientsInStep
<1>. QED  BY <1>1 DEF StructureInv, TypeOK, ClientsInStep, Busy, Phases

(* Locking a block shared and unlocking it.                                *)
LEMMA ReadStep ==
    ASSUME StructureInv, NEW c \in Clients, BeginRead(c) \/ EndRead(c)
    PROVE  StructureInv'
<1>1. /\ \E p \in Busy : pc' = [pc EXCEPT ![c] = p]
      /\ pc[c] \in Busy
      /\ UNCHANGED <<ht, blkno, refcnt, dirty, bco, phys, fl, dl, currsz, lock>>
      /\ UNCHANGED <<disk, media, oscache, hold, want, ret, blocks, synced>>
  BY DEF BeginRead, EndRead, Busy, cacheVars, deviceVars, ghostVars
<1>2. ClientsInStep' /\ pc' \in [Clients -> Phases]
  BY <1>1, PhaseStep
<1>3. TypeOK'
  BY <1>1, <1>2 DEF StructureInv, TypeOK
<1>. QED  BY <1>1, <1>2, <1>3, QuietStep

(* Locking a block exclusively and modifying it.                           *)
LEMMA WriteStep ==
    ASSUME StructureInv, NEW c \in Clients, BeginWrite(c) \/ EndWrite(c)
    PROVE  StructureInv'
<1>1. /\ \E p \in Busy : pc' = [pc EXCEPT ![c] = p]
      /\ pc[c] \in Busy
      /\ UNCHANGED <<ht, blkno, refcnt, dirty, bco, fl, dl, currsz, lock>>
      /\ UNCHANGED <<disk, media, oscache, hold, want, ret, blocks, synced>>
  BY DEF BeginWrite, EndWrite, Busy, deviceVars, ghostVars
<1>2. ClientsInStep' /\ pc' \in [Clients -> Phases] /\ hold[c] \in Bufs
  BY <1>1, PhaseStep
<1>3. phys' \in [Bufs -> Nat]
  <2>1. \A v \in Nat : v + 1 \in Nat /\ 2 * (v \div 2) + 1 \in Nat
    OBVIOUS
  <2>2. \E v \in Nat : phys' = [phys EXCEPT ![hold[c]] = v]
    <3>. DEFINE u == phys[hold[c]]
    <3>1. u \in Nat
      BY <1>2 DEF StructureInv, TypeOK
    <3>2. phys' = [phys EXCEPT ![hold[c]] = u + 1]
          \/ phys' = [phys EXCEPT ![hold[c]] = 2 * (u \div 2) + 1]
      BY DEF BeginWrite, EndWrite
    <3>. QED  BY <2>1, <3>1, <3>2
  <2>. QED  BY <1>2, <2>2 DEF StructureInv, TypeOK
<1>4. TypeOK'
  BY <1>1, <1>2, <1>3 DEF StructureInv, TypeOK
<1>. QED  BY <1>1, <1>2, <1>4, QuietStep

(* bc_dirty puts a clean buffer on the dirty list, and a dirty one not     *)
(* again.                                                                  *)
LEMMA bc_dirtyStep ==
    ASSUME StructureInv, NEW c \in Clients, bc_dirty(c)
    PROVE  StructureInv'
<1>1. /\ pc[c] = "written" /\ pc' = [pc EXCEPT ![c] = "got"]
      /\ blocks' = [blocks EXCEPT ![want[c]] = phys[hold[c]]]
      /\ dirty' = [dirty EXCEPT ![hold[c]] = TRUE]
      /\ dl' = IF dirty[hold[c]] THEN dl ELSE <<hold[c]>> \o dl
      /\ UNCHANGED <<ht, blkno, refcnt, bco, phys, fl, currsz, lock>>
      /\ UNCHANGED <<disk, media, oscache, hold, want, ret, synced>>
  BY DEF bc_dirty, deviceVars
<1>2. ClientsInStep' /\ pc' \in [Clients -> Phases] /\ hold[c] \in Bufs
  BY <1>1, PhaseStep DEF Busy
<1>3. InCache(hold[c])
  <2>1. ht[hold[c]] = Bucket(want[c]) /\ want[c] \in Nat
    BY <1>2, BCacheAssumption DEF StructureInv, TypeOK, HeldStaysPut
  <2>. QED  BY <2>1, BucketType DEF InCache
<1>4. dl' \in Seq(Bufs) /\ NoDuplicates(dl') /\ Listed(dl') = Listed(dl) \cup {hold[c]}
  <2>1. CASE dirty[hold[c]]
    BY <1>1, <1>2, <2>1 DEF StructureInv, TypeOK, ListsExact
  <2>2. CASE ~dirty[hold[c]]
    <3>1. hold[c] \notin Listed(dl)
      BY <2>2 DEF StructureInv, ListsExact
    <3>. QED  BY <1>1, <1>2, <2>2, <3>1, PrependToList DEF StructureInv, TypeOK
  <2>. QED  BY <2>1, <2>2
<1>5. TypeOK'
  BY <1>1, <1>2, <1>4 DEF StructureInv, TypeOK
<1>6. ListsExact'
  <2>1. dirty'[hold[c]] /\ \A b \in Bufs \ {hold[c]} : dirty'[b] = dirty[b]
    BY <1>1, <1>2 DEF StructureInv, TypeOK
  <2>2. Listed(dl') = {b \in Bufs : dirty'[b]}
    BY <1>2, <1>4, <2>1 DEF StructureInv, ListsExact
  <2>3. \A b \in Bufs : dirty'[b] => InCache(b)'
    BY <1>1, <1>3, <2>1 DEF StructureInv, ListsExact, InCache
  <2>. QED  BY <1>1, <2>2, <2>3 DEF StructureInv, ListsExact, InCache
<1>7. RefcntExact' /\ HeldStaysPut' /\ currsz' = Cardinality(Cached')
  BY <1>1 DEF StructureInv, RefcntExact, Holders, HeldStaysPut, Cached, InCache
<1>. QED  BY <1>1, <1>2, <1>4, <1>5, <1>6, <1>7 DEF StructureInv

(* bc_release puts the buffer on the free list with its last user.         *)
LEMMA bc_releaseStep ==
    ASSUME StructureInv, NEW c \in Clients, bc_release(c)
    PROVE  StructureInv'
<1>1. /\ pc[c] = "got" /\ lock = NoClient
      /\ refcnt' = [refcnt EXCEPT ![hold[c]] = @ - 1]
      /\ fl' = Freed(hold[c])
      /\ pc' = [pc EXCEPT ![c] = "idle"]
      /\ hold' = [hold EXCEPT ![c] = NoBuf]
      /\ UNCHANGED <<ht, blkno, dirty, bco, phys, dl, currsz, lock>>
      /\ UNCHANGED <<disk, media, oscache, want, ret, blocks, synced>>
  BY DEF bc_release, deviceVars, ghostVars
<1>2. hold[c] \in Bufs /\ NoBuf \notin Bufs /\ NoClient \notin Clients
  BY <1>1, BCacheAssumption DEF StructureInv, TypeOK, ClientsInStep, Busy
<1>3. InCache(hold[c])
  <2>1. ht[hold[c]] = Bucket(want[c]) /\ want[c] \in Nat
    BY <1>2, BCacheAssumption DEF StructureInv, TypeOK, HeldStaysPut
  <2>. QED  BY <2>1, BucketType DEF InCache
<1>4. RefcntExact' /\ refcnt[hold[c]] > 0 /\ refcnt' \in [Bufs -> Nat]
  BY <1>1, <1>2, ReleaseCounts DEF StructureInv
<1>5. ClientsInStep' /\ pc' \in [Clients -> Phases] /\ hold' \in [Clients -> Bufs \cup {NoBuf}]
  BY <1>1, <1>2 DEF StructureInv, TypeOK, ClientsInStep, Busy, Phases
<1>6. /\ fl' \in Seq(Bufs) /\ NoDuplicates(fl')
      /\ Listed(fl') = Listed(fl) \cup {b \in {hold[c]} : refcnt[b] = 1}
  <2>1. hold[c] \notin Listed(fl)
    BY <1>4 DEF StructureInv, ListsExact
  <2>2. CASE refcnt[hold[c]] = 1
    BY <1>1, <1>2, <2>1, <2>2, AppendToList DEF Freed, StructureInv, TypeOK
  <2>3. CASE refcnt[hold[c]] # 1
    BY <1>1, <2>3 DEF Freed, StructureInv, TypeOK
  <2>. QED  BY <2>2, <2>3
<1>7. TypeOK'
  BY <1>1, <1>4, <1>5, <1>6 DEF StructureInv, TypeOK
<1>8. ListsExact'
  <2>1. /\ refcnt'[hold[c]] = 0 <=> refcnt[hold[c]] = 1
        /\ \A b \in Bufs \ {hold[c]} : refcnt'[b] = refcnt[b]
    BY <1>1, <1>2 DEF StructureInv, TypeOK
  <2>2. Listed(fl') = {b \in Bufs : InCache(b)' /\ refcnt'[b] = 0}
    BY <1>1, <1>2, <1>3, <1>4, <1>6, <2>1 DEF StructureInv, ListsExact, InCache
  <2>. QED  BY <1>1, <2>2 DEF StructureInv, ListsExact, InCache
<1>9. HeldStaysPut'
  BY <1>1, <1>2 DEF StructureInv, TypeOK, HeldStaysPut
<1>10. currsz' = Cardinality(Cached')
  BY <1>1 DEF StructureInv, Cached, InCache
<1>. QED  BY <1>1, <1>4, <1>5, <1>6, <1>7, <1>8, <1>9, <1>10 DEF StructureInv

(* One iteration of bc_flush's loop takes the head off the dirty list and  *)
(* clears its B_DIRTY.                                                     *)
LEMMA FlushBlockStep ==
    ASSUME StructureInv, NEW c \in Clients, FlushBlock(c)
    PROVE  StructureInv'
<1>. DEFINE b == Head(dl)
<1>1. /\ dl # << >> /\ pwrite(blkno[b], phys[b])
      /\ dirty' = [dirty EXCEPT ![b] = FALSE]
      /\ dl' = Tail(dl)
      /\ UNCHANGED <<ht, blkno, refcnt, bco, phys, fl, currsz, lock>>
      /\ UNCHANGED <<pc, hold, want, ret, blocks, synced>>
  BY DEF FlushBlock, clientVars, ghostVars
<1>2. /\ b \in Bufs /\ dl' \in Seq(Bufs) /\ NoDuplicates(dl')
      /\ Listed(dl') = Listed(dl) \ {b}
  BY <1>1, TailOfList DEF StructureInv, TypeOK
<1>. HIDE DEF b
<1>3. TypeOK'
  <2>1. phys[b] \in Nat
    BY <1>2 DEF StructureInv, TypeOK
  <2>2. disk' \in [Blknos -> Nat] /\ oscache' \in [Blknos -> BOOLEAN]
    BY <1>1, <2>1 DEF pwrite, StructureInv, TypeOK
  <2>3. media' \in [Blknos -> SUBSET Nat]
    BY <1>1, <2>1 DEF pwrite, StructureInv, TypeOK
  <2>. QED  BY <1>1, <1>2, <2>2, <2>3 DEF StructureInv, TypeOK
<1>4. ListsExact'
  <2>1. ~dirty'[b] /\ \A x \in Bufs \ {b} : dirty'[x] = dirty[x]
    BY <1>1, <1>2 DEF StructureInv, TypeOK
  <2>2. Listed(dl') = {x \in Bufs : dirty'[x]}
    BY <1>2, <2>1 DEF StructureInv, ListsExact
  <2>3. \A x \in Bufs : dirty'[x] => InCache(x)'
    BY <1>1, <2>1 DEF StructureInv, ListsExact, InCache
  <2>. QED  BY <1>1, <2>2, <2>3 DEF StructureInv, ListsExact, InCache
<1>5. /\ RefcntExact' /\ HeldStaysPut' /\ ClientsInStep' /\ NoDuplicates(fl')
      /\ currsz' = Cardinality(Cached')
  BY <1>1 DEF StructureInv, RefcntExact, Holders, HeldStaysPut, ClientsInStep, Cached, InCache
<1>. QED  BY <1>2, <1>3, <1>4, <1>5 DEF StructureInv

\* bc_flush taking bc_lock, and giving it back.
LEMMA FlushLockStep ==
    ASSUME StructureInv, NEW c \in Clients, FlushBegin(c) \/ FlushEnd(c) \/ FlushError(c)
    PROVE  StructureInv'
<1>1. NoClient \notin Clients
  BY BCacheAssumption
<1>2. UNCHANGED <<ht, blkno, refcnt, dirty, bco, phys, fl, dl, currsz, hold, want, blocks>>
  BY DEF FlushBegin, FlushEnd, FlushError, FlushReturn, ghostVars
<1>3. /\ ret' \in [Clients -> Results] /\ lock' \in Clients \cup {NoClient}
      /\ pc' \in [Clients -> Phases] /\ synced' \in [Blknos -> Nat]
  BY DEF FlushBegin, FlushEnd, FlushError, FlushReturn, ghostVars, StructureInv, TypeOK,
         Results, Phases
<1>4. ClientsInStep'
  <2>1. CASE FlushBegin(c)
    BY <1>1, <2>1 DEF FlushBegin, Calling, StructureInv, TypeOK, ClientsInStep, Busy
  <2>2. CASE FlushEnd(c) \/ FlushError(c)
    BY <1>1, <2>2 DEF FlushEnd, FlushError, FlushReturn, StructureInv, TypeOK, ClientsInStep, Busy
  <2>. QED  BY <2>1, <2>2
<1>5. /\ disk' \in [Blknos -> Nat] /\ media' \in [Blknos -> SUBSET Nat]
      /\ oscache' \in [Blknos -> BOOLEAN]
  <2>1. CASE FlushBegin(c)
    BY <2>1 DEF FlushBegin, deviceVars, StructureInv, TypeOK
  <2>2. CASE FlushEnd(c)
    BY <2>2 DEF FlushEnd, fsync, StructureInv, TypeOK
  <2>3. CASE FlushError(c)
    BY <2>3 DEF FlushError, fsync_fails, deviceVars, StructureInv, TypeOK
  <2>. QED  BY <2>1, <2>2, <2>3
<1>6. TypeOK'
  BY <1>2, <1>3, <1>5 DEF StructureInv, TypeOK
<1>. QED  BY <1>2, <1>4, <1>6, QuietStep

\* bc_create on whatever the file holds.
LEMMA ReopenStep ==
    ASSUME StructureInv, Reopen,
           disk' \in [Blknos -> Nat], media' \in [Blknos -> SUBSET Nat],
           oscache' \in [Blknos -> BOOLEAN], blocks' \in [Blknos -> Nat],
           UNCHANGED synced
    PROVE  StructureInv'
<1>1. /\ Cardinality(Bufs) \in Nat
      /\ NoClient \notin Clients /\ NoBuf \notin Bufs
  BY BCacheAssumption, BufsCount
<1>2. TypeOK'
  BY <1>1, EmptySeq DEF StructureInv, Reopen, TypeOK, Fresh, Phases, Results, NoBucket
<1>3. NoDuplicates(fl') /\ NoDuplicates(dl') /\ ListsExact'
  BY DEF Reopen, NoDuplicates, ListsExact, Listed, InCache, Fresh
<1>4. RefcntExact'
  <2>1. ASSUME NEW b \in Bufs  PROVE Holders(b)' = {}
    BY <1>1 DEF Reopen, Fresh, Holders
  <2>. QED  BY <2>1, FS_EmptySet DEF Reopen, Fresh, RefcntExact
<1>5. HeldStaysPut' /\ ClientsInStep'
  BY <1>1 DEF Reopen, Fresh, HeldStaysPut, ClientsInStep, Busy
<1>6. currsz' = Cardinality(Cached')
  <2>1. Cached' = {}
    BY DEF Reopen, Fresh, Cached, InCache
  <2>. QED  BY <2>1, FS_EmptySet DEF Reopen
<1>. QED  BY <1>2, <1>3, <1>4, <1>5, <1>6 DEF StructureInv

(* bc_destroy and a crash start over with an empty cache.                  *)
LEMMA RestartStep ==
    ASSUME StructureInv, bc_destroy \/ Crash
    PROVE  StructureInv'
<1>1. CASE bc_destroy
  BY <1>1, ReopenStep DEF bc_destroy, deviceVars, StructureInv, TypeOK
<1>2. CASE Crash
  <2>1. /\ Reopen /\ media' = [n \in Blknos |-> {disk'[n]}]
        /\ oscache' = [n \in Blknos |-> FALSE] /\ blocks' = disk' /\ UNCHANGED synced
    BY <1>2 DEF Crash
  <2>2. disk' \in [Blknos -> Nat]
    <3>1. disk' \in [Blknos -> UNION {media[n] : n \in Blknos}]
      BY <1>2 DEF Crash
    <3>2. \A n \in Blknos : disk'[n] \in media[n] /\ media[n] \subseteq Nat
      BY <1>2 DEF Crash, StructureInv, TypeOK
    <3>. QED  BY <3>1, <3>2
  <2>. QED  BY <2>1, <2>2, ReopenStep
<1>. QED  BY <1>1, <1>2

(* Every step keeps the invariant.                                         *)
LEMMA NextStructure == StructureInv /\ [Next]_vars => StructureInv'
<1>1. SUFFICES ASSUME StructureInv, [Next]_vars  PROVE StructureInv'
  OBVIOUS
<1>2. CASE UNCHANGED vars
  <2>1. /\ UNCHANGED <<ht, blkno, refcnt, dirty, bco, phys, fl, dl, currsz, lock>>
        /\ UNCHANGED <<disk, media, oscache, pc, hold, want, ret, blocks, synced>>
    BY <1>2 DEF vars, cacheVars, deviceVars, clientVars, ghostVars
  <2>2. TypeOK' /\ ClientsInStep'
    BY <1>1, <2>1 DEF StructureInv, TypeOK, ClientsInStep
  <2>. QED  BY <1>1, <2>1, <2>2, QuietStep
<1>3. ASSUME NEW c \in Clients, NEW n \in Blknos, bc_get(c, n)  PROVE StructureInv'
  BY <1>1, <1>3, bc_getStep
<1>4. ASSUME NEW c \in Clients, Use(c)  PROVE StructureInv'
  BY <1>1, <1>4, ReadStep, WriteStep, bc_dirtyStep, bc_releaseStep DEF Use
<1>5. ASSUME NEW c \in Clients, bc_flush(c)  PROVE StructureInv'
  BY <1>1, <1>5, FlushBlockStep, FlushLockStep DEF bc_flush
<1>6. CASE bc_destroy \/ Crash
  BY <1>1, <1>6, RestartStep
<1>. QED  BY <1>1, <1>2, <1>3, <1>4, <1>5, <1>6 DEF Next

(* The inductive invariant holds in every reachable state.                 *)
THEOREM StructureInvariant == Spec => []StructureInv
<1>1. Init => StructureInv
  BY InitStructure
<1>2. StructureInv /\ [Next]_vars => StructureInv'
  BY NextStructure
<1>. QED  BY <1>1, <1>2, PTL DEF Spec

-----------------------------------------------------------------------------
(* What it gives                                                           *)

(* bc_get, bc_dirty, bc_release, bc_flush, bc_destroy and bc_create keep   *)
(* every field of the cache in its range, whatever fails: no reference     *)
(* count below zero, no chain outside the table, no more buffers than      *)
(* bc_maxsz allows.                                                        *)
THEOREM TypeCorrect == Spec => []TypeOK
<1>1. StructureInv => TypeOK
  BY DEF StructureInv
<1>. QED  BY <1>1, StructureInvariant, PTL

(* The free list holds exactly the cached buffers nobody has, and the      *)
(* dirty list exactly the dirty ones, whatever bc_get and bc_flush failed  *)
(* to do.                                                                  *)
THEOREM FreeAndDirtyLists == Spec => []ListsExact
<1>1. StructureInv => ListsExact
  BY DEF StructureInv
<1>. QED  BY <1>1, StructureInvariant, PTL

(* bl_refcnt is the number of clients between bc_get and bc_release.       *)
THEOREM ReferenceCounts == Spec => []RefcntExact
<1>1. StructureInv => RefcntExact
  BY DEF StructureInv
<1>. QED  BY <1>1, StructureInvariant, PTL

(* A buffer that somebody has is never evicted under them.                 *)
THEOREM NeverEvictedInUse == Spec => []HeldStaysPut
<1>1. StructureInv => HeldStaysPut
  BY DEF StructureInv
<1>. QED  BY <1>1, StructureInvariant, PTL

(* No assertion of bc_check can fail, whenever it is called.               *)
THEOREM CheckPasses == Spec => []CheckNeverAsserts
<1>1. StructureInv => CheckNeverAsserts
  <2>1. SUFFICES ASSUME StructureInv  PROVE bc_check
    BY DEF CheckNeverAsserts
  <2>2. \A b \in Bufs : InCache(b) => b \in Listed(fl) \/ refcnt[b] > 0
    BY <2>1 DEF StructureInv, TypeOK, ListsExact
  <2>3. \A b \in Bufs : dirty[b] => b \in Listed(dl)
    BY <2>1 DEF StructureInv, ListsExact
  <2>4. currsz <= Cardinality(Bufs)
    BY <2>1, BufsCount DEF StructureInv, TypeOK
  <2>. QED  BY <2>1, <2>2, <2>3, <2>4 DEF StructureInv, bc_check
<1>. QED  BY <1>1, StructureInvariant, PTL

-----------------------------------------------------------------------------
(***************************************************************************)
(* What the cache keeps in its buffers, in the file and on the medium.     *)
(*                                                                         *)
(* Four invariants on top of StructureInv, each on top of the ones before  *)
(* it, with the failures of the environment it does not survive:           *)
(*   LocksExclude   none: bl_rwlock keeps a modifier alone;                *)
(*   Placed         bco_init: bc_get then leaves a renumbered buffer on    *)
(*                  its old chain;                                         *)
(*   Current        also a short pread, which overwrites a cached buffer;  *)
(*   Durable        also fsync, after which a write may be lost for good.  *)
(***************************************************************************)
Modifying == {"writing", "written"}

\* The half-done image of a block that holds v.
Half(v) == 2 * (v \div 2) + 1

\* bl_rwlock: while a client modifies a buffer the others that have it wait.
LocksExclude ==
    \A c, d \in Clients :
        c # d /\ hold[c] = hold[d] /\ pc[c] \in Modifying => pc[d] = "got"

\* A cached buffer has the number of a block; no two have the same.
Placed ==
    /\ \A b \in Bufs : InCache(b) => blkno[b] \in Blknos
    /\ OneCopy

\* A buffer nobody modifies has the last completed write.
BufferCurrent ==
    \A b \in Bufs : InCache(b) /\ Users(b, Modifying) = {} => phys[b] = blocks[blkno[b]]

\* A modification starts from the last completed write.
BufferModified ==
    \A c \in Clients :
        /\ pc[c] = "writing" => phys[hold[c]] = Half(blocks[want[c]])
        /\ pc[c] = "written" => phys[hold[c]] = Half(blocks[want[c]]) + 1

\* FileBehindOnlyIfDirty is not inductive: while a block is modified, the file
\* may already have more than its last completed write, but not less, unless
\* its buffer is dirty.
FileNotBehind ==
    \A n \in Blknos :
        \/ disk[n] = blocks[n]
        \/ \E b \in Bufs : blkno[b] = n /\ dirty[b]
        \/ Writing(n) /\ disk[n] >= blocks[n]

Current == BufferCurrent /\ BufferModified /\ FileNotBehind

\* What the file shows may be what the medium has; when the kernel owes the
\* medium nothing, it is.
Settled ==
    \A n \in Blknos : disk[n] \in media[n] /\ (~oscache[n] => media[n] = {disk[n]})

Durable ==
    /\ Settled
    /\ FlushedIsDurable
    /\ \A n \in Blknos : blocks[n] >= synced[n]

-----------------------------------------------------------------------------
(* Facts used throughout                                                   *)

\* A half-done image is never behind the block it replaces.
LEMMA HalfAhead ==
    ASSUME NEW v \in Nat
    PROVE  Half(v) \in Nat /\ Half(v) >= v
BY DEF Half

\* A client past bc_get has a cached buffer with the number it asked for.
LEMMA HeldBuffer ==
    ASSUME StructureInv, NEW c \in Clients, pc[c] \in Busy
    PROVE  /\ hold[c] \in Bufs /\ hold[c] # NoBuf
           /\ InCache(hold[c]) /\ blkno[hold[c]] = want[c]
<1>1. hold[c] \in Bufs /\ hold[c] # NoBuf /\ want[c] \in Nat
  BY BCacheAssumption DEF StructureInv, TypeOK, ClientsInStep
<1>2. blkno[hold[c]] = want[c] /\ ht[hold[c]] = Bucket(want[c])
  BY <1>1 DEF StructureInv, HeldStaysPut
<1>. QED  BY <1>1, <1>2, BucketType DEF InCache

\* Steps that begin and end no modification.
LEMMA SameModifiers ==
    ASSUME NEW c \in Clients, pc[c] \notin Modifying, pc'[c] \notin Modifying,
           \A d \in Clients \ {c} :
               pc'[d] = pc[d] /\ hold'[d] = hold[d] /\ want'[d] = want[d]
    PROVE  /\ \A b \in Bufs : Users(b, Modifying)' = Users(b, Modifying)
           /\ \A n \in Blknos : Writing(n)' <=> Writing(n)
<1>1. ASSUME NEW b \in Bufs  PROVE Users(b, Modifying)' = Users(b, Modifying)
  BY DEF Users, Modifying
<1>2. ASSUME NEW n \in Blknos  PROVE Writing(n)' <=> Writing(n)
  BY DEF Writing, Modifying
<1>. QED  BY <1>1, <1>2

-----------------------------------------------------------------------------
(* The block locks                                                         *)

\* One client moves; it may not start to modify a buffer while others read or
\* modify it, nor read it while others modify it.
LEMMA OneClientMoves ==
    ASSUME StructureInv, LocksExclude, StructureInv', NEW c \in Clients,
           \A d \in Clients \ {c} : pc'[d] = pc[d] /\ hold'[d] = hold[d],
           \/ pc'[c] = "got"
           \/ pc'[c] \notin Busy
           \/ /\ pc'[c] = "reading" /\ pc[c] = "got" /\ hold' = hold
              /\ Users(hold[c], Modifying) = {}
           \/ /\ pc'[c] = "writing" /\ pc[c] = "got" /\ hold' = hold
              /\ Users(hold[c], Modifying \cup {"reading"}) = {}
           \/ pc'[c] = "written" /\ pc[c] = "writing" /\ hold' = hold
    PROVE  LocksExclude'
<1>1. SUFFICES ASSUME NEW d \in Clients, NEW e \in Clients, d # e,
                      hold'[d] = hold'[e], pc'[d] \in Modifying
               PROVE  pc'[e] = "got"
  BY DEF LocksExclude
<1>2. hold'[d] # NoBuf /\ pc'[e] \in Busy
  BY <1>1 DEF StructureInv, ClientsInStep, Busy, Modifying
<1>3. CASE d # c /\ e # c
  BY <1>1, <1>3 DEF LocksExclude
<1>4. CASE d = c
  <2>1. pc'[e] = pc[e] /\ hold'[e] = hold[e]
    BY <1>1, <1>4
  <2>2. CASE pc[c] = "writing"
    BY <1>1, <1>2, <1>4, <2>1, <2>2 DEF LocksExclude, Modifying, Busy
  <2>3. CASE pc[c] # "writing"
    <3>1. /\ pc'[c] = "writing" /\ pc[c] = "got" /\ hold' = hold
          /\ Users(hold[c], Modifying \cup {"reading"}) = {}
      BY <1>1, <1>4, <2>3 DEF Modifying, Busy
    <3>. QED  BY <1>1, <1>2, <1>4, <2>1, <3>1 DEF Users, Modifying, Busy
  <2>. QED  BY <2>2, <2>3
<1>5. CASE e = c
  <2>1. pc'[d] = pc[d] /\ hold'[d] = hold[d] /\ pc[d] \in Modifying
    BY <1>1, <1>5
  <2>2. CASE pc'[c] = "got"
    BY <1>5, <2>2
  <2>3. CASE pc'[c] # "got"
    <3>1. hold' = hold /\ pc[c] \in {"got", "writing"}
      BY <1>2, <1>5, <2>3
    <3>2. pc[c] = "got"
      BY <1>1, <1>5, <2>1, <3>1 DEF LocksExclude, Modifying
    <3>. QED  BY <1>1, <1>2, <1>5, <2>1, <2>3, <3>1, <3>2 DEF Users, Modifying, Busy
  <2>. QED  BY <2>2, <2>3
<1>. QED  BY <1>1, <1>3, <1>4, <1>5

\* What bc_get does to its caller, whether it succeeds or fails.
LEMMA GetCaller ==
    ASSUME StructureInv, NEW c \in Clients, NEW n \in Blknos, bc_get(c, n)
    PROVE  /\ pc[c] = "idle"
           /\ pc'[c] \in {"idle", "got"}
           /\ \A d \in Clients \ {c} :
                 pc'[d] = pc[d] /\ hold'[d] = hold[d] /\ want'[d] = want[d]
<1>1. pc[c] = "idle"
  BY DEF bc_get, GetHit, GetNoBlocks, GetEvict, GetEvictWriteError, GetEvictReadError,
         GetEvictInitError, GetAlloc, GetAllocError, Evicting, Missing, Calling
<1>2. (\E e \in Results : Failed(c, e)) \/ (\E b : Got(c, n, b))
  BY DEF bc_get, GetHit, GetNoBlocks, GetEvict, GetEvictWriteError, GetEvictReadError,
         GetEvictInitError, GetAlloc, GetAllocError, Results
<1>. QED  BY <1>1, <1>2 DEF Failed, Got, StructureInv, TypeOK

(* bl_rwlock excludes, whichever calls fail: tbco_lock_exclusive waits for *)
(* everyone who has the block locked, tbco_lock_shared for its modifier.   *)
LEMMA LocksStep ==
    ASSUME StructureInv, LocksExclude, [Next]_vars
    PROVE  LocksExclude'
<1>0. StructureInv'
  BY NextStructure
<1>1. ASSUME NEW c \in Clients, NEW n \in Blknos, bc_get(c, n)  PROVE LocksExclude'
  BY <1>0, <1>1, GetCaller, OneClientMoves DEF Busy
<1>2. ASSUME NEW c \in Clients, Use(c)  PROVE LocksExclude'
  <2>1. /\ pc[c] \in Busy /\ pc' = [pc EXCEPT ![c] = pc'[c]]
        /\ hold' = [hold EXCEPT ![c] = hold'[c]]
    BY <1>2 DEF Use, BeginRead, EndRead, BeginWrite, EndWrite, bc_dirty, bc_release,
                Busy, StructureInv, TypeOK
  <2>2. \A d \in Clients \ {c} : pc'[d] = pc[d] /\ hold'[d] = hold[d]
    BY <2>1 DEF StructureInv, TypeOK
  <2>3. CASE BeginRead(c)
    BY <1>0, <2>2, <2>3, OneClientMoves DEF BeginRead, StructureInv, TypeOK, Modifying
  <2>4. CASE BeginWrite(c)
    <3>1. Modifying \cup {"reading"} = {"reading", "writing", "written"}
      BY DEF Modifying
    <3>. QED  BY <1>0, <2>2, <2>4, <3>1, OneClientMoves DEF BeginWrite, StructureInv, TypeOK
  <2>5. CASE EndRead(c) \/ EndWrite(c) \/ bc_dirty(c) \/ bc_release(c)
    <3>1. \/ pc'[c] = "got"
          \/ pc'[c] \notin Busy
          \/ pc'[c] = "written" /\ pc[c] = "writing" /\ hold' = hold
      BY <2>5 DEF EndRead, EndWrite, bc_dirty, bc_release, StructureInv, TypeOK, Busy
    <3>. QED  BY <1>0, <2>2, <3>1, OneClientMoves
  <2>. QED  BY <1>2, <2>3, <2>4, <2>5 DEF Use
<1>3. ASSUME NEW c \in Clients, bc_flush(c)  PROVE LocksExclude'
  <2>1. CASE FlushBlock(c)
    BY <2>1 DEF FlushBlock, clientVars, LocksExclude
  <2>2. CASE FlushBegin(c) \/ FlushEnd(c) \/ FlushError(c)
    <3>1. /\ pc'[c] \notin Busy
          /\ \A d \in Clients \ {c} : pc'[d] = pc[d] /\ hold'[d] = hold[d]
      BY <2>2 DEF FlushBegin, FlushEnd, FlushError, FlushReturn, StructureInv, TypeOK, Busy
    <3>. QED  BY <1>0, <3>1, OneClientMoves
  <2>. QED  BY <1>3, <2>1, <2>2 DEF bc_flush
<1>4. CASE bc_destroy \/ Crash
  BY <1>4 DEF bc_destroy, Crash, Reopen, Fresh, LocksExclude, Modifying
<1>5. CASE UNCHANGED vars
  BY <1>5 DEF vars, clientVars, LocksExclude
<1>. QED  BY <1>1, <1>2, <1>3, <1>4, <1>5 DEF Next

-----------------------------------------------------------------------------
(* Where a block is                                                        *)

\* bc_get takes a buffer for a block that is not on its chain: nor anywhere
\* else.
LEMMA NotCached ==
    ASSUME StructureInv, Placed, NEW n \in Blknos, Hits(n) = {}, NEW b \in Bufs, InCache(b)
    PROVE  blkno[b] # n
BY DEF Placed, OneCopy, Hits

\* A buffer moved to a block that was not cached.
LEMMA Renumbered ==
    ASSUME StructureInv, Placed, NEW n \in Blknos, Hits(n) = {}, NEW b \in Bufs,
           ht' = [ht EXCEPT ![b] = Bucket(n)], blkno' = [blkno EXCEPT ![b] = n]
    PROVE  Placed'
<1>1. ht'[b] = Bucket(n) /\ blkno'[b] = n
  BY DEF StructureInv, TypeOK
<1>2. ASSUME NEW x \in Bufs \ {b}, InCache(x)'
      PROVE  /\ InCache(x) /\ blkno'[x] = blkno[x] /\ ht'[x] = ht[x]
             /\ blkno[x] \in Blknos /\ blkno[x] # n /\ ht[x] = Bucket(blkno[x])
  <2>1. blkno'[x] = blkno[x] /\ ht'[x] = ht[x]
    BY DEF StructureInv, TypeOK
  <2>2. InCache(x)
    BY <1>2, <2>1 DEF InCache
  <2>. QED  BY <2>1, <2>2, NotCached DEF Placed, OneCopy
<1>3. \A x \in Bufs : InCache(x)' => blkno'[x] \in Blknos /\ ht'[x] = Bucket(blkno'[x])
  BY <1>1, <1>2
<1>4. \A x, y \in Bufs : InCache(x)' /\ InCache(y)' /\ blkno'[x] = blkno'[y] => x = y
  BY <1>1, <1>2 DEF Placed, OneCopy
<1>5. OneCopy'
  BY <1>3, <1>4 DEF OneCopy
<1>. QED  BY <1>3, <1>5 DEF Placed

(* Buffers change number and chain together, in bc_get, and only for a     *)
(* block that is not cached.                                               *)
LEMMA PlacedStep ==
    ASSUME StructureInv, Placed, "bco_init" \notin Faults, [Next]_vars
    PROVE  Placed'
<1>1. CASE UNCHANGED <<ht, blkno>>
  BY <1>1 DEF Placed, OneCopy, InCache
<1>2. ASSUME NEW c \in Clients, NEW n \in Blknos, bc_get(c, n)  PROVE Placed'
  <2>1. CASE GetEvict(c, n)
    <3>1. /\ Evicting(c, n) /\ WriteBackVictim /\ Hits(n) = {}
          /\ ht' = [ht EXCEPT ![Victim] = Bucket(n)]
          /\ blkno' = [blkno EXCEPT ![Victim] = n]
      BY <2>1 DEF GetEvict, Evicting, Missing
    <3>2. Victim \in Bufs
      BY <3>1, VictimStep
    <3>. QED  BY <3>1, <3>2, Renumbered
  <2>2. CASE GetAlloc(c, n)
    BY <2>2, Renumbered DEF GetAlloc, Missing
  <2>3. CASE ~GetEvict(c, n) /\ ~GetAlloc(c, n)
    <3>1. UNCHANGED <<ht, blkno>>
      BY <1>2, <2>3 DEF bc_get, GetHit, GetNoBlocks, GetEvictWriteError,
         GetEvictReadError, GetEvictInitError, GetAllocError, cacheVars
    <3>. QED  BY <1>1, <3>1
  <2>. QED  BY <2>1, <2>2, <2>3
<1>3. ASSUME NEW c \in Clients, Use(c) \/ bc_flush(c)  PROVE UNCHANGED <<ht, blkno>>
  BY <1>3 DEF Use, BeginRead, EndRead, BeginWrite, EndWrite, bc_dirty, bc_release,
              bc_flush, FlushBegin, FlushBlock, FlushEnd, FlushError, FlushReturn, cacheVars
<1>4. CASE bc_destroy \/ Crash
  BY <1>4 DEF bc_destroy, Crash, Reopen, Fresh, Placed, OneCopy, InCache
<1>5. CASE UNCHANGED vars
  BY <1>1, <1>5 DEF vars, cacheVars
<1>. QED  BY <1>1, <1>2, <1>3, <1>4, <1>5 DEF Next

-----------------------------------------------------------------------------
(* What is in the buffers and in the file                                  *)

\* Everything the data depends on; each lemma below shows what one action
\* makes of Current.
DataInv == StructureInv /\ LocksExclude /\ Placed /\ Current

\* The image in a cached buffer is never behind the last completed write.
LEMMA ImageAhead ==
    ASSUME DataInv, NEW b \in Bufs, InCache(b)
    PROVE  /\ blkno[b] \in Blknos
           /\ phys[b] >= blocks[blkno[b]]
           /\ phys[b] = blocks[blkno[b]] \/ Writing(blkno[b])
<1>1. blkno[b] \in Blknos /\ blocks[blkno[b]] \in Nat
  BY DEF DataInv, Placed, StructureInv, TypeOK
<1>2. CASE Users(b, Modifying) = {}
  BY <1>1, <1>2 DEF DataInv, Current, BufferCurrent
<1>3. CASE Users(b, Modifying) # {}
  <2>1. PICK c \in Clients : hold[c] = b /\ pc[c] \in Modifying
    BY <1>3 DEF Users
  <2>2. blkno[b] = want[c] /\ hold[c] # NoBuf
    BY <2>1, HeldBuffer DEF DataInv, Busy, Modifying
  <2>3. phys[b] = Half(blocks[want[c]]) \/ phys[b] = Half(blocks[want[c]]) + 1
    BY <2>1 DEF DataInv, Current, BufferModified, Modifying
  <2>. QED  BY <1>1, <2>1, <2>2, <2>3, HalfAhead DEF Writing, Modifying
<1>. QED  BY <1>2, <1>3

\* A block that is not cached is in the file.
LEMMA UncachedInFile ==
    ASSUME DataInv, NEW n \in Blknos, Hits(n) = {}
    PROVE  disk[n] = blocks[n] /\ ~Writing(n)
<1>1. \A b \in Bufs : InCache(b) => blkno[b] # n
  BY NotCached DEF DataInv
<1>2. ~Writing(n)
  <2>1. ASSUME NEW c \in Clients, want[c] = n, pc[c] \in Modifying  PROVE FALSE
    BY <1>1, <2>1, HeldBuffer DEF DataInv, Busy, Modifying
  <2>. QED  BY <2>1 DEF Writing, Modifying
<1>3. \A b \in Bufs : dirty[b] => blkno[b] # n
  BY <1>1 DEF DataInv, StructureInv, ListsExact
<1>. QED  BY <1>2, <1>3 DEF DataInv, Current, FileNotBehind

\* Steps that leave the data alone, and begin and end no modification.
LEMMA QuietData ==
    ASSUME DataInv, NEW c \in Clients, pc[c] \notin Modifying, pc'[c] \notin Modifying,
           \A d \in Clients \ {c} :
               pc'[d] = pc[d] /\ hold'[d] = hold[d] /\ want'[d] = want[d],
           UNCHANGED <<ht, blkno, dirty, phys, disk, blocks>>
    PROVE  Current'
<1>1. /\ \A b \in Bufs : Users(b, Modifying)' = Users(b, Modifying)
      /\ \A n \in Blknos : Writing(n)' <=> Writing(n)
  BY SameModifiers
<1>2. BufferCurrent' /\ FileNotBehind'
  BY <1>1 DEF DataInv, Current, BufferCurrent, FileNotBehind, InCache
<1>3. BufferModified'
  BY DEF DataInv, Current, BufferModified, Modifying
<1>. QED  BY <1>2, <1>3 DEF Current

\* The victim of an eviction is written back if it is dirty: the file is not
\* behind afterwards, and has the block the buffer is wanted for.
LEMMA VictimData ==
    ASSUME DataInv, NEW c \in Clients, NEW n \in Blknos, Evicting(c, n), WriteBackVictim
    PROVE  /\ blkno[Victim] \in Blknos \ {n}
           /\ phys[Victim] = blocks[blkno[Victim]]
           /\ disk'[n] = blocks[n]
           /\ \A m \in Blknos :
                \/ disk'[m] = blocks[m]
                \/ \E b \in Bufs \ {Victim} : blkno[b] = m /\ dirty'[b]
                \/ Writing(m) /\ disk'[m] >= blocks[m]
<1>1. /\ Victim \in Bufs /\ InCache(Victim)
      /\ \A d \in Clients : hold[d] # Victim
      /\ dirty' \in [Bufs -> BOOLEAN]
      /\ \A b \in Bufs \ {Victim} : dirty'[b] = dirty[b]
  BY VictimStep DEF DataInv
<1>2. blkno[Victim] \in Blknos /\ phys[Victim] = blocks[blkno[Victim]]
  BY <1>1 DEF DataInv, Placed, Current, BufferCurrent, Users
<1>3. blkno[Victim] # n /\ disk[n] = blocks[n]
  BY <1>1, NotCached, UncachedInFile DEF DataInv, Evicting, Missing
<1>4. CASE dirty[Victim]
  <2>1. disk' = [disk EXCEPT ![blkno[Victim]] = phys[Victim]]
    BY <1>4 DEF WriteBackVictim, pwrite
  <2>2. /\ disk'[blkno[Victim]] = blocks[blkno[Victim]]
        /\ \A m \in Blknos \ {blkno[Victim]} : disk'[m] = disk[m]
    BY <1>2, <2>1 DEF DataInv, StructureInv, TypeOK
  <2>. QED  BY <1>1, <1>2, <1>3, <2>2 DEF DataInv, Current, FileNotBehind
<1>5. CASE ~dirty[Victim]
  <2>1. disk' = disk /\ dirty' = dirty
    BY <1>5 DEF WriteBackVictim, deviceVars
  <2>. QED  BY <1>1, <1>2, <1>3, <1>5, <2>1 DEF DataInv, Current, FileNotBehind
<1>. QED  BY <1>4, <1>5

\* A buffer filled from the file for a block that was not cached.
LEMMA FilledData ==
    ASSUME DataInv, NEW c \in Clients, NEW n \in Blknos, NEW b \in Bufs,
           Calling(c), Got(c, n, b), \A d \in Clients : hold[d] # b,
           phys' = [phys EXCEPT ![b] = disk'[n]], disk'[n] = blocks[n],
           blkno' = [blkno EXCEPT ![b] = n], ht' = [ht EXCEPT ![b] = Bucket(n)],
           \A m \in Blknos :
                \/ disk'[m] = blocks[m]
                \/ \E x \in Bufs \ {b} : blkno[x] = m /\ dirty'[x]
                \/ Writing(m) /\ disk'[m] >= blocks[m],
           blocks' = blocks
    PROVE  Current'
<1>1. /\ pc[c] = "idle" /\ pc'[c] = "got"
      /\ \A d \in Clients \ {c} : pc'[d] = pc[d] /\ hold'[d] = hold[d] /\ want'[d] = want[d]
  BY DEF Calling, Got, DataInv, StructureInv, TypeOK
<1>2. /\ \A x \in Bufs : Users(x, Modifying)' = Users(x, Modifying)
      /\ \A m \in Blknos : Writing(m)' <=> Writing(m)
  BY <1>1, SameModifiers DEF Modifying
<1>3. /\ phys'[b] = blocks'[blkno'[b]]
      /\ \A x \in Bufs \ {b} : phys'[x] = phys[x] /\ blkno'[x] = blkno[x] /\ ht'[x] = ht[x]
  BY DEF DataInv, StructureInv, TypeOK
<1>4. BufferCurrent'
  BY <1>2, <1>3 DEF DataInv, Current, BufferCurrent, InCache
<1>5. BufferModified'
  <2>1. ASSUME NEW d \in Clients, pc'[d] \in Modifying
        PROVE  /\ pc'[d] = pc[d] /\ want'[d] = want[d] /\ hold'[d] = hold[d]
               /\ phys'[hold'[d]] = phys[hold[d]]
    <3>1. d # c /\ hold[d] \in Bufs \ {b}
      BY <1>1, <2>1, HeldBuffer DEF DataInv, Modifying, Busy
    <3>. QED  BY <1>1, <1>3, <3>1
  <2>. QED  BY <2>1 DEF DataInv, Current, BufferModified, Modifying
<1>6. FileNotBehind'
  BY <1>2, <1>3 DEF FileNotBehind
<1>. QED  BY <1>4, <1>5, <1>6 DEF Current

(* bc_get hands out a buffer with the last completed write to its block,   *)
(* and drops no block that is not in the file.                             *)
LEMMA bc_getData ==
    ASSUME DataInv, "short_read" \notin Faults, "bco_init" \notin Faults,
           NEW c \in Clients, NEW n \in Blknos, bc_get(c, n)
    PROVE  Current'
<1>1. /\ pc[c] \notin Modifying /\ pc'[c] \notin Modifying
      /\ \A d \in Clients \ {c} : pc'[d] = pc[d] /\ hold'[d] = hold[d] /\ want'[d] = want[d]
  BY GetCaller DEF DataInv, Modifying
<1>2. CASE GetHit(c, n) \/ GetNoBlocks(c, n) \/ GetEvictWriteError(c, n) \/ GetAllocError(c, n)
  <2>1. UNCHANGED <<ht, blkno, dirty, phys, disk, blocks>>
    BY <1>2 DEF GetHit, GetNoBlocks, GetEvictWriteError, GetAllocError,
                cacheVars, deviceVars, ghostVars
  <2>. QED  BY <1>1, <2>1, QuietData
<1>3. CASE GetEvict(c, n)
  <2>1. /\ Evicting(c, n) /\ WriteBackVictim /\ Got(c, n, Victim) /\ Calling(c)
        /\ phys' = [phys EXCEPT ![Victim] = disk'[n]]
        /\ blkno' = [blkno EXCEPT ![Victim] = n]
        /\ ht' = [ht EXCEPT ![Victim] = Bucket(n)]
        /\ blocks' = blocks
    BY <1>3 DEF GetEvict, Evicting, Missing, ghostVars
  <2>2. Victim \in Bufs /\ \A d \in Clients : hold[d] # Victim
    BY <2>1, VictimStep DEF DataInv
  <2>3. /\ disk'[n] = blocks[n]
        /\ \A m \in Blknos :
                \/ disk'[m] = blocks[m]
                \/ \E x \in Bufs \ {Victim} : blkno[x] = m /\ dirty'[x]
                \/ Writing(m) /\ disk'[m] >= blocks[m]
    BY <2>1, VictimData
  <2>. QED  BY <2>1, <2>2, <2>3, FilledData
<1>4. CASE GetEvictReadError(c, n)
  <2>1. /\ Evicting(c, n) /\ WriteBackVictim
        /\ UNCHANGED <<ht, blkno, phys, blocks>>
    BY <1>4 DEF GetEvictReadError, ghostVars
  <2>2. \A m \in Blknos :
                \/ disk'[m] = blocks[m]
                \/ \E x \in Bufs \ {Victim} : blkno[x] = m /\ dirty'[x]
                \/ Writing(m) /\ disk'[m] >= blocks[m]
    BY <2>1, VictimData
  <2>3. /\ \A x \in Bufs : Users(x, Modifying)' = Users(x, Modifying)
        /\ \A m \in Blknos : Writing(m)' <=> Writing(m)
    BY <1>1, SameModifiers
  <2>4. BufferCurrent' /\ FileNotBehind'
    BY <2>1, <2>2, <2>3 DEF DataInv, Current, BufferCurrent, FileNotBehind, InCache
  <2>5. BufferModified'
    BY <1>1, <2>1 DEF DataInv, Current, BufferModified, Modifying
  <2>. QED  BY <2>4, <2>5 DEF Current
<1>5. CASE GetAlloc(c, n)
  <2>1. PICK b \in Bufs :
          /\ ~InCache(b) /\ Got(c, n, b)
          /\ ht' = [ht EXCEPT ![b] = Bucket(n)]
          /\ blkno' = [blkno EXCEPT ![b] = n]
          /\ phys' = [phys EXCEPT ![b] = disk[n]]
    BY <1>5 DEF GetAlloc
  <2>2. Calling(c) /\ Hits(n) = {} /\ UNCHANGED <<dirty, disk, blocks>>
    BY <1>5 DEF GetAlloc, Missing, deviceVars, ghostVars
  <2>3. \A d \in Clients : hold[d] # b
    BY <2>1, HeldBuffer, BCacheAssumption DEF DataInv, StructureInv, ClientsInStep
  <2>4. disk'[n] = blocks[n]
    BY <2>2, UncachedInFile
  <2>5. \A m \in Blknos :
                \/ disk'[m] = blocks[m]
                \/ \E x \in Bufs \ {b} : blkno[x] = m /\ dirty'[x]
                \/ Writing(m) /\ disk'[m] >= blocks[m]
    <3>1. ~dirty[b]
      BY <2>1 DEF DataInv, StructureInv, ListsExact
    <3>. QED  BY <2>2, <3>1 DEF DataInv, Current, FileNotBehind
  <2>. QED  BY <2>1, <2>2, <2>3, <2>4, <2>5, FilledData
<1>6. ~GetEvictInitError(c, n)
  BY DEF GetEvictInitError
<1>. QED  BY <1>2, <1>3, <1>4, <1>5, <1>6 DEF bc_get

\* Both halves of a modification touch one buffer, which nobody else reads.
LEMMA ModifyData ==
    ASSUME DataInv, NEW c \in Clients, BeginWrite(c) \/ EndWrite(c)
    PROVE  Current'
<1>. DEFINE b == hold[c]
<1>1. /\ pc[c] \in {"got", "writing"}
      /\ pc' = [pc EXCEPT ![c] = pc'[c]] /\ pc'[c] \in Modifying
      /\ phys' = [phys EXCEPT ![b] = phys'[b]]
      /\ UNCHANGED <<ht, blkno, dirty, disk, hold, want, blocks>>
  BY DEF BeginWrite, EndWrite, deviceVars, ghostVars, DataInv, StructureInv, TypeOK, Modifying
<1>2. b \in Bufs /\ b # NoBuf /\ InCache(b) /\ blkno[b] = want[c] /\ want[c] \in Blknos
  BY <1>1, HeldBuffer DEF DataInv, Placed, Busy
<1>3. \A d \in Clients \ {c} : pc'[d] = pc[d] /\ (pc[d] \in Modifying => hold[d] # b)
  BY <1>1 DEF BeginWrite, EndWrite, Users, DataInv, LocksExclude, Modifying,
              StructureInv, TypeOK
<1>4. /\ pc'[c] = "writing" => phys'[b] = Half(blocks[want[c]])
      /\ pc'[c] = "written" => phys'[b] = Half(blocks[want[c]]) + 1
  <2>1. CASE BeginWrite(c)
    <3>1. Users(b, Modifying) = {}
      BY <2>1 DEF BeginWrite, Users, Modifying
    <3>2. phys[b] = blocks[want[c]]
      BY <1>2, <3>1 DEF DataInv, Current, BufferCurrent
    <3>. QED  BY <1>2, <2>1, <3>2 DEF BeginWrite, Half, DataInv, StructureInv, TypeOK
  <2>2. CASE EndWrite(c)
    BY <1>2, <2>2 DEF EndWrite, DataInv, StructureInv, TypeOK, Current, BufferModified
  <2>. QED  BY <2>1, <2>2
<1>. HIDE DEF b
<1>5. \A x \in Bufs \ {b} : phys'[x] = phys[x]
  BY <1>1, <1>2 DEF DataInv, StructureInv, TypeOK
<1>6. BufferCurrent'
  <2>1. Users(b, Modifying)' # {} /\ b' = b
    BY <1>1, <1>2 DEF Users, b
  <2>2. ASSUME NEW x \in Bufs \ {b}  PROVE Users(x, Modifying)' = Users(x, Modifying)
    BY <1>1, <1>3 DEF Users, b
  <2>. QED  BY <1>1, <1>5, <2>1, <2>2 DEF DataInv, Current, BufferCurrent, InCache
<1>7. BufferModified'
  <2>1. ASSUME NEW d \in Clients \ {c}, pc'[d] \in Modifying
        PROVE  pc'[d] = pc[d] /\ phys'[hold'[d]] = phys[hold[d]]
    <3>1. hold[d] \in Bufs \ {b}
      BY <1>3, <2>1, HeldBuffer DEF DataInv, Modifying, Busy
    <3>. QED  BY <1>1, <1>3, <1>5, <3>1
  <2>. QED  BY <1>1, <1>4, <2>1 DEF DataInv, Current, BufferModified, Modifying, b
<1>8. FileNotBehind'
  <2>1. ASSUME NEW n \in Blknos, Writing(n)  PROVE Writing(n)'
    BY <1>1, <1>3, <2>1 DEF Writing, Modifying
  <2>. QED  BY <1>1, <2>1 DEF DataInv, Current, FileNotBehind
<1>. QED  BY <1>6, <1>7, <1>8 DEF Current

(* bc_dirty, before the block is unlocked: the modification is complete,   *)
(* and a dirty buffer has it.                                              *)
LEMMA bc_dirtyData ==
    ASSUME DataInv, NEW c \in Clients, bc_dirty(c)
    PROVE  Current' /\ want[c] \in Blknos /\ phys[hold[c]] > blocks[want[c]]
<1>. DEFINE b == hold[c]
            n == want[c]
<1>1. /\ pc[c] = "written" /\ pc' = [pc EXCEPT ![c] = "got"]
      /\ blocks' = [blocks EXCEPT ![n] = phys[b]]
      /\ dirty' = [dirty EXCEPT ![b] = TRUE]
      /\ UNCHANGED <<ht, blkno, phys, disk, hold, want>>
  BY DEF bc_dirty, deviceVars
<1>2. b \in Bufs /\ b # NoBuf /\ InCache(b) /\ blkno[b] = n /\ n \in Blknos
  BY <1>1, HeldBuffer DEF DataInv, Placed, Busy
<1>3. \A d \in Clients \ {c} : pc'[d] = pc[d] /\ (pc[d] \in Modifying => hold[d] # b)
  BY <1>1 DEF DataInv, LocksExclude, Modifying, StructureInv, TypeOK
<1>4. phys[b] > blocks[n]
  <2>1. blocks[n] \in Nat /\ phys[b] = Half(blocks[n]) + 1
    BY <1>1, <1>2 DEF DataInv, StructureInv, TypeOK, Current, BufferModified
  <2>. QED  BY <2>1, HalfAhead
<1>5. blocks'[n] = phys[b] /\ \A m \in Blknos \ {n} : blocks'[m] = blocks[m]
  BY <1>1, <1>2 DEF DataInv, StructureInv, TypeOK
<1>6. \A x \in Bufs \ {b} : InCache(x) => blkno[x] \in Blknos \ {n}
  BY <1>2 DEF DataInv, Placed, OneCopy
<1>7. dirty'[b] /\ \A x \in Bufs : dirty[x] => dirty'[x]
  BY <1>1, <1>2 DEF DataInv, StructureInv, TypeOK
<1>. HIDE DEF b, n
<1>8. BufferCurrent'
  <2>1. ASSUME NEW x \in Bufs \ {b}  PROVE Users(x, Modifying)' = Users(x, Modifying)
    BY <1>1, <1>3 DEF Users, b
  <2>. QED  BY <1>1, <1>2, <1>5, <1>6, <2>1 DEF DataInv, Current, BufferCurrent, InCache
<1>9. BufferModified'
  <2>1. ASSUME NEW d \in Clients, pc'[d] \in Modifying
        PROVE  pc'[d] = pc[d] /\ blocks'[want'[d]] = blocks[want[d]]
    <3>1. d # c
      BY <1>1, <2>1 DEF Modifying, DataInv, StructureInv, TypeOK
    <3>2. hold[d] \in Bufs \ {b} /\ InCache(hold[d]) /\ blkno[hold[d]] = want[d]
      BY <1>3, <2>1, <3>1, HeldBuffer DEF DataInv, Modifying, Busy
    <3>. QED  BY <1>1, <1>3, <1>5, <1>6, <3>1, <3>2
  <2>. QED  BY <1>1, <2>1 DEF DataInv, Current, BufferModified, Modifying
<1>10. FileNotBehind'
  <2>1. ASSUME NEW m \in Blknos \ {n}, Writing(m)  PROVE Writing(m)'
    BY <1>1, <1>3, <2>1 DEF Writing, Modifying, n
  <2>. QED  BY <1>1, <1>2, <1>5, <1>7, <2>1 DEF DataInv, Current, FileNotBehind
<1>. QED  BY <1>2, <1>4, <1>8, <1>9, <1>10 DEF Current, b, n

(* bc_flush writes a buffer as it is, torn if somebody is modifying it:    *)
(* then bc_dirty is still to come.                                         *)
LEMMA FlushBlockData ==
    ASSUME DataInv, NEW c \in Clients, FlushBlock(c)
    PROVE  Current'
<1>. DEFINE b == Head(dl)
<1>1. /\ dl # << >> /\ disk' = [disk EXCEPT ![blkno[b]] = phys[b]]
      /\ dirty' = [dirty EXCEPT ![b] = FALSE]
      /\ UNCHANGED <<ht, blkno, phys, pc, hold, want, blocks>>
  BY DEF FlushBlock, pwrite, clientVars, ghostVars
<1>2. b \in Bufs /\ b \in Listed(dl)
  BY <1>1, TailOfList DEF DataInv, StructureInv, TypeOK
<1>. HIDE DEF b
<1>3. InCache(b)
  BY <1>2 DEF DataInv, StructureInv, ListsExact
<1>4. /\ blkno[b] \in Blknos /\ phys[b] >= blocks[blkno[b]]
      /\ phys[b] = blocks[blkno[b]] \/ Writing(blkno[b])
  BY <1>2, <1>3, ImageAhead
<1>5. /\ disk'[blkno[b]] = phys[b]
      /\ \A n \in Blknos \ {blkno[b]} : disk'[n] = disk[n]
      /\ \A x \in Bufs \ {b} : dirty'[x] = dirty[x]
  BY <1>1, <1>2, <1>4 DEF DataInv, StructureInv, TypeOK
<1>6. \A n \in Blknos : Writing(n)' <=> Writing(n)
  BY <1>1 DEF Writing
<1>7. FileNotBehind'
  BY <1>1, <1>2, <1>4, <1>5, <1>6 DEF DataInv, Current, FileNotBehind
<1>8. BufferCurrent' /\ BufferModified'
  BY <1>1 DEF DataInv, Current, BufferCurrent, BufferModified, InCache, Users
<1>. QED  BY <1>7, <1>8 DEF Current

(* Every step keeps the buffers and the file in step with the completed    *)
(* writes, if no pread is short and no bco_init fails.                     *)
LEMMA CurrentStep ==
    ASSUME DataInv, "short_read" \notin Faults, "bco_init" \notin Faults, [Next]_vars
    PROVE  Current'
<1>1. ASSUME NEW c \in Clients, NEW n \in Blknos, bc_get(c, n)  PROVE Current'
  BY <1>1, bc_getData
<1>2. ASSUME NEW c \in Clients, Use(c)  PROVE Current'
  <2>1. CASE BeginRead(c) \/ EndRead(c) \/ bc_release(c)
    <3>1. /\ pc[c] \notin Modifying /\ pc'[c] \notin Modifying
          /\ \A d \in Clients \ {c} :
                pc'[d] = pc[d] /\ hold'[d] = hold[d] /\ want'[d] = want[d]
          /\ UNCHANGED <<ht, blkno, dirty, phys, disk, blocks>>
      BY <2>1 DEF BeginRead, EndRead, bc_release, cacheVars, deviceVars, ghostVars,
                  DataInv, StructureInv, TypeOK, Modifying
    <3>. QED  BY <3>1, QuietData
  <2>2. CASE BeginWrite(c) \/ EndWrite(c)
    BY <2>2, ModifyData
  <2>3. CASE bc_dirty(c)
    BY <2>3, bc_dirtyData
  <2>. QED  BY <1>2, <2>1, <2>2, <2>3 DEF Use
<1>3. ASSUME NEW c \in Clients, bc_flush(c)  PROVE Current'
  <2>1. CASE FlushBegin(c) \/ FlushEnd(c) \/ FlushError(c)
    <3>1. /\ pc[c] \notin Modifying /\ pc'[c] \notin Modifying
          /\ \A d \in Clients \ {c} :
                pc'[d] = pc[d] /\ hold'[d] = hold[d] /\ want'[d] = want[d]
          /\ UNCHANGED <<ht, blkno, dirty, phys, disk, blocks>>
      BY <2>1 DEF FlushBegin, FlushEnd, FlushError, FlushReturn, Calling, fsync, fsync_fails,
                  deviceVars, ghostVars, DataInv, StructureInv, TypeOK, Modifying
    <3>. QED  BY <3>1, QuietData
  <2>2. CASE FlushBlock(c)
    BY <2>2, FlushBlockData
  <2>. QED  BY <1>3, <2>1, <2>2 DEF bc_flush
<1>4. CASE bc_destroy \/ Crash
  <2>1. /\ \A b \in Bufs : ~InCache(b)'
        /\ \A c \in Clients : pc'[c] = "idle"
        /\ blocks' = disk'
    BY <1>4 DEF bc_destroy, Crash, Reopen, Fresh, InCache, deviceVars
  <2>. QED  BY <2>1 DEF Current, BufferCurrent, BufferModified, FileNotBehind
<1>5. CASE UNCHANGED vars
  BY <1>5 DEF vars, cacheVars, deviceVars, clientVars, ghostVars, DataInv, Current,
              BufferCurrent, BufferModified, FileNotBehind, InCache, Users, Writing
<1>. QED  BY <1>1, <1>2, <1>3, <1>4, <1>5 DEF Next

\* The empty cache satisfies all of it.
LEMMA InitData == Init => LocksExclude /\ Placed /\ Current /\ Durable
<1>1. SUFFICES ASSUME Init  PROVE LocksExclude /\ Placed /\ Current /\ Durable
  OBVIOUS
<1>2. LocksExclude /\ Placed
  BY <1>1 DEF Init, Fresh, LocksExclude, Modifying, Placed, OneCopy, InCache
<1>3. Current
  BY <1>1 DEF Init, Fresh, Current, BufferCurrent, BufferModified, FileNotBehind, InCache
<1>4. Durable
  <2>1. \A n \in Blknos : Initial(n) \in Nat
    BY BCacheAssumption DEF Initial
  <2>. QED  BY <1>1, <2>1 DEF Init, Durable, Settled, FlushedIsDurable
<1>. QED  BY <1>2, <1>3, <1>4

(* A block is in one buffer at most, on the chain bc_get looks on, unless  *)
(* bco_init fails for a victim that was renumbered already.                *)
THEOREM OneBufferPerBlock ==
    ASSUME "bco_init" \notin Faults
    PROVE  Spec => []OneCopy
<1>1. Init => Placed
  BY InitData
<1>2. StructureInv /\ Placed /\ [Next]_vars => Placed'
  BY PlacedStep
<1>3. Placed => OneCopy
  BY DEF Placed
<1>. QED  BY <1>1, <1>2, <1>3, StructureInvariant, PTL DEF Spec

(* The inductive invariant about data.                                     *)
THEOREM DataInvariant ==
    ASSUME "short_read" \notin Faults, "bco_init" \notin Faults
    PROVE  Spec => []DataInv
<1>1. Init => DataInv
  BY InitData, InitStructure DEF DataInv
<1>2. DataInv /\ [Next]_vars => DataInv'
  <2>1. SUFFICES ASSUME DataInv, [Next]_vars  PROVE DataInv'
    OBVIOUS
  <2>2. StructureInv' /\ LocksExclude' /\ Placed'
    BY <2>1, NextStructure, LocksStep, PlacedStep DEF DataInv
  <2>. QED  BY <2>1, <2>2, CurrentStep DEF DataInv
<1>. QED  BY <1>1, <1>2, PTL DEF Spec

(* bc_get is coherent: a client that has a block which nobody modifies     *)
(* sees the last completed write to it, however often it was evicted,      *)
(* written back and read again, and whichever preads and pwrites failed.   *)
THEOREM ReadersSeeLatest ==
    ASSUME "short_read" \notin Faults, "bco_init" \notin Faults
    PROVE  Spec => []ReadsLatest
<1>1. DataInv => ReadsLatest
  <2>1. SUFFICES ASSUME DataInv, NEW c \in Clients, pc[c] \in {"got", "reading"}, ~Writing(want[c])
                 PROVE  phys[hold[c]] = blocks[want[c]]
    BY DEF ReadsLatest
  <2>2. hold[c] \in Bufs /\ InCache(hold[c]) /\ blkno[hold[c]] = want[c]
    BY <2>1, HeldBuffer DEF DataInv, Busy
  <2>. QED  BY <2>1, <2>2, ImageAhead
<1>. QED  BY <1>1, DataInvariant, PTL

(* A block whose last completed write is not in the file has a dirty       *)
(* buffer or is being modified: bc_flush or an eviction will write it.     *)
THEOREM NothingIsForgotten ==
    ASSUME "short_read" \notin Faults, "bco_init" \notin Faults
    PROVE  Spec => []FileBehindOnlyIfDirty
<1>1. DataInv => FileBehindOnlyIfDirty
  BY DEF DataInv, Current, FileNotBehind, FileBehindOnlyIfDirty
<1>. QED  BY <1>1, DataInvariant, PTL

-----------------------------------------------------------------------------
(* What is on the medium                                                   *)

\* pwrite of an image that is not behind the last completed write.
LEMMA PwriteDurable ==
    ASSUME StructureInv, Durable, NEW n \in Blknos, NEW v \in Nat, v >= blocks[n],
           pwrite(n, v), UNCHANGED ghostVars
    PROVE  Durable'
<1>1. /\ disk'[n] = v /\ media'[n] = media[n] \cup {v} /\ oscache'[n] = TRUE
      /\ \A m \in Blknos \ {n} :
            disk'[m] = disk[m] /\ media'[m] = media[m] /\ oscache'[m] = oscache[m]
      /\ blocks' = blocks /\ synced' = synced
  BY DEF pwrite, StructureInv, TypeOK, ghostVars
<1>2. v >= synced[n]
  BY DEF Durable, StructureInv, TypeOK
<1>3. Settled'
  BY <1>1 DEF Durable, Settled
<1>4. FlushedIsDurable'
  BY <1>1, <1>2 DEF Durable, FlushedIsDurable
<1>. QED  BY <1>1, <1>3, <1>4 DEF Durable

\* The write-back of an eviction.
LEMMA VictimDurable ==
    ASSUME DataInv, Durable, NEW c \in Clients, NEW n \in Blknos,
           Evicting(c, n), WriteBackVictim, UNCHANGED ghostVars
    PROVE  Durable'
<1>1. blkno[Victim] \in Blknos /\ phys[Victim] = blocks[blkno[Victim]]
  BY VictimData
<1>2. CASE dirty[Victim]
  <2>1. phys[Victim] \in Nat /\ phys[Victim] >= blocks[blkno[Victim]]
    BY <1>1 DEF DataInv, StructureInv, TypeOK
  <2>. QED  BY <1>1, <1>2, <2>1, PwriteDurable DEF WriteBackVictim, DataInv
<1>3. CASE ~dirty[Victim]
  BY <1>3 DEF WriteBackVictim, deviceVars, ghostVars, Durable, Settled, FlushedIsDurable
<1>. QED  BY <1>2, <1>3

\* With no dirty buffer left, the file has every completed write, or more.
LEMMA FlushedFile ==
    ASSUME DataInv, dl = << >>, NEW n \in Blknos
    PROVE  disk[n] >= blocks[n]
<1>1. \A b \in Bufs : ~dirty[b]
  BY DEF DataInv, StructureInv, ListsExact, Listed
<1>2. disk[n] \in Nat /\ blocks[n] \in Nat
  BY DEF DataInv, StructureInv, TypeOK
<1>. QED  BY <1>1, <1>2 DEF DataInv, Current, FileNotBehind

\* fsync leaves one value of each block on the medium, the file's.
LEMMA FsyncMedium ==
    ASSUME Durable, fsync
    PROVE  /\ media' = [n \in Blknos |-> {disk[n]}]
           /\ \A n \in Blknos : disk[n] \in media[n]
BY DEF fsync, Durable, Settled

(* A bc_flush that returns 0 has put every completed write on the medium,  *)
(* and nothing older comes back, as long as no fsync fails.                *)
LEMMA DurableStep ==
    ASSUME DataInv, Durable, "fsync" \notin Faults,
           "short_read" \notin Faults, "bco_init" \notin Faults, [Next]_vars
    PROVE  Durable'
<1>1. CASE UNCHANGED <<disk, media, oscache, blocks, synced>>
  BY <1>1 DEF Durable, Settled, FlushedIsDurable
<1>2. ASSUME NEW c \in Clients, NEW n \in Blknos, bc_get(c, n)  PROVE Durable'
  <2>1. CASE GetEvict(c, n) \/ GetEvictReadError(c, n) \/ GetEvictInitError(c, n)
    BY <2>1, VictimDurable DEF GetEvict, GetEvictReadError, GetEvictInitError
  <2>2. CASE GetHit(c, n) \/ GetNoBlocks(c, n) \/ GetEvictWriteError(c, n)
             \/ GetAlloc(c, n) \/ GetAllocError(c, n)
    BY <1>1, <2>2 DEF GetHit, GetNoBlocks, GetEvictWriteError, GetAlloc, GetAllocError,
                      deviceVars, ghostVars
  <2>. QED  BY <1>2, <2>1, <2>2 DEF bc_get
<1>3. ASSUME NEW c \in Clients, Use(c)  PROVE Durable'
  <2>1. CASE bc_dirty(c)
    <3>1. want[c] \in Blknos /\ phys[hold[c]] > blocks[want[c]]
      BY <2>1, bc_dirtyData
    <3>2. /\ blocks' = [blocks EXCEPT ![want[c]] = phys[hold[c]]]
          /\ UNCHANGED <<disk, media, oscache, synced>>
      BY <2>1 DEF bc_dirty, deviceVars
    <3>3. hold[c] \in Bufs
      BY <2>1, HeldBuffer DEF bc_dirty, DataInv, Busy
    <3>4. \A n \in Blknos : blocks'[n] >= synced[n]
      BY <3>1, <3>2, <3>3 DEF DataInv, StructureInv, TypeOK, Durable
    <3>. QED  BY <3>2, <3>4 DEF Durable, Settled, FlushedIsDurable
  <2>2. CASE ~bc_dirty(c)
    BY <1>1, <1>3, <2>2 DEF Use, BeginRead, EndRead, BeginWrite, EndWrite, bc_release,
                            deviceVars, ghostVars
  <2>. QED  BY <2>1, <2>2
<1>4. ASSUME NEW c \in Clients, bc_flush(c)  PROVE Durable'
  <2>1. CASE FlushBlock(c)
    <3>1. Head(dl) \in Bufs /\ InCache(Head(dl)) /\ phys[Head(dl)] \in Nat
      BY <2>1, TailOfList DEF FlushBlock, DataInv, StructureInv, TypeOK, ListsExact
    <3>2. blkno[Head(dl)] \in Blknos /\ phys[Head(dl)] >= blocks[blkno[Head(dl)]]
      BY <3>1, ImageAhead
    <3>. QED  BY <2>1, <3>1, <3>2, PwriteDurable DEF FlushBlock, DataInv
  <2>2. CASE FlushEnd(c)
    <3>1. dl = << >> /\ fsync /\ synced' = blocks /\ blocks' = blocks
      BY <2>2 DEF FlushEnd
    <3>2. /\ media' = [n \in Blknos |-> {disk[n]}] /\ disk' = disk
          /\ \A n \in Blknos : disk[n] >= blocks[n]
      BY <3>1, FsyncMedium, FlushedFile DEF fsync
    <3>3. \A n \in Blknos : blocks[n] >= blocks[n]
      BY DEF DataInv, StructureInv, TypeOK
    <3>. QED  BY <3>1, <3>2, <3>3 DEF Durable, Settled, FlushedIsDurable
  <2>3. CASE FlushBegin(c) \/ FlushError(c)
    BY <1>1, <2>3 DEF FlushBegin, FlushError, deviceVars, ghostVars
  <2>. QED  BY <1>4, <2>1, <2>2, <2>3 DEF bc_flush
<1>5. CASE bc_destroy
  BY <1>5 DEF bc_destroy, deviceVars, Durable, Settled, FlushedIsDurable
<1>6. CASE Crash
  <2>1. /\ \A n \in Blknos : disk'[n] \in media[n]
        /\ media' = [n \in Blknos |-> {disk'[n]}]
        /\ blocks' = disk' /\ synced' = synced
    BY <1>6 DEF Crash
  <2>. QED  BY <2>1 DEF Durable, Settled, FlushedIsDurable
<1>7. CASE UNCHANGED vars
  BY <1>1, <1>7 DEF vars, deviceVars, ghostVars
<1>. QED  BY <1>2, <1>3, <1>4, <1>5, <1>6, <1>7 DEF Next

(* The inductive invariant about the medium.                               *)
THEOREM DurableInvariant ==
    ASSUME "fsync" \notin Faults, "short_read" \notin Faults, "bco_init" \notin Faults
    PROVE  Spec => [](DataInv /\ Durable)
<1>1. Init => Durable
  BY InitData
<1>2. DataInv /\ Durable /\ [Next]_vars => Durable'
  BY DurableStep
<1>. QED  BY <1>1, <1>2, DataInvariant, PTL DEF Spec

(* Once bc_flush has returned 0, no crash takes a block back to before it: *)
(* also if preads and pwrites fail, a modification is under way while its  *)
(* block is flushed, or the cache was closed and opened in between.        *)
THEOREM FlushIsDurable ==
    ASSUME "fsync" \notin Faults, "short_read" \notin Faults, "bco_init" \notin Faults
    PROVE  Spec => []FlushedIsDurable
<1>1. Durable => FlushedIsDurable
  BY DEF Durable
<1>. QED  BY <1>1, DurableInvariant, PTL

-----------------------------------------------------------------------------
(* Running out of buffers                                                  *)

\* A client without a buffer finds a free one, or room for one, if there are
\* no more clients than buffers.
LEMMA BufferLeft ==
    ASSUME StructureInv, Cardinality(Clients) <= Cardinality(Bufs),
           NEW c \in Clients, hold[c] = NoBuf, AtCapacity
    PROVE  fl # << >>
<1>. DEFINE others == Clients \ {c}
            held == {hold[d] : d \in others}
<1>1. /\ IsFiniteSet(Clients) /\ IsFiniteSet(Bufs) /\ NoBuf \notin Bufs
      /\ Cardinality(Clients) \in Nat /\ Cardinality(Bufs) \in Nat
  BY BCacheAssumption, FS_CardinalityType
<1>2. IsFiniteSet(others) /\ Cardinality(others) = Cardinality(Clients) - 1
  BY <1>1, FS_RemoveElement
<1>3. IsFiniteSet(held) /\ Cardinality(held) <= Cardinality(others) /\ Cardinality(held) \in Nat
  <2>. DEFINE f == [d \in others |-> hold[d]]
  <2>1. f \in Surjection(others, held)
    BY DEF Surjection
  <2>. QED  BY <1>2, <2>1, FS_Surjection, FS_CardinalityType
<1>4. Cached = Bufs
  <2>1. currsz = Cardinality(Bufs)
    BY <1>1 DEF AtCapacity, StructureInv, TypeOK
  <2>2. Cached \in SUBSET Bufs /\ Cardinality(Cached) = Cardinality(Bufs)
    BY <2>1 DEF Cached, StructureInv
  <2>. QED  BY <1>1, <2>2, FS_Subset
<1>5. SUFFICES ASSUME fl = << >>  PROVE FALSE
  OBVIOUS
<1>6. Bufs \subseteq held
  <2>1. SUFFICES ASSUME NEW b \in Bufs  PROVE b \in held
    OBVIOUS
  <2>2. refcnt[b] # 0
    BY <1>4, <1>5 DEF StructureInv, ListsExact, Listed, Cached
  <2>3. PICK d \in Clients : hold[d] = b
    BY <2>2, UnheldIffZero DEF StructureInv
  <2>. QED  BY <1>1, <2>3
<1>7. Cardinality(Bufs) <= Cardinality(held)
  BY <1>3, <1>6, FS_Subset
<1>. QED  BY <1>1, <1>2, <1>3, <1>7

(* bc_get returns ENOMEM only for want of memory: with a buffer for every  *)
(* client it never finds the cache full of buffers in use.                 *)
THEOREM EnoughBuffers == Spec => []NoSpuriousENOMEM
<1>1. Init => NoSpuriousENOMEM
  BY DEF Init, Fresh, NoSpuriousENOMEM
<1>2. StructureInv /\ NoSpuriousENOMEM /\ [Next]_vars => NoSpuriousENOMEM'
  <2>1. SUFFICES ASSUME StructureInv, NoSpuriousENOMEM, [Next]_vars,
                        Cardinality(Clients) <= Cardinality(Bufs),
                        Faults \cap {"malloc", "bco_init"} = {},
                        NEW d \in Clients
                 PROVE  ret'[d] # "ENOMEM"
    BY DEF NoSpuriousENOMEM
  <2>2. ret[d] # "ENOMEM"
    BY <2>1 DEF NoSpuriousENOMEM
  <2>3. ASSUME NEW c \in Clients, NEW n \in Blknos, bc_get(c, n)  PROVE ret'[d] # "ENOMEM"
    <3>1. ~GetNoBlocks(c, n)
      <4>1. SUFFICES ASSUME GetNoBlocks(c, n)  PROVE FALSE
        OBVIOUS
      <4>2. hold[c] = NoBuf /\ AtCapacity /\ fl = << >>
        BY <2>1, <4>1 DEF GetNoBlocks, Missing, Calling, StructureInv, ClientsInStep, Busy
      <4>. QED  BY <2>1, <4>2, BufferLeft
    <3>2. ~GetEvictInitError(c, n)
      BY <2>1 DEF GetEvictInitError
    <3>3. \E e \in {"ok", "EIO"} : ret' = [ret EXCEPT ![c] = e]
      BY <2>1, <2>3, <3>1, <3>2 DEF bc_get, GetHit, GetEvict, GetEvictWriteError,
         GetEvictReadError, GetAlloc, GetAllocError, Got, Failed
    <3>. QED  BY <2>1, <2>2, <3>3 DEF StructureInv, TypeOK
  <2>4. ASSUME NEW c \in Clients, Use(c) \/ bc_flush(c)  PROVE ret'[d] # "ENOMEM"
    <3>1. ret' = ret \/ \E e \in {"ok", "EIO"} : ret' = [ret EXCEPT ![c] = e]
      BY <2>4 DEF Use, BeginRead, EndRead, BeginWrite, EndWrite, bc_dirty, bc_release,
         bc_flush, FlushBegin, FlushBlock, FlushEnd, FlushError, FlushReturn, clientVars
    <3>. QED  BY <2>1, <2>2, <3>1 DEF StructureInv, TypeOK
  <2>5. CASE bc_destroy \/ Crash
    BY <2>5 DEF bc_destroy, Crash, Reopen, Fresh
  <2>6. CASE UNCHANGED vars
    BY <2>2, <2>6 DEF vars, clientVars
  <2>. QED  BY <2>1, <2>3, <2>4, <2>5, <2>6 DEF Next
<1>. QED  BY <1>1, <1>2, StructureInvariant, PTL DEF Spec

-----------------------------------------------------------------------------
(* The cache refines an array of blocks                                    *)

\* Steps that show no reader anything else.
LEMMA SameView ==
    ASSUME \A d \in Clients :
               /\ pc'[d] = "reading" <=> pc[d] = "reading"
               /\ pc[d] = "reading" => phys'[hold'[d]] = phys[hold[d]]
    PROVE  View' = View
BY DEF View

\* A write-back of bc_flush or of an eviction.
LEMMA StoreWriteBack ==
    ASSUME StructureInv, NEW n \in Blknos, NEW v \in Nat, v >= blocks[n], pwrite(n, v),
           blocks' = blocks, View' = View
    PROVE  Store!WriteBack(n)
<1>1. media' = [media EXCEPT ![n] = @ \cup {v}] /\ v \in media'[n]
  BY DEF pwrite, StructureInv, TypeOK
<1>. QED  BY <1>1 DEF Store!WriteBack

(* bc_get is invisible, but for the write-back of its victim.              *)
LEMMA bc_getStore ==
    ASSUME DataInv, "short_read" \notin Faults, "bco_init" \notin Faults,
           NEW c \in Clients, NEW n \in Blknos, bc_get(c, n)
    PROVE  Store!Next \/ UNCHANGED <<blocks, media, View>>
<1>1. /\ pc[c] = "idle" /\ pc'[c] \in {"idle", "got"}
      /\ \A d \in Clients \ {c} : pc'[d] = pc[d] /\ hold'[d] = hold[d]
      /\ blocks' = blocks
  BY GetCaller DEF DataInv, bc_get, GetHit, GetNoBlocks, GetEvict, GetEvictWriteError,
     GetEvictReadError, GetEvictInitError, GetAlloc, GetAllocError, ghostVars
<1>2. ASSUME NEW b \in Bufs, \A d \in Clients : hold[d] # b,
             \E v : phys' = [phys EXCEPT ![b] = v]
      PROVE  View' = View
  <2>1. ASSUME NEW d \in Clients, pc[d] = "reading"  PROVE phys'[hold[d]] = phys[hold[d]]
    BY <1>2, <2>1, HeldBuffer DEF DataInv, StructureInv, TypeOK, Busy
  <2>. QED  BY <1>1, <2>1, SameView
<1>3. ASSUME phys' = phys  PROVE View' = View
  BY <1>1, <1>3, SameView
<1>4. CASE GetHit(c, n) \/ GetNoBlocks(c, n) \/ GetEvictWriteError(c, n) \/ GetAllocError(c, n)
  <2>1. phys' = phys /\ media' = media
    BY <1>4 DEF GetHit, GetNoBlocks, GetEvictWriteError, GetAllocError, cacheVars, deviceVars
  <2>. QED  BY <1>1, <1>3, <2>1
<1>5. CASE GetAlloc(c, n)
  <2>1. PICK b \in Bufs : ~InCache(b) /\ phys' = [phys EXCEPT ![b] = disk[n]]
    BY <1>5 DEF GetAlloc
  <2>2. \A d \in Clients : hold[d] # b
    BY <2>1, HeldBuffer, BCacheAssumption DEF DataInv, StructureInv, ClientsInStep
  <2>3. media' = media
    BY <1>5 DEF GetAlloc, deviceVars
  <2>. QED  BY <1>1, <1>2, <2>1, <2>2, <2>3
<1>6. CASE GetEvict(c, n) \/ GetEvictReadError(c, n)
  <2>1. Evicting(c, n) /\ WriteBackVictim
    BY <1>6 DEF GetEvict, GetEvictReadError
  <2>2. Victim \in Bufs /\ \A d \in Clients : hold[d] # Victim
    BY <2>1, VictimStep DEF DataInv
  <2>3. View' = View
    BY <1>2, <1>3, <1>6, <2>2 DEF GetEvict, GetEvictReadError
  <2>4. CASE dirty[Victim]
    <3>1. /\ blkno[Victim] \in Blknos /\ phys[Victim] \in Nat
          /\ phys[Victim] >= blocks[blkno[Victim]]
      <4>1. blkno[Victim] \in Blknos /\ phys[Victim] = blocks[blkno[Victim]]
        BY <2>1, VictimData
      <4>2. blocks \in [Blknos -> Nat]
        BY DEF DataInv, StructureInv, TypeOK
      <4>3. blocks[blkno[Victim]] \in Nat
        BY <4>1, <4>2
      <4>. QED  BY <4>1, <4>3
    <3>2. Store!WriteBack(blkno[Victim])
      BY <1>1, <2>1, <2>3, <2>4, <3>1, StoreWriteBack DEF WriteBackVictim, DataInv
    <3>. QED  BY <3>1, <3>2 DEF Store!Next
  <2>5. CASE ~dirty[Victim]
    BY <1>1, <2>1, <2>3, <2>5 DEF WriteBackVictim, deviceVars
  <2>. QED  BY <2>4, <2>5
<1>7. ~GetEvictInitError(c, n)
  BY DEF GetEvictInitError
<1>. QED  BY <1>4, <1>5, <1>6, <1>7 DEF bc_get

(* Using a block: reads show the last completed write, bc_dirty completes  *)
(* one, and the rest of what a client does is invisible.                   *)
LEMMA UseStore ==
    ASSUME DataInv, NEW c \in Clients, Use(c)
    PROVE  Store!Next \/ UNCHANGED <<blocks, media, View>>
<1>1. /\ media' = media
      /\ \A d \in Clients \ {c} : pc'[d] = pc[d] /\ hold'[d] = hold[d]
  BY DEF Use, BeginRead, EndRead, BeginWrite, EndWrite, bc_dirty, bc_release, deviceVars,
         DataInv, StructureInv, TypeOK
<1>2. pc[c] \in Busy
  BY DEF Use, BeginRead, EndRead, BeginWrite, EndWrite, bc_dirty, bc_release, Busy
<1>3. /\ hold[c] \in Bufs /\ InCache(hold[c]) /\ want[c] \in Blknos
      /\ blkno[hold[c]] = want[c] /\ phys[hold[c]] \in Nat
  BY <1>2, HeldBuffer DEF DataInv, Placed, StructureInv, TypeOK
<1>4. CASE BeginRead(c)
  <2>1. /\ pc[c] = "got" /\ pc' = [pc EXCEPT ![c] = "reading"]
        /\ UNCHANGED <<phys, hold, blocks, media>>
        /\ Users(hold[c], Modifying) = {}
    BY <1>4 DEF BeginRead, cacheVars, deviceVars, ghostVars, Modifying
  <2>2. phys[hold[c]] = blocks[want[c]]
    BY <1>3, <2>1 DEF DataInv, Current, BufferCurrent
  <2>3. View[c] = -1 /\ View' = [View EXCEPT ![c] = blocks[want[c]]]
    BY <2>1, <2>2 DEF View, DataInv, StructureInv, TypeOK
  <2>4. Store!Read(c, want[c])
    BY <2>1, <2>3 DEF Store!Read
  <2>. QED  BY <1>3, <2>4 DEF Store!Next
<1>5. CASE EndRead(c)
  <2>1. /\ pc[c] = "reading" /\ pc' = [pc EXCEPT ![c] = "got"]
        /\ UNCHANGED <<phys, hold, blocks, media>>
    BY <1>5 DEF EndRead, cacheVars, deviceVars, ghostVars
  <2>2. View[c] # -1
    BY <1>3, <2>1 DEF View
  <2>3. \A d \in Clients : pc'[d] = IF d = c THEN "got" ELSE pc[d]
    BY <2>1 DEF DataInv, StructureInv, TypeOK
  <2>4. View' = [View EXCEPT ![c] = -1]
    <3>1. View' = [d \in Clients |-> IF d = c THEN -1 ELSE View[d]]
      BY <2>1, <2>3 DEF View
    <3>. QED  BY <3>1 DEF View
  <2>5. Store!Done(c)
    BY <2>1, <2>2, <2>4 DEF Store!Done
  <2>. QED  BY <2>5 DEF Store!Next
<1>6. CASE BeginWrite(c) \/ EndWrite(c)
  <2>1. /\ pc[c] # "reading" /\ pc'[c] # "reading"
        /\ \E v : phys' = [phys EXCEPT ![hold[c]] = v]
        /\ UNCHANGED <<hold, blocks>>
    BY <1>6 DEF BeginWrite, EndWrite, ghostVars, DataInv, StructureInv, TypeOK
  <2>2. ASSUME NEW d \in Clients, pc[d] = "reading"  PROVE hold[d] \in Bufs \ {hold[c]}
    <3>1. hold[d] \in Bufs
      BY <2>2, HeldBuffer DEF DataInv, Busy
    <3>2. hold[d] # hold[c]
      BY <1>6, <2>1, <2>2 DEF BeginWrite, EndWrite, Users, DataInv, LocksExclude, Modifying
    <3>. QED  BY <3>1, <3>2
  <2>3. \A d \in Clients : pc[d] = "reading" => phys'[hold'[d]] = phys[hold[d]]
    BY <2>1, <2>2 DEF DataInv, StructureInv, TypeOK
  <2>4. View' = View
    BY <1>1, <2>1, <2>3, SameView
  <2>. QED  BY <1>1, <2>1, <2>4
<1>7. CASE bc_dirty(c)
  <2>1. /\ pc[c] = "written" /\ pc' = [pc EXCEPT ![c] = "got"]
        /\ blocks' = [blocks EXCEPT ![want[c]] = phys[hold[c]]]
        /\ UNCHANGED <<phys, hold>>
    BY <1>7 DEF bc_dirty
  <2>2. phys[hold[c]] > blocks[want[c]]
    BY <1>7, bc_dirtyData
  <2>3. View' = View
    BY <2>1, SameView DEF DataInv, StructureInv, TypeOK
  <2>4. Store!Write(want[c])
    BY <1>1, <1>3, <2>1, <2>2, <2>3 DEF Store!Write, DataInv, StructureInv, TypeOK
  <2>. QED  BY <1>3, <2>4 DEF Store!Next
<1>8. CASE bc_release(c)
  <2>1. /\ pc[c] # "reading" /\ pc'[c] # "reading" /\ UNCHANGED <<phys, blocks>>
    BY <1>8 DEF bc_release, ghostVars, DataInv, StructureInv, TypeOK
  <2>. QED  BY <1>1, <2>1, SameView
<1>. QED  BY <1>4, <1>5, <1>6, <1>7, <1>8 DEF Use

(* bc_flush is a series of write-backs and then a sync.                    *)
LEMMA bc_flushStore ==
    ASSUME DataInv, Durable, "fsync" \notin Faults, NEW c \in Clients, bc_flush(c)
    PROVE  Store!Next \/ UNCHANGED <<blocks, media, View>>
<1>1. /\ UNCHANGED <<phys, hold, blocks>>
      /\ \A d \in Clients : pc'[d] = "reading" <=> pc[d] = "reading"
  BY DEF bc_flush, FlushBegin, FlushBlock, FlushEnd, FlushError, FlushReturn, Calling,
         clientVars, ghostVars, DataInv, StructureInv, TypeOK
<1>2. View' = View
  BY <1>1, SameView
<1>3. CASE FlushBegin(c) \/ FlushError(c)
  BY <1>1, <1>2, <1>3 DEF FlushBegin, FlushError, deviceVars
<1>4. CASE FlushBlock(c)
  <2>1. Head(dl) \in Bufs /\ InCache(Head(dl)) /\ phys[Head(dl)] \in Nat
    BY <1>4, TailOfList DEF FlushBlock, DataInv, StructureInv, TypeOK, ListsExact
  <2>2. blkno[Head(dl)] \in Blknos /\ phys[Head(dl)] >= blocks[blkno[Head(dl)]]
    BY <2>1, ImageAhead
  <2>3. Store!WriteBack(blkno[Head(dl)])
    BY <1>1, <1>2, <1>4, <2>1, <2>2, StoreWriteBack DEF FlushBlock, DataInv
  <2>. QED  BY <2>2, <2>3 DEF Store!Next
<1>5. CASE FlushEnd(c)
  <2>1. dl = << >> /\ fsync
    BY <1>5 DEF FlushEnd
  <2>2. /\ media' = [n \in Blknos |-> {disk[n]}]
        /\ \A n \in Blknos : disk[n] \in media[n] /\ disk[n] >= blocks[n]
    BY <2>1, FsyncMedium, FlushedFile
  <2>3. Store!Sync
    BY <1>1, <1>2, <2>2 DEF Store!Sync
  <2>. QED  BY <2>3 DEF Store!Next
<1>. QED  BY <1>3, <1>4, <1>5 DEF bc_flush

\* Closing the cache, or losing power, falls back to what the medium may have.
LEMMA RestartStore ==
    ASSUME DataInv, Durable, bc_destroy \/ Crash
    PROVE  Store!Next
<1>1. View' = [r \in Clients |-> -1]
  BY DEF bc_destroy, Crash, Reopen, Fresh, View
<1>2. CASE bc_destroy
  <2>1. blocks' = disk /\ media' = media /\ DOMAIN disk = Blknos /\ DOMAIN media = Blknos
    BY <1>2 DEF bc_destroy, deviceVars, DataInv, StructureInv, TypeOK
  <2>. QED  BY <1>1, <2>1 DEF Store!Next, Store!Lose, Durable, Settled
<1>3. CASE Crash
  <2>1. /\ DOMAIN disk' = Blknos /\ \A n \in Blknos : disk'[n] \in media[n]
        /\ media' = [n \in Blknos |-> {disk'[n]}] /\ blocks' = disk'
    BY <1>3 DEF Crash
  <2>. QED  BY <1>1, <2>1 DEF Store!Next, Store!Lose
<1>. QED  BY <1>2, <1>3

(* The cache is invisible: bc_get, the block locks, bc_dirty, bc_release   *)
(* and bc_flush, by any number of clients in any order, with failing       *)
(* preads, pwrites and mallocs, evictions, crashes and restarts, implement *)
(* reads and writes of a plain array of blocks with a sync.                *)
THEOREM CacheIsTransparent ==
    ASSUME "fsync" \notin Faults, "short_read" \notin Faults, "bco_init" \notin Faults
    PROVE  Spec => Transparent
<1>1. Init => Store!Init
  <2>1. \A n \in Blknos : Initial(n) \in Nat
    BY BCacheAssumption DEF Initial
  <2>. QED  BY <2>1 DEF Init, Fresh, View, Store!Init
<1>2. DataInv /\ Durable /\ [Next]_vars => [Store!Next]_(Store!storeVars)
  <2>1. SUFFICES ASSUME DataInv, Durable, [Next]_vars
                 PROVE  Store!Next \/ UNCHANGED <<blocks, media, View>>
    BY DEF Store!storeVars
  <2>2. CASE UNCHANGED vars
    BY <2>2 DEF vars, cacheVars, deviceVars, clientVars, ghostVars, View
  <2>3. CASE Next
    BY <2>1, <2>3, bc_getStore, UseStore, bc_flushStore, RestartStore DEF Next
  <2>. QED  BY <2>1, <2>2, <2>3
<1>. QED  BY <1>1, <1>2, DurableInvariant, PTL DEF Spec, Transparent, Store!Spec

=============================================================================
