------------------------------- MODULE BCache -------------------------------
(***************************************************************************)
(* The block cache of bcache/bcache.c: a fixed number of buffers, a hash   *)
(* table of chains keyed by block number, a free list (TAILQ, oldest first)*)
(* from which buffers are evicted, and a dirty list (LIST, newest first)   *)
(* that bc_flush writes back.  The clients are threads that follow the     *)
(* protocol of tbr_thr_start in bcache/test_bcache.c: bc_get, lock the     *)
(* block's bl_rwlock, read or modify bl_phys, bc_dirty after a             *)
(* modification, unlock, bc_release; and now and then bc_flush.            *)
(*                                                                         *)
(* Every function takes bc_lock for its whole duration and a victim has no *)
(* users, so all of them but bc_flush are one step.  bc_flush holds bc_lock*)
(* but not bl_rwlock, so a client may be in the middle of modifying a      *)
(* buffer while it is written: bc_flush takes one step per block.          *)
(*                                                                         *)
(* The contents of a block are a number.  Block n starts at Initial(n); a  *)
(* modification takes an even number 2k to 2k+1 (half done) and then to    *)
(* 2k+2, so an odd number is a torn image.                                 *)
(***************************************************************************)
EXTENDS Integers, Sequences, FiniteSets

\* An operator Op_Slip is Op with a slip of the kind this code invites; each is
\* used only to see that some property would notice it.
CONSTANTS
    Clients,    \* threads using the cache
    Bufs,       \* the blk_t's the cache may hold: bc_maxsz / bc_blksz of them
    Blknos,     \* the block numbers in use
    MaxVer,     \* bound: modifications of one block
    Faults,     \* the failures the environment may inject
    NoClient, NoBuf

FaultKinds == {"malloc", "pread", "short_read", "pwrite", "fsync", "bco_init"}

ASSUME BCacheAssumption ==
    /\ IsFiniteSet(Clients)
    /\ IsFiniteSet(Bufs)
    /\ Bufs # {}
    /\ Blknos \subseteq Nat
    /\ MaxVer \in Nat
    /\ Faults \subseteq FaultKinds
    /\ NoClient \notin Clients
    /\ NoBuf \notin Bufs

VARIABLES
    ht,      \* ht[b]: the hash chain buffer b is on, NoBucket when not allocated
    blkno,   \* bl_blkno
    refcnt,  \* bl_refcnt
    dirty,   \* bl_flags & B_DIRTY
    bco,     \* bl_bco is not NULL
    phys,    \* the contents of *bl_phys
    fl,      \* bc_fl, head first
    dl,      \* bc_dl, head first
    currsz,  \* bc_currsz / bc_blksz
    lock,    \* who holds bc_lock across steps (only bc_flush does)
    disk,    \* what pread of the backing file returns
    media,   \* media[n]: the values block n may have after a crash
    oscache, \* oscache[n]: the kernel still owes block n a write to the medium
    pc,      \* where each client is
    hold,    \* the buffer it has from bc_get
    want,    \* the block number it asked for
    ret,     \* what its last call returned
    blocks,  \* the test's shadow array: the last completed write to each block
    synced   \* blocks, as of the last bc_flush that returned 0

cacheVars  == <<ht, blkno, refcnt, dirty, bco, phys, fl, dl, currsz, lock>>
deviceVars == <<disk, media, oscache>>
clientVars == <<pc, hold, want, ret>>
ghostVars  == <<blocks, synced>>
vars       == <<cacheVars, deviceVars, clientVars, ghostVars>>

NoBucket == -1

\* The hash table has two chains per buffer.
NBuckets == 2 * Cardinality(Bufs)
Bucket(n) == n % NBuckets
Buckets == 0 .. NBuckets - 1

Initial(n) == 2 * n * (MaxVer + 1)
Version(v) == v % (2 * (MaxVer + 1))

Results == {"none", "ok", "ENOMEM", "EIO"}
Phases  == {"idle", "got", "reading", "writing", "written", "flushing"}

InCache(b) == ht[b] # NoBucket

\* TAILQ_REMOVE and LIST_REMOVE: unlink b, keeping the order of the rest.
Unlink(s, b) ==
    IF \E i \in 1 .. Len(s) : s[i] = b
    THEN LET i == CHOOSE i \in 1 .. Len(s) : s[i] = b
         IN  [j \in 1 .. Len(s) - 1 |-> IF j < i THEN s[j] ELSE s[j + 1]]
    ELSE s

Listed(s) == {s[i] : i \in 1 .. Len(s)}

-----------------------------------------------------------------------------
Fresh(S, v) == [x \in S |-> v]

\* bc_create on a file made by create_and_init_backing_file: no buffers yet,
\* and every block has its own initial contents.
Init ==
    /\ ht = Fresh(Bufs, NoBucket) /\ blkno = Fresh(Bufs, 0) /\ refcnt = Fresh(Bufs, 0)
    /\ dirty = Fresh(Bufs, FALSE) /\ bco = Fresh(Bufs, FALSE) /\ phys = Fresh(Bufs, 0)
    /\ fl = << >> /\ dl = << >> /\ currsz = 0 /\ lock = NoClient
    /\ pc = Fresh(Clients, "idle") /\ hold = Fresh(Clients, NoBuf)
    /\ want = Fresh(Clients, 0) /\ ret = Fresh(Clients, "none")
    /\ disk = [n \in Blknos |-> Initial(n)]
    /\ media = [n \in Blknos |-> {Initial(n)}]
    /\ oscache = [n \in Blknos |-> FALSE]
    /\ blocks = [n \in Blknos |-> Initial(n)]
    /\ synced = [n \in Blknos |-> Initial(n)]

-----------------------------------------------------------------------------
(* The file and the medium under it (external: the operating system).      *)

\* pwrite: the file shows the new image; the medium may or may not have it.
pwrite(n, image) ==
    /\ disk' = [disk EXCEPT ![n] = image]
    /\ media' = [media EXCEPT ![n] = @ \cup {image}]
    /\ oscache' = [oscache EXCEPT ![n] = TRUE]

\* fsync, returning 0: what was owed to the medium is on it.
fsync ==
    /\ media' = [n \in Blknos |-> IF oscache[n] THEN {disk[n]} ELSE media[n]]
    /\ oscache' = [n \in Blknos |-> FALSE]
    /\ disk' = disk

\* fsync, returning -1: the kernel may have given up on some of the writes,
\* which it then no longer owes.
fsync_fails ==
    /\ oscache' \in [Blknos -> BOOLEAN]
    /\ \A n \in Blknos : oscache'[n] => oscache[n]
    /\ UNCHANGED <<disk, media>>

-----------------------------------------------------------------------------
(* bc_get                                                                  *)

\* The buffers LIST_FOREACH can stop at: on n's chain and numbered n.
Hits_IdleOnly(n) == {b \in Bufs : ht[b] = Bucket(n) /\ blkno[b] = n /\ refcnt[b] = 0}
Hits_AnyNumber(n) == {b \in Bufs : ht[b] = Bucket(n)}
Hits(n) == {b \in Bufs : ht[b] = Bucket(n) /\ blkno[b] = n}

AtCapacity_OneEarly == currsz + 2 > Cardinality(Bufs)
AtCapacity == currsz + 1 > Cardinality(Bufs)

Calling(c) == pc[c] = "idle" /\ lock = NoClient

\* found: take the buffer off the free list if it was free, and count the user.
Claimed_StaysFree(b) == fl
Claimed(b) == IF refcnt[b] = 0 THEN Unlink(fl, b) ELSE fl

Counted_Once(b) == [refcnt EXCEPT ![b] = 1]
Counted(b) == [refcnt EXCEPT ![b] = @ + 1]

Got(c, n, b) ==
    /\ pc' = [pc EXCEPT ![c] = "got"]
    /\ hold' = [hold EXCEPT ![c] = b]
    /\ want' = [want EXCEPT ![c] = n]
    /\ ret' = [ret EXCEPT ![c] = "ok"]
    /\ refcnt' = Counted(b)

Failed(c, e) ==
    /\ ret' = [ret EXCEPT ![c] = e]
    /\ UNCHANGED <<pc, hold, want>>

GetHit(c, n) ==
    /\ Calling(c)
    /\ \E b \in Hits(n) :
         /\ Got(c, n, b)
         /\ fl' = Claimed(b)
    /\ UNCHANGED <<ht, blkno, dirty, bco, phys, dl, currsz, lock>>
    /\ UNCHANGED <<deviceVars, ghostVars>>

Missing(c, n) == Calling(c) /\ Hits(n) = {}

GetNoBlocks(c, n) ==
    /\ Missing(c, n) /\ AtCapacity
    /\ fl = << >>
    /\ Failed(c, "ENOMEM")
    /\ UNCHANGED <<cacheVars, deviceVars, ghostVars>>

\* The victim is the first free buffer.
Evicting(c, n) == Missing(c, n) /\ AtCapacity /\ fl # << >>
Victim == Head(fl)

\* Write the victim back if it is dirty.
WriteBackVictim_Drops ==
    /\ dirty' = [dirty EXCEPT ![Victim] = FALSE]
    /\ dl' = Unlink(dl, Victim)
    /\ UNCHANGED deviceVars

WriteBackVictim_StaysListed ==
    IF dirty[Victim]
    THEN /\ pwrite(blkno[Victim], phys[Victim])
         /\ dirty' = [dirty EXCEPT ![Victim] = FALSE]
         /\ dl' = dl
    ELSE UNCHANGED <<deviceVars, dirty, dl>>

WriteBackVictim ==
    IF dirty[Victim]
    THEN /\ pwrite(blkno[Victim], phys[Victim])
         /\ dirty' = [dirty EXCEPT ![Victim] = FALSE]
         /\ dl' = Unlink(dl, Victim)
    ELSE UNCHANGED <<deviceVars, dirty, dl>>

GetEvict(c, n) ==
    /\ Evicting(c, n)
    /\ WriteBackVictim
    /\ Got(c, n, Victim)
    /\ phys' = [phys EXCEPT ![Victim] = disk'[n]]
    /\ blkno' = [blkno EXCEPT ![Victim] = n]
    /\ bco' = [bco EXCEPT ![Victim] = TRUE]
    /\ ht' = [ht EXCEPT ![Victim] = Bucket(n)]
    /\ fl' = Tail(fl)
    /\ UNCHANGED <<currsz, lock, ghostVars>>

\* The victim cannot be written: it stays dirty and cached.
GetEvictWriteError(c, n) ==
    /\ "pwrite" \in Faults
    /\ Evicting(c, n)
    /\ dirty[Victim]
    /\ Failed(c, "EIO")
    /\ UNCHANGED <<cacheVars, deviceVars, ghostVars>>

\* pread of the new block fails or is short, after the victim was written
\* back: the victim keeps its number and its chain, but a short read has
\* already overwritten the front of its buffer with the other block's.
GetEvictReadError_Unlisted(c, n) ==
    /\ "pread" \in Faults
    /\ Evicting(c, n)
    /\ WriteBackVictim
    /\ Failed(c, "EIO")
    /\ fl' = Tail(fl)
    /\ UNCHANGED <<ht, blkno, refcnt, bco, phys, currsz, lock, ghostVars>>

GetEvictReadError(c, n) ==
    /\ Evicting(c, n)
    /\ WriteBackVictim
    /\ \/ "pread" \in Faults /\ phys' = phys
       \/ "short_read" \in Faults /\ phys' = [phys EXCEPT ![Victim] = disk'[n]]
    /\ Failed(c, "EIO")
    /\ UNCHANGED <<ht, blkno, refcnt, bco, fl, currsz, lock, ghostVars>>

\* bco_init of the new block fails: the buffer has been renumbered and its
\* object destroyed, but it has not been moved to the new block's chain.
GetEvictInitError(c, n) ==
    /\ "bco_init" \in Faults
    /\ Evicting(c, n)
    /\ WriteBackVictim
    /\ phys' = [phys EXCEPT ![Victim] = disk'[n]]
    /\ blkno' = [blkno EXCEPT ![Victim] = n]
    /\ bco' = [bco EXCEPT ![Victim] = FALSE]
    /\ Failed(c, "ENOMEM")
    /\ UNCHANGED <<ht, refcnt, fl, currsz, lock, ghostVars>>

\* A new buffer goes on the free list's tail and comes off it again.
GetAlloc(c, n) ==
    /\ Missing(c, n) /\ ~AtCapacity
    /\ \E b \in Bufs :
         /\ ~InCache(b)
         /\ Got(c, n, b)
         /\ ht' = [ht EXCEPT ![b] = Bucket(n)]
         /\ blkno' = [blkno EXCEPT ![b] = n]
         /\ phys' = [phys EXCEPT ![b] = disk[n]]
         /\ bco' = [bco EXCEPT ![b] = TRUE]
    /\ currsz' = currsz + 1
    /\ UNCHANGED <<dirty, fl, dl, lock, deviceVars, ghostVars>>

\* Any failure before the buffer is linked frees it again.
GetAllocError(c, n) ==
    /\ Missing(c, n) /\ ~AtCapacity
    /\ \/ Faults \cap {"malloc", "bco_init"} # {} /\ Failed(c, "ENOMEM")
       \/ Faults \cap {"pread", "short_read"} # {} /\ Failed(c, "EIO")
    /\ UNCHANGED <<cacheVars, deviceVars, ghostVars>>

bc_get(c, n) ==
    \/ GetHit(c, n)
    \/ GetNoBlocks(c, n)
    \/ GetEvict(c, n)
    \/ GetEvictWriteError(c, n)
    \/ GetEvictReadError(c, n)
    \/ GetEvictInitError(c, n)
    \/ GetAlloc(c, n)
    \/ GetAllocError(c, n)

-----------------------------------------------------------------------------
(* Using the block, and giving it back                                     *)

Users(b, phases) == {c \in Clients : hold[c] = b /\ pc[c] \in phases}

\* tbco_lock_shared; the block is read while the lock is held.
BeginRead_Unlocked(c) ==
    /\ pc[c] = "got"
    /\ pc' = [pc EXCEPT ![c] = "reading"]
    /\ UNCHANGED <<cacheVars, deviceVars, hold, want, ret, ghostVars>>

BeginRead(c) ==
    /\ pc[c] = "got"
    /\ Users(hold[c], {"writing", "written"}) = {}
    /\ pc' = [pc EXCEPT ![c] = "reading"]
    /\ UNCHANGED <<cacheVars, deviceVars, hold, want, ret, ghostVars>>

EndRead(c) ==
    /\ pc[c] = "reading"
    /\ pc' = [pc EXCEPT ![c] = "got"]
    /\ UNCHANGED <<cacheVars, deviceVars, hold, want, ret, ghostVars>>

\* tbco_lock_exclusive, and the first half of a modification of bl_phys.
BeginWrite(c) ==
    /\ pc[c] = "got"
    /\ Users(hold[c], {"reading", "writing", "written"}) = {}
    /\ Version(phys[hold[c]]) < 2 * MaxVer
    /\ pc' = [pc EXCEPT ![c] = "writing"]
    /\ phys' = [phys EXCEPT ![hold[c]] = 2 * (@ \div 2) + 1]
    /\ UNCHANGED <<ht, blkno, refcnt, dirty, bco, fl, dl, currsz, lock>>
    /\ UNCHANGED <<deviceVars, hold, want, ret, ghostVars>>

EndWrite(c) ==
    /\ pc[c] = "writing"
    /\ pc' = [pc EXCEPT ![c] = "written"]
    /\ phys' = [phys EXCEPT ![hold[c]] = @ + 1]
    /\ UNCHANGED <<ht, blkno, refcnt, dirty, bco, fl, dl, currsz, lock>>
    /\ UNCHANGED <<deviceVars, hold, want, ret, ghostVars>>

\* bc_dirty, then the shadow copy and the unlock.
bc_dirty(c) ==
    /\ pc[c] = "written"
    /\ lock = NoClient
    /\ pc' = [pc EXCEPT ![c] = "got"]
    /\ blocks' = [blocks EXCEPT ![want[c]] = phys[hold[c]]]
    /\ dirty' = [dirty EXCEPT ![hold[c]] = TRUE]
    /\ dl' = IF dirty[hold[c]] THEN dl ELSE <<hold[c]>> \o dl
    /\ UNCHANGED <<ht, blkno, refcnt, bco, phys, fl, currsz, lock>>
    /\ UNCHANGED <<deviceVars, hold, want, ret, synced>>

Freed(b) == IF refcnt[b] = 1 THEN Append(fl, b) ELSE fl

bc_release(c) ==
    /\ pc[c] = "got"
    /\ lock = NoClient
    /\ refcnt' = [refcnt EXCEPT ![hold[c]] = @ - 1]
    /\ fl' = Freed(hold[c])
    /\ pc' = [pc EXCEPT ![c] = "idle"]
    /\ hold' = [hold EXCEPT ![c] = NoBuf]
    /\ UNCHANGED <<ht, blkno, dirty, bco, phys, dl, currsz, lock>>
    /\ UNCHANGED <<deviceVars, want, ret, ghostVars>>

-----------------------------------------------------------------------------
(* bc_flush: bc_lock is held from FlushBegin to FlushEnd or FlushError     *)

FlushBegin(c) ==
    /\ Calling(c)
    /\ lock' = c
    /\ pc' = [pc EXCEPT ![c] = "flushing"]
    /\ UNCHANGED <<ht, blkno, refcnt, dirty, bco, phys, fl, dl, currsz>>
    /\ UNCHANGED <<deviceVars, hold, want, ret, ghostVars>>

\* One iteration of the loop: write the head of the dirty list, as it is now.
FlushBlock(c) ==
    /\ pc[c] = "flushing"
    /\ dl # << >>
    /\ LET b == Head(dl) IN
         /\ pwrite(blkno[b], phys[b])
         /\ dirty' = [dirty EXCEPT ![b] = FALSE]
    /\ dl' = Tail(dl)
    /\ UNCHANGED <<ht, blkno, refcnt, bco, phys, fl, currsz, lock>>
    /\ UNCHANGED <<clientVars, ghostVars>>

FlushReturn_Locked(c, e) ==
    /\ pc[c] = "flushing"
    /\ pc' = [pc EXCEPT ![c] = "idle"]
    /\ ret' = [ret EXCEPT ![c] = e]
    /\ UNCHANGED <<cacheVars, hold, want>>

FlushReturn(c, e) ==
    /\ pc[c] = "flushing"
    /\ pc' = [pc EXCEPT ![c] = "idle"]
    /\ ret' = [ret EXCEPT ![c] = e]
    /\ lock' = NoClient
    /\ UNCHANGED <<ht, blkno, refcnt, dirty, bco, phys, fl, dl, currsz>>
    /\ UNCHANGED <<hold, want>>

FlushEnd_NoFsync(c) ==
    /\ dl = << >>
    /\ FlushReturn(c, "ok")
    /\ synced' = blocks
    /\ UNCHANGED <<deviceVars, blocks>>

FlushEnd(c) ==
    /\ dl = << >>
    /\ FlushReturn(c, "ok")
    /\ fsync
    /\ synced' = blocks
    /\ UNCHANGED blocks

FlushError(c) ==
    /\ FlushReturn(c, "EIO")
    /\ \/ "pwrite" \in Faults /\ dl # << >> /\ UNCHANGED deviceVars
       \/ "fsync" \in Faults /\ dl = << >> /\ fsync_fails
    /\ UNCHANGED ghostVars

-----------------------------------------------------------------------------
(* Closing and crashing                                                    *)

\* bc_create again, on the same file, with clients that have called nothing.
Reopen ==
    /\ ht' = Fresh(Bufs, NoBucket) /\ blkno' = Fresh(Bufs, 0) /\ refcnt' = Fresh(Bufs, 0)
    /\ dirty' = Fresh(Bufs, FALSE) /\ bco' = Fresh(Bufs, FALSE) /\ phys' = Fresh(Bufs, 0)
    /\ fl' = << >> /\ dl' = << >> /\ currsz' = 0 /\ lock' = NoClient
    /\ pc' = Fresh(Clients, "idle") /\ hold' = Fresh(Clients, NoBuf)
    /\ want' = Fresh(Clients, 0) /\ ret' = Fresh(Clients, "none")

\* bc_destroy asserts that nobody has a block, warns about dirty blocks and
\* drops them; the file is then opened again with bc_create.
bc_destroy ==
    /\ \A c \in Clients : pc[c] = "idle"
    /\ Reopen
    /\ blocks' = disk
    /\ UNCHANGED <<deviceVars, synced>>

\* The machine stops: the file comes back as the medium has it.
Crash ==
    /\ Reopen
    /\ disk' \in [Blknos -> UNION {media[n] : n \in Blknos}]
    /\ \A n \in Blknos : disk'[n] \in media[n]
    /\ media' = [n \in Blknos |-> {disk'[n]}]
    /\ oscache' = [n \in Blknos |-> FALSE]
    /\ blocks' = disk'
    /\ UNCHANGED synced

Use(c) ==
    \/ BeginRead(c)
    \/ EndRead(c)
    \/ BeginWrite(c)
    \/ EndWrite(c)
    \/ bc_dirty(c)
    \/ bc_release(c)

bc_flush(c) ==
    \/ FlushBegin(c)
    \/ FlushBlock(c)
    \/ FlushEnd(c)
    \/ FlushError(c)

Next ==
    \/ \E c \in Clients : (\E n \in Blknos : bc_get(c, n)) \/ Use(c) \/ bc_flush(c)
    \/ bc_destroy
    \/ Crash

Spec == Init /\ [][Next]_vars

\* The thread in bc_flush keeps running: it waits for nothing but the device.
Fairness == \A c \in Clients : WF_vars(FlushBlock(c) \/ FlushEnd(c) \/ FlushError(c))

FairSpec == Spec /\ Fairness
-----------------------------------------------------------------------------
(* Correctness                                                             *)

(* Every field has its range: in particular no reference count goes below  *)
(* zero and the cache never exceeds bc_maxsz.                              *)
TypeOK ==
    /\ ht \in [Bufs -> Buckets \cup {NoBucket}]
    /\ blkno \in [Bufs -> Nat]
    /\ refcnt \in [Bufs -> Nat]
    /\ dirty \in [Bufs -> BOOLEAN]
    /\ bco \in [Bufs -> BOOLEAN]
    /\ phys \in [Bufs -> Nat]
    /\ fl \in Seq(Bufs)
    /\ dl \in Seq(Bufs)
    /\ currsz \in 0 .. Cardinality(Bufs)
    /\ lock \in Clients \cup {NoClient}
    /\ disk \in [Blknos -> Nat]
    /\ media \in [Blknos -> SUBSET Nat]
    /\ oscache \in [Blknos -> BOOLEAN]
    /\ pc \in [Clients -> Phases]
    /\ hold \in [Clients -> Bufs \cup {NoBuf}]
    /\ want \in [Clients -> Nat]
    /\ ret \in [Clients -> Results]
    /\ blocks \in [Blknos -> Nat]
    /\ synced \in [Blknos -> Nat]

Cached == {b \in Bufs : InCache(b)}

NoDuplicates(s) == \A i, j \in 1 .. Len(s) : s[i] = s[j] => i = j

\* The assertions of bc_check.
bc_check ==
    /\ NoDuplicates(dl)
    /\ NoDuplicates(fl)
    /\ \A b \in Bufs : InCache(b) =>
         /\ b \in Listed(fl) \/ refcnt[b] > 0
         /\ dirty[b] => b \in Listed(dl)
    /\ currsz = Cardinality(Cached)
    /\ currsz <= Cardinality(Bufs)

(* bc_check run by any thread at any moment never fails an assertion.      *)
CheckNeverAsserts == lock = NoClient => bc_check

(* The two lists hold exactly the buffers they are for: an unused buffer   *)
(* can always be evicted, a used one never is, bc_flush writes every dirty *)
(* buffer and only those (its assertion on B_DIRTY).                       *)
ListsExact ==
    /\ Listed(fl) = {b \in Bufs : InCache(b) /\ refcnt[b] = 0}
    /\ Listed(dl) = {b \in Bufs : dirty[b]}
    /\ \A b \in Bufs : dirty[b] => InCache(b)

Holders(b) == {c \in Clients : hold[c] = b}

(* bl_refcnt counts the clients between bc_get and bc_release: neither the *)
(* assertion of bc_release nor that of bc_destroy can fail.                *)
RefcntExact ==
    \A b \in Bufs : refcnt[b] = Cardinality(Holders(b))

(* A buffer somebody holds is never evicted under them: it keeps the block *)
(* number they asked for and stays on that block's chain.                  *)
HeldStaysPut ==
    \A c \in Clients : hold[c] # NoBuf =>
        /\ blkno[hold[c]] = want[c]
        /\ ht[hold[c]] = Bucket(want[c])

(* No block is in two buffers, and each is on the chain bc_get looks on.   *)
OneCopy ==
    \A a, b \in Bufs : InCache(a) /\ InCache(b) =>
        /\ ht[a] = Bucket(blkno[a])
        /\ blkno[a] = blkno[b] => a = b

Writing(n) ==
    \E c \in Clients : hold[c] # NoBuf /\ want[c] = n /\ pc[c] \in {"writing", "written"}

(* The assertion of test_bcache.c, bcp_data == blocks[blkno]: whoever has  *)
(* a block locked, before modifying it, sees its last completed write, no  *)
(* matter which buffers it has been through and what failed in between.    *)
ReadsLatest ==
    \A c \in Clients : pc[c] \in {"got", "reading"} /\ ~Writing(want[c]) =>
        phys[hold[c]] = blocks[want[c]]

(* A block's last completed write is in the file unless a dirty buffer has *)
(* it or it is being modified: in particular a torn image that bc_flush    *)
(* put in the file is always going to be written over.                     *)
FileBehindOnlyIfDirty ==
    \A n \in Blknos :
        disk[n] = blocks[n] \/ Writing(n) \/ \E b \in Bufs : blkno[b] = n /\ dirty[b]

(* Once bc_flush has returned 0, no crash takes a block back to before it. *)
FlushedIsDurable == \A n \in Blknos : \A v \in media[n] : v >= synced[n]

(* With a buffer per client, bc_get does not run out of buffers.           *)
NoSpuriousENOMEM ==
    /\ Cardinality(Clients) <= Cardinality(Bufs)
    /\ Faults \cap {"malloc", "bco_init"} = {}
    => \A c \in Clients : ret[c] # "ENOMEM"

(* The cache is invisible: to its clients it is an array of blocks.        *)
View == [c \in Clients |-> IF pc[c] = "reading" THEN phys[hold[c]] ELSE -1]

Store == INSTANCE BlockStore WITH
    Readers <- Clients, Blocks <- Blknos, Idle <- -1,
    val <- blocks, stable <- media, view <- View

Transparent == Store!Spec

(* bc_flush returns, on every path with bc_lock unlocked: a thread that    *)
(* flushes never keeps the others out of the cache for good.               *)
FlushReturns == \A c \in Clients : pc[c] = "flushing" ~> pc[c] = "idle" /\ lock = NoClient

=============================================================================
