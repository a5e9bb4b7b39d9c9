----------------------------- MODULE BlockStore -----------------------------
(***************************************************************************)
(* What the block cache of bcache/bcache.c promises to its clients: a      *)
(* plain array of blocks, with a second array telling which values the     *)
(* medium may show after a crash.  There is no buffer, no hash table, no   *)
(* free list and no lock here: BCache refines this specification, which is *)
(* to say that caching, eviction and write-back are invisible except       *)
(* through a crash.                                                        *)
(***************************************************************************)
EXTENDS Integers

CONSTANTS Readers,  \* who may read
          Blocks,   \* block numbers
          Idle      \* the view of a reader that is not reading

VARIABLES val,      \* val[n]: the latest completed write to block n
          stable,   \* stable[n]: the values a crash may leave in block n
          view      \* view[r]: the value reader r is being shown, or Idle

storeVars == <<val, stable, view>>

Init ==
    /\ val \in [Blocks -> Nat]
    /\ stable = [n \in Blocks |-> {val[n]}]
    /\ view = [r \in Readers |-> Idle]

(* A reader is only ever shown the latest completed write.                 *)
Read(r, n) ==
    /\ view[r] = Idle
    /\ view' = [view EXCEPT ![r] = val[n]]
    /\ UNCHANGED <<val, stable>>

Done(r) ==
    /\ view[r] # Idle
    /\ view' = [view EXCEPT ![r] = Idle]
    /\ UNCHANGED <<val, stable>>

(* A write takes effect at once, and only moves the block forward.         *)
Write(n) ==
    /\ val'[n] > val[n]
    /\ val' = [val EXCEPT ![n] = val'[n]]
    /\ UNCHANGED <<stable, view>>

(* Write-back may start to carry the latest value, or the one being        *)
(* written over it, to the medium; it never takes an older value there.    *)
WriteBack(n) ==
    /\ \E v \in stable'[n] :
         /\ v >= val[n]
         /\ stable' = [stable EXCEPT ![n] = @ \cup {v}]
    /\ UNCHANGED <<val, view>>

(* A successful sync leaves no value on the medium older than the latest   *)
(* completed write.                                                        *)
Sync ==
    /\ \A n \in Blocks :
         /\ stable'[n] # {}
         /\ stable'[n] \subseteq stable[n]
         /\ \A v \in stable'[n] : v >= val[n]
    /\ DOMAIN stable' = Blocks
    /\ UNCHANGED <<val, view>>

(* A crash, or closing the cache without a sync, falls back to values the  *)
(* medium may hold; nobody is reading across it.                           *)
Lose ==
    /\ DOMAIN val' = Blocks
    /\ DOMAIN stable' = Blocks
    /\ \A n \in Blocks :
         /\ val'[n] \in stable'[n]
         /\ stable'[n] \subseteq stable[n]
    /\ view' = [r \in Readers |-> Idle]

Next ==
    \/ \E r \in Readers : Done(r) \/ \E n \in Blocks : Read(r, n)
    \/ \E n \in Blocks : Write(n) \/ WriteBack(n)
    \/ Sync
    \/ Lose

Spec == Init /\ [][Next]_storeVars

=============================================================================
