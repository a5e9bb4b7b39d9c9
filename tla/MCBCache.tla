----------------------------- MODULE MCBCache -----------------------------
(***************************************************************************)
(* Instances of BCache for TLC.  Two buffers give four hash chains, so     *)
(* blocks 0 and 4 share a chain and block 1 has its own.                   *)
(***************************************************************************)
EXTENDS BCache, TLC

CONSTANTS c1, c2, b1, b2

TwoBufs == {b1, b2}
OneBuf == {b1}
TwoClients == {c1, c2}

CollidingBlknos == {0, 1, 4}
TwoBlknos == {0, 2}

AllFaults == FaultKinds
IOFaults == {"pread", "pwrite"}
FsyncFaults == {"fsync"}

Symmetry == Permutations(Clients) \cup Permutations(Bufs)

=============================================================================
