----------------------------- MODULE OrderedMap -----------------------------
(***************************************************************************)
(* What the btree of btrees/ and the binary tree of binary_trees/ promise  *)
(* their users: a map from keys to values.  Each operation is one step and *)
(* leaves its result in reply; an operation that fails for want of room,   *)
(* or because it cannot read or write, changes nothing but for a removal,  *)
(* which may have removed the record.                                      *)
(***************************************************************************)
CONSTANTS Key, Value, Absent

VARIABLES map, reply

Reply(e) == [err |-> e, val |-> Absent]

Init == map = [k \in Key |-> Absent] /\ reply = Reply("none")

\* The step changes the map at k only.
OnlyAt(k) == \A j \in Key \ {k} : map'[j] = map[j]

Insert(k, v) ==
    /\ reply' = Reply("ok")
    /\ map[k] = Absent
    /\ map'[k] = v
    /\ OnlyAt(k)

InsertAgain(k) ==
    /\ reply' = Reply("EEXIST")
    /\ map[k] # Absent
    /\ UNCHANGED map

Failed ==
    /\ reply' \in {Reply("E2BIG"), Reply("ENOSPC"), Reply("ENOMEM"), Reply("EIO")}
    /\ UNCHANGED map

\* A removal may fail when the record is gone already.
RemovedAndFailed(k) ==
    /\ reply' = Reply("EIO")
    /\ map'[k] = Absent
    /\ OnlyAt(k)

Find(k) ==
    /\ reply' = [err |-> IF map[k] = Absent THEN "ENOENT" ELSE "ok", val |-> map[k]]
    /\ UNCHANGED map

Remove(k) ==
    /\ reply' = Reply(IF map[k] = Absent THEN "ENOENT" ELSE "ok")
    /\ map'[k] = Absent
    /\ OnlyAt(k)

\* bt_sync and bt_close followed by bt_open keep every record.
Persist == reply' = Reply("none") /\ UNCHANGED map

\* The map is destroyed and another is created.
Renew == reply' = Reply("created") /\ map' = [k \in Key |-> Absent]

Next ==
    \/ \E k \in Key :
         \/ \E v \in Value : Insert(k, v)
         \/ InsertAgain(k)
         \/ Find(k)
         \/ Remove(k)
         \/ RemovedAndFailed(k)
    \/ Failed
    \/ Persist
    \/ Renew

Spec == Init /\ [][Next]_<<map, reply>>

=============================================================================
