------------------------------ MODULE HashTable ------------------------------
(***************************************************************************)
(* The hash table of hash_tables/hash_table.c: an array of lists that      *)
(* doubles when more than half as many elements as slots are in it.  The   *)
(* lists own their data, so that an object destroyed too early or twice    *)
(* would be seen.  malloc may fail anywhere, and in ht_resize it may       *)
(* return memory that is not zero.                                         *)
(***************************************************************************)
EXTENDS Lists

\* An operator Op_Slip is Op with a slip of the kind this code invites; each is
\* used only to see that some property would notice it.
CONSTANTS
    Hash,        \* hto_hash_fn
    Junk,        \* a pointer malloc left in a slot that is neither NULL nor a list
    MaxJunk,     \* bound: how many slots of a new table hold Junk
    HT_START_SIZE,
    MaxTable     \* bound: malloc refuses a larger table

ASSUME HashAssumption ==
    /\ Hash \in [Data -> Nat]
    /\ Junk \notin Node \cup Data \cup List \cup {NULL}
    /\ HT_START_SIZE \in Nat \ {0}

VARIABLES
    mem,
    ht_table,      \* slot -> a list, NULL or Junk
    ht_nelements,
    reply,         \* what the last call was, and what it returned
    status         \* "running", "crashed" on a Junk slot, or in an endless loop

vars == <<mem, ht_table, ht_nelements, reply, status>>

Reply(op, d, r) == [op |-> op, data |-> d, res |-> r]

Init ==
    /\ mem = EmptyMemory
    /\ ht_table = [i \in 0 .. HT_START_SIZE - 1 |-> NULL]
    /\ ht_nelements = 0
    /\ reply = Reply("create", NULL, "ok")
    /\ status = "running"

Size(T) == Cardinality(DOMAIN T)
IsList(x) == x # NULL /\ x # Junk

\* The state a call works on, and its error.
State(M, T, e) == [m |-> M, t |-> T, err |-> e]

Slot(T, d) == Hash[d] % Size(T)

-----------------------------------------------------------------------------
\* _ht_insert: make the list if there is none, and insert.  A list that was made
\* stays when the insertion fails.
Into(r, T, i, d) ==
    LET s == ll_insert(r.m, r.l, d) IN
    IF r.err # "ok" THEN State(r.m, T, r.err) ELSE State(s.m, [T EXCEPT ![i] = s.l], s.err)

_ht_insert_OldSize(M, T, d) ==
    LET i == Slot(ht_table, d) IN
    CASE T[i] = Junk -> State(M, T, "crash")
      [] T[i] = NULL -> Into(ll_create(M, TRUE), T, i, d)
      [] OTHER -> Into(Result(M, T[i], "ok"), T, i, d)
_ht_insert(M, T, d) ==
    LET i == Slot(T, d) IN
    CASE T[i] = Junk -> State(M, T, "crash")
      [] T[i] = NULL -> Into(ll_create(M, TRUE), T, i, d)
      [] OTHER -> Into(Result(M, T[i], "ok"), T, i, d)

\* What ht_iterate comes across, in order, and passes to its callback.
ItemsAt(M, x) == IF IsList(x) THEN Items(M, x) ELSE IF x = Junk THEN <<Junk>> ELSE << >>
Walked(M, T) ==
    LET walked[i \in 0 .. Size(T)] == IF i = 0 THEN << >> ELSE walked[i - 1] \o ItemsAt(M, T[i - 1])
    IN  walked[Size(T)]

HasJunk(T) == \E i \in DOMAIN T : T[i] = Junk

\* ht_destroy_table: with HTDT_PRESERVE_DATA the lists lose their destructor.
FreeSlot(M, x, preserve) == IF IsList(x) THEN ll_destroy(M, [x EXCEPT !.owns = @ /\ ~preserve]) ELSE M
ht_destroy_table(M, T, preserve) ==
    LET freed[i \in 0 .. Size(T)] == IF i = 0 THEN M ELSE FreeSlot(freed[i - 1], T[i - 1], preserve)
    IN  State(freed[Size(T)], T, IF HasJunk(T) THEN "crash" ELSE "ok")

\* The callback of ht_resize, once per element x of the old table.
ht_resize_migrate_cb(s, x) ==
    CASE s.err # "ok" -> s
      [] s.err = "ok" /\ x = Junk -> State(s.m, s.t, "crash")
      [] OTHER -> _ht_insert(s.m, s.t, x)
Migrated(M, T, new) ==
    LET w == Walked(M, T)
        moved[i \in 0 .. Len(w)] == IF i = 0 THEN State(M, new, "ok") ELSE ht_resize_migrate_cb(moved[i - 1], w[i])
    IN  moved[Len(w)]

\* The end of ht_resize: the old table goes, or the new one does.
Resized_DestroysData(T, s) ==
    IF s.err = "ok" THEN [ht_destroy_table(s.m, T, FALSE) EXCEPT !.t = s.t]
    ELSE [ht_destroy_table(s.m, s.t, TRUE) EXCEPT !.t = T, !.err = IF @ = "ok" THEN s.err ELSE @]
Resized_Commits(T, s) == [ht_destroy_table(s.m, T, TRUE) EXCEPT !.t = s.t]
Resized(T, s) ==
    IF s.err = "ok" THEN [ht_destroy_table(s.m, T, TRUE) EXCEPT !.t = s.t]
    ELSE [ht_destroy_table(s.m, s.t, TRUE) EXCEPT !.t = T, !.err = IF @ = "ok" THEN s.err ELSE @]

\* ht_resize into a new table whose slots in junk are not NULL.
ht_resize(M, T, junk) ==
    LET new == [i \in 0 .. 2 * Size(T) - 1 |-> IF i \in junk THEN Junk ELSE NULL]
        s   == Migrated(Spend(M), T, new)
    IN  IF M.budget = 0 \/ 2 * Size(T) > MaxTable THEN State(M, T, "ENOMEM")
        ELSE IF s.err = "crash" THEN s ELSE Resized(T, s)

ht_needs_resize(T, n) == n > Size(T) \div 2

\* Which slots of a new table may hold Junk.
JunkSets(T) == {J \in SUBSET (0 .. 2 * Size(T) - 1) : Cardinality(J) <= MaxJunk}

\* How many calls of malloc may succeed: a list and a node; in ht_resize the
\* table, and a list and a node for each element.
Budgets ==
    0 .. IF ht_needs_resize(ht_table, ht_nelements + 1) THEN 2 * ht_nelements + 5 ELSE 2

\* The end of a call that leaves state s and answers r.
Ends(s, n, r) ==
    /\ mem' = [s.m EXCEPT !.budget = 0]
    /\ ht_table' = s.t
    /\ ht_nelements' = n
    /\ reply' = r
    /\ status' = IF s.err = "crash" THEN "crashed" ELSE "running"

\* The data becomes the table's if the insertion succeeds.  The result of
\* ht_resize is ignored: only a crash shows.
Kept(s, d) == [s EXCEPT !.m.live = @ \cup {d}]

ht_insert(d) ==
    \E b \in Budgets :
        LET s == _ht_insert([mem EXCEPT !.budget = b], ht_table, d)
            n == ht_nelements + 1
        IN  IF s.err # "ok" THEN Ends(s, ht_nelements, Reply("insert", d, s.err))
            ELSE IF ~ht_needs_resize(s.t, n) THEN Ends(Kept(s, d), n, Reply("insert", d, "ok"))
            ELSE \E J \in JunkSets(s.t) :
                   Ends(ht_resize(Kept(s, d).m, s.t, J), n, Reply("insert", d, "ok"))

\* The list a call on d looks in.
ListFor(d) == ht_table[Slot(ht_table, d)]

ht_find(d) ==
    LET l == ListFor(d)
        e == IF IsList(l) THEN ll_find(mem, l, d) ELSE "ENOENT"
    IN  Ends(State(mem, ht_table, IF l = Junk THEN "crash" ELSE "ok"), ht_nelements, Reply("find", d, e))

Removed(d) ==
    LET r == ll_remove(mem, ListFor(d), d)
    IN  State(r.m, [ht_table EXCEPT ![Slot(ht_table, d)] = r.l], r.err)

Fewer_Never(e) == ht_nelements
Fewer(e) == IF e = "ok" THEN ht_nelements - 1 ELSE ht_nelements

ht_remove(d) ==
    LET l == ListFor(d)
        s == IF IsList(l) THEN Removed(d)
             ELSE State(mem, ht_table, IF l = Junk THEN "crash" ELSE "ENOENT")
    IN  Ends(s, Fewer(s.err), Reply("remove", d, s.err))

ht_empty == ht_nelements = 0

\* The slot ht_get_random stops at when it starts at i: the next one that is not
\* NULL and not an empty list; there may be none.
Occupied(x) == x # NULL /\ (IsList(x) => ~ll_empty(x))
Stops(i) ==
    LET at(k) == (i + k) % Size(ht_table)
        hits  == {k \in 0 .. Size(ht_table) - 1 : Occupied(ht_table[at(k)])}
    IN  IF hits = {} THEN NULL ELSE ht_table[at(Min(hits))]

ht_get_random ==
    /\ ~ht_empty
    /\ \E i \in DOMAIN ht_table :
         LET x == Stops(i) IN
         IF IsList(x)
         THEN \E d \in RandomOf(mem, x) :
                Ends(State(mem, ht_table, "ok"), ht_nelements, Reply("random", d, "ok"))
         ELSE /\ status' = IF x = Junk THEN "crashed" ELSE "loops"
              /\ UNCHANGED <<mem, ht_table, ht_nelements, reply>>

ht_get_random_ENOENT ==
    /\ ht_empty
    /\ Ends(State(mem, ht_table, "ok"), 0, Reply("random", NULL, "ENOENT"))

\* ht_iterate with a callback that stops at d: how many elements it is given.
\* A Junk slot on the way is followed.
Calls(w, d) == IF d \in ToSet(w) THEN CHOOSE i \in DOMAIN w : w[i] = d ELSE Len(w)

ht_iterate(d) ==
    LET w == Walked(mem, ht_table)
        n == Calls(w, d)
    IN  Ends(State(mem, ht_table, IF Junk \in ToSet(SubSeq(w, 1, n)) THEN "crash" ELSE "ok"),
             ht_nelements, Reply("iterate", d, n))

\* ht_destroy; then ht_create.
ht_destroy ==
    LET s == ht_destroy_table(mem, ht_table, FALSE)
    IN  Ends([s EXCEPT !.t = [i \in 0 .. HT_START_SIZE - 1 |-> NULL]], 0, Reply("create", NULL, "ok"))

Next ==
    /\ status = "running"
    /\ \/ \E d \in Data : ht_insert(d) \/ ht_find(d) \/ ht_remove(d)
       \/ \E d \in Data \cup {NULL} : ht_iterate(d)
       \/ ht_get_random
       \/ ht_get_random_ENOENT
       \/ ht_destroy

Spec == Init /\ [][Next]_vars

-----------------------------------------------------------------------------
(* Correctness                                                             *)

\* What ht_check adds up.
Nnodes(T) ==
    LET sum[i \in 0 .. Size(T)] ==
            IF i = 0 THEN 0 ELSE sum[i - 1] + (IF IsList(T[i - 1]) THEN T[i - 1].nnodes ELSE 0)
    IN  sum[Size(T)]

Running == status = "running"
ListsIn(T) == {T[i] : i \in {j \in DOMAIN T : IsList(T[j])}}

Contents == UNION {ToSet(Items(mem, l)) : l \in ListsIn(ht_table)}

(* Every node malloc gave out is in the table and every node of the table  *)
(* is allocated, whether ht_resize succeeded, failed at its first malloc   *)
(* or half-way through; nothing is freed twice.  The data objects that     *)
(* exist are exactly those in the table: moving to a new table destroys    *)
(* none, and removing or destroying forgets none.                          *)
TableOwnsAll ==
    Running => /\ mem.used = UNION {ToSet(Chain(mem, l)) : l \in ListsIn(ht_table)}
               /\ mem.live = Contents
               /\ ~mem.fault

(* Every element is in the slot of its hash for the present size, once, and*)
(* so in one place only; ht_check passes, and ll_check on every list.      *)
HashedRight ==
    Running =>
        /\ \A i \in DOMAIN ht_table :
             IsList(ht_table[i]) =>
                 /\ IsInjective(Items(mem, ht_table[i]))
                 /\ \A d \in ToSet(Items(mem, ht_table[i])) : Slot(ht_table, d) = i
        /\ Nnodes(ht_table) = ht_nelements
        /\ \A l \in ListsIn(ht_table) : ll_check(mem, l)

(* ht_get_random always finds an element: its loop never goes round for    *)
(* ever.                                                                   *)
RandomReturns == status # "loops"

(* Unless it stops at a Junk slot, the program sees a set: no insertion    *)
(* that made the table grow, or fail to grow, loses or repeats anything.   *)
Set == INSTANCE DataSet WITH contents <- Contents

IsSet == Set!Init /\ [][~Running' \/ Set!Next]_<<mem, ht_table, reply>>

(* No call dereferences what malloc happened to leave in a new table.      *)
NeverCrashes == status # "crashed"

=============================================================================
