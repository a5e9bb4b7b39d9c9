------------------------------- MODULE DataSet -------------------------------
(***************************************************************************)
(* What the containers of hash_tables/, avl_trees/ and binary_trees/       *)
(* promise: a set.  Every call leaves in reply its name, the data it was   *)
(* called with or handed out, and its result; a call that fails changes    *)
(* nothing.                                                                *)
(***************************************************************************)
EXTENDS FiniteSets, Integers

CONSTANTS Data, NULL

VARIABLES contents, reply

Reply(op, d, r) == [op |-> op, data |-> d, res |-> r]

Init == contents = {} /\ reply = Reply("create", NULL, "ok")

Insert(d) ==
    /\ reply' = Reply("insert", d, "ok")
    /\ d \notin contents
    /\ contents' = contents \cup {d}

InsertAgain(d) ==
    /\ reply' = Reply("insert", d, "EEXIST")
    /\ d \in contents
    /\ UNCHANGED contents

NoMemory(d) ==
    /\ reply' = Reply("insert", d, "ENOMEM")
    /\ UNCHANGED contents

Find(d) ==
    /\ reply'.op = "find"
    /\ reply' = Reply("find", d, IF d \in contents THEN "ok" ELSE "ENOENT")
    /\ UNCHANGED contents

Remove(d) ==
    /\ reply'.op = "remove"
    /\ reply' = Reply("remove", d, IF d \in contents THEN "ok" ELSE "ENOENT")
    /\ contents' = contents \ {d}

Random ==
    /\ reply'.op = "random"
    /\ \/ \E d \in contents : reply' = Reply("random", d, "ok")
       \/ contents = {} /\ reply' = Reply("random", NULL, "ENOENT")
    /\ UNCHANGED contents

\* An iteration whose callback stops it at d, if it gets there: the result is
\* the number of calls of the callback.
Iterate(d) ==
    /\ reply'.op = "iterate"
    /\ reply'.data = d
    /\ IF d \in contents THEN reply'.res \in 1 .. Cardinality(contents)
                         ELSE reply'.res = Cardinality(contents)
    /\ UNCHANGED contents

Destroy ==
    /\ reply' = Reply("create", NULL, "ok")
    /\ contents' = {}

Next ==
    \/ \E d \in Data : Insert(d) \/ InsertAgain(d) \/ NoMemory(d) \/ Find(d) \/ Remove(d)
    \/ \E d \in Data \cup {NULL} : Iterate(d)
    \/ Random
    \/ Destroy

Spec == Init /\ [][Next]_<<contents, reply>>

=============================================================================
