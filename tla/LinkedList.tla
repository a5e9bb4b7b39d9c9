----------------------------- MODULE LinkedList -----------------------------
(***************************************************************************)
(* Lists of linked_lists/linked_list.c that share one memory and the data  *)
(* they hold, as the paths of the graphs do: made, copied, extended at     *)
(* either end and destroyed, with malloc failing anywhere.  They have no   *)
(* llo_destroy_data_fn, as in every use of ll_create_copy in graphs/.      *)
(***************************************************************************)
EXTENDS Lists

CONSTANTS
    Item,      \* the data these lists hold
    Name,      \* the variables that hold lists
    MaxLost    \* bound: how many nodes ll_insert_head may lose

ASSUME ItemAssumption == Item \subseteq Data /\ IsFiniteSet(Item)

VARIABLES
    memory,
    lists,     \* the list each variable holds, or NULL
    lost,      \* the nodes that ll_insert_head has allocated and forgotten
    result     \* what the last call returned and handed out

listvars == <<memory, lists, lost, result>>

Res(e, d) == [err |-> e, data |-> d]

ListInit ==
    /\ memory = EmptyMemory
    /\ lists = [i \in Name |-> NULL]
    /\ lost = {}
    /\ result = Res("ok", NULL)

Exists(i) == lists[i] # NULL

\* The memory a call starts with: b calls of malloc will succeed.
Given(b) == [memory EXCEPT !.budget = b]
CopyBudgets == 0 .. Cardinality(Item) + 1

\* The end of a call that leaves list r.l in i.
Returns(i, r, d) ==
    /\ memory' = [r.m EXCEPT !.budget = 0]
    /\ lists' = [lists EXCEPT ![i] = r.l]
    /\ result' = Res(r.err, IF r.err \in {"EEXIST", "ENOENT"} THEN <<i, d>> ELSE NULL)

Create(i, b) ==
    /\ ~Exists(i)
    /\ Returns(i, ll_create(Given(b), FALSE), NULL)
    /\ UNCHANGED lost

Copy(i, j, b) ==
    /\ Exists(i)
    /\ ~Exists(j)
    /\ Returns(j, ll_create_copy(Given(b), lists[i]), NULL)
    /\ UNCHANGED lost

Destroy(i) ==
    /\ Exists(i)
    /\ Returns(i, Result(ll_destroy(memory, lists[i]), NULL, "ok"), NULL)
    /\ UNCHANGED lost

Insert(i, d, b) ==
    /\ Exists(i)
    /\ Returns(i, ll_insert(Given(b), lists[i], d), d)
    /\ UNCHANGED lost

InsertHead(i, d, b) ==
    LET r == ll_insert_head(Given(b), lists[i], d) IN
    /\ Exists(i)
    /\ r.err = "EEXIST" => Cardinality(lost) < MaxLost
    /\ Returns(i, r, d)
    /\ lost' = IF r.err = "EEXIST" THEN lost \cup (r.m.used \ memory.used) ELSE lost

Delete(i, d) ==
    /\ Exists(i)
    /\ Returns(i, ll_remove(memory, lists[i], d), d)
    /\ UNCHANGED lost

Find(i, d) ==
    /\ Exists(i)
    /\ result' = Res(ll_find(memory, lists[i], d), <<i, d>>)
    /\ UNCHANGED <<memory, lists, lost>>

\* ll_first, ll_last and ll_get_random.
Peek(i, kind, found) ==
    /\ Exists(i)
    /\ \E d \in found : result' = IF d = NULL THEN Res("ENOENT", <<i, NULL>>) ELSE Res("ok", <<i, kind, d>>)
    /\ UNCHANGED <<memory, lists, lost>>

ll_first(i) == Exists(i) /\ Peek(i, "first", {FirstOf(memory, lists[i])})
ll_last(i) == Exists(i) /\ Peek(i, "last", {LastOf(memory, lists[i])})
ll_get_random(i) == Exists(i) /\ Peek(i, "random", RandomOf(memory, lists[i]))

ListNext ==
    \E i \in Name :
        \/ Destroy(i)
        \/ ll_first(i)
        \/ ll_last(i)
        \/ ll_get_random(i)
        \/ \E d \in Item : Delete(i, d) \/ Find(i, d)
        \/ \E b \in 0 .. 1 : Create(i, b) \/ \E d \in Item : Insert(i, d, b) \/ InsertHead(i, d, b)
        \/ \E j \in Name, b \in CopyBudgets : Copy(i, j, b)

ListSpec == ListInit /\ [][ListNext]_listvars

-----------------------------------------------------------------------------
(* Correctness                                                             *)

ChainOf(i) == IF Exists(i) THEN Chain(memory, lists[i]) ELSE << >>

(* Every node that malloc gave out is in exactly one list, except those    *)
(* ll_insert_head forgot: a failed insert or a failed copy frees what it   *)
(* allocated, no node is freed twice, and no list runs over a free node or *)
(* fails ll_check.                                                         *)
NodesAccounted ==
    /\ memory.used = (UNION {ToSet(ChainOf(i)) : i \in Name}) \cup lost
    /\ \A i, j \in Name : i # j => ToSet(ChainOf(i)) \cap ToSet(ChainOf(j)) = {}
    /\ ~memory.fault
    /\ \A i \in Name : Exists(i) => ll_check(memory, lists[i])

\* What the lists hold.
Held == [i \in Name |-> IF Exists(i) THEN Items(memory, lists[i]) ELSE NULL]

(* The lists are independent sequences without repetitions.                *)
Seqs == INSTANCE DataList WITH Data <- Item, seqs <- Held

AreLists == Seqs!Spec

=============================================================================
