-------------------------------- MODULE Lists --------------------------------
(***************************************************************************)
(* The lists of linked_lists/linked_list.c as operators on the memory they *)
(* live in.  A memory M has the nodes that are allocated, what is in them, *)
(* the data objects that exist, and whether the program has used or freed  *)
(* something it must not.  M.budget is the number of calls of malloc that  *)
(* succeed before one fails.  A list has the fields of linked_list_t; owns *)
(* says whether it has an llo_destroy_data_fn.                             *)
(***************************************************************************)
\* An operator Op_Slip is Op with a slip of the kind this code invites; each is
\* used only to see that some property would notice it.
EXTENDS Integers, Sequences, SequencesExt, FiniteSets

CONSTANTS
    Node,    \* addresses of list nodes
    Data,    \* what lists hold; llo_compare_fn tells them apart
    NULL

List == [root : Node \cup {NULL}, nnodes : Nat, owns : BOOLEAN]

\* Addresses are numbers, and NULL is no object.
ASSUME ListsAssumption ==
    /\ Node \subseteq Nat /\ IsFiniteSet(Node)
    /\ NULL \notin Node /\ NULL \notin Data /\ NULL \notin Seq(Data) /\ NULL \notin List

Blank == [data |-> NULL, next |-> NULL]

EmptyMemory == [used |-> {}, cell |-> [n \in Node |-> Blank], live |-> {}, fault |-> FALSE, budget |-> 0]

Result(M, l, e) == [m |-> M, l |-> l, err |-> e]

CanAllocate(M) == M.budget > 0 /\ Node \ M.used # {}
Spend(M) == [M EXCEPT !.budget = @ - 1]
NewNode(M) == Min(Node \ M.used)
WithNode(M, n, d, next) ==
    [Spend(M) EXCEPT !.used = @ \cup {n}, !.cell[n] = [data |-> d, next |-> next]]

\* The nodes of a list in order: the walk along ln_next.
Walk(M, n) ==
    LET walk[i \in 0 .. Cardinality(Node)] ==
            [m \in Node \cup {NULL} |->
                IF i = 0 \/ m = NULL THEN << >> ELSE <<m>> \o walk[i - 1][M.cell[m].next]]
    IN  walk[Cardinality(Node)][n]

Chain(M, l) == Walk(M, l.root)

Items(M, l) == LET chain == Chain(M, l) IN [i \in DOMAIN chain |-> M.cell[chain[i]].data]

\* Where d is in a list, or 0.
Position(M, l, d) ==
    LET items == Items(M, l)
        hits  == {i \in DOMAIN items : items[i] = d}
    IN  IF hits = {} THEN 0 ELSE Min(hits)

\* free, of a node of a list: freeing it twice is a fault.
FreeNode(M, n) ==
    [M EXCEPT !.used = @ \ {n}, !.cell[n] = Blank, !.fault = @ \/ n \notin M.used]

\* llo_destroy_data_fn, if there is one.
DestroyData(M, l, d) ==
    IF l.owns THEN [M EXCEPT !.live = @ \ {d}, !.fault = @ \/ d \notin M.live] ELSE M

ll_destroy_node(M, l, n) == FreeNode(DestroyData(M, l, M.cell[n].data), n)

-----------------------------------------------------------------------------
NewList(owns) == [root |-> NULL, nnodes |-> 0, owns |-> owns]

\* ll_create allocates the list and its ll_ops, as one call of malloc here.
ll_create(M, owns) ==
    IF M.budget > 0 THEN Result(Spend(M), NewList(owns), "ok") ELSE Result(M, NULL, "ENOMEM")

ll_empty(l) == l.nnodes = 0
ll_length(l) == l.nnodes

\* The list with node n at its end: the assertion is that of ll_insert.
Linked(M, l, n) ==
    LET chain == Chain(M, l) IN
    IF chain = << >>
    THEN Result([M EXCEPT !.fault = @ \/ ~ll_empty(l)], [l EXCEPT !.root = n, !.nnodes = @ + 1], "ok")
    ELSE Result([M EXCEPT !.cell[Last(chain)].next = n], [l EXCEPT !.nnodes = @ + 1], "ok")

ll_insert_Leaks(M, l, d) ==
    CASE ~CanAllocate(M) -> Result(M, l, "ENOMEM")
      [] CanAllocate(M) /\ Position(M, l, d) > 0 -> Result(WithNode(M, NewNode(M), d, NULL), l, "EEXIST")
      [] OTHER -> Linked(WithNode(M, NewNode(M), d, NULL), l, NewNode(M))
\* The new node is freed when the data is there already.
ll_insert(M, l, d) ==
    CASE ~CanAllocate(M) -> Result(M, l, "ENOMEM")
      [] CanAllocate(M) /\ Position(M, l, d) > 0 -> Result(Spend(M), l, "EEXIST")
      [] OTHER -> Linked(WithNode(M, NewNode(M), d, NULL), l, NewNode(M))

\* Here it is not.
ll_insert_head(M, l, d) ==
    LET n == NewNode(M) IN
    CASE ~CanAllocate(M) -> Result(M, l, "ENOMEM")
      [] CanAllocate(M) /\ Position(M, l, d) > 0 -> Result(WithNode(M, n, d, NULL), l, "EEXIST")
      [] OTHER -> Result(WithNode(M, n, d, l.root), [l EXCEPT !.root = n, !.nnodes = @ + 1], "ok")

ll_find(M, l, d) == IF Position(M, l, d) = 0 THEN "ENOENT" ELSE "ok"

\* The list without the i-th node of its chain, which is still allocated.
Unlinked(M, l, i) ==
    LET chain == Chain(M, l)
        next  == M.cell[chain[i]].next
    IN  IF i = 1
        THEN Result(M, [l EXCEPT !.root = next, !.nnodes = @ - 1], "ok")
        ELSE Result([M EXCEPT !.cell[chain[i - 1]].next = next], [l EXCEPT !.nnodes = @ - 1], "ok")

ll_remove(M, l, d) ==
    LET i == Position(M, l, d)
        r == Unlinked(M, l, i)
    IN  IF i = 0 THEN Result(M, l, "ENOENT")
        ELSE [r EXCEPT !.m = ll_destroy_node(r.m, l, Chain(M, l)[i])]

\* The results of ll_first, ll_last and ll_get_random.
FirstOf(M, l) == IF ll_empty(l) THEN NULL ELSE Items(M, l)[1]
LastOf(M, l) == IF ll_empty(l) THEN NULL ELSE Last(Items(M, l))
RandomOf(M, l) ==
    IF ll_empty(l) THEN {NULL} ELSE {Items(M, l)[i + 1] : i \in 0 .. ll_length(l) - 1}

ll_destroy(M, l) ==
    LET chain == Chain(M, l)
        freed[i \in 0 .. Len(chain)] == IF i = 0 THEN M ELSE ll_destroy_node(freed[i - 1], l, chain[i])
    IN  freed[Len(chain)]

ll_create_copy_Shares(M, l) == [ll_create(M, l.owns) EXCEPT !.l = IF @ = NULL THEN NULL ELSE l]
\* ll_create_copy: one ll_insert per element, and the copy destroyed if one fails.
ll_create_copy_cb(r, d) == IF r.err = "ok" THEN ll_insert(r.m, r.l, d) ELSE r
ll_create_copy(M, l) ==
    LET new   == ll_create(M, l.owns)
        items == Items(M, l)
        copied[i \in 0 .. Len(items)] == IF i = 0 THEN new ELSE ll_create_copy_cb(copied[i - 1], items[i])
        copy  == copied[Len(items)]
    IN  IF new.err # "ok" \/ copy.err = "ok" THEN copy
        ELSE Result(ll_destroy(copy.m, copy.l), NULL, "ENOMEM")

\* The assertion of ll_check.
ll_check(M, l) == Len(Chain(M, l)) = l.nnodes

=============================================================================
