------------------------------- MODULE UdGraph -------------------------------
(***************************************************************************)
(* The undirected graph of graphs/ud_graph/ud_graph.c: its nodes, which    *)
(* are named by their data, the tree of adjacencies every node keeps, the  *)
(* two traversals and the two searches for a shortest path.  The trees are *)
(* the sets AvlTree shows them to be, iterated in ascending order; the     *)
(* fifo and the lists are sequences (Fifo, LinkedList).                    *)
(*                                                                         *)
(* A call is one step that leaves its result in ud_reply; the caller takes *)
(* it before the next call.                                                *)
(***************************************************************************)
EXTENDS Integers, Sequences, SequencesExt, FiniteSets

\* An operator Op_Slip is Op with a slip of the kind this code invites; each is
\* used only to see that some property would notice it.
CONSTANTS UdNode, Nil

ASSUME UdAssumption == UdNode \subseteq Int /\ IsFiniteSet(UdNode) /\ Nil \notin UdNode

VARIABLES
    g_nodes,
    n_adjs,
    ud_reply,     \* the result of the last call, or NoCall
    ud_crashed    \* a call used memory it must not use

udvars == <<g_nodes, n_adjs, ud_reply, ud_crashed>>

NoCall == [op |-> "none"]

\* spath is the list a search returns, NULL if it found none; Unset if it
\* returned without storing anything there.
Unset == <<"unset">>
NoPath == << >>

UdInit ==
    /\ g_nodes = {}
    /\ n_adjs = [n \in UdNode |-> {}]
    /\ ud_reply = NoCall
    /\ ud_crashed = FALSE

Calling == ud_reply = NoCall /\ ~ud_crashed

Replies(reply) == ud_reply' = reply /\ UNCHANGED <<g_nodes, n_adjs, ud_crashed>>

\* The order at_iterate visits a tree in.
Ascending ==
    [S \in SUBSET UdNode |->
       CHOOSE s \in [1 .. Cardinality(S) -> S] : \A i, j \in 1 .. Cardinality(S) : i < j => s[i] < s[j]]

-----------------------------------------------------------------------------
(* Building the graph                                                      *)

udg_add_node(d) ==
    /\ Calling
    /\ ud_reply' = [op |-> "add_node", res |-> IF d \in g_nodes THEN "EEXIST" ELSE "ok"]
    /\ g_nodes' = g_nodes \cup {d}
    /\ UNCHANGED <<n_adjs, ud_crashed>>

udg_add_node_ENOMEM(d) == Calling /\ Replies([op |-> "add_node", res |-> "ENOMEM"])

\* The second insertion fails: the first one is taken back.
TakenBack_Not(adjs, n1, n2) == adjs
TakenBack(adjs, n1, n2) == [adjs EXCEPT ![n1] = @ \ {n2}]

udg_add_edge(n1, n2) ==
    LET linked == [n_adjs EXCEPT ![n1] = @ \cup {n2}] IN
    /\ Calling
    /\ {n1, n2} \subseteq g_nodes
    /\ \/ /\ n2 \in n_adjs[n1]
          /\ ud_reply' = [op |-> "add_edge", res |-> "EEXIST"]
          /\ UNCHANGED n_adjs
       \/ /\ n2 \notin n_adjs[n1]
          /\ n1 \in linked[n2]
          /\ n_adjs' = TakenBack(linked, n1, n2)
          /\ ud_reply' = [op |-> "add_edge", res |-> "EEXIST"]
       \/ /\ n2 \notin n_adjs[n1]
          /\ n1 \notin linked[n2]
          /\ n_adjs' = [linked EXCEPT ![n2] = @ \cup {n1}]
          /\ ud_reply' = [op |-> "add_edge", res |-> "ok"]
    /\ UNCHANGED <<g_nodes, ud_crashed>>

\* One of the two insertions finds no memory.
udg_add_edge_ENOMEM(n1, n2) ==
    /\ Calling
    /\ {n1, n2} \subseteq g_nodes
    /\ n2 \notin n_adjs[n1]
    /\ n_adjs' \in {n_adjs, TakenBack([n_adjs EXCEPT ![n1] = @ \cup {n2}], n1, n2)}
    /\ ud_reply' = [op |-> "add_edge", res |-> "ENOMEM"]
    /\ UNCHANGED <<g_nodes, ud_crashed>>

udg_get_node(d) ==
    /\ Calling
    /\ Replies([op |-> "get_node", data |-> d, res |-> IF d \in g_nodes THEN "ok" ELSE "ENOENT"])

\* udg_destroy; then udg_create.
udg_destroy ==
    /\ Calling
    /\ g_nodes' = {}
    /\ n_adjs' = [n \in UdNode |-> {}]
    /\ UNCHANGED <<ud_reply, ud_crashed>>

-----------------------------------------------------------------------------
(* Traversals: seen is the data given to a callback that stops at last.    *)
(* Loops are functions of the number of rounds, recursion of its depth.    *)

Visits == [visited : SUBSET UdNode, seen : Seq(UdNode), stop : BOOLEAN]

\* at_iterate with _udg_iterate_df_adjs_cb, until it is told to stop; visit is
\* what the call for an adjacency does.
_udg_iterate_df_adjs(visit, V, adjs) ==
    LET after[i \in 0 .. Len(adjs)] ==
            IF i = 0 THEN V
            ELSE IF after[i - 1].stop THEN after[i - 1]
            ELSE visit[after[i - 1]][adjs[i]]
    IN  after[Len(adjs)]

\* n is given to the callback, which stops at last.
Given(V, n, last) == [V EXCEPT !.seen = Append(@, n), !.stop = n = last]

\* The body of _udg_iterate_df: a node after its adjacencies.
Visited(visit, V, n, last) ==
    LET below == _udg_iterate_df_adjs(visit, [V EXCEPT !.visited = @ \cup {n}], Ascending[n_adjs[n]])
    IN  IF n \in V.visited THEN V
        ELSE IF below.stop THEN below
        ELSE Given(below, n, last)

\* A call that goes on has marked a node, so they nest no deeper than there are nodes.
_udg_iterate_df(from, last) ==
    LET visit[depth \in 0 .. Cardinality(UdNode)] ==
            [V \in Visits |-> [n \in UdNode |->
               IF depth = 0 THEN V ELSE Visited(visit[depth - 1], V, n, last)]]
    IN  visit[Cardinality(UdNode)][[visited |-> {}, seen |-> << >>, stop |-> FALSE]][from].seen

udg_iterate_df(from, last) ==
    /\ Calling
    /\ from \in g_nodes
    /\ Replies([op |-> "iterate_df", from |-> from, last |-> last, res |-> "ok",
                seen |-> _udg_iterate_df(from, last)])

\* The adjacencies of n that are queued: they are marked as visited when they
\* are queued, not when they are dequeued.
Fresh(visited, n) == n_adjs[n] \ visited

MarkedWith_Dequeued(visited, n) == visited \cup {n}
MarkedWith(visited, n) == visited \cup n_adjs[n]

\* One round of the loop of _udg_iterate_bf, and the loop: no node is queued
\* twice, so there are no more rounds than nodes.
Dequeued(V, last) ==
    LET n == Head(V.fifo) IN
    IF V.fifo = << >> \/ V.stop THEN V
    ELSE [visited |-> IF n = last THEN V.visited ELSE MarkedWith(V.visited, n),
          fifo |-> IF n = last THEN Tail(V.fifo) ELSE Tail(V.fifo) \o Ascending[Fresh(V.visited, n)],
          seen |-> Append(V.seen, n),
          stop |-> n = last]

_udg_iterate_bf(from, last) ==
    LET after[i \in 0 .. Cardinality(UdNode)] ==
            IF i = 0 THEN [visited |-> {from}, fifo |-> <<from>>, seen |-> << >>, stop |-> FALSE]
            ELSE Dequeued(after[i - 1], last)
    IN  after[Cardinality(UdNode)].seen

udg_iterate_bf(from, last) ==
    /\ Calling
    /\ from \in g_nodes
    /\ Replies([op |-> "iterate_bf", from |-> from, last |-> last, res |-> "ok",
                seen |-> _udg_iterate_bf(from, last)])

-----------------------------------------------------------------------------
(* Shortest path, depth first                                              *)

\* The search of one node's adjacencies: the best path so far, the length to
\* beat (0 for none), and whether to stop.
Better(P, spath) ==
    IF spath # NoPath /\ (P.spath = NoPath \/ Len(spath) < Len(P.spath))
    THEN [P EXCEPT !.spath = spath, !.beat = Len(spath)]
    ELSE P

\* The length the search below an adjacency has to beat, and whether it can.
BeatBelow(beat) == IF beat = 0 THEN 0 ELSE beat - 1
Hopeless_Eager(beat) == beat # 0 /\ BeatBelow(beat) <= 2
Hopeless(beat) == beat # 0 /\ BeatBelow(beat) = 1

\* curr is the set of the nodes of curr_path, search what the call for an
\* adjacency returns.
udg_shortest_path_df_adjs_cb(search, P, adj, to, curr) ==
    IF adj \in curr THEN P
    ELSE IF adj = to THEN Better([P EXCEPT !.stop = TRUE], <<adj>>)
    ELSE IF Hopeless(P.beat) THEN P
    ELSE Better(P, search[adj][curr][BeatBelow(P.beat)])

BestBelow(search, adjs, to, curr, beat) ==
    LET after[i \in 0 .. Len(adjs)] ==
            IF i = 0 THEN [spath |-> NoPath, beat |-> beat, stop |-> FALSE]
            ELSE IF after[i - 1].stop THEN after[i - 1]
            ELSE udg_shortest_path_df_adjs_cb(search, after[i - 1], adjs[i], to, curr)
    IN  after[Len(adjs)].spath

Prepended(n, spath) == IF spath = NoPath THEN NoPath ELSE <<n>> \o spath

\* A call has a longer curr_path than its caller, so they nest no deeper than
\* there are nodes.
_udg_shortest_path_df(from, to) ==
    LET search[depth \in 0 .. Cardinality(UdNode)] ==
            [n \in UdNode |-> [curr \in SUBSET UdNode |-> [beat \in Nat |->
               IF depth = 0 THEN NoPath
               ELSE Prepended(n, BestBelow(search[depth - 1], Ascending[n_adjs[n]], to, curr \cup {n}, beat))]]]
    IN  search[Cardinality(UdNode)][from][{}][0]

\* A destination that is not in the graph (a node of another one) has no
\* adjacencies here: nothing is stored either.
Found(to) == IF to \in g_nodes THEN "ok" ELSE "ENOENT"

udg_shortest_path_df(from, to) ==
    /\ Calling
    /\ from \in g_nodes
    /\ Replies([op |-> "path_df", from |-> from, to |-> to, res |-> Found(to),
                spath |-> IF n_adjs[to] = {} THEN Unset ELSE _udg_shortest_path_df(from, to)])

-----------------------------------------------------------------------------
(* Shortest path, breadth first: back is the tree of the visited nodes,    *)
(* with their backpointers                                                 *)

\* The adjacencies of n that are added before the iteration stops at to.
Added(back, n, to) ==
    {m \in n_adjs[n] \ DOMAIN back : to \in n_adjs[n] \ DOMAIN back => m <= to}

Pointed(back, new, n) == [m \in DOMAIN back \cup new |-> IF m \in new THEN n ELSE back[m]]

\* One round of the loop, and the loop; to is not queued.
Searched(B, to) ==
    LET n   == Head(B.fifo)
        new == Added(B.back, n, to)
    IN  IF B.fifo = << >> \/ B.found THEN B
        ELSE [back |-> Pointed(B.back, new, n),
              fifo |-> Tail(B.fifo) \o Ascending[new \ {to}],
              found |-> to \in new]

BackPointers(from, to) ==
    LET after[i \in 0 .. Cardinality(UdNode)] ==
            IF i = 0 THEN [back |-> [m \in {from} |-> Nil], fifo |-> <<from>>, found |-> FALSE]
            ELSE Searched(after[i - 1], to)
    IN  after[Cardinality(UdNode)]

\* The path is put together from its end.
Followed(back, to) ==
    LET path[i \in 0 .. Cardinality(UdNode)] ==
            IF i = 0 THEN <<to>>
            ELSE IF back[Head(path[i - 1])] = Nil THEN path[i - 1]
            ELSE <<back[Head(path[i - 1])]>> \o path[i - 1]
    IN  path[Cardinality(UdNode)]

_udg_shortest_path_bf(from, to) ==
    LET B == BackPointers(from, to) IN
    IF B.found THEN Followed(B.back, to) ELSE NoPath

\* When the destination is not in the graph, fi is tested before it was set,
\* and destroyed when it happens not to be NULL.
udg_shortest_path_bf(from, to) ==
    /\ Calling
    /\ from \in g_nodes
    /\ ud_reply' = [op |-> "path_bf", from |-> from, to |-> to, res |-> Found(to),
                    spath |-> IF n_adjs[to] = {} THEN Unset ELSE _udg_shortest_path_bf(from, to)]
    /\ ud_crashed' \in IF to \in g_nodes THEN {FALSE} ELSE BOOLEAN
    /\ UNCHANGED <<g_nodes, n_adjs>>

\* A call finds no memory.  The depth-first ones clean up.  The breadth-first
\* ones free a fifo that was not created yet, or free a node of the tree of
\* visited nodes that the tree frees too: what follows is anything.
udg_iterate_or_path_ENOMEM(breadth) ==
    /\ Calling
    /\ g_nodes # {}
    /\ ud_reply' = [op |-> "search", res |-> "ENOMEM"]
    /\ ud_crashed' \in IF breadth THEN BOOLEAN ELSE {FALSE}
    /\ UNCHANGED <<g_nodes, n_adjs>>

\* The caller takes the result.
TakeReply ==
    /\ ud_reply # NoCall
    /\ ~ud_crashed
    /\ ud_reply' = NoCall
    /\ UNCHANGED <<g_nodes, n_adjs, ud_crashed>>

UdNext ==
    \/ \E d \in UdNode : udg_add_node(d) \/ udg_add_node_ENOMEM(d) \/ udg_get_node(d)
    \/ \E n1, n2 \in UdNode :
         \/ udg_add_edge(n1, n2) \/ udg_add_edge_ENOMEM(n1, n2)
         \/ udg_shortest_path_df(n1, n2) \/ udg_shortest_path_bf(n1, n2)
    \/ \E n \in UdNode, last \in UdNode \cup {Nil} : udg_iterate_df(n, last) \/ udg_iterate_bf(n, last)
    \/ \E breadth \in BOOLEAN : udg_iterate_or_path_ENOMEM(breadth)
    \/ udg_destroy
    \/ TakeReply

UdSpec == UdInit /\ [][UdNext]_udvars

-----------------------------------------------------------------------------
(* Correctness                                                             *)

\* The nodes at most k edges from n.
Ball(adjs, n, k) ==
    LET ball[i \in 0 .. k] ==
            IF i = 0 THEN {n} ELSE ball[i - 1] \cup UNION {adjs[m] : m \in ball[i - 1]}
    IN  ball[k]

Component(adjs, n) == Ball(adjs, n, Cardinality(UdNode))
Distance(adjs, m, n) ==
    CHOOSE k \in 0 .. Cardinality(UdNode) :
      n \in Ball(adjs, m, k) /\ \A j \in 0 .. k - 1 : n \notin Ball(adjs, m, j)

(* udg_check: every adjacency is mutual, also when one half of an edge     *)
(* could not be added; and no node is adjacent to itself or to one that is *)
(* not in the graph.                                                       *)
GraphChecks ==
    \A n \in UdNode :
      /\ n_adjs[n] \subseteq g_nodes \ {n}
      /\ \A m \in n_adjs[n] : n \in n_adjs[m]

(* A traversal gives its callback every node that can be reached from the  *)
(* start, each once, up to the one it stops at: depth first, with the start*)
(* last and never a node without a later neighbour; breadth first, nearer  *)
(* nodes before farther ones.                                              *)
TraversalsCover ==
    ud_reply.op \in {"iterate_df", "iterate_bf"} =>
      LET seen == ud_reply.seen
          all  == Component(n_adjs, ud_reply.from)
      IN  /\ IsInjective(seen)
          /\ IF ud_reply.last \in all THEN ToSet(seen) \subseteq all /\ Last(seen) = ud_reply.last
             ELSE ToSet(seen) = all
          /\ IF ud_reply.op = "iterate_df"
             THEN \A i \in DOMAIN seen : i < Len(seen) /\ ud_reply.last \notin all =>
                    \E j \in i + 1 .. Len(seen) : seen[j] \in n_adjs[seen[i]]
             ELSE \A i \in 1 .. Len(seen) - 1 :
                    Distance(n_adjs, ud_reply.from, seen[i]) <= Distance(n_adjs, ud_reply.from, seen[i + 1])

(* The two searches agree with each other and with the graph: they return  *)
(* a path when another node can be reached, its steps are edges, and no    *)
(* path is shorter.  For the depth-first search this is about the pruning  *)
(* by length_to_beat.  A search for a node without adjacencies stores      *)
(* nothing.                                                                *)
PathsAreShortest ==
    ud_reply.op \in {"path_df", "path_bf"} =>
      LET from == ud_reply.from
          to   == ud_reply.to
          path == ud_reply.spath
      IN  IF n_adjs[to] = {} THEN path = Unset
          ELSE IF to \notin Component(n_adjs, from) \ {from} THEN path = NoPath
          ELSE /\ Head(path) = from /\ Last(path) = to
               /\ \A i \in 1 .. Len(path) - 1 : path[i + 1] \in n_adjs[path[i]]
               /\ Len(path) = 1 + Distance(n_adjs, from, to)

=============================================================================
