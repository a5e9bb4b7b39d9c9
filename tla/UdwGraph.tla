------------------------------ MODULE UdwGraph ------------------------------
(***************************************************************************)
(* The undirected weighted graph of graphs/udw_graph/udw_graph.c.  A node  *)
(* is named by its data; the tree of edges a node keeps is a function from *)
(* its adjacencies to weights, iterated in ascending order.                *)
(*                                                                         *)
(* A search for a shortest path is a loop over a heap of paths, one step   *)
(* per path.  A path is the sequence of the nodes its edges lead to,       *)
(* without the node it starts from.  Which of several shortest paths the   *)
(* heap yields is left open, as PriorityQueue does; weights are positive.  *)
(***************************************************************************)
EXTENDS Integers, Sequences, SequencesExt, FiniteSets, FiniteSetsExt

\* An operator Op_Slip is Op with a slip of the kind this code invites; each is
\* used only to see that some property would notice it.
CONSTANTS WNode, Weight, NoSearch

ASSUME UdwAssumption ==
    /\ WNode \subseteq Int /\ IsFiniteSet(WNode) /\ NoSearch \notin WNode
    /\ Weight \subseteq Nat \ {0} /\ IsFiniteSet(Weight) /\ Weight # {}

VARIABLES
    wg_nodes,
    wg_edges,     \* wg_edges[n][m] is the weight of the edge n keeps to m
    search,       \* the search under way, or Idle
    wg_reply,     \* the result of the last call, or NoReply
    wg_crashed    \* memory was freed twice

udwvars == <<wg_nodes, wg_edges, search, wg_reply, wg_crashed>>

Idle == [from |-> NoSearch]
NoReply == [op |-> "none"]

UdwInit ==
    /\ wg_nodes = {}
    /\ wg_edges = [n \in WNode |-> << >>]
    /\ search = Idle
    /\ wg_reply = NoReply
    /\ wg_crashed = FALSE

CallingW == search = Idle /\ wg_reply = NoReply /\ ~wg_crashed

\* The tree of edges of a node, with one to m.
EdgeInserted(tree, m, w) == [k \in DOMAIN tree \cup {m} |-> IF k = m THEN w ELSE tree[k]]
WithEdge(edges, n, m, w) == [edges EXCEPT ![n] = EdgeInserted(@, m, w)]

-----------------------------------------------------------------------------
udwg_add_node(d) ==
    /\ CallingW
    /\ wg_reply' = [op |-> "add_node", res |-> IF d \in wg_nodes THEN "EEXIST" ELSE "ok"]
    /\ wg_nodes' = wg_nodes \cup {d}
    /\ UNCHANGED <<wg_edges, search, wg_crashed>>

\* No memory for the node, or for either edge before anything is inserted.
udwg_add_ENOMEM ==
    /\ CallingW
    /\ wg_reply' = [op |-> "add", res |-> "ENOMEM"]
    /\ UNCHANGED <<wg_nodes, wg_edges, search, wg_crashed>>

\* e1 and e2 are in the trees of n1 and n2.
EdgeLinked(n1, n2, w) == WithEdge(WithEdge(wg_edges, n1, n2, w), n2, n1, w)

udwg_add_edge(n1, n2, w) ==
    /\ CallingW
    /\ {n1, n2} \subseteq wg_nodes
    /\ n1 # n2
    /\ wg_edges' = IF n2 \in DOMAIN wg_edges[n1] THEN wg_edges
                   ELSE EdgeLinked(n1, n2, w)
    /\ wg_reply' = [op |-> "add_edge", res |-> IF n2 \in DOMAIN wg_edges[n1] THEN "EEXIST" ELSE "ok"]
    /\ UNCHANGED <<wg_nodes, search, wg_crashed>>

\* at_remove of the edge to m from the tree of n.
EdgeRemoved_Not(edges, n, m) == edges
EdgeRemoved(edges, n, m) == [edges EXCEPT ![n] = [k \in DOMAIN @ \ {m} |-> @[k]]]

\* The second insertion fails, because n1 and n2 are one node or there is no
\* memory.  Removing the first edge from its tree frees it; it is freed again.
udwg_add_edge_fails(n1, n2, w) ==
    /\ CallingW
    /\ {n1, n2} \subseteq wg_nodes
    /\ n2 \notin DOMAIN wg_edges[n1]
    /\ wg_edges' = EdgeRemoved(WithEdge(wg_edges, n1, n2, w), n1, n2)
    /\ wg_reply' = [op |-> "add_edge", res |-> IF n1 = n2 THEN "EEXIST" ELSE "ENOMEM"]
    /\ wg_crashed' \in BOOLEAN
    /\ UNCHANGED <<wg_nodes, search>>

\* udwg_destroy; then udwg_create.
udwg_destroy ==
    /\ CallingW
    /\ wg_nodes' = {}
    /\ wg_edges' = [n \in WNode |-> << >>]
    /\ UNCHANGED <<search, wg_reply, wg_crashed>>

-----------------------------------------------------------------------------
(* udwg_shortest_path_bf                                                   *)

\* The node a path from n comes to with its i-th edge.
NodeAt(n, path, i) == IF i = 0 THEN n ELSE path[i]

\* udwg_path_len of a path from n: the weights of its edges, one after another.
udwg_path_len(edges, n, path) ==
    LET plen[i \in 0 .. Len(path)] ==
            IF i = 0 THEN 0 ELSE plen[i - 1] + edges[NodeAt(n, path, i - 1)][path[i]]
    IN  plen[Len(path)]

PathLen(s, path) == udwg_path_len(wg_edges, s.from, path)

\* udwg_spbf_cb for every edge of n: the paths that go on from path by one edge.
Extended(path, n) == {Append(path, m) : m \in DOMAIN wg_edges[n] \ ToSet(path)}

\* best_path after the edges of n: the path to s.to replaces it if it is shorter.
udwg_best(s, path, n) ==
    LET p == Append(path, s.to) IN
    IF p \in Extended(path, n) /\ (s.best = << >> \/ PathLen(s, p) < PathLen(s, s.best))
    THEN p ELSE s.best

Explored(s, path, n) ==
    [s EXCEPT !.pq = @ \cup {p \in Extended(path, n) : Last(p) # s.to},
              !.best = udwg_best(s, path, n)]

\* The call up to the loop.
udwg_shortest_path_bf(from, to) ==
    /\ CallingW
    /\ {from, to} \subseteq wg_nodes
    /\ search' = Explored([from |-> from, to |-> to, pq |-> {}, visited |-> {}, best |-> << >>,
                           popped |-> FALSE], << >>, from)
    /\ UNCHANGED <<wg_nodes, wg_edges, wg_reply, wg_crashed>>

\* What heap_pop may return: a path that udwg_compare_paths puts after no other.
Shortest_Longest(s) == {p \in s.pq : \A q \in s.pq : PathLen(s, p) >= PathLen(s, q)}
Shortest(s) == {p \in s.pq : \A q \in s.pq : PathLen(s, p) <= PathLen(s, q)}

\* The best path can't be beat.
CantBeBeat_Any(s, path) == s.best # << >>
CantBeBeat(s, path) == s.best # << >> /\ PathLen(s, path) >= PathLen(s, s.best)

\* The body of the loop for a path that might still lead to a better one; the
\* node it leads to is marked as visited.
Popped(s, path) ==
    LET rest == [s EXCEPT !.pq = @ \ {path}, !.popped = TRUE] IN
    IF Last(path) \in s.visited THEN rest
    ELSE [Explored(rest, path, Last(path)) EXCEPT !.visited = @ \cup {Last(path)}]

Explore ==
    /\ search # Idle
    /\ \E path \in Shortest(search) :
         /\ ~CantBeBeat(search, path)
         /\ search' = Popped(search, path)
    /\ UNCHANGED <<wg_nodes, wg_edges, wg_reply, wg_crashed>>

Returns(reply) == wg_reply' = reply /\ search' = Idle /\ UNCHANGED <<wg_nodes, wg_edges>>

PathReply(res, path) ==
    [op |-> "path", from |-> search.from, to |-> search.to, res |-> res, path |-> path]

ReturnBest ==
    /\ search # Idle
    /\ \E path \in Shortest(search) : CantBeBeat(search, path)
    /\ Returns(PathReply("ok", search.best))
    /\ UNCHANGED wg_crashed

\* The heap is empty, and found is still false.  The last path that was popped
\* has been destroyed, and is destroyed again.
ReturnENOENT ==
    /\ search # Idle
    /\ search.pq = {}
    /\ Returns(PathReply("ENOENT", << >>))
    /\ wg_crashed' \in IF search.popped THEN BOOLEAN ELSE {FALSE}

\* No memory, in any iteration: what was allocated is released, except best_path.
ReturnENOMEM ==
    /\ search # Idle
    /\ Returns(PathReply("ENOMEM", << >>))
    /\ UNCHANGED wg_crashed

\* The caller takes the result.
TakeReplyW ==
    /\ wg_reply # NoReply
    /\ ~wg_crashed
    /\ wg_reply' = NoReply
    /\ UNCHANGED <<wg_nodes, wg_edges, search, wg_crashed>>

UdwNext ==
    \/ \E d \in WNode : udwg_add_node(d)
    \/ udwg_add_ENOMEM
    \/ \E n1, n2 \in WNode :
         \/ \E w \in Weight : udwg_add_edge(n1, n2, w) \/ udwg_add_edge_fails(n1, n2, w)
         \/ udwg_shortest_path_bf(n1, n2)
    \/ Explore \/ ReturnBest \/ ReturnENOENT \/ ReturnENOMEM
    \/ udwg_destroy
    \/ TakeReplyW

UdwSpec == UdwInit /\ [][UdwNext]_udwvars

-----------------------------------------------------------------------------
(* Correctness                                                             *)

Far == Cardinality(WNode) * Max(Weight)

\* The length of the shortest way from n to any node, Far + 1 if there is none,
\* by relaxing every edge as often as there are nodes.
Neighbours(edges, m) == {k \in WNode : m \in DOMAIN edges[k]}
Relaxed(edges, d) ==
    [m \in WNode |-> Min({d[m]} \cup {d[k] + edges[k][m] : k \in Neighbours(edges, m)})]
Distances(edges, n) ==
    LET dist[i \in 0 .. Cardinality(WNode)] ==
            IF i = 0 THEN [m \in WNode |-> IF m = n THEN 0 ELSE Far + 1]
            ELSE Relaxed(edges, dist[i - 1])
    IN  dist[Cardinality(WNode)]

(* udwg_check: the two ends of an edge know it, with one weight.           *)
WeightsMutual ==
    \A n \in WNode : \A m \in DOMAIN wg_edges[n] :
      n \in DOMAIN wg_edges[m] /\ wg_edges[m][n] = wg_edges[n][m]

(* "If this is the first time we've seen 'node', then _path is the shortest*)
(* path to node" (udw_graph.c:501): so for every path the loop is about to *)
(* explore, though no path through the destination is ever explored.  It   *)
(* is what justifies dropping the later paths to a visited node.           *)
FirstSeenIsShortest ==
    search # Idle =>
      \A path \in Shortest(search) :
        \/ CantBeBeat(search, path)
        \/ Last(path) \in search.visited \cup {search.from}
        \/ PathLen(search, path) = Distances(wg_edges, search.from)[Last(path)]

(* A path that is returned leads from the node to the other along edges of *)
(* the graph, and none is shorter.                                         *)
AnswerIsShortest ==
    wg_reply.op = "path" /\ wg_reply.res = "ok" /\ wg_reply.from # wg_reply.to =>
      LET path == <<wg_reply.from>> \o wg_reply.path IN
      /\ Last(path) = wg_reply.to
      /\ \A i \in 1 .. Len(path) - 1 : path[i + 1] \in DOMAIN wg_edges[path[i]]
      /\ udwg_path_len(wg_edges, wg_reply.from, wg_reply.path) = Distances(wg_edges, wg_reply.from)[wg_reply.to]

(* The search says ENOENT only when there is no path to the other node.    *)
ENOENTMeansNoPath ==
    wg_reply.op = "path" /\ wg_reply.res = "ENOENT" /\ wg_reply.from # wg_reply.to =>
      Distances(wg_edges, wg_reply.from)[wg_reply.to] > Far

=============================================================================
