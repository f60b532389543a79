---------------------------- MODULE MemoryGraph ----------------------------
(***************************************************************************)
(* One graph without a store, changed by the core's operations, and what   *)
(* is read from it: every traversal, algorithm and query is compared with  *)
(* a definition over the records.  The adjacency and the indexes the reads *)
(* use are those the writes left: appended to, compacted, rebuilt.         *)
(***************************************************************************)
EXTENDS GraphQueries
LOCAL INSTANCE SequencesExt
LOCAL INSTANCE FiniteSetsExt

CONSTANTS
    MaxNodes,    \* bound: node ids handed out
    MaxEdges,    \* bound: edge ids handed out
    Ends,        \* bound: the pairs of nodes that edges join
    Query        \* the queries asked

ASSUME ReadBoundAssumption == MaxNodes \in Nat /\ MaxEdges \in Nat

VARIABLE graph
vars == <<graph>>

Init == graph = EmptyGraph

---------------------------------------------------------------------------
(* Writes *)

\* add_nodes
AddNode(ext) ==
    LET batch == <<ext>> IN
    /\ graph.nextNode < MaxNodes
    /\ NamesFree(graph, NewNodes(graph, batch))
    /\ graph' = WithNodes(graph, batch)

\* add_edges: without a store nothing compacts by itself.
AddEdge(src, dst, prop) ==
    LET batch == <<[src |-> src, dst |-> dst, prop |-> prop]>> IN
    /\ graph.nextEdge < MaxEdges
    /\ EndpointsLive(graph, batch)
    /\ graph' = WithEdges(graph, batch)

\* compact_segments
Compact == graph' = Compacted(graph)

\* update_node, update_edge: publish_staged rebuilds what is derived.
Update == graph' \in NodeUpdates(graph) \cup EdgeUpdates(graph)

\* delete_node, delete_edge
Delete == graph' \in NodeDeletions(graph, TRUE) \cup NodeDeletions(graph, FALSE)
                        \cup EdgeDeletions(graph)

Next ==
    \/ \E ext \in Name \cup {NoName} : AddNode(ext)
    \/ \E p \in Ends, prop \in Prop : AddEdge(p[1], p[2], prop)
    \/ Compact
    \/ Update
    \/ Delete

Spec == Init /\ [][Next]_vars

---------------------------------------------------------------------------
(* The reference: the same questions asked of the records *)

Ids == IdsOf(graph.nodes)

\* The weights of the edges of the type that lead from one node to another.
Weights(u, v, direction, type) ==
    {EdgeWeight(e) : e \in {x \in graph.edges :
        /\ OfType(x, type)
        /\ \/ IncludesOut(direction) /\ x.src = u /\ x.dst = v
           \/ IncludesIn(direction) /\ x.dst = u /\ x.src = v}}

Successors(u, direction, type) == {v \in Ids : Weights(u, v, direction, type) # {}}

\* Within(..)[k]: the nodes at most k steps away.
Within(start, direction, type) ==
    LET W[k \in 0..MaxNodes] ==
        IF k = 0 THEN {start}
        ELSE W[k - 1] \cup UNION {Successors(u, direction, type) : u \in W[k - 1]}
    IN  W

\* The weight of the edge that stands for all those to a neighbour: the oldest that
\* leads out, or else the oldest that leads in; none without an edge.
Standing(u, v, direction, type) ==
    LET out  == {e \in graph.edges : OfType(e, type) /\ IncludesOut(direction)
                                        /\ e.src = u /\ e.dst = v}
        in   == {e \in graph.edges : OfType(e, type) /\ IncludesIn(direction)
                                        /\ e.dst = u /\ e.src = v}
        each == IF out # {} THEN out ELSE in
    IN  {EdgeWeight(e) : e \in {x \in each : \A y \in each : x.id <= y.id}}

\* The weight of the lightest walk to each node along those; Far when there is none.
Far == 1000
LeastWeights(start, direction, type) ==
    LET Lighter(least, k) ==
            [v \in Ids |->
                Min({least[v]} \cup
                    UNION {{least[u] + w : w \in Standing(u, v, direction, type)} : u \in Ids})]
    IN  FoldLeft(Lighter, [v \in Ids |-> IF v = start THEN 0 ELSE Far],
                 [k \in 1..MaxNodes |-> k])

\* The weights of the walks along a sequence of nodes.
WalkWeights(nodes, direction, type) ==
    LET W[k \in 1..Len(nodes)] ==
        IF k = 1 THEN {0}
        ELSE {a + w : a \in W[k - 1], w \in Weights(nodes[k - 1], nodes[k], direction, type)}
    IN  W[Len(nodes)]

Joins(path, u, v) == path.nodes[1] = u /\ path.nodes[Len(path.nodes)] = v

Distinct(s) == \A i, j \in DOMAIN s : s[i] = s[j] => i = j

Types == {AnyType} \cup {p.type : p \in Prop}

---------------------------------------------------------------------------
(* What the reads promise *)

\* Neighbours are the nodes an edge of the type leads to, each once; a search
\* with a depth limit visits exactly the nodes within it, nearer ones first; a
\* frontier holds those at exactly its depth; and components partition the nodes
\* into what undirected searches find (adjacency.rs:35-74, traversal.rs:27-97,
\* algorithms.rs:60-88, 159-186), whatever appends, compactions and rebuilds left
\* in the base segment and in the delta.
SearchesExact ==
    /\ \A type \in Types :
        LET components == ConnectedComponents(graph, type) IN
        /\ UNION components = Ids
        /\ \A c \in components, u \in Ids :
                u \in c => c = Within(u, "both", type)[MaxNodes]
    /\ \A u \in Ids, direction \in Direction, type \in Types :
        LET within == Within(u, direction, type) IN
        /\ LET n == Neighbors(graph, u, direction, type) IN
           Distinct(n) /\ ToSet(n) = Successors(u, direction, type)
        /\ \A k \in 0..(MaxNodes - 1) :
            LET found == Bfs(graph, u, direction, type, k) IN
            /\ Distinct(found) /\ ToSet(found) = within[k]
            /\ \A i, j \in DOMAIN found, d \in 0..k :
                    i < j /\ found[j] \in within[d] => found[i] \in within[d]
            /\ ToSet(KHop(graph, u, k, direction, type)) = within[k] \ {u}
            /\ ToSet(Frontier(graph, u, k, direction, type))
                    = within[k] \ (IF k = 0 THEN {} ELSE within[k - 1])


\* However edges repeat, point at themselves or are filtered by type, no rank
\* is lost or made: after any number of iterations the ranks are shares of one
\* whole (algorithms.rs:188-258).
RanksSumToOne ==
    \A type \in Types, k \in 0..2 :
        LET r == PageRank(graph, type, k) IN
        MapThenSumSet(LAMBDA n : r.ranks[n], Ids) = r.total

\* Restricting a propagation to the nodes near its seeds changes no score: what
\* lies outside is out of reach in as many steps (inference.rs:319-379,
\* traversal.rs:99-149).
LocalScoresAgree ==
    \A u, v \in Ids, radius \in 0..(MaxNodes - 1), type \in Types :
        u <= v =>
        LET seeds == AddScore(AddScore(NoScores, u, 1), v, 2)
            near  == LocalPropagate(graph, seeds, radius, type)
            all   == Propagate(graph, seeds, radius, type)
        IN  \A n \in Ids : ScoreOf(near, n) = ScoreOf(all, n)

\* A subgraph is a graph of its own, whose searches are those of the graph kept
\* inside the selected nodes, and a walk of it is a walk of the graph
\* (algorithms.rs:260-334).
SubgraphsExact ==
    \A selected \in SUBSET Ids, type \in Types :
        LET sub == Subgraph(graph, selected, type) IN
        /\ Consistent(sub)
        /\ \A u \in selected, direction \in Direction :
            /\ ToSet(Neighbors(sub, u, direction, AnyType))
                    = Successors(u, direction, type) \cap selected
            /\ RandomWalks(sub, u, 2, direction, AnyType)
                    \subseteq UNION {Prefixes(w) : w \in RandomWalks(graph, u, 2, direction, type)}

\* All the ways to lay a path of patterns over nodes and edges, as the rows they
\* project to.
Placements(query) ==
    LET path == query.path
        At(i) == IF i % 2 = 1 THEN Ids ELSE IdsOf(graph.edges)
        all == {f \in [DOMAIN path -> Ids \cup IdsOf(graph.edges)] :
                    \A i \in DOMAIN path : f[i] \in At(i)}
        Fits(f) ==
            /\ \A i, j \in DOMAIN path :
                    (path[i].alias = path[j].alias /\ path[i].alias # NoAlias) => f[i] = f[j]
            /\ \A i \in DOMAIN path :
                IF i % 2 = 1 THEN NodeMatches(graph, path[i], f[i])
                ELSE LET e == EdgeRecordOf(graph, f[i]) IN
                     /\ EdgeMatches(graph, path[i], f[i])
                     /\ \/ path[i].direction \in {"out", "both"}
                            /\ <<e.src, e.dst>> = <<f[i - 1], f[i + 1]>>
                        \/ path[i].direction \in {"in", "both"}
                            /\ <<e.dst, e.src>> = <<f[i - 1], f[i + 1]>>
    IN  {f \in all : Fits(f)}

RowOf(query, f) ==
    [a \in query.returns |-> f[CHOOSE i \in DOMAIN f : query.path[i].alias = a]]

\* Whatever node pattern the search starts from, a query returns a row for each
\* way its pattern fits the graph, no more and no fewer; with a limit, the first
\* so many of them (queries.rs:244-309, 372-571).
QueriesExact ==
    \A query \in Query :
        LET rows == Rows(graph, [query EXCEPT !.limit = NoLimit])
            fits == Placements(query)
        IN  /\ ToSet(rows) = {RowOf(query, f) : f \in fits}
            /\ \A row \in ToSet(rows) :
                    Cardinality({i \in DOMAIN rows : rows[i] = row})
                        = Cardinality({f \in fits : RowOf(query, f) = row})
            /\ Rows(graph, query) = IF Full(query.limit, rows)
                                    THEN SubSeq(rows, 1, query.limit) ELSE rows
=============================================================================
