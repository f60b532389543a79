----------------------------- MODULE GraphReads -----------------------------
(***************************************************************************)
(* What traversals and graph algorithms return for a graph of GraphState:  *)
(* neighbours, breadth-first search, frontiers, Dijkstra's algorithm,      *)
(* components, PageRank, walks, score propagation and subgraphs, over the  *)
(* adjacency (base segment under delta overlay) rather than the records.   *)
(*                                                                         *)
(* An edge's property is a record of its type and its weight.  Scores are  *)
(* integers: a propagated score has its damping folded into the weights,   *)
(* a rank is a numerator over a denominator that all ranks share.          *)
(***************************************************************************)
EXTENDS GraphState
LOCAL INSTANCE SequencesExt
LOCAL INSTANCE FiniteSetsExt

CONSTANTS
    NoWeight,   \* the weight property is missing
    AnyType,    \* no edge-type filter
    Damping     \* PageRank's damping, as a fraction <<a, b>>

Direction == {"out", "in", "both"}
IncludesOut(direction) == direction \in {"out", "both"}

IncludesIn(direction) == direction \in {"in", "both"}

\* A set of ids as a list, the smallest first.
Ascending(S) ==
    [k \in 1..Cardinality(S) |-> CHOOSE i \in S : Cardinality({j \in S : j <= i}) = k]

LiveIds(R) == Ascending(IdsOf(R))
EdgeRecordOf(g, i) == CHOOSE e \in g.edges : e.id = i
OfType(e, type) == type = AnyType \/ e.prop.type = type
EdgeWeight(e) == IF e.prop.weight = NoWeight THEN 1 ELSE e.prop.weight

---------------------------------------------------------------------------
(* Adjacency *)

\* edge_ids_for_node, the slots whose record is gone skipped; ids only grow,
\* so the base's list and the delta's make one ascending list.
EdgesFrom(g, id, side, type) ==
    LET ids == {p[2] : p \in {q \in EdgeIds(g)[side] : q[1] = id}} IN
    Ascending({i \in ids : \E e \in g.edges : e.id = i /\ OfType(e, type)})

Step(g, i, side) ==
    LET e == EdgeRecordOf(g, i) IN
    [node |-> IF side = "out" THEN e.dst ELSE e.src, edge |-> i]

Steps(g, id, side, type) ==
    LET ids == EdgesFrom(g, id, side, type) IN
    [k \in DOMAIN ids |-> Step(g, ids[k], side)]

AllSteps(g, id, direction, type) ==
    (IF IncludesOut(direction) THEN Steps(g, id, "out", type) ELSE <<>>)
        \o (IF IncludesIn(direction) THEN Steps(g, id, "in", type) ELSE <<>>)

Reached(steps, node) == \E k \in DOMAIN steps : steps[k].node = node

\* neighbor_edges_for_direction: the first edge found to each neighbour.
NeighborEdges(g, id, direction, type) ==
    FoldLeft(LAMBDA found, s : IF Reached(found, s.node) THEN found ELSE Append(found, s),
             <<>>, AllSteps(g, id, direction, type))

Neighbors(g, id, direction, type) ==
    LET steps == NeighborEdges(g, id, direction, type) IN
    [k \in DOMAIN steps |-> steps[k].node]

---------------------------------------------------------------------------
(* Traversals *)

Add(found, next, depth) ==
    IF Reached(found, next) THEN found ELSE Append(found, [node |-> next, depth |-> depth])

\* Wrong variant: the limit is checked one level too late.
VisitPastLimit(g, direction, type, limit, found, k) ==
    IF k > Len(found) \/ found[k].depth > limit
    THEN found
    ELSE FoldLeft(LAMBDA f, next : Add(f, next, found[k].depth + 1),
                  found, Neighbors(g, found[k].node, direction, type))

\* The k-th node of the queue is taken off it and its neighbours found.
Visit(g, direction, type, limit, found, k) ==
    IF k > Len(found) \/ found[k].depth >= limit
    THEN found
    ELSE FoldLeft(LAMBDA f, next : Add(f, next, found[k].depth + 1),
                  found, Neighbors(g, found[k].node, direction, type))

\* The queue and the visit order are one sequence: nodes are appended to both.
VisitedFrom(g, start, direction, type, limit) ==
    FoldLeft(LAMBDA found, k : Visit(g, direction, type, limit, found, k),
             <<[node |-> start, depth |-> 0]>>,
             [k \in 1..Cardinality(g.nodes) |-> k])

NodesOf(found) == [k \in DOMAIN found |-> found[k].node]

Bfs(g, start, direction, type, limit) ==
    NodesOf(VisitedFrom(g, start, direction, type, limit))

KHop(g, start, hops, direction, type) == Tail(Bfs(g, start, direction, type, hops))

\* One round of frontier: the unseen neighbours of the whole frontier.
Advance(g, direction, type, state) ==
    FoldLeft(LAMBDA st, next : IF next \in st.seen THEN st
                               ELSE [last |-> Append(st.last, next), seen |-> st.seen \cup {next}],
             [last |-> <<>>, seen |-> state.seen],
             FlattenSeq([k \in DOMAIN state.last |->
                            Neighbors(g, state.last[k], direction, type)]))

Frontier(g, start, steps, direction, type) ==
    FoldLeft(LAMBDA st, k : Advance(g, direction, type, st),
             [last |-> <<start>>, seen |-> {start}],
             [k \in 1..steps |-> k]).last

\* connected_components: a search in both directions from every unvisited node.
ConnectedComponents(g, type) ==
    FoldLeft(LAMBDA found, id :
                IF \E c \in found : id \in c THEN found
                ELSE found \cup {ToSet(Bfs(g, id, "both", type, Cardinality(g.nodes)))},
             {}, LiveIds(g.nodes))

\* Wherever the generator may point, a walk ends early only at a dead end.
RECURSIVE RandomWalks(_, _, _, _, _)
RandomWalks(g, start, steps, direction, type) ==
    LET next == Neighbors(g, start, direction, type) IN
    IF steps = 0 \/ next = <<>> THEN {<<start>>}
    ELSE {<<start>> \o w : w \in UNION {RandomWalks(g, next[k], steps - 1, direction, type) :
                                            k \in DOMAIN next}}

---------------------------------------------------------------------------
(* Shortest path *)

\* The heap's top: the least distance, then the least node.
HeapTop(heap) ==
    CHOOSE p \in heap :
        \A q \in heap : p[1] < q[1] \/ (p[1] = q[1] /\ p[2] <= q[2])


Relax(search, from, distance, step, weight) ==
    LET next == distance + weight
        known == DOMAIN search.dist
    IN  IF step.node \in known /\ search.dist[step.node] <= next THEN search
        ELSE [dist |-> [n \in known \cup {step.node} |->
                            IF n = step.node THEN next ELSE search.dist[n]],
              prev |-> [n \in DOMAIN search.prev \cup {step.node} |->
                            IF n = step.node THEN from ELSE search.prev[n]],
              heap |-> search.heap \cup {<<next, step.node>>}]

RECURSIVE Settle(_, _, _, _, _, _)
Settle(g, target, direction, type, weighted, search) ==
    IF search.heap = {} THEN search
    ELSE LET top    == HeapTop(search.heap)
             popped == [search EXCEPT !.heap = @ \ {top}]
             steps  == NeighborEdges(g, top[2], direction, type)
             Weight(s) == IF weighted THEN EdgeWeight(EdgeRecordOf(g, s.edge)) ELSE 1
         IN  IF top[1] > search.dist[top[2]]
             THEN Settle(g, target, direction, type, weighted, popped)
             ELSE IF top[2] = target THEN popped
             ELSE Settle(g, target, direction, type, weighted,
                         FoldLeft(LAMBDA st, s : Relax(st, top[2], top[1], s, Weight(s)),
                                  popped, steps))

RECURSIVE BackTo(_, _, _)
BackTo(prev, start, node) ==
    IF node = start THEN <<node>> ELSE Append(BackTo(prev, start, prev[node]), node)

NoPath == [nodes |-> <<>>, distance |-> 0]

\* Only the first edge to a neighbour is ever relaxed.
ShortestPath(g, start, target, direction, type, weighted) ==
    LET search == Settle(g, target, direction, type, weighted,
                         [dist |-> [n \in {start} |-> 0], prev |-> <<>>,
                          heap |-> {<<0, start>>}])
    IN  IF start = target THEN [nodes |-> <<start>>, distance |-> 0]
        ELSE IF target \notin DOMAIN search.dist THEN NoPath
        ELSE [nodes |-> BackTo(search.prev, start, target),
              distance |-> search.dist[target]]

---------------------------------------------------------------------------
(* PageRank *)

Dangling(g, type, id) == Neighbors(g, id, "out", type) = <<>>

\* Wrong variant: a node shares its rank over its edges, not its neighbours.
OutDegreeByEdges(g, type, id) == Len(EdgesFrom(g, id, "out", type))

OutDegree(g, type, id) == Len(Neighbors(g, id, "out", type))

\* A multiple of every out-degree of a graph with so many nodes.
CommonMultiple(count) == FoldLeft(LAMBDA m, k : m * k, 1, [k \in 1..count |-> k])

\* Ranks after one iteration, over Damping[2] * |nodes| * multiple times the
\* denominator of the ranks before it; total is the sum those stand for.
NextRanks(g, type, ranks, total) ==
    LET ids      == IdsOf(g.nodes)
        count    == Cardinality(ids)
        multiple == CommonMultiple(count)
        dangling == MapThenSumSet(LAMBDA n : ranks[n], {n \in ids : Dangling(g, type, n)})
        base     == ((Damping[2] - Damping[1]) * total + Damping[1] * dangling) * multiple
        Share(n) == Damping[1] * count * ranks[n] * (multiple \div OutDegree(g, type, n))
    IN  [v \in ids |->
            base + MapThenSumSet(Share, {n \in ids : v \in ToSet(Neighbors(g, n, "out", type))})]

RankUnit(g) == Damping[2] * Cardinality(g.nodes) * CommonMultiple(Cardinality(g.nodes))

\* The ranks after so many iterations, and the total they are shares of.
PageRank(g, type, iterations) ==
    FoldLeft(LAMBDA r, k : [ranks |-> NextRanks(g, type, r.ranks, r.total),
                            total |-> r.total * RankUnit(g)],
             [ranks |-> [n \in IdsOf(g.nodes) |-> 1], total |-> Cardinality(g.nodes)],
             [k \in 1..iterations |-> k])

---------------------------------------------------------------------------
(* Score propagation: scores are functions on the nodes that have one *)

NoScores == [n \in {} |-> 0]
ScoreOf(scores, n) == IF n \in DOMAIN scores THEN scores[n] ELSE 0
AddScore(scores, n, amount) ==
    [m \in DOMAIN scores \cup {n} |-> ScoreOf(scores, m) + (IF m = n THEN amount ELSE 0)]
SumScores(a, b) == [n \in DOMAIN a \cup DOMAIN b |-> ScoreOf(a, n) + ScoreOf(b, n)]

\* The scores one round sends over the edges that Uses keeps.
Sent(g, current, type, Uses(_)) ==
    FoldLeft(LAMBDA next, e : AddScore(next, e.dst, current[e.src] * EdgeWeight(e)),
             NoScores,
             FlattenSeq([k \in 1..Cardinality(DOMAIN current) |->
                LET source == Ascending(DOMAIN current)[k]
                    ids    == EdgesFrom(g, source, "out", type)
                IN  SelectSeq([i \in DOMAIN ids |-> EdgeRecordOf(g, ids[i])], Uses)]))

\* A round that sends nothing ends the loop: further rounds change nothing.
Accumulate(g, seeds, rounds, type, Uses(_)) ==
    FoldLeft(LAMBDA st, k :
                LET next == Sent(g, st.current, type, Uses) IN
                IF DOMAIN next = {} THEN [st EXCEPT !.current = NoScores]
                ELSE [current |-> next, all |-> SumScores(st.all, next)],
             [current |-> seeds, all |-> seeds],
             [k \in 1..rounds |-> k]).all

Propagate(g, seeds, steps, type) ==
    Accumulate(g, seeds, steps, type, LAMBDA e : EdgeWeight(e) # 0)

\* expand_nodes, its cap as a bound on the number of nodes.
ExpandSeeds(seeds, cap) ==
    FoldLeft(LAMBDA st, n : IF st.full THEN st
                            ELSE IF Len(st.found) >= cap THEN [st EXCEPT !.full = TRUE]
                            ELSE [st EXCEPT !.found = Add(@, n, 0)],
             [found |-> <<>>, full |-> FALSE], seeds)

\* Wrong variant: the last ring of nodes is left out.
ExpandOneShort(g, radius, cap, st, k) ==
    IF k > Len(st.found) \/ st.found[k].depth + 1 >= radius THEN st
    ELSE FoldLeft(LAMBDA s, next :
                    IF Reached(s.found, next) THEN s
                    ELSE IF Len(s.found) >= cap THEN [s EXCEPT !.full = TRUE]
                    ELSE [s EXCEPT !.found = Add(@, next, st.found[k].depth + 1)],
                  st, Neighbors(g, st.found[k].node, "both", AnyType))

ExpandOne(g, radius, cap, st, k) ==
    IF k > Len(st.found) \/ st.found[k].depth >= radius THEN st
    ELSE FoldLeft(LAMBDA s, next :
                    IF Reached(s.found, next) THEN s
                    ELSE IF Len(s.found) >= cap THEN [s EXCEPT !.full = TRUE]
                    ELSE [s EXCEPT !.found = Add(@, next, st.found[k].depth + 1)],
                  st, Neighbors(g, st.found[k].node, "both", AnyType))

ExpandNodes(g, seeds, radius, cap) ==
    LET st == FoldLeft(LAMBDA s, k : ExpandOne(g, radius, cap, s, k),
                       ExpandSeeds(seeds, cap), [k \in 1..Cardinality(g.nodes) |-> k])
    IN  [nodes |-> ToSet(NodesOf(st.found)), truncated |-> st.full]

LocalPropagate(g, seeds, radius, type) ==
    LET active == ExpandNodes(g, Ascending(DOMAIN seeds), radius,
                              Cardinality(g.nodes)).nodes
    IN  Accumulate(g, seeds, radius, type, LAMBDA e : {e.src, e.dst} \subseteq active)

---------------------------------------------------------------------------
(* Subgraphs *)

\* Wrong variant: edges that leave the selection are kept.
SubgraphWithLeaving(g, selected, type) ==
    LET edges == {e \in g.edges : e.src \in selected /\ OfType(e, type)} IN
    Rebuilt([EmptyGraph EXCEPT
        !.nodes = {n \in g.nodes : n.id \in selected},
        !.slots = NextAfter(selected),
        !.edges = edges])

\* The selected nodes and the edges between them, in a graph with no store
\* and no counters.
Subgraph(g, selected, type) ==
    LET edges == {e \in g.edges : {e.src, e.dst} \subseteq selected /\ OfType(e, type)} IN
    Rebuilt([EmptyGraph EXCEPT
        !.nodes = {n \in g.nodes : n.id \in selected},
        !.slots = NextAfter(selected),
        !.edges = edges])
=============================================================================
