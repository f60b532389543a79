-------------------------- MODULE GraphStateProofs --------------------------
(***************************************************************************)
(* What the operators of GraphState preserve, for every graph, database    *)
(* and batch: the lemmas the proofs of GraphHandles and of GraphProcesses   *)
(* rest on.                                                                *)
(***************************************************************************)
EXTENDS GraphTypes, TLAPS, FiniteSetTheorems, WellFoundedInduction

\* What a graph in memory always satisfies: consistent records under ids
\* already handed out, and indexes that are those of the records.
IdsBelow(R, bound) == \A r \in R : r.id < bound

GraphOK(g) ==
    /\ Consistent(g)
    /\ IdsBelow(g.nodes, g.nextNode)
    /\ IdsBelow(g.edges, g.nextEdge)
    /\ g.nextNode <= MaxNodes /\ g.nextEdge <= MaxEdges
    /\ IndexExact(g)
    /\ IsFiniteSet(g.edges) /\ IsFiniteSet(g.owned)

\* A bounded set of ids has a largest one, so NextAfter is above them all.
LEMMA NextAfterBounds ==
    ASSUME NEW S \in SUBSET Nat, NEW b \in Nat, \A i \in S : i < b
    PROVE  /\ NextAfter(S) \in Nat
           /\ NextAfter(S) <= b
           /\ \A i \in S : i < NextAfter(S)
           /\ S # {} => NextAfter(S) - 1 \in S
<1>1. CASE S = {}
    BY <1>1, SMT DEF NextAfter
<1>2. CASE S # {}
    <2> DEFINE T == {b - i : i \in S}
    <2>1. T \subseteq Nat
        <3>1. \A i \in S : b - i \in Nat
            OBVIOUS
        <3> QED
            BY <3>1, Zenon DEF T
    <2>2. T # {}
        BY <1>2
    <2>3. PICK k \in T : \A j \in T : k <= j
        <3>1. PICK k \in T : \A j \in T : <<j, k>> \notin OpToRel(<, Nat)
            BY <2>1, <2>2, NatLessThanWellFounded, WFMin
        <3>2. ASSUME NEW j \in T PROVE k <= j
            <4> HIDE DEF T
            <4>1. j \in Nat /\ k \in Nat
                BY <2>1
            <4>2. ~(j < k)
                BY <3>1, <4>1, Zenon DEF OpToRel
            <4> QED
                BY <4>1, <4>2
        <3> QED
            BY <3>2
    <2>4. PICK m \in S : k = b - m
        BY DEF T
    <2>5. \A i \in S : i <= m
        BY <2>3, <2>4 DEF T
    <2>6. NextAfter(S) = 1 + CHOOSE n \in S : \A i \in S : i <= n
        BY <1>2 DEF NextAfter
    <2>7. PICK n \in S : (\A i \in S : i <= n) /\ NextAfter(S) = 1 + n
        BY <2>4, <2>5, <2>6
    <2> QED
        BY <2>7
<1> QED
    BY <1>1, <1>2

\* A batch is a non-empty sequence of at most MaxBatch members.
LEMMA BatchFacts ==
    ASSUME NEW S, NEW b \in Batches(S)
    PROVE  /\ Len(b) \in Nat \ {0}
           /\ DOMAIN b = 1..Len(b)
           /\ \A i \in 1..Len(b) : b[i] \in S
<1>1. PICK n \in 1..MaxBatch : b \in [1..n -> S]
    BY DEF Batches
<1>2. n \in Nat \ {0}
    BY SizeAssumption
<1>3. b \in Seq(S)
    BY <1>1, <1>2
<1> QED
    BY <1>1, <1>2, <1>3

---------------------------------------------------------------------------
(* What the operators on one graph preserve *)

\* Compaction and the rebuild of derived state touch no record and no counter.
SameGraph(g, s) ==
    /\ s.nodes = g.nodes /\ s.edges = g.edges /\ s.owned = g.owned
    /\ s.slots = g.slots
    /\ s.nextNode = g.nextNode /\ s.nextEdge = g.nextEdge

\* The two directions of a set of edges are sets of pairs of ids.
LEMMA AdjacencyType ==
    ASSUME NEW E \in SUBSET EdgeRecord
    PROVE  AdjacencyOf(E) \in Adjacency
BY DEF AdjacencyOf, Adjacency, Pairs, EdgeRecord

\* rebuild_compacted_segment changes the segment and the delta only.
LEMMA CompactedFacts ==
    ASSUME NEW g \in Graph
    PROVE  /\ Compacted(g) \in Graph
           /\ SameGraph(g, Compacted(g))
           /\ Compacted(g).byName = g.byName /\ Compacted(g).byProp = g.byProp
<1>1. AdjacencyOf(g.edges) \in Adjacency
    BY AdjacencyType DEF Graph
<1>2. NoAdjacency \in Adjacency
    BY DEF NoAdjacency, Adjacency
<1> QED
    BY <1>1, <1>2 DEF Compacted, SameGraph, Graph, Segment

\* rebuild_derived_state keeps the records and makes the indexes exact.
LEMMA RebuiltFacts ==
    ASSUME NEW g \in Graph
    PROVE  /\ Rebuilt(g) \in Graph
           /\ SameGraph(g, Rebuilt(g))
           /\ IndexExact(Rebuilt(g))
<1> DEFINE i == [g EXCEPT !.byName = {<<n.ext, n.id>> : n \in g.nodes},
                         !.byProp = {<<e.prop, e.id>> : e \in g.edges}]
<1>1. {<<n.ext, n.id>> : n \in g.nodes} \subseteq Name \X Nat
    BY DEF Graph, NodeRecord
<1>2. {<<e.prop, e.id>> : e \in g.edges} \subseteq Prop \X Nat
    BY DEF Graph, EdgeRecord
<1>3. i \in Graph /\ SameGraph(g, i) /\ IndexExact(i)
    BY <1>1, <1>2 DEF Graph, SameGraph, IndexExact
<1> HIDE DEF i
<1>4. Rebuilt(g) = Compacted(i)
    BY DEF Rebuilt, i
<1> QED
    BY <1>3, <1>4, CompactedFacts DEF SameGraph, IndexExact

\* A new in-memory graph is in order.
LEMMA EmptyGraphFacts == EmptyGraph \in Graph /\ GraphOK(EmptyGraph)
<1>1. EmptyGraph \in Graph
    BY DEF EmptyGraph, Graph, Segment, Adjacency, NoAdjacency
<1>2. IsFiniteSet(EmptyGraph.edges) /\ IsFiniteSet(EmptyGraph.owned)
    BY FS_EmptySet DEF EmptyGraph
<1> QED
    BY <1>1, <1>2, SizeAssumption DEF EmptyGraph, GraphOK, Consistent, IdsUnique, NamesUnique,
        EndpointsExist, IdsBelow, IndexExact

\* A rebuilt graph is in order as soon as its records are.
LEMMA RebuiltOK ==
    ASSUME NEW g \in Graph, Consistent(g), IdsBelow(g.nodes, g.nextNode),
           IdsBelow(g.edges, g.nextEdge), g.nextNode <= MaxNodes, g.nextEdge <= MaxEdges,
           IsFiniteSet(g.edges), IsFiniteSet(g.owned)
    PROVE  Rebuilt(g) \in Graph /\ GraphOK(Rebuilt(g))
BY RebuiltFacts DEF GraphOK, SameGraph, Consistent, EndpointsExist

\* The records add_nodes builds are typed, take exactly the next ids, and the
\* last of them is the new counter less one.
LEMMA NewNodesFacts ==
    ASSUME NEW g \in Graph, GraphOK(g), NEW b \in NodeBatches,
           NamesFree(g, NewNodes(g, b)), g.nextNode + Len(b) <= MaxNodes
    PROVE  /\ NewNodes(g, b) \subseteq NodeRecord
           /\ \A n \in NewNodes(g, b) : g.nextNode <= n.id /\ n.id < g.nextNode + Len(b)
           /\ IdsUnique(NewNodes(g, b))
           /\ \E n \in NewNodes(g, b) : n.id = g.nextNode + Len(b) - 1
<1> DEFINE rec(i) == [id |-> g.nextNode + (i - 1),
                      ext |-> IF b[i] = NoName THEN DefaultName(g.nextNode + (i - 1)) ELSE b[i]]
<1>1. /\ Len(b) \in Nat \ {0}
      /\ DOMAIN b = 1..Len(b)
      /\ \A i \in 1..Len(b) : b[i] \in Name \cup {NoName}
    BY BatchFacts DEF NodeBatches
<1>2. NewNodes(g, b) = {rec(i) : i \in 1..Len(b)}
    BY <1>1 DEF NewNodes
<1>3. ASSUME NEW i \in 1..Len(b)
      PROVE  /\ rec(i) \in NodeRecord
             /\ rec(i).id = g.nextNode + (i - 1)
             /\ g.nextNode <= rec(i).id /\ rec(i).id < g.nextNode + Len(b)
    <2>1. g.nextNode \in Nat
        BY DEF Graph
    <2>2. g.nextNode + (i - 1) \in 0..(MaxNodes - 1)
        <3>1. i \in Nat /\ 1 <= i /\ i <= Len(b) /\ Len(b) \in Nat /\ MaxNodes \in Nat
            BY <1>1, SizeAssumption
        <3> HIDE DEF rec
        <3> QED
            BY <2>1, <3>1
    <2>3. DefaultName(g.nextNode + (i - 1)) \in Name
        BY <2>2, DefaultNameAssumption
    <2>4. rec(i).ext \in Name
        BY <1>1, <2>3
    <2> QED
        BY <1>1, <2>1, <2>4 DEF NodeRecord
<1> HIDE DEF rec
<1>4. IdsUnique(NewNodes(g, b))
    BY <1>1, <1>2, <1>3 DEF IdsUnique, Graph
<1>5. \E n \in NewNodes(g, b) : n.id = g.nextNode + Len(b) - 1
    <2>1. rec(Len(b)) \in NewNodes(g, b) /\ Len(b) \in 1..Len(b)
        BY <1>1, <1>2
    <2> QED
        BY <1>1, <1>3, <2>1 DEF Graph
<1> QED
    BY <1>2, <1>3, <1>4, <1>5

\* Appending nodes whose names are free leaves the graph in order.
LEMMA WithNodesOK ==
    ASSUME NEW g \in Graph, GraphOK(g), NEW b \in NodeBatches,
           NamesFree(g, NewNodes(g, b)), g.nextNode + Len(b) <= MaxNodes
    PROVE  WithNodes(g, b) \in Graph /\ GraphOK(WithNodes(g, b))
<1> DEFINE new == NewNodes(g, b)
           s == WithNodes(g, b)
           names == {<<n.ext, n.id>> : n \in new}
<1>1. /\ new \subseteq NodeRecord
      /\ \A n \in new : g.nextNode <= n.id /\ n.id < g.nextNode + Len(b)
      /\ IdsUnique(new)
    BY NewNodesFacts
<1>2. Len(b) \in Nat
    BY BatchFacts DEF NodeBatches
<1>3. /\ \A n \in new : \A p \in g.byName : p[1] # n.ext
      /\ \A n, m \in new : n.ext = m.ext => n = m
    BY DEF NamesFree
<1> HIDE DEF new
<1>4. names \subseteq Name \X Nat
    BY <1>1 DEF NodeRecord
<1> HIDE DEF names
<1>5. MaxOf(g.slots, g.nextNode + Len(b)) \in Nat
    BY <1>2 DEF MaxOf, Graph
<1>6. s = [g EXCEPT !.nodes = g.nodes \cup new,
                   !.slots = MaxOf(g.slots, g.nextNode + Len(b)),
                   !.byName = g.byName \cup names,
                   !.nextNode = g.nextNode + Len(b)]
    BY DEF WithNodes, new, names
<1> HIDE DEF s
<1>7. s \in Graph
    <2>1. g.nodes \cup new \in SUBSET NodeRecord
        BY <1>1 DEF Graph
    <2>2. g.byName \cup names \in SUBSET (Name \X Nat)
        BY <1>4 DEF Graph
    <2>3. g.nextNode + Len(b) \in Nat
        BY <1>2 DEF Graph
    <2> QED
        BY <1>5, <1>6, <2>1, <2>2, <2>3 DEF Graph
<1>8. /\ s.nodes = g.nodes \cup new /\ s.byName = g.byName \cup names
      /\ s.nextNode = g.nextNode + Len(b)
      /\ s.edges = g.edges /\ s.byProp = g.byProp /\ s.nextEdge = g.nextEdge
      /\ s.owned = g.owned
    BY <1>6 DEF Graph
<1>9. IdsBelow(s.nodes, s.nextNode)
    BY <1>1, <1>2, <1>8 DEF IdsBelow, GraphOK, Graph, NodeRecord
<1>10. Consistent(s)
    <2>1. IdsUnique(s.nodes)
        BY <1>1, <1>8 DEF IdsUnique, GraphOK, Consistent, IdsBelow, Graph, NodeRecord
    <2>2. NamesUnique(s.nodes)
        <3>1. ASSUME NEW n \in new, NEW m \in g.nodes PROVE n.ext # m.ext
            <4>1. <<m.ext, m.id>> \in g.byName
                BY DEF GraphOK, IndexExact
            <4>2. <<m.ext, m.id>>[1] # n.ext
                BY <1>3, <4>1
            <4> QED
                BY <4>2
        <3> QED
            BY <1>3, <1>8, <3>1 DEF NamesUnique, GraphOK, Consistent
    <2> QED
        BY <1>8, <2>1, <2>2 DEF Consistent, GraphOK, EndpointsExist, IdsOf
<1>11. IndexExact(s)
    BY <1>8 DEF IndexExact, GraphOK, names
<1> QED
    BY <1>7, <1>8, <1>9, <1>10, <1>11 DEF GraphOK, IdsBelow, s

\* The records add_edges builds are typed, take exactly the next ids, and join
\* live nodes.
LEMMA NewEdgesFacts ==
    ASSUME NEW g \in Graph, NEW b \in EdgeBatches(g)
    PROVE  /\ NewEdges(g, b) \subseteq EdgeRecord
           /\ \A e \in NewEdges(g, b) : g.nextEdge <= e.id /\ e.id < g.nextEdge + Len(b)
           /\ \A e \in NewEdges(g, b) : {e.src, e.dst} \subseteq IdsOf(g.nodes)
           /\ IdsUnique(NewEdges(g, b))
           /\ IsFiniteSet(NewEdges(g, b))
           /\ \E e \in NewEdges(g, b) : e.id = g.nextEdge + Len(b) - 1
<1> DEFINE rec(i) == [id |-> g.nextEdge + (i - 1),
                      src |-> b[i].src, dst |-> b[i].dst, prop |-> b[i].prop]
           ends == [src : IdsOf(g.nodes), dst : IdsOf(g.nodes), prop : Prop]
<1>1. /\ Len(b) \in Nat \ {0}
      /\ DOMAIN b = 1..Len(b)
      /\ \A i \in 1..Len(b) : b[i] \in ends
    BY BatchFacts DEF EdgeBatches
<1>2. NewEdges(g, b) = {rec(i) : i \in 1..Len(b)}
    BY <1>1 DEF NewEdges
<1>3. IdsOf(g.nodes) \subseteq Nat
    BY DEF IdsOf, Graph, NodeRecord
<1>4. ASSUME NEW i \in 1..Len(b)
      PROVE  /\ rec(i) \in EdgeRecord
             /\ rec(i).id = g.nextEdge + (i - 1)
             /\ g.nextEdge <= rec(i).id /\ rec(i).id < g.nextEdge + Len(b)
             /\ {rec(i).src, rec(i).dst} \subseteq IdsOf(g.nodes)
    <2>1. g.nextEdge \in Nat
        BY DEF Graph
    <2>2. b[i] \in ends
        BY <1>1
    <2> QED
        BY <1>1, <1>3, <2>1, <2>2 DEF EdgeRecord
<1> HIDE DEF rec
<1>5. IdsUnique(NewEdges(g, b))
    BY <1>1, <1>2, <1>4 DEF IdsUnique, Graph
<1>6. \E e \in NewEdges(g, b) : e.id = g.nextEdge + Len(b) - 1
    <2>1. rec(Len(b)) \in NewEdges(g, b) /\ Len(b) \in 1..Len(b)
        BY <1>1, <1>2
    <2> QED
        BY <1>1, <1>4, <2>1 DEF Graph
<1>7. IsFiniteSet(NewEdges(g, b))
    <2> DEFINE f == [i \in 1..Len(b) |-> rec(i)]
    <2>1. f \in Surjection(1..Len(b), NewEdges(g, b))
        BY <1>2 DEF Surjection
    <2>2. IsFiniteSet(1..Len(b))
        BY <1>1, FS_Interval
    <2> QED
        BY <2>1, <2>2, FS_Surjection
<1> QED
    BY <1>2, <1>4, <1>5, <1>6, <1>7

\* Appending edges between live nodes leaves the graph in order.
LEMMA WithEdgesOK ==
    ASSUME NEW g \in Graph, GraphOK(g), NEW b \in EdgeBatches(g),
           g.nextEdge + Len(b) <= MaxEdges
    PROVE  WithEdges(g, b) \in Graph /\ GraphOK(WithEdges(g, b))
<1> DEFINE new == NewEdges(g, b)
           s == WithEdges(g, b)
           props == {<<e.prop, e.id>> : e \in new}
           delta == [out |-> g.delta.out \cup AdjacencyOf(new).out,
                     in  |-> g.delta.in \cup AdjacencyOf(new).in]
<1>1. /\ new \subseteq EdgeRecord
      /\ \A e \in new : g.nextEdge <= e.id /\ e.id < g.nextEdge + Len(b)
      /\ \A e \in new : {e.src, e.dst} \subseteq IdsOf(g.nodes)
      /\ IdsUnique(new)
      /\ IsFiniteSet(new)
    BY NewEdgesFacts
<1>2. Len(b) \in Nat
    BY BatchFacts DEF EdgeBatches
<1> HIDE DEF new
<1>3. delta \in Adjacency
    <2>1. AdjacencyOf(new) \in Adjacency
        BY <1>1, AdjacencyType
    <2> QED
        BY <2>1 DEF Graph, Adjacency
<1>4. props \subseteq Prop \X Nat
    BY <1>1 DEF EdgeRecord
<1>5. s = [g EXCEPT !.edges = g.edges \cup new, !.delta = delta,
                   !.byProp = g.byProp \cup props, !.nextEdge = g.nextEdge + Len(b)]
    BY DEF WithEdges, new, props, delta
<1> HIDE DEF s, props, delta
<1>6. s \in Graph
    <2>1. g.edges \cup new \in SUBSET EdgeRecord
        BY <1>1 DEF Graph
    <2>2. g.byProp \cup props \in SUBSET (Prop \X Nat)
        BY <1>4 DEF Graph
    <2>3. g.nextEdge + Len(b) \in Nat
        BY <1>2 DEF Graph
    <2> QED
        BY <1>3, <1>5, <2>1, <2>2, <2>3 DEF Graph
<1>7. /\ s.edges = g.edges \cup new /\ s.byProp = g.byProp \cup props
      /\ s.nextEdge = g.nextEdge + Len(b)
      /\ s.nodes = g.nodes /\ s.byName = g.byName /\ s.nextNode = g.nextNode
      /\ s.owned = g.owned
    BY <1>5 DEF Graph
<1>8. IdsBelow(s.edges, s.nextEdge)
    BY <1>1, <1>2, <1>7 DEF IdsBelow, GraphOK, Graph, EdgeRecord
<1>9. IdsUnique(s.edges)
    BY <1>1, <1>7 DEF IdsUnique, GraphOK, Consistent, IdsBelow, Graph, EdgeRecord
<1>10. EndpointsExist(s)
    BY <1>1, <1>7 DEF EndpointsExist, GraphOK, Consistent
<1>11. IndexExact(s)
    BY <1>7 DEF IndexExact, GraphOK, props
<1>12. IsFiniteSet(s.edges)
    BY <1>1, <1>7, FS_Union DEF GraphOK
<1> QED
    BY <1>6, <1>7, <1>8, <1>9, <1>10, <1>11, <1>12 DEF GraphOK, Consistent, IdsBelow, s

\* Renaming a node to a name no other node has leaves the graph in order.
LEMMA UpdatedNodeOK ==
    ASSUME NEW g \in Graph, GraphOK(g), NEW n \in g.nodes, NEW name \in Name,
           ~NameTakenByOther(g, n.id, name)
    PROVE  UpdatedNode(g, n, name) \in Graph /\ GraphOK(UpdatedNode(g, n, name))
<1> DEFINE m == [n EXCEPT !.ext = name]
           nodes == (g.nodes \ {n}) \cup {m}
           r == [g EXCEPT !.nodes = nodes]
<1>1. n \in NodeRecord
    BY DEF Graph
<1>2. m \in NodeRecord /\ m.id = n.id /\ m.ext = name
    BY <1>1 DEF NodeRecord
<1> HIDE DEF m
<1>3. nodes \in SUBSET NodeRecord
    BY <1>2 DEF Graph
<1>4. IdsUnique(nodes) /\ IdsOf(nodes) = IdsOf(g.nodes)
    BY <1>2 DEF IdsUnique, GraphOK, Consistent, IdsOf
<1>5. NamesUnique(nodes)
    <2>1. ASSUME NEW k \in g.nodes \ {n} PROVE k.ext # name
        <3>1. <<k.ext, k.id>> \in g.byName
            BY DEF GraphOK, IndexExact
        <3>2. k.id # n.id
            BY DEF GraphOK, Consistent, IdsUnique
        <3> QED
            BY <3>1, <3>2 DEF NameTakenByOther
    <2> QED
        BY <1>2, <2>1 DEF NamesUnique, GraphOK, Consistent
<1>6. IdsBelow(nodes, g.nextNode)
    BY <1>2 DEF IdsBelow, GraphOK
<1> HIDE DEF nodes
<1>7. /\ r \in Graph
      /\ r.nodes = nodes /\ r.edges = g.edges /\ r.owned = g.owned
      /\ r.nextNode = g.nextNode /\ r.nextEdge = g.nextEdge
    BY <1>3 DEF Graph
<1> HIDE DEF r
<1>8. Rebuilt(r) \in Graph /\ GraphOK(Rebuilt(r))
    <2>1. Consistent(r)
        BY <1>4, <1>5, <1>7 DEF Consistent, GraphOK, EndpointsExist
    <2>2. IdsBelow(r.nodes, r.nextNode) /\ IdsBelow(r.edges, r.nextEdge)
        BY <1>6, <1>7 DEF GraphOK
    <2> QED
        BY <1>7, <2>1, <2>2, RebuiltOK DEF GraphOK
<1> QED
    BY <1>8 DEF UpdatedNode, r, nodes, m

\* Updating an edge keeps its endpoints, so the graph stays in order.
LEMMA UpdatedEdgeOK ==
    ASSUME NEW g \in Graph, GraphOK(g), NEW e \in g.edges, NEW prop \in Prop
    PROVE  UpdatedEdge(g, e, prop) \in Graph /\ GraphOK(UpdatedEdge(g, e, prop))
<1> DEFINE f == [e EXCEPT !.prop = prop]
           edges == (g.edges \ {e}) \cup {f}
           r == [g EXCEPT !.edges = edges]
<1>1. e \in EdgeRecord
    BY DEF Graph
<1>2. f \in EdgeRecord /\ f.id = e.id /\ f.src = e.src /\ f.dst = e.dst
    BY <1>1 DEF EdgeRecord
<1> HIDE DEF f
<1>3. edges \in SUBSET EdgeRecord
    BY <1>2 DEF Graph
<1>4. IdsUnique(edges)
    BY <1>2 DEF IdsUnique, GraphOK, Consistent
<1>5. \A x \in edges : {x.src, x.dst} \subseteq IdsOf(g.nodes)
    BY <1>2 DEF GraphOK, Consistent, EndpointsExist
<1>6. IdsBelow(edges, g.nextEdge)
    BY <1>2 DEF IdsBelow, GraphOK
<1>7. IsFiniteSet(edges)
    <2>1. IsFiniteSet(g.edges)
        BY DEF GraphOK
    <2>2. IsFiniteSet(g.edges \ {e}) /\ IsFiniteSet({f})
        BY <2>1, FS_Subset, FS_Singleton
    <2> QED
        BY <2>2, FS_Union
<1> HIDE DEF edges
<1>8. /\ r \in Graph
      /\ r.nodes = g.nodes /\ r.edges = edges /\ r.owned = g.owned
      /\ r.nextNode = g.nextNode /\ r.nextEdge = g.nextEdge
    BY <1>3 DEF Graph
<1> HIDE DEF r
<1>9. Rebuilt(r) \in Graph /\ GraphOK(Rebuilt(r))
    <2>1. Consistent(r)
        BY <1>4, <1>5, <1>8 DEF Consistent, GraphOK, EndpointsExist
    <2>2. IdsBelow(r.nodes, r.nextNode) /\ IdsBelow(r.edges, r.nextEdge)
        BY <1>6, <1>8 DEF GraphOK
    <2> QED
        BY <1>7, <1>8, <2>1, <2>2, RebuiltOK DEF GraphOK
<1> QED
    BY <1>9 DEF UpdatedEdge, r, edges, f

\* Records can be dropped as long as no edge loses an endpoint.
LEMMA DeletedOK ==
    ASSUME NEW g \in Graph, GraphOK(g),
           NEW N \in SUBSET g.nodes, NEW E \in SUBSET g.edges,
           \A e \in E : {e.src, e.dst} \subseteq IdsOf(N)
    PROVE  LET r == [g EXCEPT !.nodes = N, !.edges = E]
           IN  Rebuilt(r) \in Graph /\ GraphOK(Rebuilt(r))
<1> DEFINE r == [g EXCEPT !.nodes = N, !.edges = E]
<1>1. /\ r \in Graph
      /\ r.nodes = N /\ r.edges = E /\ r.owned = g.owned
      /\ r.nextNode = g.nextNode /\ r.nextEdge = g.nextEdge
    BY DEF Graph
<1> HIDE DEF r
<1>2. Consistent(r)
    BY <1>1 DEF Consistent, GraphOK, EndpointsExist, IdsUnique, NamesUnique
<1>3. IdsBelow(r.nodes, r.nextNode) /\ IdsBelow(r.edges, r.nextEdge)
    BY <1>1 DEF GraphOK, IdsBelow
<1>4. IsFiniteSet(E)
    BY FS_Subset DEF GraphOK
<1>5. Rebuilt(r) \in Graph /\ GraphOK(Rebuilt(r))
    BY <1>1, <1>2, <1>3, <1>4, RebuiltOK DEF GraphOK
<1> QED
    BY <1>5 DEF r

\* Deleting a node takes its incident edges along: no edge is left dangling.
LEMMA DeletedNodeOK ==
    ASSUME NEW g \in Graph, GraphOK(g), NEW n \in g.nodes
    PROVE  DeletedNode(g, n) \in Graph /\ GraphOK(DeletedNode(g, n))
<1>1. \A e \in g.edges \ Incident(g, n.id) : {e.src, e.dst} \subseteq IdsOf(g.nodes \ {n})
    BY DEF Incident, IdsOf, GraphOK, Consistent, EndpointsExist
<1>2. DeletedNode(g, n) = Rebuilt([g EXCEPT !.nodes = g.nodes \ {n},
                                           !.edges = g.edges \ Incident(g, n.id)])
    BY DEF DeletedNode, Graph
<1> QED
    BY <1>1, <1>2, DeletedOK

\* Deleting an edge leaves the graph in order.
LEMMA DeletedEdgeOK ==
    ASSUME NEW g \in Graph, GraphOK(g), NEW e \in g.edges
    PROVE  DeletedEdge(g, e) \in Graph /\ GraphOK(DeletedEdge(g, e))
<1>1. \A x \in g.edges \ {e} : {x.src, x.dst} \subseteq IdsOf(g.nodes)
    BY DEF GraphOK, Consistent, EndpointsExist
<1>2. DeletedEdge(g, e) = Rebuilt([g EXCEPT !.nodes = g.nodes, !.edges = g.edges \ {e}])
    BY DEF DeletedEdge, Graph
<1> QED
    BY <1>1, <1>2, DeletedOK

\* Whatever update or deletion is made in place, the graph stays in order.
LEMMA InPlaceOK ==
    ASSUME NEW g \in Graph, GraphOK(g), NEW s \in InPlaceChanges(g)
    PROVE  s \in Graph /\ GraphOK(s)
<1>1. CASE s \in NodeUpdates(g)
    <2>1. PICK p \in g.nodes \X Name :
            ~NameTakenByOther(g, p[1].id, p[2]) /\ s = UpdatedNode(g, p[1], p[2])
        BY <1>1 DEF NodeUpdates
    <2> QED
        BY <2>1, UpdatedNodeOK
<1>2. CASE s \in EdgeUpdates(g)
    BY <1>2, UpdatedEdgeOK DEF EdgeUpdates
<1>3. CASE s \in EdgeDeletions(g)
    BY <1>3, DeletedEdgeOK DEF EdgeDeletions
<1>4. CASE s \in NodeDeletions(g, TRUE) \cup NodeDeletions(g, FALSE)
    <2>1. PICK n \in g.nodes : s = DeletedNode(g, n)
        BY <1>4 DEF NodeDeletions
    <2> QED
        BY <2>1, DeletedNodeOK
<1> QED
    BY <1>1, <1>2, <1>3, <1>4 DEF InPlaceChanges

\* Whatever a statement appends to a staged graph, it stays in order.
LEMMA StagedAppendsOK ==
    ASSUME NEW g \in Graph, GraphOK(g), NEW s \in StagedAppends(g)
    PROVE  s \in Graph /\ GraphOK(s)
<1>1. CASE \E b \in NodeBatches : /\ NamesFree(g, NewNodes(g, b))
                                  /\ g.nextNode + Len(b) <= MaxNodes
                                  /\ s = WithNodes(g, b)
    BY <1>1, WithNodesOK
<1>2. CASE \E b \in EdgeBatches(g) : /\ g.nextEdge + Len(b) <= MaxEdges
                                    /\ s = WithEdges(g, b)
    BY <1>2, WithEdgesOK
<1> QED
    BY <1>1, <1>2 DEF StagedAppends

---------------------------------------------------------------------------
(* What is written, and what a load reads back *)

\* What the database always satisfies, the owners of variables apart.
DatabaseOK(d) ==
    /\ Consistent(d)
    /\ IdsBelow(d.nodes, MaxNodes) /\ d.nextNode <= MaxNodes
    /\ IdsBelow(d.edges, MaxEdges) /\ d.nextEdge <= MaxEdges
    /\ IsFiniteSet(d.edges) /\ IsFiniteSet(d.owned)

\* Memory and database agree on everything a fresh open would load.
Matches(g, d) ==
    /\ RecordsOf(g) = RecordsOf(d)
    /\ g.owned = d.owned
    /\ g.nextNode = LoadedNextNode(d)
    /\ g.nextEdge = LoadedNextEdge(d)

\* The change set between two graphs turns the rows of one into the other's.
LEMMA ChangesWriteStaged ==
    ASSUME NEW d \in Database, NEW g \in Graph, NEW s \in Graph,
           RecordsOf(g) = RecordsOf(d), Consistent(g), Consistent(s)
    PROVE  LET e == ApplyChanges(d, GraphChanges(g, s)) IN
           /\ e.nodes = s.nodes /\ e.edges = s.edges /\ e.owned = d.owned
           /\ e.nextNode = s.nextNode /\ e.nextEdge = s.nextEdge
           /\ e.seq = IF AppendsOp(GraphChanges(g, s)) THEN d.seq + 1 ELSE d.seq
<1> DEFINE c == GraphChanges(g, s)
           e == ApplyChanges(d, c)
<1>1. g.nodes = d.nodes /\ g.edges = d.edges
    BY DEF RecordsOf
<1>2. /\ c.upsertNodes = s.nodes \ g.nodes /\ c.upsertEdges = s.edges \ g.edges
      /\ c.deleteNodes = IdsOf(g.nodes) \ IdsOf(s.nodes)
      /\ c.deleteEdges = IdsOf(g.edges) \ IdsOf(s.edges)
      /\ c.nextNode = s.nextNode /\ c.nextEdge = s.nextEdge
    BY DEF GraphChanges
<1>3. /\ {n \in d.nodes : n.id \notin c.deleteNodes \cup IdsOf(c.upsertNodes)}
            \cup c.upsertNodes = s.nodes
      /\ {x \in d.edges : x.id \notin c.deleteEdges \cup IdsOf(c.upsertEdges)}
            \cup c.upsertEdges = s.edges
    <2> HIDE DEF c
    <2>1. {n \in d.nodes : n.id \notin c.deleteNodes \cup IdsOf(c.upsertNodes)}
            \cup c.upsertNodes = s.nodes
        BY <1>1, <1>2 DEF IdsOf, Consistent, IdsUnique
    <2>2. {x \in d.edges : x.id \notin c.deleteEdges \cup IdsOf(c.upsertEdges)}
            \cup c.upsertEdges = s.edges
        BY <1>1, <1>2 DEF IdsOf, Consistent, IdsUnique
    <2> QED
        BY <2>1, <2>2
<1> HIDE DEF c
<1>4. /\ e.nodes = s.nodes /\ e.edges = s.edges /\ e.owned = d.owned
      /\ e.nextNode = s.nextNode /\ e.nextEdge = s.nextEdge
      /\ e.seq = IF AppendsOp(c) THEN d.seq + 1 ELSE d.seq
    BY <1>2, <1>3 DEF ApplyChanges, Database
<1> QED
    BY <1>4 DEF c, e

\* The counters a load computes: they are stored, and above every id.
LEMMA LoadedCounters ==
    ASSUME NEW d \in Database, DatabaseOK(d)
    PROVE  /\ LoadedNextNode(d) \in Nat /\ LoadedNextNode(d) <= MaxNodes
           /\ LoadedNextEdge(d) \in Nat /\ LoadedNextEdge(d) <= MaxEdges
           /\ IdsBelow(d.nodes, LoadedNextNode(d))
           /\ IdsBelow(d.edges, LoadedNextEdge(d))
           /\ NextAfter(IdsOf(d.nodes)) \in Nat
<1>1. /\ IdsOf(d.nodes) \in SUBSET Nat /\ \A i \in IdsOf(d.nodes) : i < MaxNodes
      /\ IdsOf(d.edges) \in SUBSET Nat /\ \A i \in IdsOf(d.edges) : i < MaxEdges
    BY DEF IdsOf, Database, NodeRecord, EdgeRecord, DatabaseOK, IdsBelow
<1>2. /\ NextAfter(IdsOf(d.nodes)) \in Nat /\ NextAfter(IdsOf(d.nodes)) <= MaxNodes
      /\ \A i \in IdsOf(d.nodes) : i < NextAfter(IdsOf(d.nodes))
    BY <1>1, NextAfterBounds, SizeAssumption
<1>3. /\ NextAfter(IdsOf(d.edges)) \in Nat /\ NextAfter(IdsOf(d.edges)) <= MaxEdges
      /\ \A i \in IdsOf(d.edges) : i < NextAfter(IdsOf(d.edges))
    BY <1>1, NextAfterBounds, SizeAssumption
<1>4. /\ \A n \in d.nodes : n.id < NextAfter(IdsOf(d.nodes)) /\ n.id \in Nat
      /\ \A x \in d.edges : x.id < NextAfter(IdsOf(d.edges)) /\ x.id \in Nat
    BY <1>2, <1>3 DEF IdsOf, Database, NodeRecord, EdgeRecord
<1>5. /\ d.nextNode \in Nat /\ d.nextNode <= MaxNodes
      /\ d.nextEdge \in Nat /\ d.nextEdge <= MaxEdges
    BY DEF Database, DatabaseOK
<1>6. /\ LoadedNextNode(d) \in Nat /\ LoadedNextNode(d) <= MaxNodes
      /\ LoadedNextEdge(d) \in Nat /\ LoadedNextEdge(d) <= MaxEdges
      /\ NextAfter(IdsOf(d.nodes)) <= LoadedNextNode(d)
      /\ NextAfter(IdsOf(d.edges)) <= LoadedNextEdge(d)
    BY <1>2, <1>3, <1>5, SizeAssumption DEF LoadedNextNode, LoadedNextEdge, MaxOf
<1> QED
    BY <1>2, <1>3, <1>4, <1>6 DEF IdsBelow

\* After ids up to next - 1 were appended to rows loaded at an earlier count,
\* a load computes next.
LEMMA CountersAfterAppend ==
    ASSUME NEW S \in SUBSET Nat, NEW stored \in Nat, NEW next \in Nat,
           stored <= next, \A i \in S : i < next,
           stored = next \/ next - 1 \in S
    PROVE  MaxOf(NextAfter(S), stored) = next
<1>1. /\ NextAfter(S) \in Nat /\ NextAfter(S) <= next
      /\ \A i \in S : i < NextAfter(S)
    BY NextAfterBounds
<1> QED
    BY <1>1 DEF MaxOf

\* A load of rows in order is a graph in order that matches them.
LEMMA LoadedOK ==
    ASSUME NEW d \in Database, DatabaseOK(d)
    PROVE  /\ LoadedGraph(d) \in Graph /\ GraphOK(LoadedGraph(d))
           /\ Matches(LoadedGraph(d), d)
<1> DEFINE r == [EmptyGraph EXCEPT !.nodes = d.nodes, !.edges = d.edges, !.owned = d.owned,
                                  !.slots = NextAfter(IdsOf(d.nodes)),
                                  !.nextNode = LoadedNextNode(d),
                                  !.nextEdge = LoadedNextEdge(d)]
<1>1. /\ LoadedNextNode(d) \in Nat /\ LoadedNextNode(d) <= MaxNodes
      /\ LoadedNextEdge(d) \in Nat /\ LoadedNextEdge(d) <= MaxEdges
      /\ IdsBelow(d.nodes, LoadedNextNode(d))
      /\ IdsBelow(d.edges, LoadedNextEdge(d))
      /\ NextAfter(IdsOf(d.nodes)) \in Nat
    BY LoadedCounters
<1>2. EmptyGraph \in Graph
    BY EmptyGraphFacts
<1>3. /\ d.nodes \in SUBSET NodeRecord /\ d.edges \in SUBSET EdgeRecord
      /\ d.owned \in SUBSET OwnedVariable
    BY DEF Database
<1>4. /\ r \in Graph
      /\ r.nodes = d.nodes /\ r.edges = d.edges /\ r.owned = d.owned
      /\ r.nextNode = LoadedNextNode(d) /\ r.nextEdge = LoadedNextEdge(d)
    BY <1>1, <1>2, <1>3 DEF Graph
<1> HIDE DEF r
<1>5. Consistent(r)
    BY <1>4 DEF Consistent, DatabaseOK, EndpointsExist
<1>6. Rebuilt(r) \in Graph /\ GraphOK(Rebuilt(r))
    BY <1>1, <1>4, <1>5, RebuiltOK DEF DatabaseOK
<1>7. Matches(Rebuilt(r), d)
    BY <1>4, RebuiltFacts DEF Matches, SameGraph, RecordsOf
<1>8. LoadedGraph(d) = Rebuilt(r)
    BY DEF LoadedGraph, r
<1> QED
    BY <1>6, <1>7, <1>8

\* A database with the records of a graph in order is in order.
LEMMA MatchingDatabaseOK ==
    ASSUME NEW d \in Database, NEW g \in Graph, GraphOK(g),
           RecordsOf(g) = RecordsOf(d), IsFiniteSet(d.owned),
           d.nextNode <= g.nextNode, d.nextEdge <= g.nextEdge
    PROVE  DatabaseOK(d)
<1>1. g.nodes = d.nodes /\ g.edges = d.edges
    BY DEF RecordsOf
<1>2. Consistent(d)
    BY <1>1 DEF GraphOK, Consistent, EndpointsExist
<1>3. /\ g.nextNode \in Nat /\ g.nextNode <= MaxNodes /\ d.nextNode \in Nat
      /\ g.nextEdge \in Nat /\ g.nextEdge <= MaxEdges /\ d.nextEdge \in Nat
      /\ \A n \in g.nodes : n.id \in Nat /\ n.id < g.nextNode
      /\ \A e \in g.edges : e.id \in Nat /\ e.id < g.nextEdge
    BY DEF Graph, GraphOK, IdsBelow, Database, NodeRecord, EdgeRecord
<1>4. IsFiniteSet(d.edges)
    BY <1>1 DEF GraphOK
<1> QED
    BY <1>1, <1>2, <1>3, <1>4, SizeAssumption DEF DatabaseOK, IdsBelow

\* The stored counters are never ahead of a graph that matches the rows.
LEMMA StoredCounters ==
    ASSUME NEW d \in Database, DatabaseOK(d), NEW g \in Graph, Matches(g, d)
    PROVE  /\ g.nextNode \in Nat /\ g.nextEdge \in Nat
           /\ d.nextNode \in Nat /\ d.nextEdge \in Nat
           /\ d.nextNode <= g.nextNode /\ d.nextEdge <= g.nextEdge
<1>1. /\ IdsOf(d.nodes) \in SUBSET Nat /\ \A i \in IdsOf(d.nodes) : i < MaxNodes
      /\ IdsOf(d.edges) \in SUBSET Nat /\ \A i \in IdsOf(d.edges) : i < MaxEdges
    BY DEF IdsOf, Database, NodeRecord, EdgeRecord, DatabaseOK, IdsBelow
<1>2. /\ NextAfter(IdsOf(d.nodes)) \in Nat /\ NextAfter(IdsOf(d.edges)) \in Nat
    BY <1>1, NextAfterBounds, SizeAssumption
<1> QED
    BY <1>2 DEF Matches, LoadedNextNode, LoadedNextEdge, MaxOf, Graph, Database

\* After add_nodes the rows are in order and memory matches them, counters
\* included.
LEMMA NodesWritten ==
    ASSUME NEW d \in Database, DatabaseOK(d), NEW g \in Graph, GraphOK(g), Matches(g, d),
           NEW b \in NodeBatches, NamesFree(g, NewNodes(g, b)),
           g.nextNode + Len(b) <= MaxNodes
    PROVE  LET e == InsertNodeRows(d, NewNodes(g, b)) IN
           /\ e \in Database /\ DatabaseOK(e) /\ e.seq = d.seq + 1
           /\ Matches(WithNodes(g, b), e)
<1> DEFINE new == NewNodes(g, b)
           s == WithNodes(g, b)
           e == InsertNodeRows(d, new)
<1>1. /\ new \in SUBSET NodeRecord
      /\ \E n \in new : n.id = g.nextNode + Len(b) - 1
    BY NewNodesFacts
<1>2. s \in Graph /\ GraphOK(s)
    BY WithNodesOK
<1>3. Len(b) \in Nat
    BY BatchFacts DEF NodeBatches
<1>4. /\ s.nodes = g.nodes \cup new /\ s.edges = g.edges /\ s.owned = g.owned
      /\ s.nextNode = g.nextNode + Len(b) /\ s.nextEdge = g.nextEdge
    BY DEF WithNodes, Graph
<1> HIDE DEF new, s
<1>5. /\ e \in Database /\ e.nodes = d.nodes \cup new /\ e.edges = d.edges
      /\ e.owned = d.owned /\ e.nextNode = d.nextNode /\ e.nextEdge = d.nextEdge
      /\ e.seq = d.seq + 1
    <2>1. d.nodes \cup new \in SUBSET NodeRecord
        BY <1>1 DEF Database
    <2>2. d.seq + 1 \in Nat
        BY DEF Database
    <2>3. e = [d EXCEPT !.nodes = d.nodes \cup new, !.seq = d.seq + 1]
        BY DEF InsertNodeRows
    <2> HIDE DEF e
    <2> QED
        BY <2>1, <2>2, <2>3 DEF Database
<1> HIDE DEF e
<1>6. RecordsOf(s) = RecordsOf(e) /\ s.owned = e.owned
    BY <1>4, <1>5 DEF Matches, RecordsOf
<1>7. /\ g.nextNode \in Nat /\ g.nextEdge \in Nat
      /\ d.nextNode \in Nat /\ d.nextEdge \in Nat
      /\ d.nextNode <= g.nextNode /\ d.nextEdge <= g.nextEdge
    BY StoredCounters
<1>8. DatabaseOK(e)
    <2>1. e.nextNode <= s.nextNode /\ e.nextEdge <= s.nextEdge
        BY <1>3, <1>4, <1>5, <1>7
    <2>2. IsFiniteSet(e.owned)
        BY <1>5 DEF DatabaseOK
    <2> QED
        BY <1>2, <1>5, <1>6, <2>1, <2>2, MatchingDatabaseOK
<1>9. LoadedNextNode(e) = s.nextNode
    <2>1. e.nodes = s.nodes
        BY <1>6 DEF RecordsOf
    <2>2. IdsOf(e.nodes) \in SUBSET Nat
        BY <1>5 DEF IdsOf, Database, NodeRecord
    <2>3. \A i \in IdsOf(e.nodes) : i < s.nextNode
        BY <1>2, <2>1 DEF IdsOf, GraphOK, IdsBelow
    <2>4. s.nextNode - 1 \in IdsOf(e.nodes)
        <3>1. PICK r \in new : r.id = g.nextNode + Len(b) - 1
            BY <1>1
        <3>2. r \in e.nodes
            BY <1>4, <2>1, <3>1
        <3>3. r.id \in IdsOf(e.nodes)
            BY <3>2 DEF IdsOf
        <3>4. s.nextNode - 1 = r.id
            BY <1>3, <1>4, <1>7, <3>1
        <3> QED
            BY <3>3, <3>4, Zenon
    <2>5. s.nextNode \in Nat /\ e.nextNode \in Nat /\ e.nextNode <= s.nextNode
        BY <1>3, <1>4, <1>5, <1>7
    <2> QED
        BY <2>2, <2>3, <2>4, <2>5, CountersAfterAppend DEF LoadedNextNode
<1>10. LoadedNextEdge(e) = s.nextEdge
    BY <1>4, <1>5 DEF LoadedNextEdge, Matches
<1> QED
    BY <1>5, <1>6, <1>8, <1>9, <1>10 DEF Matches, s, e, new

\* After add_edges the rows are in order and memory matches them, counters
\* included.
LEMMA EdgesWritten ==
    ASSUME NEW d \in Database, DatabaseOK(d), NEW g \in Graph, GraphOK(g), Matches(g, d),
           NEW b \in EdgeBatches(g), g.nextEdge + Len(b) <= MaxEdges
    PROVE  LET e == InsertEdgeRows(d, NewEdges(g, b)) IN
           /\ e \in Database /\ DatabaseOK(e) /\ e.seq = d.seq + 1
           /\ Matches(WithEdges(g, b), e)
<1> DEFINE new == NewEdges(g, b)
           s == WithEdges(g, b)
           e == InsertEdgeRows(d, new)
<1>1. /\ new \in SUBSET EdgeRecord
      /\ \E x \in new : x.id = g.nextEdge + Len(b) - 1
    BY NewEdgesFacts
<1>2. s \in Graph /\ GraphOK(s)
    BY WithEdgesOK
<1>3. Len(b) \in Nat
    BY BatchFacts DEF EdgeBatches
<1>4. /\ s.edges = g.edges \cup new /\ s.nodes = g.nodes /\ s.owned = g.owned
      /\ s.nextEdge = g.nextEdge + Len(b) /\ s.nextNode = g.nextNode
    BY DEF WithEdges, Graph
<1> HIDE DEF new, s
<1>5. /\ e \in Database /\ e.edges = d.edges \cup new /\ e.nodes = d.nodes
      /\ e.owned = d.owned /\ e.nextNode = d.nextNode /\ e.nextEdge = d.nextEdge
      /\ e.seq = d.seq + 1
    <2>1. d.edges \cup new \in SUBSET EdgeRecord
        BY <1>1 DEF Database
    <2>2. d.seq + 1 \in Nat
        BY DEF Database
    <2>3. e = [d EXCEPT !.edges = d.edges \cup new, !.seq = d.seq + 1]
        BY DEF InsertEdgeRows
    <2> HIDE DEF e
    <2> QED
        BY <2>1, <2>2, <2>3 DEF Database
<1> HIDE DEF e
<1>6. RecordsOf(s) = RecordsOf(e) /\ s.owned = e.owned
    BY <1>4, <1>5 DEF Matches, RecordsOf
<1>7. /\ g.nextNode \in Nat /\ g.nextEdge \in Nat
      /\ d.nextNode \in Nat /\ d.nextEdge \in Nat
      /\ d.nextNode <= g.nextNode /\ d.nextEdge <= g.nextEdge
    BY StoredCounters
<1>8. DatabaseOK(e)
    <2>1. e.nextNode <= s.nextNode /\ e.nextEdge <= s.nextEdge
        BY <1>3, <1>4, <1>5, <1>7
    <2>2. IsFiniteSet(e.owned)
        BY <1>5 DEF DatabaseOK
    <2> QED
        BY <1>2, <1>5, <1>6, <2>1, <2>2, MatchingDatabaseOK
<1>9. LoadedNextEdge(e) = s.nextEdge
    <2>1. e.edges = s.edges
        BY <1>6 DEF RecordsOf
    <2>2. IdsOf(e.edges) \in SUBSET Nat
        BY <1>5 DEF IdsOf, Database, EdgeRecord
    <2>3. \A i \in IdsOf(e.edges) : i < s.nextEdge
        BY <1>2, <2>1 DEF IdsOf, GraphOK, IdsBelow
    <2>4. s.nextEdge - 1 \in IdsOf(e.edges)
        <3>1. PICK r \in new : r.id = g.nextEdge + Len(b) - 1
            BY <1>1
        <3>2. r \in e.edges
            BY <1>4, <2>1, <3>1
        <3>3. r.id \in IdsOf(e.edges)
            BY <3>2 DEF IdsOf
        <3>4. s.nextEdge - 1 = r.id
            BY <1>3, <1>4, <1>7, <3>1
        <3> QED
            BY <3>3, <3>4, Zenon
    <2>5. s.nextEdge \in Nat /\ e.nextEdge \in Nat /\ e.nextEdge <= s.nextEdge
        BY <1>3, <1>4, <1>5, <1>7
    <2> QED
        BY <2>2, <2>3, <2>4, <2>5, CountersAfterAppend DEF LoadedNextEdge
<1>10. LoadedNextNode(e) = s.nextNode
    BY <1>4, <1>5 DEF LoadedNextNode, Matches
<1> QED
    BY <1>5, <1>6, <1>8, <1>9, <1>10 DEF Matches, s, e, new

\* After a commit with something to write the rows are in order and the
\* published graph matches them: every such commit is logged.
LEMMA StagedWritten ==
    ASSUME NEW d \in Database, DatabaseOK(d), NEW g \in Graph, GraphOK(g), Matches(g, d),
           NEW s \in Graph, GraphOK(s), ~NoChanges(GraphChanges(g, s))
    PROVE  LET e == ApplyChanges(d, GraphChanges(g, s)) IN
           /\ e \in Database /\ DatabaseOK(e) /\ e.seq = d.seq + 1
           /\ Published(g, s) \in Graph /\ GraphOK(Published(g, s))
           /\ Matches(Published(g, s), e)
<1> DEFINE c == GraphChanges(g, s)
           e == ApplyChanges(d, c)
           p == Published(g, s)
<1>1. AppendsOp(c)
    BY DEF NoChanges, AppendsOp
<1>2. /\ e.nodes = s.nodes /\ e.edges = s.edges /\ e.owned = d.owned
      /\ e.nextNode = s.nextNode /\ e.nextEdge = s.nextEdge
      /\ e.seq = d.seq + 1
    BY <1>1, ChangesWriteStaged DEF Matches, GraphOK
<1>3. e \in Database
    <2>1. e = [d EXCEPT !.nodes = e.nodes, !.edges = e.edges, !.nextNode = e.nextNode,
                        !.nextEdge = e.nextEdge, !.seq = e.seq]
        BY DEF ApplyChanges, Database
    <2> HIDE DEF e
    <2> QED
        BY <1>2, <2>1 DEF Graph, Database
<1> HIDE DEF e
<1>4. Rebuilt(s) \in Graph /\ GraphOK(Rebuilt(s)) /\ SameGraph(s, Rebuilt(s))
    BY RebuiltFacts, RebuiltOK DEF GraphOK
<1>5. /\ p \in Graph
      /\ p.nodes = s.nodes /\ p.edges = s.edges /\ p.owned = g.owned
      /\ p.nextNode = s.nextNode /\ p.nextEdge = s.nextEdge
      /\ p.byName = Rebuilt(s).byName /\ p.byProp = Rebuilt(s).byProp
    BY <1>4 DEF Published, Graph, SameGraph
<1> HIDE DEF p
<1>6. GraphOK(p)
    BY <1>4, <1>5 DEF GraphOK, SameGraph, Consistent, EndpointsExist, IndexExact
<1>7. RecordsOf(p) = RecordsOf(e) /\ p.owned = e.owned
    BY <1>2, <1>5 DEF RecordsOf, Matches
<1>8. DatabaseOK(e)
    BY <1>2, <1>3, <1>5, <1>6, <1>7, MatchingDatabaseOK DEF DatabaseOK, Graph
<1>9. LoadedNextNode(e) = p.nextNode
    <2>1. /\ IdsOf(e.nodes) \in SUBSET Nat
          /\ \A i \in IdsOf(e.nodes) : i < p.nextNode
        BY <1>2, <1>5, <1>6, <1>7 DEF IdsOf, Graph, NodeRecord, GraphOK, IdsBelow, RecordsOf
    <2> QED
        BY <1>2, <1>5, <2>1, CountersAfterAppend DEF LoadedNextNode, Graph
<1>10. LoadedNextEdge(e) = p.nextEdge
    <2>1. /\ IdsOf(e.edges) \in SUBSET Nat
          /\ \A i \in IdsOf(e.edges) : i < p.nextEdge
        BY <1>2, <1>5, <1>6, <1>7 DEF IdsOf, Graph, EdgeRecord, GraphOK, IdsBelow, RecordsOf
    <2> QED
        BY <1>2, <1>5, <2>1, CountersAfterAppend DEF LoadedNextEdge, Graph
<1> QED
    BY <1>2, <1>3, <1>5, <1>6, <1>7, <1>8, <1>9, <1>10 DEF Matches, e, p

\* After add_variable the rows are in order and memory matches them.
LEMMA VariableWritten ==
    ASSUME NEW d \in Database, DatabaseOK(d), NEW g \in Graph, GraphOK(g), Matches(g, d),
           NEW v \in OwnedVariable
    PROVE  LET e == [d EXCEPT !.owned = d.owned \cup {v}, !.seq = d.seq + 1]
               s == [g EXCEPT !.owned = g.owned \cup {v}]
           IN  /\ e \in Database /\ DatabaseOK(e) /\ e.seq = d.seq + 1
               /\ s \in Graph /\ GraphOK(s) /\ Matches(s, e)
<1> DEFINE e == [d EXCEPT !.owned = d.owned \cup {v}, !.seq = d.seq + 1]
           s == [g EXCEPT !.owned = g.owned \cup {v}]
<1>1. /\ e \in Database /\ e.nodes = d.nodes /\ e.edges = d.edges
      /\ e.owned = d.owned \cup {v} /\ e.nextNode = d.nextNode /\ e.nextEdge = d.nextEdge
      /\ e.seq = d.seq + 1
    <2>1. d.owned \cup {v} \in SUBSET OwnedVariable /\ d.seq + 1 \in Nat
        BY DEF Database
    <2> QED
        BY <2>1 DEF Database
<1>2. /\ s \in Graph /\ s.nodes = g.nodes /\ s.edges = g.edges
      /\ s.owned = g.owned \cup {v} /\ s.nextNode = g.nextNode /\ s.nextEdge = g.nextEdge
      /\ s.byName = g.byName /\ s.byProp = g.byProp
    <2>1. g.owned \cup {v} \in SUBSET OwnedVariable
        BY DEF Graph
    <2> QED
        BY <2>1 DEF Graph
<1> HIDE DEF e, s
<1>3. IsFiniteSet(e.owned) /\ IsFiniteSet(s.owned)
    <2>1. IsFiniteSet(d.owned) /\ IsFiniteSet(g.owned) /\ IsFiniteSet({v})
        BY FS_Singleton DEF GraphOK, DatabaseOK
    <2>2. IsFiniteSet(d.owned \cup {v}) /\ IsFiniteSet(g.owned \cup {v})
        BY <2>1, FS_Union
    <2> QED
        BY <1>1, <1>2, <2>2
<1>4. GraphOK(s)
    BY <1>2, <1>3 DEF GraphOK, Consistent, EndpointsExist, IndexExact
<1>5. DatabaseOK(e)
    BY <1>1, <1>3 DEF DatabaseOK, Consistent, EndpointsExist
<1>6. Matches(s, e)
    BY <1>1, <1>2 DEF Matches, RecordsOf, LoadedNextNode, LoadedNextEdge
<1> QED
    BY <1>1, <1>2, <1>4, <1>5, <1>6 DEF e, s

\* A save, complete or broken off, leaves a sidecar.
LEMMA SidecarType ==
    ASSUME NEW g \in Graph, IsFiniteSet(g.edges), NEW old \in Sidecar
    PROVE  Saved(g) \in Sidecar /\ FailedSaves(old, g) \subseteq Sidecar
<1>1. Cardinality(g.edges) \in Nat
    BY FS_CardinalityType
<1>2. g.base \in Segment /\ g.slots \in Nat
    BY DEF Graph
<1>3. Saved(g) \in Sidecar
    BY <1>1, <1>2 DEF Saved, Sidecar
<1>4. ASSUME NEW s \in FailedSaves(old, g) PROVE s \in Sidecar
    BY <1>2, <1>4 DEF FailedSaves, Sidecar
<1> QED
    BY <1>3, <1>4

---------------------------------------------------------------------------
(* What a write does to the ids of a graph: it takes new ones from the     *)
(* allocators, or none, no write moves an allocator back, and an edge keeps*)
(* its endpoints.                                                          *)
\* An edge that g and s both have joins the same nodes in both.
EndpointsKept(E, F) == \A e \in E, f \in F : e.id = f.id => e.src = f.src /\ e.dst = f.dst

\* s allocates no earlier than g, what is new in s has an id g had not reached,
\* and what is not new joins what it joined.
Grown(g, s) ==
    /\ EndpointsKept(g.edges, s.edges)
    /\ g.nextNode <= s.nextNode /\ g.nextEdge <= s.nextEdge
    /\ \A i \in IdsOf(s.nodes) : i \in IdsOf(g.nodes) \/ g.nextNode <= i
    /\ \A i \in IdsOf(s.edges) : i \in IdsOf(g.edges) \/ g.nextEdge <= i

\* Growing twice is growing.
LEMMA GrownTwice ==
    ASSUME NEW g \in Graph, GraphOK(g), NEW s \in Graph, NEW u \in Graph,
           Grown(g, s), Grown(s, u)
    PROVE  Grown(g, u)
<1>1. /\ g.nextNode \in Nat /\ s.nextNode \in Nat /\ u.nextNode \in Nat
      /\ g.nextEdge \in Nat /\ s.nextEdge \in Nat /\ u.nextEdge \in Nat
      /\ IdsOf(u.nodes) \subseteq Nat /\ IdsOf(u.edges) \subseteq Nat
    BY DEF Graph, NodeRecord, EdgeRecord, IdsOf
<1>2. EndpointsKept(g.edges, u.edges)
    <2> SUFFICES ASSUME NEW e \in g.edges, NEW f \in u.edges, e.id = f.id
                 PROVE  e.src = f.src /\ e.dst = f.dst
        BY DEF EndpointsKept
    <2>1. e.id < g.nextEdge /\ e.id \in Nat
        BY DEF GraphOK, IdsBelow, Graph, EdgeRecord
    <2>2. f.id \in IdsOf(s.edges) \/ s.nextEdge <= f.id
        BY DEF Grown, IdsOf
    <2>3. PICK m \in s.edges : m.id = f.id
        BY <1>1, <2>1, <2>2 DEF Grown, IdsOf
    <2> QED
        BY <2>3 DEF Grown, EndpointsKept
<1> QED
    BY <1>1, <1>2 DEF Grown

\* What only loses or replaces records has grown.
LEMMA ShrunkGrown ==
    ASSUME NEW g \in Graph, NEW s \in Graph,
           IdsOf(s.nodes) \subseteq IdsOf(g.nodes), IdsOf(s.edges) \subseteq IdsOf(g.edges),
           s.nextNode = g.nextNode, s.nextEdge = g.nextEdge,
           EndpointsKept(g.edges, s.edges)
    PROVE  Grown(g, s)
BY DEF Grown, Graph

\* Updates and deletions give no id away and take none back.
LEMMA InPlaceGrown ==
    ASSUME NEW g \in Graph, GraphOK(g), NEW s \in InPlaceChanges(g)
    PROVE  Grown(g, s)
<1> USE DEF Graph
<1>1. EndpointsKept(g.edges, g.edges)
    BY DEF GraphOK, Consistent, IdsUnique, EndpointsKept
<1>2. CASE s \in NodeUpdates(g)
    <2>1. PICK p \in g.nodes \X Name : s = UpdatedNode(g, p[1], p[2])
        BY <1>2 DEF NodeUpdates
    <2> DEFINE m == [p[1] EXCEPT !.ext = p[2]]
               r == [g EXCEPT !.nodes = (g.nodes \ {p[1]}) \cup {m}]
    <2>2. m \in NodeRecord /\ m.id = p[1].id
        BY <2>1 DEF NodeRecord
    <2>3. r \in Graph /\ s = Rebuilt(r)
        BY <2>1, <2>2 DEF UpdatedNode
    <2>4. IdsOf(r.nodes) \subseteq IdsOf(g.nodes)
        BY <2>1, <2>2 DEF IdsOf
    <2>5. SameGraph(r, s) /\ s \in Graph
        BY <2>3, RebuiltFacts
    <2> QED
        BY <1>1, <2>4, <2>5, ShrunkGrown DEF SameGraph
<1>3. CASE s \in EdgeUpdates(g)
    <2>1. PICK e \in g.edges, x \in Prop : s = UpdatedEdge(g, e, x)
        BY <1>3 DEF EdgeUpdates
    <2> DEFINE m == [e EXCEPT !.prop = x]
               r == [g EXCEPT !.edges = (g.edges \ {e}) \cup {m}]
    <2>2. m \in EdgeRecord /\ m.id = e.id
        BY <2>1 DEF EdgeRecord
    <2>3. r \in Graph /\ s = Rebuilt(r)
        BY <2>1, <2>2 DEF UpdatedEdge
    <2>4. IdsOf(r.edges) \subseteq IdsOf(g.edges)
        BY <2>1, <2>2 DEF IdsOf
    <2>5. SameGraph(r, s) /\ s \in Graph
        BY <2>3, RebuiltFacts
    <2>6. EndpointsKept(g.edges, r.edges)
        <3>1. m.src = e.src /\ m.dst = e.dst
            BY <2>1 DEF EdgeRecord
        <3>2. r.edges = (g.edges \ {e}) \cup {m}
            OBVIOUS
        <3> HIDE DEF m, r
        <3> QED
            BY <1>1, <2>1, <2>2, <3>1, <3>2 DEF EndpointsKept
    <2> QED
        BY <2>4, <2>5, <2>6, ShrunkGrown DEF SameGraph
<1>4. CASE s \in EdgeDeletions(g) \cup NodeDeletions(g, TRUE) \cup NodeDeletions(g, FALSE)
    <2>1. PICK N \in SUBSET g.nodes, E \in SUBSET g.edges :
            s = Rebuilt([g EXCEPT !.nodes = N, !.edges = E])
        <3>1. CASE s \in EdgeDeletions(g)
            <4>1. PICK e \in g.edges : s = Rebuilt([g EXCEPT !.edges = g.edges \ {e}])
                BY <3>1 DEF EdgeDeletions, DeletedEdge
            <4>2. [g EXCEPT !.edges = g.edges \ {e}]
                    = [g EXCEPT !.nodes = g.nodes, !.edges = g.edges \ {e}]
                OBVIOUS
            <4> QED
                BY <4>1, <4>2
        <3>2. CASE s \in NodeDeletions(g, TRUE) \cup NodeDeletions(g, FALSE)
            <4>1. PICK n \in g.nodes : s = DeletedNode(g, n)
                BY <3>2 DEF NodeDeletions
            <4>2. s = Rebuilt([g EXCEPT !.nodes = g.nodes \ {n},
                                        !.edges = g.edges \ Incident(g, n.id)])
                BY <4>1 DEF DeletedNode
            <4> QED
                BY <4>2
        <3> QED
            BY <1>4, <3>1, <3>2
    <2> DEFINE r == [g EXCEPT !.nodes = N, !.edges = E]
    <2>2. r \in Graph /\ r.nodes = N /\ r.edges = E
          /\ r.nextNode = g.nextNode /\ r.nextEdge = g.nextEdge
        OBVIOUS
    <2>3. IdsOf(N) \subseteq IdsOf(g.nodes) /\ IdsOf(E) \subseteq IdsOf(g.edges)
        BY DEF IdsOf
    <2>4. SameGraph(r, s) /\ s \in Graph
        BY <2>1, <2>2, RebuiltFacts
    <2>5. EndpointsKept(g.edges, E)
        BY <1>1 DEF EndpointsKept
    <2> QED
        BY <2>2, <2>3, <2>4, <2>5, ShrunkGrown DEF SameGraph
<1> QED
    BY <1>2, <1>3, <1>4 DEF InPlaceChanges

\* Appended nodes take the next ids.
LEMMA WithNodesGrown ==
    ASSUME NEW g \in Graph, GraphOK(g), NEW b \in NodeBatches,
           NamesFree(g, NewNodes(g, b)), g.nextNode + Len(b) <= MaxNodes
    PROVE  Grown(g, WithNodes(g, b))
<1> DEFINE s == WithNodes(g, b)
<1>1. \A n \in NewNodes(g, b) : g.nextNode <= n.id
    BY NewNodesFacts
<1>2. Len(b) \in Nat
    BY BatchFacts DEF NodeBatches
<1>3. /\ s.nodes = g.nodes \cup NewNodes(g, b) /\ s.edges = g.edges
      /\ s.nextNode = g.nextNode + Len(b) /\ s.nextEdge = g.nextEdge
    BY DEF WithNodes, Graph
<1>4. g.nextNode \in Nat /\ g.nextEdge \in Nat
    BY DEF Graph
<1>5. EndpointsKept(g.edges, s.edges)
    BY <1>3 DEF GraphOK, Consistent, IdsUnique, EndpointsKept
<1> HIDE DEF s
<1> QED
    BY <1>1, <1>2, <1>3, <1>4, <1>5 DEF Grown, IdsOf, s

\* Appended edges take the next ids.
LEMMA WithEdgesGrown ==
    ASSUME NEW g \in Graph, GraphOK(g), NEW b \in EdgeBatches(g)
    PROVE  Grown(g, WithEdges(g, b))
<1> DEFINE s == WithEdges(g, b)
<1>1. NewEdges(g, b) \subseteq EdgeRecord /\ \A e \in NewEdges(g, b) : g.nextEdge <= e.id
    BY NewEdgesFacts
<1>2. Len(b) \in Nat
    BY BatchFacts DEF EdgeBatches
<1>3. /\ s.edges = g.edges \cup NewEdges(g, b) /\ s.nodes = g.nodes
      /\ s.nextEdge = g.nextEdge + Len(b) /\ s.nextNode = g.nextNode
    BY DEF WithEdges, Graph
<1>4. g.nextNode \in Nat /\ g.nextEdge \in Nat
    BY DEF Graph
<1>5. EndpointsKept(g.edges, s.edges)
    <2> SUFFICES ASSUME NEW e \in g.edges, NEW f \in s.edges, e.id = f.id
                 PROVE  e.src = f.src /\ e.dst = f.dst
        BY DEF EndpointsKept
    <2>1. e.id < g.nextEdge /\ e.id \in Nat
        BY DEF GraphOK, IdsBelow, Graph, EdgeRecord
    <2>2. f \notin NewEdges(g, b)
        BY <1>1, <1>4, <2>1 DEF EdgeRecord
    <2> QED
        BY <1>3, <2>2 DEF GraphOK, Consistent, IdsUnique
<1> HIDE DEF s
<1> QED
    BY <1>1, <1>2, <1>3, <1>4, <1>5 DEF Grown, IdsOf, s

\* So does whatever a statement does to a staged graph.
LEMMA StatementGrown ==
    ASSUME NEW g \in Graph, GraphOK(g), NEW s \in InPlaceChanges(g) \cup StagedAppends(g)
    PROVE  s \in Graph /\ Grown(g, s)
<1>1. CASE s \in InPlaceChanges(g)
    BY <1>1, InPlaceOK, InPlaceGrown
<1>2. CASE s \in StagedAppends(g)
    <2>1. s \in Graph
        BY <1>2, StagedAppendsOK
    <2>2. CASE \E b \in NodeBatches : /\ NamesFree(g, NewNodes(g, b))
                                      /\ g.nextNode + Len(b) <= MaxNodes
                                      /\ s = WithNodes(g, b)
        BY <2>1, <2>2, WithNodesGrown
    <2>3. CASE \E b \in EdgeBatches(g) : s = WithEdges(g, b)
        BY <2>1, <2>3, WithEdgesGrown
    <2> QED
        BY <1>2, <2>2, <2>3 DEF StagedAppends
<1> QED
    BY <1>1, <1>2

\* No statement touches the variables.
LEMMA OwnedKept ==
    ASSUME NEW g \in Graph, NEW s \in InPlaceChanges(g) \cup StagedAppends(g)
    PROVE  s.owned = g.owned
<1> USE DEF Graph
<1>1. CASE s \in NodeUpdates(g)
    BY <1>1 DEF NodeUpdates, UpdatedNode, Rebuilt, Compacted
<1>2. CASE s \in EdgeUpdates(g)
    <2>1. PICK e \in g.edges, x \in Prop : s = UpdatedEdge(g, e, x)
        BY <1>2 DEF EdgeUpdates
    <2> QED
        BY <2>1 DEF UpdatedEdge, Rebuilt, Compacted
<1>3. CASE s \in EdgeDeletions(g)
    BY <1>3 DEF EdgeDeletions, DeletedEdge, Rebuilt, Compacted
<1>4. CASE s \in NodeDeletions(g, TRUE) \cup NodeDeletions(g, FALSE)
    BY <1>4 DEF NodeDeletions, DeletedNode, Rebuilt, Compacted
<1>5. CASE s \in StagedAppends(g)
    BY <1>5 DEF StagedAppends, WithNodes, WithEdges
<1> QED
    BY <1>1, <1>2, <1>3, <1>4, <1>5 DEF InPlaceChanges

\* No statement deletes a node that owns a variable of its graph.
LEMMA OwnersStay ==
    ASSUME NEW g \in Graph, NEW s \in InPlaceChanges(g) \cup StagedAppends(g),
           NEW v \in g.owned, v.owner \in IdsOf(g.nodes)
    PROVE  v.owner \in IdsOf(s.nodes)
<1> USE DEF Graph
<1>1. PICK m \in g.nodes : m.id = v.owner
    BY DEF IdsOf
<1>2. CASE s \in NodeUpdates(g)
    <2>1. PICK p \in g.nodes \X Name : s = UpdatedNode(g, p[1], p[2])
        BY <1>2 DEF NodeUpdates
    <2>2. s.nodes = (g.nodes \ {p[1]}) \cup {[p[1] EXCEPT !.ext = p[2]]}
        BY <2>1 DEF UpdatedNode, Rebuilt, Compacted
    <2>3. [p[1] EXCEPT !.ext = p[2]].id = p[1].id
        BY <2>1 DEF NodeRecord
    <2>4. IdsOf(g.nodes) \subseteq IdsOf(s.nodes)
        BY <2>2, <2>3 DEF IdsOf
    <2> QED
        BY <2>4
<1>3. CASE s \in EdgeUpdates(g)
    <2>1. PICK e \in g.edges, x \in Prop : s = UpdatedEdge(g, e, x)
        BY <1>3 DEF EdgeUpdates
    <2>2. s.nodes = g.nodes
        BY <2>1 DEF UpdatedEdge, Rebuilt, Compacted
    <2> QED
        BY <2>2
<1>4. CASE s \in EdgeDeletions(g)
    BY <1>4 DEF EdgeDeletions, DeletedEdge, Rebuilt, Compacted
<1>5. CASE s \in NodeDeletions(g, TRUE) \cup NodeDeletions(g, FALSE)
    <2>1. PICK n \in g.nodes : ~OwnsVariable(g, n.id) /\ s = DeletedNode(g, n)
        BY <1>5 DEF NodeDeletions
    <2>2. n # m
        BY <1>1, <2>1 DEF OwnsVariable
    <2>3. s.nodes = g.nodes \ {n}
        BY <2>1 DEF DeletedNode, Rebuilt, Compacted
    <2> QED
        BY <1>1, <2>2, <2>3 DEF IdsOf
<1>6. CASE s \in StagedAppends(g)
    <2>1. \/ \E b \in NodeBatches : s = WithNodes(g, b)
          \/ \E b \in EdgeBatches(g) : s = WithEdges(g, b)
        BY <1>6 DEF StagedAppends
    <2>2. ASSUME NEW b, s = WithNodes(g, b) PROVE g.nodes \subseteq s.nodes
        <3>1. s.nodes = g.nodes \cup NewNodes(g, b)
            BY <2>2 DEF WithNodes, Graph
        <3> QED
            BY <3>1
    <2>3. ASSUME NEW b, s = WithEdges(g, b) PROVE g.nodes \subseteq s.nodes
        <3>1. s.nodes = g.nodes
            BY <2>3 DEF WithEdges
        <3> QED
            BY <3>1
    <2> QED
        BY <1>1, <2>1, <2>2, <2>3 DEF IdsOf
<1> QED
    BY <1>2, <1>3, <1>4, <1>5, <1>6 DEF InPlaceChanges
=============================================================================
