----------------------------- MODULE GraphState -----------------------------
(***************************************************************************)
(* The data of one graph and what the core's operations do to it: the      *)
(* records, the adjacency (a compacted base segment under a delta overlay),*)
(* the indexes, the change set between two graphs, the rows of the SQLite  *)
(* database and the segment sidecar.  No variables: GraphHandles runs these*)
(* operators as the steps of several handles over one database.            *)
(*                                                                         *)
(* A node record keeps its id and its external id; an edge record its id,  *)
(* its endpoints and one property that stands for type and properties.  A  *)
(* hash map or a vector of slots is the set of its live records.  Adjacency*)
(* lists are sets of <<node, edge>> pairs: ids are appended in increasing  *)
(* order, so the set determines the list.                                  *)
(***************************************************************************)
EXTENDS Integers, Sequences, FiniteSets

CONSTANTS
    Name,            \* external ids
    NoName,          \* an absent external id: the default name is taken
    DefaultName(_),  \* "node:{id}"
    Prop,            \* values of an edge's property
    DeltaLimit,      \* delta edges above which an append compacts (1024)
    DeltaRatio       \* ... or above base / DeltaRatio (4)

ASSUME NoNameAssumption == NoName \notin Name
ASSUME DeltaAssumption == DeltaLimit \in Nat /\ DeltaRatio \in Nat

IdsOf(R) == {r.id : r \in R}

MaxOf(a, b) == IF a > b THEN a ELSE b

\* One more than the largest id: the slots a vector needs to hold them all.
NextAfter(S) ==
    IF S = {} THEN 0 ELSE 1 + CHOOSE m \in S : \A i \in S : i <= m

---------------------------------------------------------------------------
(* Adjacency and derived state *)

NoAdjacency == [out |-> {}, in |-> {}]

\* Wrong variant: the two directions of the segment are swapped.
AdjacencySwapped(edges) == [out |-> {<<e.dst, e.id>> : e \in edges},
                            in  |-> {<<e.src, e.id>> : e \in edges}]

AdjacencyOf(edges) == [out |-> {<<e.src, e.id>> : e \in edges},
                       in  |-> {<<e.dst, e.id>> : e \in edges}]

EmptyGraph ==
    [nodes |-> {}, slots |-> 0, edges |-> {}, owned |-> {},
     byName |-> {}, byProp |-> {},
     base |-> [slots |-> 0, adj |-> NoAdjacency], delta |-> NoAdjacency,
     nextNode |-> 0, nextEdge |-> 0]

\* rebuild_compacted_segment: the base segment holds every live edge.
Compacted(g) == [g EXCEPT !.base = [slots |-> g.slots, adj |-> AdjacencyOf(g.edges)],
                          !.delta = NoAdjacency]

\* Wrong variant: only the segment is rebuilt.
RebuiltSegmentOnly(g) == Compacted(g)

\* rebuild_derived_state: the indexes from the records, then the segment.
Rebuilt(g) == Compacted([g EXCEPT !.byName = {<<n.ext, n.id>> : n \in g.nodes},
                                  !.byProp = {<<e.prop, e.id>> : e \in g.edges}])

\* edge_ids_for_node on both sides, as pairs over all nodes.
EdgeIds(g) == [out |-> g.base.adj.out \cup g.delta.out,
               in  |-> g.base.adj.in \cup g.delta.in]

\* collect_neighbors: an edge id whose record is gone is skipped.
OutNeighbors(g, id) ==
    {e.dst : e \in {x \in g.edges : <<id, x.id>> \in EdgeIds(g).out}}
InNeighbors(g, id) ==
    {e.src : e \in {x \in g.edges : <<id, x.id>> \in EdgeIds(g).in}}

\* maybe_auto_compact_segments: the thresholds.
DeltaTooLarge(g) ==
    LET delta == Cardinality(g.delta.out)
        base  == Cardinality(g.base.adj.out)
    IN  \/ delta > DeltaLimit
        \/ base > 0 /\ delta * DeltaRatio > base

---------------------------------------------------------------------------
(* Appending records *)

\* Wrong variant: a missing external id is stored as missing.
NewNodesUnnamed(g, batch) ==
    {[id |-> g.nextNode + (i - 1), ext |-> batch[i]] : i \in DOMAIN batch}

\* The records add_nodes builds for a batch of (optional) external ids.
NewNodes(g, batch) ==
    {[id |-> g.nextNode + (i - 1),
      ext |-> IF batch[i] = NoName THEN DefaultName(g.nextNode + (i - 1)) ELSE batch[i]] :
        i \in DOMAIN batch}

\* Every external id of the batch is free, and they differ.
NamesFree(g, new) ==
    /\ \A n \in new : \A p \in g.byName : p[1] # n.ext
    /\ \A n, m \in new : n.ext = m.ext => n = m

WithNodes(g, batch) ==
    LET new == NewNodes(g, batch) IN
    [g EXCEPT !.nodes = @ \cup new,
              !.slots = MaxOf(@, g.nextNode + Len(batch)),
              !.byName = @ \cup {<<n.ext, n.id>> : n \in new},
              !.nextNode = @ + Len(batch)]

NewEdges(g, batch) ==
    {[id |-> g.nextEdge + (i - 1),
      src |-> batch[i].src, dst |-> batch[i].dst, prop |-> batch[i].prop] :
        i \in DOMAIN batch}

\* require_node for both endpoints of every edge of the batch.
EndpointsLive(g, batch) ==
    \A i \in DOMAIN batch : {batch[i].src, batch[i].dst} \subseteq IdsOf(g.nodes)

\* insert_edge_record: records, delta adjacency and indexes.
WithEdges(g, batch) ==
    LET new == NewEdges(g, batch) IN
    [g EXCEPT !.edges = @ \cup new,
              !.delta = [out |-> @.out \cup AdjacencyOf(new).out,
                         in  |-> @.in \cup AdjacencyOf(new).in],
              !.byProp = @ \cup {<<e.prop, e.id>> : e \in new},
              !.nextEdge = @ + Len(batch)]

---------------------------------------------------------------------------
(* In-place updates and deletions *)

NameTakenByOther(g, id, name) == \E p \in g.byName : p[1] = name /\ p[2] # id

UpdatedNode(g, n, name) ==
    Rebuilt([g EXCEPT !.nodes = (@ \ {n}) \cup {[n EXCEPT !.ext = name]}])

UpdatedEdge(g, e, prop) ==
    Rebuilt([g EXCEPT !.edges = (@ \ {e}) \cup {[e EXCEPT !.prop = prop]}])

Incident(g, id) == {e \in g.edges : e.src = id \/ e.dst = id}

\* Wrong variant: variables do not hold their owner.
OwnsNothing(g, id) == FALSE

OwnsVariable(g, id) == \E v \in g.owned : v.owner = id

DeletedNode(g, n) ==
    Rebuilt([g EXCEPT !.edges = @ \ Incident(g, n.id), !.nodes = @ \ {n}])

DeletedEdge(g, e) == Rebuilt([g EXCEPT !.edges = @ \ {e}])

\* The graphs one update_*_in_place or delete_*_in_place can lead to.
NodeUpdates(g) ==
    {UpdatedNode(g, p[1], p[2]) :
        p \in {q \in g.nodes \X Name : ~NameTakenByOther(g, q[1].id, q[2])}}
EdgeUpdates(g) == {UpdatedEdge(g, e, x) : e \in g.edges, x \in Prop}
NodeDeletions(g, detach) ==
    {DeletedNode(g, n) : n \in {x \in g.nodes : /\ ~OwnsVariable(g, x.id)
                                                /\ detach \/ Incident(g, x.id) = {}}}
EdgeDeletions(g) == {DeletedEdge(g, e) : e \in g.edges}

---------------------------------------------------------------------------
(* Change sets and the rows they write *)

\* Wrong variant: edges removed by the staged graph are not deleted.
GraphChangesKeepEdges(g, s) ==
    [upsertNodes |-> s.nodes \ g.nodes,
     upsertEdges |-> s.edges \ g.edges,
     deleteNodes |-> IdsOf(g.nodes) \ IdsOf(s.nodes),
     deleteEdges |-> {},
     nextNode |-> s.nextNode,
     nextEdge |-> s.nextEdge,
     countersChanged |-> s.nextNode # g.nextNode \/ s.nextEdge # g.nextEdge]

\* graph_changes: what turns the graph g into the staged graph s.
GraphChanges(g, s) ==
    [upsertNodes |-> s.nodes \ g.nodes,
     upsertEdges |-> s.edges \ g.edges,
     deleteNodes |-> IdsOf(g.nodes) \ IdsOf(s.nodes),
     deleteEdges |-> IdsOf(g.edges) \ IdsOf(s.edges),
     nextNode |-> s.nextNode,
     nextEdge |-> s.nextEdge,
     countersChanged |-> s.nextNode # g.nextNode \/ s.nextEdge # g.nextEdge]

NoRows(c) == /\ c.upsertNodes = {} /\ c.upsertEdges = {}
             /\ c.deleteNodes = {} /\ c.deleteEdges = {}

NoChanges(c) == NoRows(c) /\ ~c.countersChanged

EmptyDatabase == [nodes |-> {}, edges |-> {}, owned |-> {},
                  nextNode |-> 0, nextEdge |-> 0, seq |-> 0]

\* The operation log is its length in committed transactions: only whether
\* MAX(seq) moved is ever looked at.
InsertNodeRows(d, new) == [d EXCEPT !.nodes = @ \cup new, !.seq = @ + 1]
InsertEdgeRows(d, new) == [d EXCEPT !.edges = @ \cup new, !.seq = @ + 1]

\* PRIMARY KEY and UNIQUE (external_id) reject a plain INSERT.
NodeRowsClash(d, new) ==
    \E n \in new, m \in d.nodes : m.id = n.id \/ m.ext = n.ext
EdgeRowsClash(d, new) == IdsOf(d.edges) \cap IdsOf(new) # {}

\* Node rows are upserted one by one in id order, each against the rows as
\* they stand then: later ids still carry their old external id.
UpsertClash(d, c) ==
    \E n \in c.upsertNodes :
        \/ \E m \in d.nodes : /\ m.id \notin c.deleteNodes
                              /\ \/ m.id > n.id
                                 \/ m.id < n.id /\ m.id \notin IdsOf(c.upsertNodes)
                              /\ m.ext = n.ext
        \/ \E m \in c.upsertNodes : m.id < n.id /\ m.ext = n.ext

AppendsOp(c) == ~NoRows(c) \/ c.countersChanged

\* Wrong variant: the next ids are not stored.
ApplyChangesNoCounters(d, c) ==
    [d EXCEPT
        !.nodes = {n \in @ : n.id \notin c.deleteNodes \cup IdsOf(c.upsertNodes)}
                    \cup c.upsertNodes,
        !.edges = {e \in @ : e.id \notin c.deleteEdges \cup IdsOf(c.upsertEdges)}
                    \cup c.upsertEdges,
        !.seq = IF AppendsOp(c) THEN @ + 1 ELSE @]

ApplyChanges(d, c) ==
    [d EXCEPT
        !.nodes = {n \in @ : n.id \notin c.deleteNodes \cup IdsOf(c.upsertNodes)}
                    \cup c.upsertNodes,
        !.edges = {e \in @ : e.id \notin c.deleteEdges \cup IdsOf(c.upsertEdges)}
                    \cup c.upsertEdges,
        !.nextNode = c.nextNode,
        !.nextEdge = c.nextEdge,
        !.seq = IF AppendsOp(c) THEN @ + 1 ELSE @]

---------------------------------------------------------------------------
(* Loading, and the segment sidecar *)

\* The next ids a handle computes when it loads the database d.
LoadedNextNode(d) == MaxOf(NextAfter(IdsOf(d.nodes)), d.nextNode)
LoadedNextEdge(d) == MaxOf(NextAfter(IdsOf(d.edges)), d.nextEdge)

\* insert_loaded_edge and insert_loaded_variable require live endpoints and
\* owners: a database that breaks this cannot be opened.
EdgesLoadable(d) == \A e \in d.edges : {e.src, e.dst} \subseteq IdsOf(d.nodes)
OwnersLoadable(d) == \A v \in d.owned : v.owner \in IdsOf(d.nodes)

LoadedGraph(d) ==
    LET slots == NextAfter(IdsOf(d.nodes)) IN
    Rebuilt([EmptyGraph EXCEPT !.nodes = d.nodes, !.edges = d.edges, !.owned = d.owned,
                               !.slots = slots,
                               !.nextNode = LoadedNextNode(d),
                               !.nextEdge = LoadedNextEdge(d)])

\* A file that is absent, truncated or corrupt: loading ignores it.
Unreadable == [unreadable |-> TRUE]

NoSidecar == [segment |-> Unreadable, manifest |-> Unreadable]

Saved(g) == [segment |-> g.base,
             manifest |-> [nodes |-> g.slots, edges |-> Cardinality(g.edges)]]

\* save_segment creates the directory, overwrites segment-v1.bin, then
\* manifest.txt; it can fail at, or half way through, each of the three.
FailedSaves(old, g) ==
    {old,
     [old EXCEPT !.segment = Unreadable],
     [old EXCEPT !.segment = g.base],
     [segment |-> g.base, manifest |-> Unreadable]}

\* Wrong variant: the edge counts are not compared.
SegmentUsableAnyEdges(sidecar, slots, edgeCount) ==
    /\ sidecar.manifest # Unreadable
    /\ sidecar.segment # Unreadable
    /\ sidecar.manifest.nodes = slots
    /\ sidecar.segment.slots = slots

\* load_segment accepts a sidecar whose counts match: nothing else ties it
\* to the rows it was computed from.
SegmentUsable(sidecar, slots, edgeCount) ==
    /\ sidecar.manifest # Unreadable
    /\ sidecar.segment # Unreadable
    /\ sidecar.manifest = [nodes |-> slots, edges |-> edgeCount]
    /\ sidecar.segment.slots = slots
    /\ Cardinality(sidecar.segment.adj.out) = edgeCount
    /\ Cardinality(sidecar.segment.adj.in) = edgeCount

---------------------------------------------------------------------------
(* What makes records a graph *)

RecordsOf(g) == [nodes |-> g.nodes, edges |-> g.edges]

IdsUnique(R) == \A r, s \in R : r.id = s.id => r = s
NamesUnique(N) == \A n, m \in N : n.ext = m.ext => n = m
EndpointsExist(x) == \A e \in x.edges : {e.src, e.dst} \subseteq IdsOf(x.nodes)

Consistent(x) ==
    /\ IdsUnique(x.nodes) /\ IdsUnique(x.edges)
    /\ NamesUnique(x.nodes)
    /\ EndpointsExist(x)
=============================================================================
