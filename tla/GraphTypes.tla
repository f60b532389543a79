----------------------------- MODULE GraphTypes -----------------------------
(***************************************************************************)
(* The values the operators of GraphState range over, within bounds: the   *)
(* batches of one call, the graphs one write can lead to, and the shapes   *)
(* of graphs, databases and sidecars.  No variables: GraphHandles and      *)
(* GraphProcesses both use them, and what is proved about them serves both.*)
(***************************************************************************)
EXTENDS GraphState

CONSTANTS
    MaxBatch,  \* bound: records in one add_nodes or add_edges call
    MaxNodes,  \* bound: node ids handed out
    MaxEdges   \* bound: edge ids handed out

ASSUME SizeAssumption == {MaxBatch, MaxNodes, MaxEdges} \subseteq Nat

ASSUME DefaultNameAssumption == \A i \in 0..(MaxNodes - 1) : DefaultName(i) \in Name

---------------------------------------------------------------------------
(* Shapes (core.rs:42-73) *)

NodeRecord == [id : Nat, ext : Name]
EdgeRecord == [id : Nat, src : Nat, dst : Nat, prop : Prop]
OwnedVariable == [id : Nat, owner : Nat]
Pairs == Nat \X Nat
Adjacency == [out : SUBSET Pairs, in : SUBSET Pairs]
Segment == [slots : Nat, adj : Adjacency]
Graph == [nodes : SUBSET NodeRecord, slots : Nat, edges : SUBSET EdgeRecord,
          owned : SUBSET OwnedVariable,
          byName : SUBSET (Name \X Nat), byProp : SUBSET (Prop \X Nat),
          base : Segment, delta : Adjacency, nextNode : Nat, nextEdge : Nat]
Database == [nodes : SUBSET NodeRecord, edges : SUBSET EdgeRecord,
             owned : SUBSET OwnedVariable, nextNode : Nat, nextEdge : Nat, seq : Nat]
Sidecar == [segment : Segment \cup {Unreadable},
            manifest : [nodes : Nat, edges : Nat] \cup {Unreadable}]
Records == [nodes : SUBSET NodeRecord, edges : SUBSET EdgeRecord]

\* The external-id map and the property index are those of the records.
IndexExact(g) == /\ g.byName = {<<n.ext, n.id>> : n \in g.nodes}
                 /\ g.byProp = {<<e.prop, e.id>> : e \in g.edges}

---------------------------------------------------------------------------
(* Writes *)

Batches(S) == UNION {[1..n -> S] : n \in 1..MaxBatch}
NodeBatches == Batches(Name \cup {NoName})
EdgeBatches(g) == Batches([src : IdsOf(g.nodes), dst : IdsOf(g.nodes), prop : Prop])

\* One statement's effect on the staged graph, which has no store.
StagedAppends(g) ==
    {WithNodes(g, b) : b \in {x \in NodeBatches :
        NamesFree(g, NewNodes(g, x)) /\ g.nextNode + Len(x) <= MaxNodes}}
    \cup {WithEdges(g, b) : b \in {x \in EdgeBatches(g) :
        EndpointsLive(g, x) /\ g.nextEdge + Len(x) <= MaxEdges}}

InPlaceChanges(g) ==
    NodeUpdates(g) \cup EdgeUpdates(g) \cup EdgeDeletions(g)
        \cup NodeDeletions(g, TRUE) \cup NodeDeletions(g, FALSE)

\* publish_staged: the variables stay the handle's own.
Published(g, staged) == [Rebuilt(staged) EXCEPT !.owned = g.owned]
=============================================================================
