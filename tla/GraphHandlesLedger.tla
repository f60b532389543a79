------------------------- MODULE GraphHandlesLedger -------------------------
(***************************************************************************)
(* GraphHandles implements GraphLedger: the rows, read as a ledger, change *)
(* only by transactions run one after the other.                           *)
(***************************************************************************)
EXTENDS GraphHandles

RecordWithId(R, i) == CHOOSE r \in R : r.id = i

EdgeEntry(e) == [src |-> e.src, dst |-> e.dst, prop |-> e.prop]

\* A graph as a ledger: live ids to records, and the next ids.
LedgerOf(g) ==
    [nodes |-> [i \in IdsOf(g.nodes) |-> RecordWithId(g.nodes, i).ext],
     edges |-> [i \in IdsOf(g.edges) |-> EdgeEntry(RecordWithId(g.edges, i))],
     nextNode |-> g.nextNode,
     nextEdge |-> g.nextEdge]

\* What a fresh open of the database would find.
StoredLedger == LedgerOf([nodes |-> db.nodes, edges |-> db.edges,
                          nextNode |-> LoadedNextNode(db), nextEdge |-> LoadedNextEdge(db)])

Ledger == INSTANCE GraphLedger WITH ledger <- StoredLedger

\* Whatever the handles hold in memory, and however their transactions overlap,
\* each change of the database is what at most MaxStatements statements, run on
\* the database as it is then, would do to it (commit_transaction_snapshot,
\* lifecycle.rs:198-231, over graph_changes and apply_graph_changes).
ImplementsLedger == Ledger!LedgerSpec
=============================================================================
