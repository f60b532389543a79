---------------------------- MODULE GraphHandles ----------------------------
(***************************************************************************)
(* Several graph handles of one process over one SQLite database, with     *)
(* staged transactions, refresh, compaction into the segment sidecar, save *)
(* failures and crashes.                                                   *)
(*                                                                         *)
(* The binding never releases the interpreter lock inside an operation, so *)
(* an operation of one handle is one step.  A call that returns an error   *)
(* and changes nothing is no step: its early returns are the guards here.  *)
(* A crash in the middle of an operation leaves on disk what a failed save *)
(* leaves, and no memory: it is a save failure followed by Crash.          *)
(***************************************************************************)
EXTENDS GraphTypes

CONSTANTS
    Handle,        \* Graph objects opened on the database
    Tx,            \* GraphTransaction objects
    RefreshInTx,   \* may a client refresh a handle whose transaction is open?
    MaxOwned,      \* bound: variables with an owner
    MaxSeq,        \* bound: committed database transactions
    MaxStatements, \* bound: statements run in one transaction
    MaxFaults      \* bound: failed segment saves

ASSUME BoundAssumption ==
    /\ RefreshInTx \in BOOLEAN
    /\ {MaxOwned, MaxSeq, MaxStatements, MaxFaults} \subseteq Nat

VARIABLES
    db,       \* the SQLite database
    sidecar,  \* segment-v1.bin and manifest.txt
    open,     \* handles that are open
    core,     \* core[h]: the graph in memory
    version,  \* version[h]: mutation_version
    seen,     \* seen[h]: store_op_seq, the log position the handle knows
    tx,       \* tx[t]: the transaction's staged graph and base version
    faults    \* failed segment saves so far

vars == <<db, sidecar, open, core, version, seen, tx, faults>>
memory == <<open, core, version, seen>>

\* origin (the records at begin) and clean (neither refreshed nor hit by a
\* failed compaction since) are history: no action reads them.
IdleTx == [active |-> FALSE]

ActiveOn(h) == {t \in Tx : tx[t].active /\ tx[t].handle = h}

Soil(h) == [t \in Tx |-> IF t \in ActiveOn(h) THEN [tx[t] EXCEPT !.clean = FALSE] ELSE tx[t]]

Init ==
    /\ db = EmptyDatabase
    /\ sidecar = NoSidecar
    /\ open = {}
    /\ core = [h \in Handle |-> EmptyGraph]
    /\ version = [h \in Handle |-> 0]
    /\ seen = [h \in Handle |-> 0]
    /\ tx = [t \in Tx |-> IdleTx]
    /\ faults = 0

---------------------------------------------------------------------------
(* Handles *)

\* Wrong variant: no comparison with the operation log.
CurrentAlways(h) == h \in open

\* ensure_store_current
Current(h) == h \in open /\ seen[h] = db.seq

SaveSucceeds(g) == sidecar' = Saved(g) /\ UNCHANGED faults

SaveFails(g) == /\ faults < MaxFaults
                /\ faults' = faults + 1
                /\ sidecar' \in FailedSaves(sidecar, g)

UsableNow(g) == SegmentUsable(sidecar, g.slots, Cardinality(g.edges))

\* GraphCore::open up to its result, for a new handle or a refreshed one.
Load(h) ==
    LET g == LoadedGraph(db) IN
    /\ EdgesLoadable(db) /\ OwnersLoadable(db)
    /\ IF UsableNow(g)
       THEN /\ core' = [core EXCEPT ![h] = [g EXCEPT !.base = sidecar.segment]]
            /\ UNCHANGED <<sidecar, faults>>
       ELSE /\ core' = [core EXCEPT ![h] = g]
            /\ IF g.edges = {} THEN UNCHANGED <<sidecar, faults>> ELSE SaveSucceeds(g)
    /\ version' = [version EXCEPT ![h] = 0]
    /\ seen' = [seen EXCEPT ![h] = db.seq]

\* open returns an error after it wrote the sidecar: the rebuilt segment cannot
\* be saved, or it was and the variables that come next cannot be loaded.
LoadFails ==
    LET g == LoadedGraph(db) IN
    /\ EdgesLoadable(db)
    /\ ~UsableNow(g) /\ g.edges # {}
    /\ SaveFails(g) \/ (~OwnersLoadable(db) /\ SaveSucceeds(g))
    /\ UNCHANGED <<db, tx, memory>>

Open(h) ==
    /\ h \notin open
    /\ Load(h)
    /\ open' = open \cup {h}
    /\ UNCHANGED <<db, tx>>

Refresh(h) ==
    /\ h \in open
    /\ RefreshInTx \/ ActiveOn(h) = {}
    /\ Load(h)
    /\ tx' = Soil(h)
    /\ UNCHANGED <<db, open>>

\* The last reference to the graph goes away; a transaction keeps one.
Close(h) ==
    /\ h \in open
    /\ ActiveOn(h) = {}
    /\ open' = open \ {h}
    /\ core' = [core EXCEPT ![h] = EmptyGraph]
    /\ version' = [version EXCEPT ![h] = 0]
    /\ seen' = [seen EXCEPT ![h] = 0]
    /\ UNCHANGED <<db, sidecar, tx, faults>>

\* The process dies: the database and the sidecar survive.
Crash ==
    /\ open # {}
    /\ open' = {}
    /\ core' = [h \in Handle |-> EmptyGraph]
    /\ version' = [h \in Handle |-> 0]
    /\ seen' = [h \in Handle |-> 0]
    /\ tx' = [t \in Tx |-> IdleTx]
    /\ UNCHANGED <<db, sidecar, faults>>

\* compact_segments: the memory is compacted whether or not the save works.
Compact(h) ==
    /\ Current(h)
    /\ core' = [core EXCEPT ![h] = Compacted(@)]
    /\ SaveSucceeds(core'[h]) \/ SaveFails(core'[h])
    /\ UNCHANGED <<db, open, version, seen, tx>>

---------------------------------------------------------------------------
(* Direct writes *)

AddNodes(h, batch) ==
    LET new == NewNodes(core[h], batch) IN
    /\ NamesFree(core[h], new)
    /\ Current(h)
    /\ ~NodeRowsClash(db, new)
    /\ db.seq < MaxSeq /\ core[h].nextNode + Len(batch) <= MaxNodes
    /\ db' = InsertNodeRows(db, new)
    /\ seen' = [seen EXCEPT ![h] = db'.seq]
    /\ core' = [core EXCEPT ![h] = WithNodes(@, batch)]
    /\ version' = [version EXCEPT ![h] = @ + 1]
    /\ UNCHANGED <<sidecar, open, tx, faults>>

\* add_edges up to the compaction that may follow.
AppendEdges(h, batch) ==
    LET new == NewEdges(core[h], batch) IN
    /\ EndpointsLive(core[h], batch)
    /\ Current(h)
    /\ ~EdgeRowsClash(db, new)
    /\ db.seq < MaxSeq /\ core[h].nextEdge + Len(batch) <= MaxEdges
    /\ db' = InsertEdgeRows(db, new)
    /\ seen' = [seen EXCEPT ![h] = db'.seq]
    /\ UNCHANGED open

AddEdges(h, batch) ==
    LET g == WithEdges(core[h], batch) IN
    /\ AppendEdges(h, batch)
    /\ IF DeltaTooLarge(g)
       THEN /\ core' = [core EXCEPT ![h] = Compacted(g)]
            /\ SaveSucceeds(core'[h])
       ELSE /\ core' = [core EXCEPT ![h] = g]
            /\ UNCHANGED <<sidecar, faults>>
    /\ version' = [version EXCEPT ![h] = @ + 1]
    /\ UNCHANGED tx

\* The auto-compaction's save fails: add_edges returns the error after the
\* edges are committed and in memory, and before mutation_version moves.
AddEdgesSaveFails(h, batch) ==
    LET g == WithEdges(core[h], batch) IN
    /\ AppendEdges(h, batch)
    /\ DeltaTooLarge(g)
    /\ core' = [core EXCEPT ![h] = Compacted(g)]
    /\ SaveFails(core'[h])
    /\ tx' = Soil(h)
    /\ UNCHANGED version

\* add_variable with an owner: mutation_version does not move.
AddVariable(h, owner) ==
    LET var == [id |-> Cardinality(core[h].owned), owner |-> owner] IN
    /\ owner \in IdsOf(core[h].nodes)
    /\ Current(h)
    /\ db.seq < MaxSeq /\ var.id < MaxOwned
    /\ db' = [db EXCEPT !.owned = @ \cup {var}, !.seq = @ + 1]
    /\ seen' = [seen EXCEPT ![h] = db'.seq]
    /\ core' = [core EXCEPT ![h].owned = @ \cup {var}]
    /\ UNCHANGED <<sidecar, open, version, tx, faults>>

---------------------------------------------------------------------------
(* Staged writes *)

\* Wrong variant: the base version is not compared.
CommitAnyVersion(h, staged, base) ==
    LET changes == GraphChanges(core[h], staged) IN
    /\ ~NoChanges(changes)
    /\ Current(h)
    /\ ~UpsertClash(db, changes)
    /\ db.seq < MaxSeq
    /\ db' = ApplyChanges(db, changes)
    /\ SaveSucceeds(Rebuilt(staged)) \/ SaveFails(Rebuilt(staged))
    /\ core' = [core EXCEPT ![h] = Published(@, staged)]
    /\ version' = [version EXCEPT ![h] = base + 1]
    /\ seen' = [seen EXCEPT ![h] = db'.seq]
    /\ UNCHANGED open

\* commit_transaction_snapshot with something to write: rows, then a save
\* whose failure is ignored, then memory.
CommitStaged(h, staged, base) ==
    LET changes == GraphChanges(core[h], staged) IN
    /\ version[h] = base
    /\ ~NoChanges(changes)
    /\ Current(h)
    /\ ~UpsertClash(db, changes)
    /\ db.seq < MaxSeq
    /\ db' = ApplyChanges(db, changes)
    /\ SaveSucceeds(Rebuilt(staged)) \/ SaveFails(Rebuilt(staged))
    /\ core' = [core EXCEPT ![h] = Published(@, staged)]
    /\ version' = [version EXCEPT ![h] = base + 1]
    /\ seen' = [seen EXCEPT ![h] = db'.seq]
    /\ UNCHANGED open

\* update_node, update_edge, delete_node, delete_edge: staged on a snapshot
\* and committed in the same call.
Mutate(h) ==
    /\ h \in open
    /\ \E staged \in InPlaceChanges(core[h]) : CommitStaged(h, staged, version[h])
    /\ UNCHANGED tx

Begin(t, h) ==
    /\ ~tx[t].active
    /\ h \in open
    /\ tx' = [tx EXCEPT ![t] = [active |-> TRUE, handle |-> h,
                                staged |-> core[h], base |-> version[h],
                                origin |-> RecordsOf(core[h]),
                                ran |-> 0, clean |-> TRUE]]
    /\ UNCHANGED <<db, sidecar, memory, faults>>

Run(t) ==
    /\ tx[t].active
    /\ tx[t].ran < MaxStatements
    /\ \E staged \in InPlaceChanges(tx[t].staged) \cup StagedAppends(tx[t].staged) :
            tx' = [tx EXCEPT ![t].staged = staged, ![t].ran = @ + 1]
    /\ UNCHANGED <<db, sidecar, memory, faults>>

\* A failed commit leaves the transaction active, and can be retried.
Commit(t) ==
    /\ tx[t].active
    /\ CommitStaged(tx[t].handle, tx[t].staged, tx[t].base)
    /\ tx' = [tx EXCEPT ![t] = IdleTx]

\* Rollback, the commit of an unchanged graph, or an exception on exit.
Finish(t) ==
    /\ tx[t].active
    /\ tx' = [tx EXCEPT ![t] = IdleTx]
    /\ UNCHANGED <<db, sidecar, memory, faults>>

---------------------------------------------------------------------------
Next ==
    \/ Crash
    \/ LoadFails
    \/ \E h \in Handle :
        \/ Open(h) \/ Refresh(h) \/ Close(h) \/ Compact(h) \/ Mutate(h)
        \/ \E batch \in NodeBatches : AddNodes(h, batch)
        \/ \E batch \in EdgeBatches(core[h]) :
                AddEdges(h, batch) \/ AddEdgesSaveFails(h, batch)
        \/ \E owner \in IdsOf(core[h].nodes) : AddVariable(h, owner)
        \/ \E t \in Tx : Begin(t, h)
    \/ \E t \in Tx : Run(t) \/ Commit(t) \/ Finish(t)

Spec == Init /\ [][Next]_vars

---------------------------------------------------------------------------
(* Type invariant *)

ActiveTx == [active : {TRUE}, handle : Handle, staged : Graph, base : Nat,
             origin : Records, ran : 0..MaxStatements, clean : BOOLEAN]

\* Every variable has the shape its declaration promises (core.rs:42-73).
TypeOK ==
    /\ db \in Database
    /\ sidecar \in Sidecar
    /\ open \subseteq Handle
    /\ core \in [Handle -> Graph]
    /\ version \in [Handle -> Nat]
    /\ seen \in [Handle -> Nat]
    /\ tx \in [Tx -> ActiveTx \cup {IdleTx}]
    /\ faults \in 0..MaxFaults

---------------------------------------------------------------------------
(* Safety *)

\* No graph, stored, in memory or staged, ever has two records of one id, two
\* nodes of one external id, or an edge without its endpoints, whatever the
\* handles, the transactions and the failures do: what open() requires of the
\* rows (entities.rs:115-163) no graph write may break.
GraphsConsistent ==
    /\ Consistent(db)
    /\ \A h \in open : Consistent(core[h])
    /\ \A t \in Tx : tx[t].active => Consistent(tx[t].staged)

\* A handle that the stale-handle check lets write has in memory exactly what
\* the database has, and will hand out the ids a fresh open would hand out
\* (persistence.md "stale handles raise a refresh-required error").
CurrentHandleMatchesStore ==
    \A h \in open :
        /\ seen[h] <= db.seq
        /\ seen[h] = db.seq =>
            /\ RecordsOf(core[h]) = RecordsOf(db)
            /\ core[h].owned = db.owned
            /\ core[h].nextNode = LoadedNextNode(db)
            /\ core[h].nextEdge = LoadedNextEdge(db)

\* The external-id map and the property index, kept incrementally by appends
\* and rebuilt by updates, always agree with the records, in handles and in
\* staged graphs (entities.rs:125-181, mutations.rs:223-261).
IndexesMatchRecords ==
    /\ \A h \in open : IndexExact(core[h])
    /\ \A t \in Tx : tx[t].active => IndexExact(tx[t].staged)

\* Base segment and delta overlay together list every edge once under each
\* of its endpoints: traversal sees the committed edges (persistence.md
\* "SQLite ... source of truth", "rebuilds one from SQLite records").
AdjacencyExact(g) == /\ EdgeIds(g) = AdjacencyOf(g.edges)
                     /\ g.base.adj.out \cap g.delta.out = {}
                     /\ g.base.adj.in \cap g.delta.in = {}
AdjacencyMatchesRecords == \A h \in open : AdjacencyExact(core[h])

\* As long as no save of a segment has failed: an update or a deletion, staged
\* or not, a compaction and a load each leave the right segment behind
\* (lifecycle.rs:198-231, mutations.rs:223-261).
AdjacencyExactWhileSaved == faults = 0 => AdjacencyMatchesRecords

\* Whatever sidecar was loaded, traversal never reports a neighbour that the
\* records do not have: a segment may miss edges but invents none, as long as
\* no transaction commits over writes that it has not seen.
NeighborsReal ==
    \A h \in open : \A id \in IdsOf(core[h].nodes) :
        /\ OutNeighbors(core[h], id) \subseteq {e.dst : e \in {x \in core[h].edges : x.src = id}}
        /\ InNeighbors(core[h], id) \subseteq {e.src : e \in {x \in core[h].edges : x.dst = id}}

\* A variable's owner is a stored node: "Nodes referenced by probabilistic
\* variables through owner_id cannot be deleted" (cypher-compatibility.md:77).
OwnersExist == \A v \in db.owned : v.owner \in IdsOf(db.nodes)

---------------------------------------------------------------------------
(* Action properties *)

CommitsIn(t) == tx[t].active /\ ~tx'[t].active /\ db' # db

\* A transaction commits only over the records it began from: "transaction
\* commits reject a stale graph mutation version" (cypher-compatibility.md:72).
CommitRespectsSnapshot ==
    [][\A t \in Tx : CommitsIn(t) => RecordsOf(db) = tx[t].origin]_vars

\* The same for a transaction whose handle was neither refreshed nor hit by a
\* failed compaction since it began: every other write, of this handle or of
\* another, makes the commit fail (lifecycle.rs:203, 233).
CleanCommitRespectsSnapshot ==
    [][\A t \in Tx : CommitsIn(t) /\ tx[t].clean => RecordsOf(db) = tx[t].origin]_vars

\* The check that a node owns no variable is made on the graph the deletion is
\* staged on: a variable loses its owner only to a transaction that began
\* before the variable was added (mutations.rs:142, metadata.rs:8), or that
\* missed a write of its own handle and undoes it.
OwnersLostOnlyToOlderSnapshots ==
    [][\A v \in db.owned : v.owner \in IdsOf(db.nodes) \ IdsOf(db'.nodes) =>
            \E t \in Tx : CommitsIn(t) /\ (tx[t].clean => v \notin tx[t].staged.owned)]_vars

\* The allocator never goes back, and a new record has an id it had not
\* reached: "deleted IDs are not reused after reopening" (persistence.md:81).
\* A transaction that missed a write of its own handle may undo that write,
\* ids included; nothing else does.
IdsNeverReused ==
    [][(\A t \in Tx : CommitsIn(t) => tx[t].clean) =>
        /\ LoadedNextNode(db') >= LoadedNextNode(db)
        /\ LoadedNextEdge(db') >= LoadedNextEdge(db)
        /\ \A i \in IdsOf(db'.nodes) \ IdsOf(db.nodes) : i >= LoadedNextNode(db)
        /\ \A i \in IdsOf(db'.edges) \ IdsOf(db.edges) : i >= LoadedNextEdge(db)]_vars
=============================================================================
