------------------------- MODULE GraphHandlesProofs -------------------------
(***************************************************************************)
(* What is proved about GraphHandles, for every set of handles and         *)
(* transactions and every value of the bounds: its invariants from one     *)
(* inductive invariant, that ids are never used again, that what traversal *)
(* reads is made of the edges they name, and that it implements the ledger.*)
(***************************************************************************)
EXTENDS GraphHandlesLedger, GraphStateProofs

---------------------------------------------------------------------------
(* The inductive invariant *)

CoresOK == \A h \in Handle : GraphOK(core[h])

StagedOK == \A t \in Tx : tx[t].active => GraphOK(tx[t].staged)

\* The version a clean transaction began at is never ahead of its handle's,
\* and as long as the two are equal the handle still has the records it had.
SnapshotsTracked ==
    \A t \in Tx : tx[t].active /\ tx[t].clean =>
        /\ tx[t].handle \in open
        /\ tx[t].base <= version[tx[t].handle]
        /\ tx[t].base = version[tx[t].handle] =>
                RecordsOf(core[tx[t].handle]) = tx[t].origin

IInv ==
    /\ TypeOK
    /\ DatabaseOK(db)
    /\ CoresOK
    /\ StagedOK
    /\ CurrentHandleMatchesStore
    /\ SnapshotsTracked

\* An active transaction has the fields of one.
LEMMA ActiveType ==
    ASSUME TypeOK, NEW t \in Tx, tx[t].active
    PROVE  tx[t] \in ActiveTx
BY DEF TypeOK, IdleTx

\* The parts of the invariant that speak of handles, after a step that sets
\* the graph of one handle to what the database then holds.
LEMMA HandleStep ==
    ASSUME IInv, NEW h \in Handle, NEW g \in Graph, GraphOK(g),
           db' \in Database, DatabaseOK(db'), Matches(g, db'),
           db' = db \/ db'.seq = db.seq + 1,
           open' = open \cup {h},
           core' = [core EXCEPT ![h] = g],
           seen' = [seen EXCEPT ![h] = db'.seq]
    PROVE  /\ open' \subseteq Handle /\ core' \in [Handle -> Graph]
           /\ seen' \in [Handle -> Nat]
           /\ CoresOK'
           /\ CurrentHandleMatchesStore'
<1>1. /\ core \in [Handle -> Graph] /\ seen \in [Handle -> Nat] /\ open \subseteq Handle
      /\ db.seq \in Nat /\ db'.seq \in Nat
    BY DEF IInv, TypeOK, Database
<1>2. /\ core' \in [Handle -> Graph] /\ seen' \in [Handle -> Nat] /\ open' \subseteq Handle
      /\ core'[h] = g /\ seen'[h] = db'.seq
      /\ \A k \in Handle \ {h} : core'[k] = core[k] /\ seen'[k] = seen[k]
    BY <1>1
<1>3. ASSUME NEW k \in Handle PROVE GraphOK(core'[k])
    BY <1>2 DEF IInv, CoresOK
<1>4. ASSUME NEW k \in open'
      PROVE  seen'[k] <= db'.seq /\ (seen'[k] = db'.seq => Matches(core'[k], db'))
    <2>1. CASE k = h
        BY <1>1, <1>2, <2>1
    <2>2. CASE k # h
        <3>1. /\ k \in open /\ k \in Handle /\ core'[k] = core[k] /\ seen'[k] = seen[k]
              /\ seen[k] \in Nat
            BY <1>1, <1>2, <2>2
        <3>2. seen[k] <= db.seq /\ (seen[k] = db.seq => Matches(core[k], db))
            BY <3>1 DEF IInv, CurrentHandleMatchesStore, Matches
        <3> QED
            BY <1>1, <3>1, <3>2
    <2> QED
        BY <2>1, <2>2
<1>5. CoresOK'
    BY <1>3 DEF CoresOK
<1>6. CurrentHandleMatchesStore'
    BY <1>4 DEF CurrentHandleMatchesStore, Matches
<1> QED
    BY <1>2, <1>5, <1>6

\* What clean transactions know of their handle, after a step of handle h
\* that counts its change of records as one version.
LEMMA SnapshotStep ==
    ASSUME IInv, NEW h \in Handle, NEW g \in Graph,
           core' = [core EXCEPT ![h] = g],
           version' \in [Handle -> Nat],
           \A k \in Handle \ {h} : version'[k] = version[k],
           open \subseteq open',
           \A t \in Tx : tx'[t].active /\ tx'[t].clean =>
                /\ tx[t].active /\ tx[t].clean /\ tx'[t].handle = tx[t].handle
                /\ tx'[t].base = tx[t].base /\ tx'[t].origin = tx[t].origin
                /\ tx[t].handle = h =>
                        \/ version'[h] = version[h] + 1
                        \/ version'[h] = version[h] /\ RecordsOf(g) = RecordsOf(core[h])
    PROVE  SnapshotsTracked'
<1> SUFFICES ASSUME NEW t \in Tx, tx'[t].active, tx'[t].clean
             PROVE  /\ tx'[t].handle \in open'
                    /\ tx'[t].base <= version'[tx'[t].handle]
                    /\ tx'[t].base = version'[tx'[t].handle] =>
                            RecordsOf(core'[tx'[t].handle]) = tx'[t].origin
    BY DEF SnapshotsTracked
<1> DEFINE k == tx[t].handle
<1>1. /\ tx[t].active /\ tx[t].clean /\ tx'[t].handle = k
      /\ tx'[t].base = tx[t].base /\ tx'[t].origin = tx[t].origin
    OBVIOUS
<1>2. k \in Handle /\ tx[t].base \in Nat /\ version[k] \in Nat
    BY <1>1, ActiveType DEF IInv, TypeOK, ActiveTx
<1>3. /\ k \in open /\ tx[t].base <= version[k]
      /\ tx[t].base = version[k] => RecordsOf(core[k]) = tx[t].origin
    BY <1>1 DEF IInv, SnapshotsTracked
<1>4. core \in [Handle -> Graph]
    BY DEF IInv, TypeOK
<1>5. CASE k = h
    <2>1. \/ version'[h] = version[h] + 1
          \/ version'[h] = version[h] /\ RecordsOf(g) = RecordsOf(core[h])
        BY <1>5
    <2>2. core'[k] = g
        BY <1>4, <1>5
    <2> HIDE DEF k
    <2> QED
        BY <1>1, <1>2, <1>3, <1>5, <2>1, <2>2
<1>6. CASE k # h
    <2>1. version'[k] = version[k] /\ core'[k] = core[k]
        BY <1>2, <1>4, <1>6
    <2> HIDE DEF k
    <2> QED
        BY <1>1, <1>2, <1>3, <2>1
<1> QED
    BY <1>5, <1>6

\* Soil changes only clean, and only of the handle's transactions.
LEMMA SoilFacts ==
    ASSUME TypeOK, NEW h \in Handle
    PROVE  /\ Soil(h) \in [Tx -> ActiveTx \cup {IdleTx}]
           /\ \A t \in Tx : Soil(h)[t].active =>
                /\ tx[t].active /\ Soil(h)[t].staged = tx[t].staged
                /\ Soil(h)[t].origin = tx[t].origin
                /\ Soil(h)[t].clean => tx[t].handle # h /\ Soil(h)[t] = tx[t]
<1> SUFFICES ASSUME NEW t \in Tx
             PROVE  /\ Soil(h)[t] \in ActiveTx \cup {IdleTx}
                    /\ Soil(h)[t].active =>
                        /\ tx[t].active /\ Soil(h)[t].staged = tx[t].staged
                        /\ Soil(h)[t].origin = tx[t].origin
                        /\ Soil(h)[t].clean => tx[t].handle # h /\ Soil(h)[t] = tx[t]
    BY DEF Soil
<1>1. CASE t \in ActiveOn(h)
    <2>1. tx[t] \in ActiveTx
        BY <1>1, ActiveType DEF ActiveOn
    <2>2. Soil(h)[t] = [tx[t] EXCEPT !.clean = FALSE]
        BY <1>1 DEF Soil
    <2> QED
        BY <1>1, <2>1, <2>2 DEF ActiveTx, ActiveOn
<1>2. CASE t \notin ActiveOn(h)
    <2>1. Soil(h)[t] = tx[t]
        BY <1>2 DEF Soil
    <2> QED
        BY <1>2, <2>1 DEF TypeOK, ActiveOn, ActiveTx, IdleTx
<1> QED
    BY <1>1, <1>2

\* A step that adds no transaction and restages none keeps staged graphs in
\* order.
LEMMA StagedKept ==
    ASSUME IInv, \A t \in Tx : tx'[t].active => tx[t].active /\ tx'[t].staged = tx[t].staged
    PROVE  StagedOK'
BY DEF IInv, StagedOK

\* The save after a change of memory: either outcome leaves a sidecar.
LEMMA SaveFacts ==
    ASSUME IInv, NEW g \in Graph, GraphOK(g), SaveSucceeds(g) \/ SaveFails(g)
    PROVE  sidecar' \in Sidecar /\ faults' \in 0..MaxFaults
<1>1. Saved(g) \in Sidecar /\ FailedSaves(sidecar, g) \subseteq Sidecar
    BY SidecarType DEF GraphOK, IInv, TypeOK
<1> QED
    BY <1>1, BoundAssumption DEF SaveSucceeds, SaveFails, IInv, TypeOK

---------------------------------------------------------------------------
(* Init and every action *)

\* The invariant holds of the empty database with no handle open.
LEMMA InitInv == Init => IInv
<1> SUFFICES ASSUME Init PROVE IInv
    OBVIOUS
<1>1. EmptyGraph \in Graph /\ GraphOK(EmptyGraph)
    BY EmptyGraphFacts
<1>2. TypeOK
    BY <1>1, BoundAssumption DEF Init, TypeOK, EmptyDatabase, Database, NoSidecar, Sidecar
<1>3. DatabaseOK(db)
    <2>1. IsFiniteSet({})
        BY FS_EmptySet
    <2> QED
        BY <2>1, SizeAssumption DEF Init, EmptyDatabase, DatabaseOK, Consistent, IdsUnique,
            NamesUnique, EndpointsExist, IdsBelow
<1> QED
    BY <1>1, <1>2, <1>3 DEF Init, IInv, CoresOK, StagedOK, IdleTx,
        CurrentHandleMatchesStore, SnapshotsTracked

\* Opening or refreshing sets the graph to one that matches the database,
\* whether the base segment was rebuilt or taken from the sidecar.
LEMMA LoadFacts ==
    ASSUME IInv, NEW h \in Handle, Load(h)
    PROVE  /\ \E g \in Graph : GraphOK(g) /\ Matches(g, db) /\ core' = [core EXCEPT ![h] = g]
           /\ sidecar' \in Sidecar /\ faults' \in 0..MaxFaults
           /\ version' = [version EXCEPT ![h] = 0] /\ seen' = [seen EXCEPT ![h] = db.seq]
<1> DEFINE g == LoadedGraph(db)
<1>1. db \in Database /\ DatabaseOK(db) /\ sidecar \in Sidecar /\ faults \in 0..MaxFaults
    BY DEF IInv, TypeOK
<1>2. g \in Graph /\ GraphOK(g) /\ Matches(g, db)
    BY <1>1, LoadedOK
<1>3. version' = [version EXCEPT ![h] = 0] /\ seen' = [seen EXCEPT ![h] = db.seq]
    BY DEF Load
<1>4. CASE UsableNow(g)
    <2> DEFINE s == [g EXCEPT !.base = sidecar.segment]
    <2>1. core' = [core EXCEPT ![h] = s] /\ sidecar' = sidecar /\ faults' = faults
        BY <1>4 DEF Load
    <2>2. sidecar.segment \in Segment
        BY <1>1, <1>4 DEF UsableNow, SegmentUsable, Sidecar
    <2> HIDE DEF g
    <2>3. /\ s \in Graph /\ s.nodes = g.nodes /\ s.edges = g.edges /\ s.owned = g.owned
          /\ s.byName = g.byName /\ s.byProp = g.byProp
          /\ s.nextNode = g.nextNode /\ s.nextEdge = g.nextEdge
        BY <1>2, <2>2 DEF Graph
    <2> HIDE DEF s
    <2>4. GraphOK(s) /\ Matches(s, db)
        BY <1>2, <2>3 DEF GraphOK, Matches, RecordsOf, Consistent, EndpointsExist, IndexExact
    <2> QED
        BY <1>1, <1>3, <2>1, <2>3, <2>4
<1>5. CASE ~UsableNow(g)
    <2>1. core' = [core EXCEPT ![h] = g]
        BY <1>5 DEF Load
    <2>2. faults' = faults /\ (sidecar' = sidecar \/ sidecar' = Saved(g))
        BY <1>5 DEF Load, SaveSucceeds
    <2>3. sidecar' \in Sidecar
        BY <1>1, <1>2, <2>2, SidecarType DEF GraphOK
    <2> QED
        BY <1>1, <1>2, <1>3, <2>1, <2>2, <2>3
<1> QED
    BY <1>4, <1>5

\* Open keeps the invariant.
LEMMA OpenInv ==
    ASSUME IInv, NEW h \in Handle, Open(h)
    PROVE  IInv'
<1>1. PICK g \in Graph : GraphOK(g) /\ Matches(g, db) /\ core' = [core EXCEPT ![h] = g]
    BY LoadFacts DEF Open
<1>2. /\ sidecar' \in Sidecar /\ faults' \in 0..MaxFaults
      /\ version' = [version EXCEPT ![h] = 0] /\ seen' = [seen EXCEPT ![h] = db.seq]
    BY LoadFacts DEF Open
<1>3. /\ db' = db /\ tx' = tx /\ open' = open \cup {h} /\ h \notin open
      /\ db \in Database /\ DatabaseOK(db) /\ version \in [Handle -> Nat]
      /\ tx \in [Tx -> ActiveTx \cup {IdleTx}]
    BY DEF Open, IInv, TypeOK
<1>4. /\ open' \subseteq Handle /\ core' \in [Handle -> Graph] /\ seen' \in [Handle -> Nat]
      /\ CoresOK' /\ CurrentHandleMatchesStore'
    BY <1>1, <1>2, <1>3, HandleStep
<1>5. version' \in [Handle -> Nat] /\ \A k \in Handle \ {h} : version'[k] = version[k]
    BY <1>2, <1>3
<1>6. SnapshotsTracked'
    <2>1. \A t \in Tx : tx[t].active /\ tx[t].clean => tx[t].handle # h
        BY <1>3 DEF IInv, SnapshotsTracked
    <2> QED
        BY <1>1, <1>3, <1>5, <2>1, SnapshotStep
<1>7. StagedOK'
    BY <1>3, StagedKept
<1>8. TypeOK'
    BY <1>2, <1>3, <1>4, <1>5 DEF TypeOK
<1>9. DatabaseOK(db)'
    BY <1>3
<1> QED
    BY <1>4, <1>6, <1>7, <1>8, <1>9 DEF IInv

\* Refresh keeps the invariant.
LEMMA RefreshInv ==
    ASSUME IInv, NEW h \in Handle, Refresh(h)
    PROVE  IInv'
<1>1. PICK g \in Graph : GraphOK(g) /\ Matches(g, db) /\ core' = [core EXCEPT ![h] = g]
    BY LoadFacts DEF Refresh
<1>2. /\ sidecar' \in Sidecar /\ faults' \in 0..MaxFaults
      /\ version' = [version EXCEPT ![h] = 0] /\ seen' = [seen EXCEPT ![h] = db.seq]
    BY LoadFacts DEF Refresh
<1>3. /\ db' = db /\ tx' = Soil(h) /\ open' = open \cup {h} /\ open' = open
      /\ db \in Database /\ DatabaseOK(db) /\ version \in [Handle -> Nat]
    BY DEF Refresh, IInv, TypeOK
<1>4. /\ open' \subseteq Handle /\ core' \in [Handle -> Graph] /\ seen' \in [Handle -> Nat]
      /\ CoresOK' /\ CurrentHandleMatchesStore'
    BY <1>1, <1>2, <1>3, HandleStep
<1>5. version' \in [Handle -> Nat] /\ \A k \in Handle \ {h} : version'[k] = version[k]
    BY <1>2, <1>3
<1>6. /\ tx' \in [Tx -> ActiveTx \cup {IdleTx}]
      /\ \A t \in Tx : tx'[t].active =>
            /\ tx[t].active /\ tx'[t].staged = tx[t].staged
            /\ tx'[t].clean => tx[t].handle # h /\ tx'[t] = tx[t]
    BY <1>3, SoilFacts DEF IInv
<1>7. SnapshotsTracked'
    <2> SUFFICES ASSUME NEW t \in Tx, tx'[t].active, tx'[t].clean
                 PROVE  /\ tx'[t].handle \in open'
                        /\ tx'[t].base <= version'[tx'[t].handle]
                        /\ tx'[t].base = version'[tx'[t].handle] =>
                                RecordsOf(core'[tx'[t].handle]) = tx'[t].origin
        BY DEF SnapshotsTracked
    <2>1. tx[t].active /\ tx[t].handle # h /\ tx'[t] = tx[t]
        BY <1>6
    <2>2. tx[t].handle \in Handle
        BY <2>1, ActiveType DEF IInv, ActiveTx
    <2>3. core'[tx[t].handle] = core[tx[t].handle]
        BY <1>1, <2>1, <2>2 DEF IInv, TypeOK
    <2> QED
        BY <1>3, <1>5, <2>1, <2>2, <2>3 DEF IInv, SnapshotsTracked
<1>8. StagedOK'
    BY <1>6, StagedKept
<1>9. TypeOK'
    BY <1>2, <1>3, <1>4, <1>5, <1>6 DEF TypeOK
<1>10. DatabaseOK(db)'
    BY <1>3
<1> QED
    BY <1>4, <1>7, <1>8, <1>9, <1>10 DEF IInv

\* Close keeps the invariant.
LEMMA CloseInv ==
    ASSUME IInv, NEW h \in Handle, Close(h)
    PROVE  IInv'
<1>1. /\ open' = open \ {h} /\ core' = [core EXCEPT ![h] = EmptyGraph]
      /\ version' = [version EXCEPT ![h] = 0] /\ seen' = [seen EXCEPT ![h] = 0]
      /\ db' = db /\ sidecar' = sidecar /\ tx' = tx /\ faults' = faults
      /\ ActiveOn(h) = {}
    BY DEF Close
<1>2. EmptyGraph \in Graph /\ GraphOK(EmptyGraph)
    BY EmptyGraphFacts
<1>3. TypeOK'
    BY <1>1, <1>2 DEF IInv, TypeOK
<1>4. CoresOK'
    BY <1>1, <1>2 DEF IInv, TypeOK, CoresOK
<1>5. CurrentHandleMatchesStore'
    BY <1>1 DEF IInv, TypeOK, CurrentHandleMatchesStore
<1>6. SnapshotsTracked'
    <2> SUFFICES ASSUME NEW t \in Tx, tx[t].active, tx[t].clean
                 PROVE  /\ tx[t].handle \in open'
                        /\ tx[t].base <= version'[tx[t].handle]
                        /\ tx[t].base = version'[tx[t].handle] =>
                                RecordsOf(core'[tx[t].handle]) = tx[t].origin
        BY <1>1 DEF SnapshotsTracked
    <2>1. tx[t].handle # h
        BY <1>1 DEF ActiveOn
    <2>2. tx[t].handle \in Handle
        BY ActiveType DEF IInv, ActiveTx
    <2> QED
        BY <1>1, <2>1, <2>2 DEF IInv, TypeOK, SnapshotsTracked
<1>7. StagedOK'
    BY <1>1, StagedKept
<1>8. DatabaseOK(db)'
    BY <1>1 DEF IInv
<1> QED
    BY <1>3, <1>4, <1>5, <1>6, <1>7, <1>8 DEF IInv

\* Crash keeps the invariant.
LEMMA CrashInv ==
    ASSUME IInv, Crash
    PROVE  IInv'
<1>1. EmptyGraph \in Graph /\ GraphOK(EmptyGraph)
    BY EmptyGraphFacts
<1>2. TypeOK'
    BY <1>1 DEF Crash, IInv, TypeOK
<1>3. \A t \in Tx : ~tx'[t].active
    BY DEF Crash, IdleTx
<1> QED
    BY <1>1, <1>2, <1>3 DEF Crash, IInv, CoresOK, StagedOK, CurrentHandleMatchesStore,
        SnapshotsTracked

\* LoadFails keeps the invariant.
LEMMA LoadFailsInv ==
    ASSUME IInv, LoadFails
    PROVE  IInv'
<1>1. /\ db' = db /\ tx' = tx /\ open' = open /\ core' = core /\ version' = version
      /\ seen' = seen
    BY DEF LoadFails, memory
<1>2. LoadedGraph(db) \in Graph /\ GraphOK(LoadedGraph(db))
    BY LoadedOK DEF IInv, TypeOK
<1>3. SaveSucceeds(LoadedGraph(db)) \/ SaveFails(LoadedGraph(db))
    BY DEF LoadFails
<1>4. sidecar' \in Sidecar /\ faults' \in 0..MaxFaults
    BY <1>2, <1>3, SaveFacts
<1>5. TypeOK'
    BY <1>1, <1>4 DEF IInv, TypeOK
<1> QED
    BY <1>1, <1>5 DEF IInv, CoresOK, StagedOK, CurrentHandleMatchesStore, SnapshotsTracked

\* What ensure_store_current guarantees: memory matches the database.
LEMMA CurrentFacts ==
    ASSUME IInv, NEW h \in Handle, Current(h)
    PROVE  /\ h \in open /\ seen[h] = db.seq /\ open = open \cup {h}
           /\ core[h] \in Graph /\ GraphOK(core[h])
           /\ db \in Database /\ DatabaseOK(db)
           /\ Matches(core[h], db)
BY DEF Current, IInv, TypeOK, CoresOK, CurrentHandleMatchesStore, Matches

\* Compaction keeps a graph in order, its records, and what it matches.
LEMMA CompactedOK ==
    ASSUME NEW g \in Graph, GraphOK(g)
    PROVE  /\ Compacted(g) \in Graph /\ GraphOK(Compacted(g))
           /\ RecordsOf(Compacted(g)) = RecordsOf(g)
           /\ \A d \in Database : Matches(g, d) => Matches(Compacted(g), d)
BY CompactedFacts DEF SameGraph, GraphOK, Consistent, EndpointsExist, IndexExact,
    RecordsOf, Matches

\* The rest of the invariant after a step that changes no transaction's
\* staged graph.
LEMMA WriteInv ==
    ASSUME IInv, NEW h \in Handle, Current(h), NEW g \in Graph, GraphOK(g),
           db' \in Database, DatabaseOK(db'), Matches(g, db'),
           db' = db \/ db'.seq = db.seq + 1,
           open' = open, core' = [core EXCEPT ![h] = g],
           seen' = [seen EXCEPT ![h] = db'.seq],
           sidecar' \in Sidecar, faults' \in 0..MaxFaults,
           \/ version' = [version EXCEPT ![h] = @ + 1]
           \/ version' = version,
           tx' \in [Tx -> ActiveTx \cup {IdleTx}],
           \A t \in Tx : tx'[t].active => tx[t].active /\ tx'[t].staged = tx[t].staged,
           \A t \in Tx : tx'[t].active /\ tx'[t].clean =>
                /\ tx[t].clean /\ tx'[t].handle = tx[t].handle
                /\ tx'[t].base = tx[t].base /\ tx'[t].origin = tx[t].origin
                /\ tx[t].handle = h =>
                        \/ version' = [version EXCEPT ![h] = @ + 1]
                        \/ RecordsOf(g) = RecordsOf(core[h])
    PROVE  IInv'
<1>1. h \in open /\ open' = open \cup {h}
    BY CurrentFacts
<1>2. /\ open' \subseteq Handle /\ core' \in [Handle -> Graph] /\ seen' \in [Handle -> Nat]
      /\ CoresOK' /\ CurrentHandleMatchesStore'
    BY <1>1, HandleStep
<1>3. version \in [Handle -> Nat]
    BY DEF IInv, TypeOK
<1>4. /\ version' \in [Handle -> Nat]
      /\ \A k \in Handle \ {h} : version'[k] = version[k]
      /\ version' = [version EXCEPT ![h] = @ + 1] => version'[h] = version[h] + 1
    BY <1>3
<1>5. SnapshotsTracked'
    <2>1. \A t \in Tx : tx'[t].active /\ tx'[t].clean =>
            /\ tx[t].active /\ tx[t].clean /\ tx'[t].handle = tx[t].handle
            /\ tx'[t].base = tx[t].base /\ tx'[t].origin = tx[t].origin
            /\ tx[t].handle = h =>
                    \/ version'[h] = version[h] + 1
                    \/ version'[h] = version[h] /\ RecordsOf(g) = RecordsOf(core[h])
        BY <1>4
    <2> QED
        BY <1>4, <2>1, SnapshotStep
<1>6. StagedOK'
    BY StagedKept
<1>7. TypeOK'
    BY <1>2, <1>4 DEF TypeOK
<1> QED
    BY <1>2, <1>5, <1>6, <1>7 DEF IInv

\* Compact keeps the invariant.
LEMMA CompactInv ==
    ASSUME IInv, NEW h \in Handle, Compact(h)
    PROVE  IInv'
<1> DEFINE g == Compacted(core[h])
<1>1. /\ Current(h) /\ db' = db /\ open' = open /\ version' = version /\ seen' = seen
      /\ tx' = tx /\ core' = [core EXCEPT ![h] = g]
    BY DEF Compact
<1>2. /\ core[h] \in Graph /\ GraphOK(core[h]) /\ seen[h] = db.seq
      /\ db \in Database /\ DatabaseOK(db) /\ Matches(core[h], db)
    BY <1>1, CurrentFacts
<1>3. /\ g \in Graph /\ GraphOK(g) /\ RecordsOf(g) = RecordsOf(core[h]) /\ Matches(g, db)
    BY <1>2, CompactedOK
<1>4. /\ core \in [Handle -> Graph] /\ seen \in [Handle -> Nat]
      /\ tx \in [Tx -> ActiveTx \cup {IdleTx}]
    BY DEF IInv, TypeOK
<1>5. sidecar' \in Sidecar /\ faults' \in 0..MaxFaults
    <2>1. core'[h] = g
        BY <1>1, <1>4
    <2>2. SaveSucceeds(g) \/ SaveFails(g)
        BY <2>1 DEF Compact
    <2> QED
        BY <1>3, <2>2, SaveFacts
<1>6. seen' = [seen EXCEPT ![h] = db'.seq]
    BY <1>1, <1>2, <1>4
<1> HIDE DEF g
<1> QED
    BY <1>1, <1>2, <1>3, <1>4, <1>5, <1>6, WriteInv

\* AddNodes keeps the invariant.
LEMMA AddNodesInv ==
    ASSUME IInv, NEW h \in Handle, NEW b \in NodeBatches, AddNodes(h, b)
    PROVE  IInv'
<1> DEFINE g == WithNodes(core[h], b)
<1>1. /\ Current(h) /\ NamesFree(core[h], NewNodes(core[h], b))
      /\ core[h].nextNode + Len(b) <= MaxNodes
      /\ db' = InsertNodeRows(db, NewNodes(core[h], b))
      /\ seen' = [seen EXCEPT ![h] = db'.seq] /\ core' = [core EXCEPT ![h] = g]
      /\ version' = [version EXCEPT ![h] = @ + 1]
      /\ sidecar' = sidecar /\ open' = open /\ tx' = tx /\ faults' = faults
    BY DEF AddNodes
<1>2. /\ core[h] \in Graph /\ GraphOK(core[h])
      /\ db \in Database /\ DatabaseOK(db) /\ Matches(core[h], db)
    BY <1>1, CurrentFacts
<1>3. g \in Graph /\ GraphOK(g)
    BY <1>1, <1>2, WithNodesOK
<1>4. /\ db' \in Database /\ DatabaseOK(db') /\ db'.seq = db.seq + 1 /\ Matches(g, db')
    BY <1>1, <1>2, NodesWritten
<1>5. /\ tx \in [Tx -> ActiveTx \cup {IdleTx}]
      /\ sidecar \in Sidecar /\ faults \in 0..MaxFaults
    BY DEF IInv, TypeOK
<1> HIDE DEF g
<1> QED
    BY <1>1, <1>3, <1>4, <1>5, WriteInv

\* What add_edges has done when it comes to compaction.
LEMMA AppendFacts ==
    ASSUME IInv, NEW h \in Handle, NEW b \in EdgeBatches(core[h]), AppendEdges(h, b)
    PROVE  LET g == WithEdges(core[h], b) IN
           /\ Current(h) /\ open' = open /\ seen' = [seen EXCEPT ![h] = db'.seq]
           /\ g \in Graph /\ GraphOK(g)
           /\ Compacted(g) \in Graph /\ GraphOK(Compacted(g))
           /\ db' \in Database /\ DatabaseOK(db') /\ db'.seq = db.seq + 1
           /\ Matches(g, db') /\ Matches(Compacted(g), db')
<1> DEFINE g == WithEdges(core[h], b)
<1>1. /\ Current(h) /\ core[h].nextEdge + Len(b) <= MaxEdges
      /\ db' = InsertEdgeRows(db, NewEdges(core[h], b))
      /\ seen' = [seen EXCEPT ![h] = db'.seq] /\ open' = open
    BY DEF AppendEdges
<1>2. /\ core[h] \in Graph /\ GraphOK(core[h])
      /\ db \in Database /\ DatabaseOK(db) /\ Matches(core[h], db)
    BY <1>1, CurrentFacts
<1>3. g \in Graph /\ GraphOK(g)
    BY <1>1, <1>2, WithEdgesOK
<1>4. /\ db' \in Database /\ DatabaseOK(db') /\ db'.seq = db.seq + 1 /\ Matches(g, db')
    BY <1>1, <1>2, EdgesWritten
<1> HIDE DEF g
<1>5. Compacted(g) \in Graph /\ GraphOK(Compacted(g)) /\ Matches(Compacted(g), db')
    BY <1>3, <1>4, CompactedOK
<1> QED
    BY <1>1, <1>3, <1>4, <1>5 DEF g

\* AddEdges keeps the invariant.
LEMMA AddEdgesInv ==
    ASSUME IInv, NEW h \in Handle, NEW b \in EdgeBatches(core[h]), AddEdges(h, b)
    PROVE  IInv'
<1> DEFINE g == WithEdges(core[h], b)
<1>1. /\ AppendEdges(h, b) /\ tx' = tx /\ version' = [version EXCEPT ![h] = @ + 1]
    BY DEF AddEdges
<1>2. /\ Current(h) /\ open' = open /\ seen' = [seen EXCEPT ![h] = db'.seq]
      /\ g \in Graph /\ GraphOK(g)
      /\ Compacted(g) \in Graph /\ GraphOK(Compacted(g))
      /\ db' \in Database /\ DatabaseOK(db') /\ db'.seq = db.seq + 1
      /\ Matches(g, db') /\ Matches(Compacted(g), db')
    BY <1>1, AppendFacts
<1>3. /\ core \in [Handle -> Graph] /\ tx \in [Tx -> ActiveTx \cup {IdleTx}]
      /\ sidecar \in Sidecar /\ faults \in 0..MaxFaults
    BY DEF IInv, TypeOK
<1>4. CASE DeltaTooLarge(g)
    <2>1. core' = [core EXCEPT ![h] = Compacted(g)] /\ SaveSucceeds(core'[h])
        BY <1>4 DEF AddEdges
    <2> HIDE DEF g
    <2>2. core'[h] = Compacted(g)
        BY <1>3, <2>1
    <2>3. sidecar' \in Sidecar /\ faults' \in 0..MaxFaults
        BY <1>2, <2>1, <2>2, SaveFacts
    <2> QED
        BY <1>1, <1>2, <1>3, <2>1, <2>3, WriteInv
<1>5. CASE ~DeltaTooLarge(g)
    <2>1. core' = [core EXCEPT ![h] = g] /\ sidecar' = sidecar /\ faults' = faults
        BY <1>5 DEF AddEdges
    <2> HIDE DEF g
    <2> QED
        BY <1>1, <1>2, <1>3, <2>1, WriteInv
<1> QED
    BY <1>4, <1>5

\* AddEdgesSaveFails keeps the invariant.
LEMMA AddEdgesSaveFailsInv ==
    ASSUME IInv, NEW h \in Handle, NEW b \in EdgeBatches(core[h]), AddEdgesSaveFails(h, b)
    PROVE  IInv'
<1> DEFINE g == WithEdges(core[h], b)
<1>1. /\ AppendEdges(h, b) /\ tx' = Soil(h) /\ version' = version
      /\ core' = [core EXCEPT ![h] = Compacted(g)] /\ SaveFails(core'[h])
    BY DEF AddEdgesSaveFails
<1>2. /\ Current(h) /\ open' = open /\ seen' = [seen EXCEPT ![h] = db'.seq]
      /\ Compacted(g) \in Graph /\ GraphOK(Compacted(g))
      /\ db' \in Database /\ DatabaseOK(db') /\ db'.seq = db.seq + 1
      /\ Matches(Compacted(g), db')
    BY <1>1, AppendFacts
<1> HIDE DEF g
<1>3. core'[h] = Compacted(g)
    BY <1>1 DEF IInv, TypeOK
<1>4. sidecar' \in Sidecar /\ faults' \in 0..MaxFaults
    BY <1>1, <1>2, <1>3, SaveFacts
<1>5. /\ tx' \in [Tx -> ActiveTx \cup {IdleTx}]
      /\ \A t \in Tx : tx'[t].active =>
            /\ tx[t].active /\ tx'[t].staged = tx[t].staged
            /\ tx'[t].clean => tx[t].handle # h /\ tx'[t] = tx[t]
    BY <1>1, SoilFacts DEF IInv
<1>6. \A t \in Tx : tx'[t].active /\ tx'[t].clean =>
            /\ tx[t].clean /\ tx'[t].handle = tx[t].handle
            /\ tx'[t].base = tx[t].base /\ tx'[t].origin = tx[t].origin
            /\ tx[t].handle = h =>
                    \/ version' = [version EXCEPT ![h] = @ + 1]
                    \/ RecordsOf(Compacted(g)) = RecordsOf(core[h])
    BY <1>5
<1>7. \A t \in Tx : tx'[t].active => tx[t].active /\ tx'[t].staged = tx[t].staged
    BY <1>5
<1> QED
    BY <1>1, <1>2, <1>4, <1>5, <1>6, <1>7, WriteInv

\* AddVariable keeps the invariant.
LEMMA AddVariableInv ==
    ASSUME IInv, NEW h \in Handle, NEW o \in IdsOf(core[h].nodes), AddVariable(h, o)
    PROVE  IInv'
<1> DEFINE v == [id |-> Cardinality(core[h].owned), owner |-> o]
           g == [core[h] EXCEPT !.owned = core[h].owned \cup {v}]
<1>1. /\ Current(h)
      /\ db' = [db EXCEPT !.owned = db.owned \cup {v}, !.seq = db.seq + 1]
      /\ seen' = [seen EXCEPT ![h] = db'.seq]
      /\ version' = version /\ sidecar' = sidecar /\ open' = open /\ tx' = tx
      /\ faults' = faults
    BY DEF AddVariable
<1>2. core' = [core EXCEPT ![h] = g]
    BY DEF AddVariable
<1>3. /\ core[h] \in Graph /\ GraphOK(core[h])
      /\ db \in Database /\ DatabaseOK(db) /\ Matches(core[h], db)
    BY <1>1, CurrentFacts
<1>4. v \in OwnedVariable
    <2>1. o \in Nat
        BY <1>3 DEF IdsOf, Graph, NodeRecord
    <2>2. Cardinality(core[h].owned) \in Nat
        BY <1>3, FS_CardinalityType DEF GraphOK
    <2> QED
        BY <2>1, <2>2 DEF OwnedVariable
<1> HIDE DEF v
<1>5. /\ db' \in Database /\ DatabaseOK(db') /\ db'.seq = db.seq + 1
      /\ g \in Graph /\ GraphOK(g) /\ Matches(g, db')
    BY <1>1, <1>3, <1>4, VariableWritten
<1>6. RecordsOf(g) = RecordsOf(core[h])
    BY <1>3 DEF RecordsOf, Graph
<1>7. /\ tx \in [Tx -> ActiveTx \cup {IdleTx}]
      /\ sidecar \in Sidecar /\ faults \in 0..MaxFaults
    BY DEF IInv, TypeOK
<1> HIDE DEF g
<1> QED
    BY <1>1, <1>2, <1>5, <1>6, <1>7, WriteInv

\* Begin, Run and Finish touch transactions only.
LEMMA TransactionInv ==
    ASSUME IInv, UNCHANGED <<db, sidecar, memory, faults>>,
           tx' \in [Tx -> ActiveTx \cup {IdleTx}],
           StagedOK', SnapshotsTracked'
    PROVE  IInv'
BY DEF IInv, TypeOK, memory, CoresOK, CurrentHandleMatchesStore

\* Begin keeps the invariant.
LEMMA BeginInv ==
    ASSUME IInv, NEW t \in Tx, NEW h \in Handle, Begin(t, h)
    PROVE  IInv'
<1> DEFINE new == [active |-> TRUE, handle |-> h, staged |-> core[h], base |-> version[h],
                   origin |-> RecordsOf(core[h]), ran |-> 0, clean |-> TRUE]
<1>1. /\ tx' = [tx EXCEPT ![t] = new] /\ h \in open
      /\ UNCHANGED <<db, sidecar, memory, faults>>
    BY DEF Begin
<1>2. /\ core[h] \in Graph /\ GraphOK(core[h]) /\ version[h] \in Nat
      /\ tx \in [Tx -> ActiveTx \cup {IdleTx}]
    BY DEF IInv, TypeOK, CoresOK
<1>3. RecordsOf(core[h]) \in Records
    BY <1>2 DEF RecordsOf, Records, Graph
<1>4. new \in ActiveTx
    BY <1>2, <1>3, BoundAssumption DEF ActiveTx
<1>5. /\ new.staged = core[h] /\ new.handle = h /\ new.base = version[h]
      /\ new.origin = RecordsOf(core[h])
    OBVIOUS
<1> HIDE DEF new
<1>6. /\ tx' \in [Tx -> ActiveTx \cup {IdleTx}]
      /\ tx'[t] = new
      /\ \A u \in Tx \ {t} : tx'[u] = tx[u]
    BY <1>1, <1>2, <1>4
<1>7. StagedOK'
    BY <1>2, <1>5, <1>6 DEF IInv, StagedOK
<1>8. open' = open /\ core' = core /\ version' = version
    BY <1>1 DEF memory
<1>9. SnapshotsTracked'
    BY <1>1, <1>2, <1>5, <1>6, <1>8 DEF IInv, SnapshotsTracked
<1> QED
    BY <1>1, <1>6, <1>7, <1>9, TransactionInv

\* Run keeps the invariant.
LEMMA RunInv ==
    ASSUME IInv, NEW t \in Tx, Run(t)
    PROVE  IInv'
<1>1. PICK s \in InPlaceChanges(tx[t].staged) \cup StagedAppends(tx[t].staged) :
            tx' = [tx EXCEPT ![t].staged = s, ![t].ran = @ + 1]
    BY DEF Run
<1>2. /\ tx[t].active /\ tx[t].ran < MaxStatements
      /\ UNCHANGED <<db, sidecar, memory, faults>>
    BY DEF Run
<1>3. tx[t] \in ActiveTx /\ tx \in [Tx -> ActiveTx \cup {IdleTx}]
    BY <1>2, ActiveType DEF IInv, TypeOK
<1>4. tx[t].staged \in Graph /\ GraphOK(tx[t].staged)
    BY <1>2, <1>3 DEF ActiveTx, IInv, StagedOK
<1>5. s \in Graph /\ GraphOK(s)
    BY <1>4, InPlaceOK, StagedAppendsOK
<1> DEFINE new == [tx[t] EXCEPT !.staged = s, !.ran = @ + 1]
<1>6. /\ new \in ActiveTx
      /\ new.staged = s /\ new.handle = tx[t].handle /\ new.base = tx[t].base
      /\ new.origin = tx[t].origin /\ new.clean = tx[t].clean
    <2>1. tx[t].ran + 1 \in 0..MaxStatements
        BY <1>2, <1>3, BoundAssumption DEF ActiveTx
    <2> QED
        BY <1>3, <1>5, <2>1 DEF ActiveTx
<1>7. tx' = [tx EXCEPT ![t] = new]
    BY <1>1, <1>3
<1> HIDE DEF new
<1>8. /\ tx' \in [Tx -> ActiveTx \cup {IdleTx}]
      /\ tx'[t] = new
      /\ \A u \in Tx \ {t} : tx'[u] = tx[u]
    BY <1>3, <1>6, <1>7
<1>9. StagedOK'
    BY <1>5, <1>6, <1>8 DEF IInv, StagedOK
<1>10. open' = open /\ core' = core /\ version' = version
    BY <1>2 DEF memory
<1>11. SnapshotsTracked'
    BY <1>2, <1>6, <1>8, <1>10 DEF IInv, SnapshotsTracked
<1> QED
    BY <1>2, <1>8, <1>9, <1>11, TransactionInv

\* Finish keeps the invariant.
LEMMA FinishInv ==
    ASSUME IInv, NEW t \in Tx, Finish(t)
    PROVE  IInv'
<1>1. tx' = [tx EXCEPT ![t] = IdleTx] /\ UNCHANGED <<db, sidecar, memory, faults>>
    BY DEF Finish
<1>2. tx \in [Tx -> ActiveTx \cup {IdleTx}]
    BY DEF IInv, TypeOK
<1>3. /\ tx' \in [Tx -> ActiveTx \cup {IdleTx}]
      /\ ~tx'[t].active
      /\ \A u \in Tx \ {t} : tx'[u] = tx[u]
    BY <1>1, <1>2 DEF IdleTx
<1>4. StagedOK'
    BY <1>3 DEF IInv, StagedOK
<1>5. open' = open /\ core' = core /\ version' = version
    BY <1>1 DEF memory
<1>6. SnapshotsTracked'
    BY <1>3, <1>5 DEF IInv, SnapshotsTracked
<1> QED
    BY <1>1, <1>3, <1>4, <1>6, TransactionInv

\* What a commit writes, in either way of saving.
LEMMA CommitFacts ==
    ASSUME IInv, NEW h \in Handle, NEW s \in Graph, GraphOK(s), NEW base \in Nat,
           CommitStaged(h, s, base)
    PROVE  LET g == Published(core[h], s) IN
           /\ Current(h) /\ version[h] = base /\ g \in Graph /\ GraphOK(g)
           /\ db' \in Database /\ DatabaseOK(db') /\ Matches(g, db')
           /\ db'.seq = db.seq + 1
           /\ open' = open /\ core' = [core EXCEPT ![h] = g]
           /\ seen' = [seen EXCEPT ![h] = db'.seq]
           /\ version' = [version EXCEPT ![h] = @ + 1]
           /\ sidecar' \in Sidecar /\ faults' \in 0..MaxFaults
<1> DEFINE g == Published(core[h], s)
<1>1. /\ version[h] = base
      /\ ~NoChanges(GraphChanges(core[h], s)) /\ Current(h)
      /\ db' = ApplyChanges(db, GraphChanges(core[h], s))
      /\ SaveSucceeds(Rebuilt(s)) \/ SaveFails(Rebuilt(s))
      /\ core' = [core EXCEPT ![h] = g]
      /\ version' = [version EXCEPT ![h] = base + 1]
      /\ seen' = [seen EXCEPT ![h] = db'.seq] /\ open' = open
    BY DEF CommitStaged
<1>2. /\ core[h] \in Graph /\ GraphOK(core[h])
      /\ db \in Database /\ DatabaseOK(db) /\ Matches(core[h], db)
    BY <1>1, CurrentFacts
<1>3. /\ db' \in Database /\ DatabaseOK(db') /\ db'.seq = db.seq + 1
      /\ g \in Graph /\ GraphOK(g) /\ Matches(g, db')
    BY <1>1, <1>2, StagedWritten
<1>4. Rebuilt(s) \in Graph /\ GraphOK(Rebuilt(s))
    BY RebuiltOK DEF GraphOK
<1>5. sidecar' \in Sidecar /\ faults' \in 0..MaxFaults
    BY <1>1, <1>4, SaveFacts
<1> HIDE DEF g
<1>6. version' = [version EXCEPT ![h] = @ + 1]
    BY <1>1
<1> QED
    BY <1>1, <1>3, <1>5, <1>6 DEF g

\* Mutate keeps the invariant.
LEMMA MutateInv ==
    ASSUME IInv, NEW h \in Handle, Mutate(h)
    PROVE  IInv'
<1>1. PICK s \in InPlaceChanges(core[h]) : CommitStaged(h, s, version[h])
    BY DEF Mutate
<1>2. /\ core[h] \in Graph /\ GraphOK(core[h]) /\ version[h] \in Nat
      /\ tx \in [Tx -> ActiveTx \cup {IdleTx}]
    BY DEF IInv, TypeOK, CoresOK
<1>3. s \in Graph /\ GraphOK(s)
    BY <1>2, InPlaceOK
<1> DEFINE g == Published(core[h], s)
<1>4. /\ Current(h) /\ g \in Graph /\ GraphOK(g)
      /\ db' \in Database /\ DatabaseOK(db') /\ Matches(g, db')
      /\ db'.seq = db.seq + 1
      /\ open' = open /\ core' = [core EXCEPT ![h] = g]
      /\ seen' = [seen EXCEPT ![h] = db'.seq]
      /\ version' = [version EXCEPT ![h] = @ + 1]
      /\ sidecar' \in Sidecar /\ faults' \in 0..MaxFaults
    BY <1>1, <1>2, <1>3, CommitFacts
<1>5. tx' = tx
    BY DEF Mutate
<1> HIDE DEF g
<1> QED
    BY <1>2, <1>4, <1>5, WriteInv

\* Commit keeps the invariant.
LEMMA CommitInv ==
    ASSUME IInv, NEW t \in Tx, Commit(t)
    PROVE  IInv'
<1> DEFINE h == tx[t].handle
           s == tx[t].staged
           g == Published(core[h], s)
<1>1. /\ tx[t].active /\ CommitStaged(h, s, tx[t].base)
      /\ tx' = [tx EXCEPT ![t] = IdleTx]
    BY DEF Commit
<1>2. tx[t] \in ActiveTx /\ tx \in [Tx -> ActiveTx \cup {IdleTx}]
    BY <1>1, ActiveType DEF IInv, TypeOK
<1>3. h \in Handle /\ s \in Graph /\ GraphOK(s) /\ tx[t].base \in Nat
    BY <1>1, <1>2 DEF ActiveTx, IInv, StagedOK
<1>4. /\ Current(h) /\ g \in Graph /\ GraphOK(g)
      /\ db' \in Database /\ DatabaseOK(db') /\ Matches(g, db')
      /\ db'.seq = db.seq + 1
      /\ open' = open /\ core' = [core EXCEPT ![h] = g]
      /\ seen' = [seen EXCEPT ![h] = db'.seq]
      /\ version' = [version EXCEPT ![h] = @ + 1]
      /\ sidecar' \in Sidecar /\ faults' \in 0..MaxFaults
    BY <1>1, <1>3, CommitFacts
<1>5. /\ tx' \in [Tx -> ActiveTx \cup {IdleTx}]
      /\ ~tx'[t].active
      /\ \A u \in Tx \ {t} : tx'[u] = tx[u]
    BY <1>1, <1>2 DEF IdleTx
<1>6. \A u \in Tx : tx'[u].active => tx[u].active /\ tx'[u].staged = tx[u].staged
    BY <1>5
<1>7. \A u \in Tx : tx'[u].active /\ tx'[u].clean =>
            /\ tx[u].clean /\ tx'[u].handle = tx[u].handle
            /\ tx'[u].base = tx[u].base /\ tx'[u].origin = tx[u].origin
            /\ tx[u].handle = h =>
                    \/ version' = [version EXCEPT ![h] = @ + 1]
                    \/ RecordsOf(g) = RecordsOf(core[h])
    BY <1>4, <1>5
<1> HIDE DEF g, h
<1> QED
    BY <1>3, <1>4, <1>5, <1>6, <1>7, WriteInv

---------------------------------------------------------------------------
(* Theorems *)

\* Every step keeps the invariant.
LEMMA NextInv == IInv /\ [Next]_vars => IInv'
<1> SUFFICES ASSUME IInv, [Next]_vars PROVE IInv'
    OBVIOUS
<1>1. CASE Crash
    BY <1>1, CrashInv
<1>2. CASE LoadFails
    BY <1>2, LoadFailsInv
<1>3. ASSUME NEW h \in Handle,
             Open(h) \/ Refresh(h) \/ Close(h) \/ Compact(h) \/ Mutate(h)
      PROVE  IInv'
    BY <1>3, OpenInv, RefreshInv, CloseInv, CompactInv, MutateInv
<1>4. ASSUME NEW h \in Handle, NEW b \in NodeBatches, AddNodes(h, b)
      PROVE  IInv'
    BY <1>4, AddNodesInv
<1>5. ASSUME NEW h \in Handle, NEW b \in EdgeBatches(core[h]),
             AddEdges(h, b) \/ AddEdgesSaveFails(h, b)
      PROVE  IInv'
    BY <1>5, AddEdgesInv, AddEdgesSaveFailsInv
<1>6. ASSUME NEW h \in Handle, NEW o \in IdsOf(core[h].nodes), AddVariable(h, o)
      PROVE  IInv'
    BY <1>6, AddVariableInv
<1>7. ASSUME NEW h \in Handle, NEW t \in Tx, Begin(t, h)
      PROVE  IInv'
    BY <1>7, BeginInv
<1>8. ASSUME NEW t \in Tx, Run(t) \/ Commit(t) \/ Finish(t)
      PROVE  IInv'
    BY <1>8, RunInv, CommitInv, FinishInv
<1>9. CASE UNCHANGED vars
    <2>1. /\ db' = db /\ sidecar' = sidecar /\ open' = open /\ core' = core
          /\ version' = version /\ seen' = seen /\ tx' = tx /\ faults' = faults
        BY <1>9 DEF vars
    <2> QED
        BY <2>1 DEF IInv, TypeOK, CoresOK, StagedOK, CurrentHandleMatchesStore,
            SnapshotsTracked
<1> QED
    BY <1>1, <1>2, <1>3, <1>4, <1>5, <1>6, <1>7, <1>8, <1>9 DEF Next

\* The inductive invariant holds in every reachable state.
THEOREM Invariant == Spec => []IInv
BY InitInv, NextInv, PTL DEF Spec

\* Whatever the handles, transactions, failures and crashes do, every part of
\* the state keeps its shape (core.rs:42-73).
THEOREM TypeCorrect == Spec => []TypeOK
<1>1. IInv => TypeOK
    BY DEF IInv
<1> QED
    BY <1>1, Invariant, PTL

\* No write of any handle or transaction, failed saves and crashes included,
\* makes two records share an id, two nodes share an external id, or leaves an
\* edge without an endpoint.
THEOREM ConsistentAlways == Spec => []GraphsConsistent
<1>1. IInv => GraphsConsistent
    BY DEF IInv, TypeOK, DatabaseOK, CoresOK, StagedOK, GraphOK, GraphsConsistent
<1> QED
    BY <1>1, Invariant, PTL

\* A handle the stale-handle check lets write always has in memory what the
\* database has, and the ids a fresh open would hand out.
THEOREM CurrentMatches == Spec => []CurrentHandleMatchesStore
<1>1. IInv => CurrentHandleMatchesStore
    BY DEF IInv
<1> QED
    BY <1>1, Invariant, PTL

\* The two indexes are those of the records, in handles and staged graphs.
THEOREM IndexesExact == Spec => []IndexesMatchRecords
<1>1. IInv => IndexesMatchRecords
    BY DEF IInv, TypeOK, CoresOK, StagedOK, GraphOK, IndexesMatchRecords
<1> QED
    BY <1>1, Invariant, PTL

\* A commit finds in the database the records its handle has, which for a clean
\* transaction are those it began from.
LEMMA CleanOrigin ==
    ASSUME IInv, NEW t \in Tx, Commit(t), tx[t].clean
    PROVE  RecordsOf(db) = tx[t].origin
<1>1. /\ tx[t].active /\ Current(tx[t].handle) /\ version[tx[t].handle] = tx[t].base
    BY DEF Commit, CommitStaged
<1>2. tx[t].handle \in Handle
    BY <1>1, ActiveType DEF IInv, ActiveTx
<1>3. RecordsOf(core[tx[t].handle]) = RecordsOf(db)
    BY <1>1, <1>2, CurrentFacts DEF Matches
<1>4. RecordsOf(core[tx[t].handle]) = tx[t].origin
    BY <1>1 DEF IInv, SnapshotsTracked
<1> QED
    BY <1>3, <1>4

\* A transaction whose handle was neither refreshed nor hit by a failed
\* compaction commits only over the records it began from, however many
\* handles and transactions write meanwhile.
THEOREM CleanCommitsAreSerial == Spec => CleanCommitRespectsSnapshot
<1>1. IInv /\ [Next]_vars =>
        [\A t \in Tx : CommitsIn(t) /\ tx[t].clean => RecordsOf(db) = tx[t].origin]_vars
    <2> SUFFICES ASSUME IInv, Next, NEW t \in Tx, CommitsIn(t), tx[t].clean
                 PROVE  RecordsOf(db) = tx[t].origin
        OBVIOUS
    <2>1. tx[t].active /\ ~tx'[t].active /\ db' # db
        BY DEF CommitsIn
    <2>2. tx[t] \in ActiveTx
        BY <2>1, ActiveType DEF IInv
    <2>3. Commit(t)
        <3>1. \A h \in Handle : /\ ~Open(h) /\ ~Refresh(h) /\ ~Close(h) /\ ~Compact(h)
                                /\ \A u \in Tx : ~Begin(u, h)
            BY <2>1 DEF Open, Refresh, Close, Compact, Begin
        <3>2. ~Crash /\ ~LoadFails /\ \A u \in Tx : ~Run(u) /\ ~Finish(u)
            BY <2>1 DEF Crash, LoadFails, Run, Finish
        <3>3. tx' # tx
            BY <2>1
        <3>4. \A h \in Handle :
                /\ ~Mutate(h)
                /\ \A b \in NodeBatches : ~AddNodes(h, b)
                /\ \A b \in EdgeBatches(core[h]) : ~AddEdges(h, b)
                /\ \A o \in IdsOf(core[h].nodes) : ~AddVariable(h, o)
            BY <3>3 DEF Mutate, AddNodes, AddEdges, AddVariable
        <3>5. \A h \in Handle : \A b \in EdgeBatches(core[h]) : ~AddEdgesSaveFails(h, b)
            <4> SUFFICES ASSUME NEW h \in Handle, tx' = Soil(h) PROVE FALSE
                BY DEF AddEdgesSaveFails
            <4>1. Soil(h)[t] = tx[t] \/ Soil(h)[t] = [tx[t] EXCEPT !.clean = FALSE]
                BY DEF Soil
            <4> QED
                BY <2>1, <2>2, <4>1 DEF ActiveTx
        <3>6. PICK u \in Tx : Commit(u)
            BY <3>1, <3>2, <3>4, <3>5 DEF Next
        <3>7. u = t
            BY <2>1, <3>6 DEF Commit, IInv, TypeOK
        <3> QED
            BY <3>6, <3>7
    <2> QED
        BY <2>3, CleanOrigin
<1> QED
    BY <1>1, Invariant, PTL DEF Spec, CleanCommitRespectsSnapshot
---------------------------------------------------------------------------
(* Owners *)

\* No transaction has deleted a node it began with and that owns a variable it
\* began with.
OwnersStaged ==
    \A t \in Tx : tx[t].active =>
        \A v \in tx[t].staged.owned :
            v.owner \in IdsOf(tx[t].origin.nodes) => v.owner \in IdsOf(tx[t].staged.nodes)

\* No transaction has begun in the first state.
LEMMA OwnersInit == Init => OwnersStaged
BY DEF Init, OwnersStaged, IdleTx

\* A step that adds no transaction and restages none.
LEMMA OwnersKept ==
    ASSUME OwnersStaged,
           \A t \in Tx : tx'[t].active =>
                tx[t].active /\ tx'[t].staged = tx[t].staged /\ tx'[t].origin = tx[t].origin
    PROVE  OwnersStaged'
BY DEF OwnersStaged

\* A transaction begins with the graph of its handle, and no statement deletes an
\* owner.
LEMMA OwnersNext == IInv /\ OwnersStaged /\ [Next]_vars => OwnersStaged'
<1> SUFFICES ASSUME IInv, OwnersStaged, [Next]_vars PROVE OwnersStaged'
    OBVIOUS
<1>1. tx \in [Tx -> ActiveTx \cup {IdleTx}]
    BY DEF IInv, TypeOK
<1>2. ASSUME NEW t \in Tx, NEW h \in Handle, Begin(t, h) PROVE OwnersStaged'
    <2>1. /\ tx'[t].staged = core[h] /\ tx'[t].origin = RecordsOf(core[h])
          /\ \A u \in Tx \ {t} : tx'[u] = tx[u]
        BY <1>1, <1>2 DEF Begin
    <2> QED
        BY <2>1 DEF OwnersStaged, RecordsOf
<1>3. ASSUME NEW t \in Tx, Run(t) PROVE OwnersStaged'
    <2>1. PICK s \in InPlaceChanges(tx[t].staged) \cup StagedAppends(tx[t].staged) :
            tx' = [tx EXCEPT ![t].staged = s, ![t].ran = @ + 1]
        BY <1>3 DEF Run
    <2>2. tx[t].active /\ tx[t] \in ActiveTx
        BY <1>3, ActiveType DEF Run, IInv
    <2>3. /\ tx'[t].staged = s /\ tx'[t].origin = tx[t].origin
          /\ \A u \in Tx \ {t} : tx'[u] = tx[u]
        BY <1>1, <2>1, <2>2 DEF ActiveTx
    <2>4. tx[t].staged \in Graph
        BY <2>2 DEF ActiveTx
    <2>5. s.owned = tx[t].staged.owned
        BY <2>4, OwnedKept
    <2>6. \A v \in s.owned :
            v.owner \in IdsOf(tx[t].origin.nodes) => v.owner \in IdsOf(s.nodes)
        BY <2>2, <2>4, <2>5, OwnersStay DEF OwnersStaged
    <2> QED
        BY <2>3, <2>6 DEF OwnersStaged
<1>4. ASSUME NEW t \in Tx, Commit(t) \/ Finish(t) PROVE OwnersStaged'
    <2>1. tx' = [tx EXCEPT ![t] = IdleTx]
        BY <1>4 DEF Commit, Finish
    <2>2. \A u \in Tx : tx'[u].active => tx'[u] = tx[u]
        BY <1>1, <2>1 DEF IdleTx
    <2> QED
        BY <2>2, OwnersKept
<1>5. ASSUME NEW h \in Handle,
             Refresh(h) \/ \E b \in EdgeBatches(core[h]) : AddEdgesSaveFails(h, b)
      PROVE  OwnersStaged'
    <2>1. tx' = Soil(h)
        BY <1>5 DEF Refresh, AddEdgesSaveFails
    <2> QED
        BY <2>1, SoilFacts, OwnersKept DEF IInv
<1>6. ASSUME NEW h \in Handle,
             \/ Open(h) \/ Close(h) \/ Compact(h) \/ Mutate(h)
             \/ \E b \in NodeBatches : AddNodes(h, b)
             \/ \E b \in EdgeBatches(core[h]) : AddEdges(h, b)
             \/ \E o \in IdsOf(core[h].nodes) : AddVariable(h, o)
      PROVE  OwnersStaged'
    <2>1. tx' = tx
        BY <1>6 DEF Open, Close, Compact, Mutate, AddNodes, AddEdges, AddVariable
    <2> QED
        BY <2>1, OwnersKept
<1>7. CASE Crash
    BY <1>7 DEF Crash, OwnersStaged, IdleTx
<1>8. CASE LoadFails \/ UNCHANGED vars
    BY <1>8, OwnersKept DEF LoadFails, vars
<1> QED
    BY <1>2, <1>3, <1>4, <1>5, <1>6, <1>7, <1>8 DEF Next

\* A write that leaves the nodes, or adds some, takes no owner away.
LEMMA DirectKeepsNodes ==
    ASSUME IInv, NEW h \in Handle,
           \/ Open(h) \/ Refresh(h) \/ Close(h) \/ Compact(h)
           \/ \E b \in NodeBatches : AddNodes(h, b)
           \/ \E b \in EdgeBatches(core[h]) : AddEdges(h, b) \/ AddEdgesSaveFails(h, b)
           \/ \E o \in IdsOf(core[h].nodes) : AddVariable(h, o)
    PROVE  db.nodes \subseteq db'.nodes
<1>1. db \in Database
    BY DEF IInv, TypeOK
<1>2. \/ db' = db
      \/ \E b : db' = InsertNodeRows(db, NewNodes(core[h], b))
      \/ \E b : db' = InsertEdgeRows(db, NewEdges(core[h], b))
      \/ \E w : db' = [db EXCEPT !.owned = @ \cup {w}, !.seq = @ + 1]
    <2>1. CASE Open(h) \/ Refresh(h) \/ Close(h) \/ Compact(h)
        BY <2>1 DEF Open, Refresh, Close, Compact
    <2>2. ASSUME NEW b, AddNodes(h, b) PROVE db' = InsertNodeRows(db, NewNodes(core[h], b))
        BY <2>2 DEF AddNodes
    <2>3. ASSUME NEW b, AddEdges(h, b) \/ AddEdgesSaveFails(h, b)
          PROVE  db' = InsertEdgeRows(db, NewEdges(core[h], b))
        BY <2>3 DEF AddEdges, AddEdgesSaveFails, AppendEdges
    <2>4. ASSUME NEW o, AddVariable(h, o)
          PROVE  \E w : db' = [db EXCEPT !.owned = @ \cup {w}, !.seq = @ + 1]
        BY <2>4 DEF AddVariable
    <2> QED
        BY <2>1, <2>2, <2>3, <2>4
<1>3. ASSUME NEW new, db' = InsertNodeRows(db, new) PROVE db.nodes \subseteq db'.nodes
    <2>1. db'.nodes = db.nodes \cup new
        BY <1>1, <1>3 DEF InsertNodeRows, Database
    <2> QED
        BY <2>1
<1>4. ASSUME NEW new, db' = InsertEdgeRows(db, new) PROVE db'.nodes = db.nodes
    BY <1>1, <1>4 DEF InsertEdgeRows, Database
<1>5. ASSUME NEW w, db' = [db EXCEPT !.owned = @ \cup {w}, !.seq = @ + 1]
      PROVE  db'.nodes = db.nodes
    BY <1>1, <1>5 DEF Database
<1> QED
    BY <1>2, <1>3, <1>4, <1>5

\* A variable's owner is deleted only by a commit of a transaction that began before
\* the variable was added, or that missed a write of its own handle: never by a
\* direct deletion, nor by a clean transaction that knew the variable
\* (mutations.rs:142, metadata.rs:8).
THEOREM OwnersLost == Spec => OwnersLostOnlyToOlderSnapshots
<1>1. IInv /\ OwnersStaged /\ [Next]_vars =>
        [\A v \in db.owned : v.owner \in IdsOf(db.nodes) \ IdsOf(db'.nodes) =>
            \E t \in Tx : CommitsIn(t) /\ (tx[t].clean => v \notin tx[t].staged.owned)]_vars
    <2> SUFFICES ASSUME IInv, OwnersStaged, Next, NEW v \in db.owned,
                        v.owner \in IdsOf(db.nodes), v.owner \notin IdsOf(db'.nodes)
                 PROVE  \E t \in Tx : CommitsIn(t)
                                       /\ (tx[t].clean => v \notin tx[t].staged.owned)
        OBVIOUS
    <2>1. ~(db.nodes \subseteq db'.nodes)
        BY DEF IdsOf
    <2>2. /\ ~Crash /\ ~LoadFails
          /\ \A t \in Tx : ~Run(t) /\ ~Finish(t) /\ \A h \in Handle : ~Begin(t, h)
        BY <2>1 DEF Crash, LoadFails, Run, Finish, Begin
    <2>3. ASSUME NEW h \in Handle, Mutate(h) PROVE FALSE
        <3>1. PICK s \in InPlaceChanges(core[h]) : CommitStaged(h, s, version[h])
            BY <2>3 DEF Mutate
        <3>2. core[h] \in Graph /\ GraphOK(core[h]) /\ version[h] \in Nat
            BY DEF IInv, TypeOK, CoresOK
        <3>3. s \in Graph /\ GraphOK(s)
            BY <3>2, InPlaceOK
        <3>4. Current(h) /\ Matches(Published(core[h], s), db')
            BY <3>1, <3>2, <3>3, CommitFacts
        <3>5. core[h].owned = db.owned /\ core[h].nodes = db.nodes
            BY <3>4, CurrentFacts DEF Matches, RecordsOf
        <3>6. v.owner \in IdsOf(s.nodes)
            BY <3>2, <3>5, OwnersStay
        <3>7. s.nodes = db'.nodes
            BY <3>3, <3>4, RebuiltFacts DEF Published, SameGraph, Graph, Matches, RecordsOf
        <3> QED
            BY <3>6, <3>7
    <2>4. PICK t \in Tx : Commit(t)
        BY <2>1, <2>2, <2>3, DirectKeepsNodes DEF Next
    <2>5. /\ tx[t].active /\ CommitStaged(tx[t].handle, tx[t].staged, tx[t].base)
          /\ tx' = [tx EXCEPT ![t] = IdleTx]
        BY <2>4 DEF Commit
    <2>6. /\ tx[t].handle \in Handle /\ tx[t].staged \in Graph /\ tx[t].base \in Nat
          /\ GraphOK(tx[t].staged)
        BY <2>5, ActiveType DEF ActiveTx, IInv, StagedOK
    <2>7. db'.seq = db.seq + 1 /\ Matches(Published(core[tx[t].handle], tx[t].staged), db')
        BY <2>5, <2>6, CommitFacts
    <2>8. CommitsIn(t)
        BY <2>5, <2>7 DEF CommitsIn, IInv, TypeOK, Database, IdleTx
    <2>9. tx[t].staged.nodes = db'.nodes
        BY <2>6, <2>7, RebuiltFacts DEF Published, SameGraph, Graph, Matches, RecordsOf
    <2>10. ASSUME tx[t].clean, v \in tx[t].staged.owned PROVE FALSE
        <3>1. RecordsOf(db) = tx[t].origin
            BY <2>4, <2>10, CleanOrigin
        <3>2. v.owner \in IdsOf(tx[t].origin.nodes)
            BY <3>1 DEF RecordsOf
        <3> QED
            BY <2>5, <2>9, <2>10, <3>2 DEF OwnersStaged
    <2> QED
        BY <2>8, <2>10
<1>2. Spec => []OwnersStaged
    BY Invariant, OwnersInit, OwnersNext, PTL DEF Spec
<1> QED
    BY <1>1, <1>2, Invariant, PTL DEF Spec, OwnersLostOnlyToOlderSnapshots

---------------------------------------------------------------------------
(* Ids are never used again.  The allocators of a staged graph are ahead of
   those of the handle it will be committed to, as long as the commit can
   succeed: that is what the inductive invariant above lacks. *)

\* Records and counters are the same.
SameIds(g, s) ==
    /\ s.nodes = g.nodes /\ s.edges = g.edges
    /\ s.nextNode = g.nextNode /\ s.nextEdge = g.nextEdge

\* t is clean, and its handle was not written since: its commit can succeed.
MayCommit(t) == tx[t].active /\ tx[t].clean /\ tx[t].base = version[tx[t].handle]

\* What it has staged, its handle can grow to.
StagedGrow == \A t \in Tx : MayCommit(t) => Grown(core[tx[t].handle], tx[t].staged)

\* What the step was to a transaction that may commit after it: its begin,
Began(t) ==
    /\ tx'[t].handle \in Handle
    /\ tx'[t].staged = core'[tx'[t].handle] /\ tx'[t].ran = 0

\* nothing,
Stayed(t) ==
    /\ MayCommit(t)
    /\ tx'[t].handle = tx[t].handle
    /\ tx'[t].staged = tx[t].staged /\ tx'[t].ran = tx[t].ran
    /\ SameIds(core[tx[t].handle], core'[tx[t].handle])

\* or one statement.
RanStatement(t) ==
    /\ MayCommit(t)
    /\ tx'[t].handle = tx[t].handle /\ core' = core /\ tx'[t].ran = tx[t].ran + 1
    /\ tx'[t].staged \in InPlaceChanges(tx[t].staged) \cup StagedAppends(tx[t].staged)

Followed == \A t \in Tx : MayCommit(t)' => Began(t) \/ Stayed(t) \/ RanStatement(t)

---------------------------------------------------------------------------
(* What can happen to a transaction that may commit *)

\* A step that restages nothing, and that a handle's version tells of whenever it
\* touches the ids of the handle.
LEMMA StayedStep ==
    ASSUME IInv,
           \A t \in Tx : tx'[t].active /\ tx'[t].clean =>
                /\ tx[t].active /\ tx[t].clean /\ tx'[t].handle = tx[t].handle
                /\ tx'[t].base = tx[t].base /\ tx'[t].staged = tx[t].staged
                /\ tx'[t].ran = tx[t].ran
                /\ \/ version'[tx[t].handle] = version[tx[t].handle] + 1
                   \/ /\ version'[tx[t].handle] = version[tx[t].handle]
                      /\ SameIds(core[tx[t].handle], core'[tx[t].handle])
    PROVE  Followed
<1> SUFFICES ASSUME NEW t \in Tx, tx'[t].active, tx'[t].clean,
                    tx'[t].base = version'[tx'[t].handle]
             PROVE  Stayed(t)
    BY DEF Followed, MayCommit
<1> DEFINE k == tx[t].handle
<1>1. /\ tx[t].active /\ tx[t].clean /\ tx'[t].handle = k
      /\ tx'[t].base = tx[t].base /\ tx'[t].staged = tx[t].staged /\ tx'[t].ran = tx[t].ran
      /\ \/ version'[k] = version[k] + 1
         \/ version'[k] = version[k] /\ SameIds(core[k], core'[k])
    OBVIOUS
<1>2. k \in Handle /\ tx[t].base \in Nat /\ version[k] \in Nat
    BY <1>1, ActiveType DEF IInv, TypeOK, ActiveTx
<1>3. tx[t].base <= version[k]
    BY <1>1 DEF IInv, SnapshotsTracked
<1>4. tx[t].base = version[k] /\ SameIds(core[k], core'[k])
    BY <1>1, <1>2, <1>3
<1> QED
    BY <1>1, <1>4 DEF Stayed, MayCommit

\* Where the handle of a clean transaction is: open, and one of the handles.
LEMMA CleanFacts ==
    ASSUME IInv, NEW t \in Tx, tx[t].active, tx[t].clean
    PROVE  /\ tx[t] \in ActiveTx /\ tx[t].handle \in Handle /\ tx[t].handle \in open
           /\ version[tx[t].handle] \in Nat /\ core[tx[t].handle] \in Graph
<1>1. tx[t] \in ActiveTx
    BY ActiveType DEF IInv
<1> QED
    BY <1>1 DEF ActiveTx, IInv, TypeOK, SnapshotsTracked

\* Opening, refreshing, closing and compacting a handle, and the end of the process.
LEMMA HandleFollowed ==
    ASSUME IInv, NEW h \in Handle,
           Open(h) \/ Refresh(h) \/ Close(h) \/ Compact(h) \/ Crash \/ LoadFails
    PROVE  Followed
<1>1. /\ core \in [Handle -> Graph] /\ version \in [Handle -> Nat]
      /\ tx \in [Tx -> ActiveTx \cup {IdleTx}]
    BY DEF IInv, TypeOK
<1>2. CASE Open(h)
    <2>1. tx' = tx /\ h \notin open
        BY <1>2 DEF Open
    <2>2. \A k \in Handle \ {h} : core'[k] = core[k] /\ version'[k] = version[k]
        BY <1>1, <1>2 DEF Open, Load
    <2>3. ASSUME NEW t \in Tx, tx'[t].active, tx'[t].clean
          PROVE  /\ version'[tx[t].handle] = version[tx[t].handle]
                 /\ core'[tx[t].handle] = core[tx[t].handle]
        BY <2>1, <2>2, <2>3, CleanFacts
    <2> QED
        BY <2>1, <2>3, StayedStep DEF SameIds
<1>3. CASE Refresh(h)
    <2>1. tx' = Soil(h)
        BY <1>3 DEF Refresh
    <2>2. \A k \in Handle \ {h} : core'[k] = core[k] /\ version'[k] = version[k]
        BY <1>1, <1>3 DEF Refresh, Load
    <2>3. \A t \in Tx : tx'[t].active /\ tx'[t].clean =>
            tx[t].active /\ tx[t].handle # h /\ tx'[t] = tx[t]
        BY <2>1, SoilFacts DEF IInv
    <2>4. \A t \in Tx : tx'[t].active /\ tx'[t].clean => tx[t].handle \in Handle \ {h}
        BY <2>3, CleanFacts
    <2> QED
        BY <2>2, <2>3, <2>4, StayedStep DEF SameIds
<1>4. CASE Close(h)
    <2>1. tx' = tx /\ ActiveOn(h) = {}
        BY <1>4 DEF Close
    <2>2. \A k \in Handle \ {h} : core'[k] = core[k] /\ version'[k] = version[k]
        BY <1>1, <1>4 DEF Close
    <2>3. \A t \in Tx : tx'[t].active /\ tx'[t].clean => tx[t].handle \in Handle \ {h}
        BY <2>1, CleanFacts DEF ActiveOn
    <2> QED
        BY <2>1, <2>2, <2>3, StayedStep DEF SameIds
<1>5. CASE Compact(h)
    <2>1. tx' = tx /\ version' = version /\ core' = [core EXCEPT ![h] = Compacted(core[h])]
        BY <1>5 DEF Compact
    <2>2. SameIds(core[h], Compacted(core[h]))
        BY <1>1, CompactedFacts DEF SameGraph, SameIds
    <2>3. \A k \in Handle : SameIds(core[k], core'[k])
        BY <1>1, <2>1, <2>2 DEF SameIds
    <2>4. \A t \in Tx : tx'[t].active /\ tx'[t].clean => tx[t].handle \in Handle
        BY <2>1, CleanFacts
    <2> QED
        BY <2>1, <2>3, <2>4, StayedStep
<1>6. CASE Crash
    BY <1>6 DEF Crash, Followed, MayCommit, IdleTx
<1>7. CASE LoadFails
    BY <1>7, StayedStep DEF LoadFails, memory, SameIds
<1> QED
    BY <1>2, <1>3, <1>4, <1>5, <1>6, <1>7

\* Direct writes that move the version of their handle.
LEMMA WriteFollowed ==
    ASSUME IInv, NEW h \in Handle, tx' = tx,
           version' = [version EXCEPT ![h] = @ + 1],
           \A k \in Handle \ {h} : core'[k] = core[k]
    PROVE  Followed
<1>1. version \in [Handle -> Nat]
    BY DEF IInv, TypeOK
<1>2. \A k \in Handle \ {h} : version'[k] = version[k]
    BY <1>1
<1>3. version'[h] = version[h] + 1
    BY <1>1
<1>4. \A t \in Tx : tx'[t].active /\ tx'[t].clean => tx[t].handle \in Handle
    BY CleanFacts
<1> QED
    BY <1>2, <1>3, <1>4, StayedStep DEF SameIds

\* Every other write of a handle.
LEMMA DirectFollowed ==
    ASSUME IInv, NEW h \in Handle,
           \/ Mutate(h)
           \/ \E b \in NodeBatches : AddNodes(h, b)
           \/ \E b \in EdgeBatches(core[h]) : AddEdges(h, b) \/ AddEdgesSaveFails(h, b)
           \/ \E o \in IdsOf(core[h].nodes) : AddVariable(h, o)
    PROVE  Followed
<1>1. /\ core \in [Handle -> Graph] /\ version \in [Handle -> Nat]
      /\ tx \in [Tx -> ActiveTx \cup {IdleTx}]
    BY DEF IInv, TypeOK
<1>2. CASE Mutate(h)
    <2>1. PICK s \in InPlaceChanges(core[h]) : CommitStaged(h, s, version[h])
        BY <1>2 DEF Mutate
    <2>2. /\ tx' = tx /\ version' = [version EXCEPT ![h] = @ + 1]
          /\ core' = [core EXCEPT ![h] = Published(core[h], s)]
        BY <1>2, <2>1 DEF Mutate, CommitStaged
    <2> QED
        BY <1>1, <2>2, WriteFollowed
<1>3. CASE \E b \in NodeBatches : AddNodes(h, b)
    <2>1. PICK b \in NodeBatches : AddNodes(h, b)
        BY <1>3
    <2>2. /\ tx' = tx /\ version' = [version EXCEPT ![h] = @ + 1]
          /\ core' = [core EXCEPT ![h] = WithNodes(core[h], b)]
        BY <2>1 DEF AddNodes
    <2> QED
        BY <1>1, <2>2, WriteFollowed
<1>4. CASE \E b \in EdgeBatches(core[h]) : AddEdges(h, b)
    <2>1. PICK b \in EdgeBatches(core[h]) : AddEdges(h, b)
        BY <1>4
    <2>2. tx' = tx /\ version' = [version EXCEPT ![h] = @ + 1]
        BY <2>1 DEF AddEdges
    <2>3. \/ core' = [core EXCEPT ![h] = Compacted(WithEdges(core[h], b))]
          \/ core' = [core EXCEPT ![h] = WithEdges(core[h], b)]
        BY <2>1 DEF AddEdges
    <2> QED
        BY <1>1, <2>2, <2>3, WriteFollowed
<1>5. CASE \E b \in EdgeBatches(core[h]) : AddEdgesSaveFails(h, b)
    <2>1. PICK b \in EdgeBatches(core[h]) : AddEdgesSaveFails(h, b)
        BY <1>5
    <2>2. /\ tx' = Soil(h) /\ version' = version
          /\ core' = [core EXCEPT ![h] = Compacted(WithEdges(core[h], b))]
        BY <2>1 DEF AddEdgesSaveFails
    <2>3. \A k \in Handle \ {h} : core'[k] = core[k]
        BY <1>1, <2>2
    <2>4. \A t \in Tx : tx'[t].active /\ tx'[t].clean =>
            tx[t].active /\ tx[t].handle # h /\ tx'[t] = tx[t]
        BY <2>2, SoilFacts DEF IInv
    <2>5. \A t \in Tx : tx'[t].active /\ tx'[t].clean => tx[t].handle \in Handle \ {h}
        BY <2>4, CleanFacts
    <2> QED
        BY <2>2, <2>3, <2>4, <2>5, StayedStep DEF SameIds
<1>6. CASE \E o \in IdsOf(core[h].nodes) : AddVariable(h, o)
    <2>1. PICK o \in IdsOf(core[h].nodes) : AddVariable(h, o)
        BY <1>6
    <2> DEFINE var == [id |-> Cardinality(core[h].owned), owner |-> o]
    <2>2. /\ tx' = tx /\ version' = version
          /\ core' = [core EXCEPT ![h] = [core[h] EXCEPT !.owned = core[h].owned \cup {var}]]
        BY <1>1, <2>1 DEF AddVariable
    <2>3. SameIds(core[h], [core[h] EXCEPT !.owned = core[h].owned \cup {var}])
        BY <1>1 DEF SameIds, Graph
    <2>4. \A k \in Handle : SameIds(core[k], core'[k])
        BY <1>1, <2>2, <2>3 DEF SameIds
    <2>5. \A t \in Tx : tx'[t].active /\ tx'[t].clean => tx[t].handle \in Handle
        BY <2>2, CleanFacts
    <2> QED
        BY <2>2, <2>4, <2>5, StayedStep
<1> QED
    BY <1>2, <1>3, <1>4, <1>5, <1>6

\* A transaction begins with its handle's graph, and its statements let it grow.
LEMMA TransactionFollowed ==
    ASSUME IInv, NEW t \in Tx,
           (\E h \in Handle : Begin(t, h)) \/ Run(t) \/ Commit(t) \/ Finish(t)
    PROVE  Followed
<1>1. /\ core \in [Handle -> Graph] /\ version \in [Handle -> Nat]
      /\ tx \in [Tx -> ActiveTx \cup {IdleTx}]
    BY DEF IInv, TypeOK
<1>2. CASE \E h \in Handle : Begin(t, h)
    <2>1. PICK h \in Handle : Begin(t, h)
        BY <1>2
    <2>2. /\ core' = core /\ version' = version
          /\ \A u \in Tx \ {t} : tx'[u] = tx[u]
          /\ tx'[t].handle = h /\ tx'[t].staged = core[h]
        BY <1>1, <2>1 DEF Begin, memory
    <2>3. tx'[t].ran = 0
        BY <1>1, <2>1 DEF Begin
    <2>4. Began(t)
        BY <2>2, <2>3 DEF Began
    <2>5. ASSUME NEW u \in Tx \ {t}, MayCommit(u)' PROVE Stayed(u)
        BY <2>2, <2>5 DEF MayCommit, Stayed, SameIds
    <2> QED
        BY <2>4, <2>5 DEF Followed
<1>3. CASE Run(t)
    <2>1. PICK s \in InPlaceChanges(tx[t].staged) \cup StagedAppends(tx[t].staged) :
            tx' = [tx EXCEPT ![t].staged = s, ![t].ran = @ + 1]
        BY <1>3 DEF Run
    <2>2. tx[t].active /\ core' = core /\ version' = version
        BY <1>3 DEF Run, memory
    <2>3. tx[t] \in ActiveTx
        BY <2>2, ActiveType DEF IInv
    <2>4. /\ tx'[t].staged = s /\ tx'[t].clean = tx[t].clean /\ tx'[t].ran = tx[t].ran + 1
          /\ tx'[t].handle = tx[t].handle /\ tx'[t].base = tx[t].base
          /\ \A u \in Tx \ {t} : tx'[u] = tx[u]
        BY <1>1, <2>1, <2>3 DEF ActiveTx
    <2>5. MayCommit(t)' => RanStatement(t)
        BY <2>2, <2>4 DEF MayCommit, RanStatement
    <2>6. ASSUME NEW u \in Tx \ {t}, MayCommit(u)' PROVE Stayed(u)
        BY <2>2, <2>4, <2>6 DEF MayCommit, Stayed, SameIds
    <2> QED
        BY <2>5, <2>6 DEF Followed
<1>4. CASE Commit(t)
    <2> DEFINE h == tx[t].handle
    <2>1. /\ tx[t].active /\ CommitStaged(h, tx[t].staged, tx[t].base)
          /\ tx' = [tx EXCEPT ![t] = IdleTx]
        BY <1>4 DEF Commit
    <2>2. h \in Handle
        BY <2>1, ActiveType DEF IInv, ActiveTx
    <2> HIDE DEF h
    <2>3. /\ version' = [version EXCEPT ![h] = version[h] + 1]
          /\ core' = [core EXCEPT ![h] = Published(core[h], tx[t].staged)]
        BY <2>1 DEF CommitStaged
    <2>4. /\ version'[h] = version[h] + 1
          /\ \A k \in Handle \ {h} : core'[k] = core[k] /\ version'[k] = version[k]
        BY <1>1, <2>2, <2>3
    <2>5. \A u \in Tx : tx'[u].active => u # t /\ tx'[u] = tx[u]
        BY <1>1, <2>1 DEF IdleTx
    <2>6. \A u \in Tx : tx'[u].active /\ tx'[u].clean => tx[u].handle \in Handle
        BY <2>5, CleanFacts
    <2> QED
        BY <2>4, <2>5, <2>6, StayedStep DEF SameIds
<1>5. CASE Finish(t)
    <2>1. /\ core' = core /\ version' = version /\ tx' = [tx EXCEPT ![t] = IdleTx]
        BY <1>5 DEF Finish, memory
    <2>2. \A u \in Tx : tx'[u].active => tx'[u] = tx[u]
        BY <1>1, <2>1 DEF IdleTx
    <2> QED
        BY <2>1, <2>2 DEF Followed, MayCommit, Stayed, SameIds
<1> QED
    BY <1>2, <1>3, <1>4, <1>5

\* Every step.
LEMMA StepFollowed == IInv /\ [Next]_vars => Followed
<1> SUFFICES ASSUME IInv, [Next]_vars PROVE Followed
    OBVIOUS
<1>1. CASE Crash
    BY <1>1 DEF Crash, Followed, MayCommit, IdleTx
<1>2. CASE LoadFails \/ UNCHANGED vars
    BY <1>2 DEF LoadFails, memory, vars, Followed, MayCommit, Stayed, SameIds
<1>3. ASSUME NEW h \in Handle, Open(h) \/ Refresh(h) \/ Close(h) \/ Compact(h)
      PROVE  Followed
    BY <1>3, HandleFollowed
<1>4. ASSUME NEW h \in Handle,
             \/ Mutate(h)
             \/ \E b \in NodeBatches : AddNodes(h, b)
             \/ \E b \in EdgeBatches(core[h]) : AddEdges(h, b) \/ AddEdgesSaveFails(h, b)
             \/ \E o \in IdsOf(core[h].nodes) : AddVariable(h, o)
      PROVE  Followed
    BY <1>4, DirectFollowed
<1>5. ASSUME NEW t \in Tx, (\E h \in Handle : Begin(t, h)) \/ Run(t) \/ Commit(t) \/ Finish(t)
      PROVE  Followed
    BY <1>5, TransactionFollowed
<1> QED
    BY <1>1, <1>2, <1>3, <1>4, <1>5 DEF Next

---------------------------------------------------------------------------
(* Ids are never used again *)

\* What IdsNeverReused asks of a step.
IdsKept ==
    /\ LoadedNextNode(db') >= LoadedNextNode(db)
    /\ LoadedNextEdge(db') >= LoadedNextEdge(db)
    /\ \A i \in IdsOf(db'.nodes) \ IdsOf(db.nodes) : i >= LoadedNextNode(db)
    /\ \A i \in IdsOf(db'.edges) \ IdsOf(db.edges) : i >= LoadedNextEdge(db)

\* And the edges that stay stay where they are.
RowsKept == IdsKept /\ EndpointsKept(db.edges, db'.edges)

\* A write whose graph has grown from what the handle had keeps ids apart.
LEMMA GrownKept ==
    ASSUME IInv, NEW h \in Handle, Current(h), NEW s \in Graph, Grown(core[h], s),
           RecordsOf(s) = RecordsOf(db'),
           s.nextNode = LoadedNextNode(db'), s.nextEdge = LoadedNextEdge(db')
    PROVE  RowsKept
<1>1. /\ core[h].nodes = db.nodes /\ core[h].edges = db.edges
      /\ core[h].nextNode = LoadedNextNode(db) /\ core[h].nextEdge = LoadedNextEdge(db)
    BY CurrentFacts DEF Matches, RecordsOf
<1>2. core[h] \in Graph
    BY CurrentFacts
<1>3. /\ s.nodes = db'.nodes /\ s.edges = db'.edges
    BY DEF RecordsOf
<1>4. /\ core[h].nextNode \in Nat /\ core[h].nextEdge \in Nat
      /\ s.nextNode \in Nat /\ s.nextEdge \in Nat
      /\ IdsOf(s.nodes) \subseteq Nat /\ IdsOf(s.edges) \subseteq Nat
    BY <1>2 DEF Graph, NodeRecord, EdgeRecord, IdsOf
<1>5. IdsKept
    BY <1>1, <1>3, <1>4 DEF Grown, IdsKept
<1> QED
    BY <1>1, <1>3, <1>5 DEF Grown, RowsKept

\* A step that leaves records and stored counters alone.
LEMMA SameKept ==
    ASSUME IInv, db'.nodes = db.nodes, db'.edges = db.edges,
           db'.nextNode = db.nextNode, db'.nextEdge = db.nextEdge
    PROVE  RowsKept
<1>1. LoadedNextNode(db) \in Nat /\ LoadedNextEdge(db) \in Nat
    BY LoadedCounters DEF IInv, TypeOK
<1>2. LoadedNextNode(db') = LoadedNextNode(db) /\ LoadedNextEdge(db') = LoadedNextEdge(db)
    BY DEF LoadedNextNode, LoadedNextEdge
<1>3. EndpointsKept(db.edges, db'.edges)
    BY DEF IInv, DatabaseOK, Consistent, IdsUnique, EndpointsKept
<1> QED
    BY <1>1, <1>2, <1>3 DEF IdsKept, RowsKept

\* A commit of a graph that has grown from the handle's.
LEMMA CommitKept ==
    ASSUME IInv, NEW h \in Handle, NEW s \in Graph, GraphOK(s), Grown(core[h], s),
           NEW base \in Nat, CommitStaged(h, s, base)
    PROVE  RowsKept
<1> DEFINE g == Published(core[h], s)
<1>1. Current(h) /\ g \in Graph /\ Matches(g, db')
    BY CommitFacts
<1>2. /\ RecordsOf(g) = RecordsOf(s) /\ g.nextNode = s.nextNode /\ g.nextEdge = s.nextEdge
    BY RebuiltFacts DEF Published, SameGraph, Graph, RecordsOf
<1> HIDE DEF g
<1> QED
    BY <1>1, <1>2, GrownKept DEF Matches

\* No transaction has begun in the first state.
LEMMA StagedGrowInit == Init => StagedGrow
BY DEF Init, StagedGrow, MayCommit, IdleTx

\* A begin stages the handle's own graph, and a statement lets it grow.
LEMMA StagedGrowNext == IInv /\ IInv' /\ StagedGrow /\ [Next]_vars => StagedGrow'
<1> SUFFICES ASSUME IInv, IInv', StagedGrow, [Next]_vars, NEW t \in Tx, MayCommit(t)'
             PROVE  Grown(core'[tx'[t].handle], tx'[t].staged)
    BY DEF StagedGrow
<1>1. CASE Began(t)
    <2> DEFINE g == core'[tx'[t].handle]
    <2>1. g \in Graph /\ GraphOK(g)
        BY <1>1 DEF Began, IInv, TypeOK, CoresOK
    <2>2. Grown(g, g)
        BY <2>1, ShrunkGrown DEF GraphOK, Consistent, IdsUnique, EndpointsKept
    <2> QED
        BY <1>1, <2>2 DEF Began
<1>2. CASE Stayed(t)
    BY <1>2 DEF Stayed, StagedGrow, SameIds, Grown
<1>3. CASE RanStatement(t)
    <2>1. /\ tx[t] \in ActiveTx /\ tx[t].handle \in Handle
          /\ core[tx[t].handle] \in Graph /\ GraphOK(core[tx[t].handle])
        BY <1>3, CleanFacts DEF RanStatement, MayCommit, IInv, CoresOK
    <2>2. tx[t].staged \in Graph /\ GraphOK(tx[t].staged)
        BY <1>3, <2>1 DEF RanStatement, MayCommit, ActiveTx, IInv, StagedOK
    <2>3. tx'[t].staged \in Graph /\ Grown(tx[t].staged, tx'[t].staged)
        BY <1>3, <2>2, StatementGrown DEF RanStatement
    <2>4. Grown(core[tx[t].handle], tx[t].staged)
        BY <1>3 DEF RanStatement, StagedGrow
    <2> QED
        BY <1>3, <2>1, <2>2, <2>3, <2>4, GrownTwice DEF RanStatement
<1> QED
    BY <1>1, <1>2, <1>3, StepFollowed DEF Followed

\* Only a transaction that is not clean can take ids back.
LEMMA StepKept ==
    ASSUME IInv, StagedGrow, [Next]_vars, \A t \in Tx : CommitsIn(t) => tx[t].clean
    PROVE  RowsKept
<1>1. ASSUME db' = db PROVE RowsKept
    BY <1>1, SameKept
<1>2. ASSUME NEW h \in Handle, Mutate(h) PROVE RowsKept
    <2>1. PICK s \in InPlaceChanges(core[h]) : CommitStaged(h, s, version[h])
        BY <1>2 DEF Mutate
    <2>2. core[h] \in Graph /\ GraphOK(core[h]) /\ version[h] \in Nat
        BY DEF IInv, TypeOK, CoresOK
    <2> QED
        BY <2>1, <2>2, InPlaceOK, InPlaceGrown, CommitKept
<1>3. ASSUME NEW h \in Handle, NEW b \in NodeBatches, AddNodes(h, b) PROVE RowsKept
    <2> DEFINE g == WithNodes(core[h], b)
    <2>1. /\ Current(h) /\ NamesFree(core[h], NewNodes(core[h], b))
          /\ core[h].nextNode + Len(b) <= MaxNodes
          /\ db' = InsertNodeRows(db, NewNodes(core[h], b))
        BY <1>3 DEF AddNodes
    <2>2. /\ core[h] \in Graph /\ GraphOK(core[h])
          /\ db \in Database /\ DatabaseOK(db) /\ Matches(core[h], db)
        BY <2>1, CurrentFacts
    <2>3. g \in Graph /\ Grown(core[h], g)
        BY <2>1, <2>2, WithNodesOK, WithNodesGrown
    <2>4. Matches(g, db')
        BY <2>1, <2>2, NodesWritten
    <2> HIDE DEF g
    <2> QED
        BY <2>1, <2>3, <2>4, GrownKept DEF Matches
<1>4. ASSUME NEW h \in Handle, NEW b \in EdgeBatches(core[h]), AppendEdges(h, b)
      PROVE  RowsKept
    <2> DEFINE g == WithEdges(core[h], b)
    <2>1. Current(h) /\ g \in Graph /\ Matches(g, db')
        BY <1>4, AppendFacts
    <2>2. Grown(core[h], g)
        BY <2>1, CurrentFacts, WithEdgesGrown
    <2> HIDE DEF g
    <2> QED
        BY <2>1, <2>2, GrownKept DEF Matches
<1>5. ASSUME NEW h \in Handle, NEW o \in IdsOf(core[h].nodes), AddVariable(h, o)
      PROVE  RowsKept
    <2>1. /\ db'.nodes = db.nodes /\ db'.edges = db.edges
          /\ db'.nextNode = db.nextNode /\ db'.nextEdge = db.nextEdge
        BY <1>5 DEF AddVariable, IInv, TypeOK, Database
    <2> QED
        BY <2>1, SameKept
<1>6. ASSUME NEW t \in Tx, Commit(t) PROVE RowsKept
    <2>1. /\ tx[t].active /\ CommitStaged(tx[t].handle, tx[t].staged, tx[t].base)
          /\ tx' = [tx EXCEPT ![t] = IdleTx]
        BY <1>6 DEF Commit
    <2>2. tx[t] \in ActiveTx
        BY <2>1, ActiveType DEF IInv
    <2>3. /\ tx[t].handle \in Handle /\ tx[t].staged \in Graph /\ tx[t].base \in Nat
          /\ GraphOK(tx[t].staged)
        BY <2>1, <2>2 DEF ActiveTx, IInv, StagedOK
    <2>4. db'.seq = db.seq + 1
        BY <2>1, <2>3, CommitFacts
    <2>5. CommitsIn(t)
        BY <2>1, <2>4 DEF CommitsIn, IInv, TypeOK, Database, IdleTx
    <2>6. tx[t].base = version[tx[t].handle]
        BY <2>1 DEF CommitStaged
    <2>7. Grown(core[tx[t].handle], tx[t].staged)
        BY <2>1, <2>5, <2>6 DEF StagedGrow, MayCommit
    <2> QED
        BY <2>1, <2>3, <2>7, CommitKept
<1>7. ASSUME NEW h \in Handle, Open(h) \/ Refresh(h) \/ Close(h) \/ Compact(h) PROVE db' = db
    BY <1>7 DEF Open, Refresh, Close, Compact
<1>8. ASSUME NEW t \in Tx, (\E h \in Handle : Begin(t, h)) \/ Run(t) \/ Finish(t) PROVE db' = db
    BY <1>8 DEF Begin, Run, Finish
<1>9. ASSUME Crash \/ LoadFails \/ UNCHANGED vars PROVE db' = db
    BY <1>9 DEF Crash, LoadFails, vars
<1>10. ASSUME NEW h \in Handle, NEW b \in EdgeBatches(core[h]),
              AddEdges(h, b) \/ AddEdgesSaveFails(h, b)
       PROVE  AppendEdges(h, b)
    BY <1>10 DEF AddEdges, AddEdgesSaveFails
<1> QED
    BY <1>1, <1>2, <1>3, <1>4, <1>5, <1>6, <1>7, <1>8, <1>9, <1>10 DEF Next

\* The allocator never goes back, and a new record has an id it had not reached,
\* through rollbacks, failed saves, crashes and reopens; only a transaction that
\* missed a write of its own handle, after a refresh or a failed compaction, may
\* undo that write, ids included (lifecycle.rs:86-92, sqlite.rs:209-211).
THEOREM IdsUsedOnce == Spec => IdsNeverReused
<1>1. IInv /\ StagedGrow /\ [Next]_vars =>
        [(\A t \in Tx : CommitsIn(t) => tx[t].clean) => IdsKept]_vars
    BY StepKept DEF RowsKept
<1>2. Spec => []StagedGrow
    BY Invariant, NextInv, StagedGrowInit, StagedGrowNext, PTL DEF Spec
<1>3. Spec => [][(\A t \in Tx : CommitsIn(t) => tx[t].clean) => IdsKept]_vars
    BY <1>1, <1>2, Invariant, PTL DEF Spec
<1> QED
    BY <1>3 DEF IdsNeverReused, IdsKept

---------------------------------------------------------------------------
(* Clean commits *)

\* Every commit of a transaction is of one that missed no write of its handle.
CleanCommits == [][\A t \in Tx : CommitsIn(t) => tx[t].clean]_vars

\* Every active transaction is clean.
AllClean == \A t \in Tx : tx[t].active => tx[t].clean

\* Only a refresh and a failed compaction make a transaction miss a write.
LEMMA CleanNext ==
    RefreshInTx = FALSE /\ MaxFaults = 0 /\ IInv /\ AllClean /\ [Next]_vars => AllClean'
<1> SUFFICES ASSUME RefreshInTx = FALSE, MaxFaults = 0, IInv, AllClean, [Next]_vars
             PROVE  AllClean'
    OBVIOUS
<1>1. tx \in [Tx -> ActiveTx \cup {IdleTx}]
    BY DEF IInv, TypeOK
<1>2. ASSUME NEW h \in Handle, Refresh(h) PROVE AllClean'
    <2>1. tx' = Soil(h) /\ ActiveOn(h) = {}
        BY <1>2 DEF Refresh
    <2>2. tx' = tx
        BY <1>1, <2>1 DEF Soil
    <2> QED
        BY <2>2 DEF AllClean
<1>3. ASSUME NEW h \in Handle, NEW b, AddEdgesSaveFails(h, b) PROVE FALSE
    BY <1>3 DEF AddEdgesSaveFails, SaveFails, IInv, TypeOK
<1>4. ASSUME NEW t \in Tx, NEW h \in Handle, Begin(t, h) PROVE AllClean'
    BY <1>1, <1>4 DEF Begin, AllClean
<1>5. ASSUME NEW t \in Tx, Run(t) PROVE AllClean'
    <2>1. tx[t] \in ActiveTx
        BY <1>5, ActiveType DEF Run, IInv
    <2> QED
        BY <1>1, <1>5, <2>1 DEF Run, AllClean, ActiveTx
<1>6. ASSUME NEW t \in Tx, Commit(t) \/ Finish(t) PROVE AllClean'
    BY <1>1, <1>6 DEF Commit, Finish, AllClean, IdleTx
<1>7. CASE Crash
    BY <1>7 DEF Crash, AllClean, IdleTx
<1>8. CASE LoadFails \/ UNCHANGED vars
    BY <1>8 DEF LoadFails, vars, AllClean
<1>9. ASSUME NEW h \in Handle,
             \/ Open(h) \/ Close(h) \/ Compact(h) \/ Mutate(h)
             \/ \E b \in NodeBatches : AddNodes(h, b)
             \/ \E b \in EdgeBatches(core[h]) : AddEdges(h, b)
             \/ \E o \in IdsOf(core[h].nodes) : AddVariable(h, o)
      PROVE  AllClean'
    BY <1>9 DEF Open, Close, Compact, Mutate, AddNodes, AddEdges, AddVariable, AllClean
<1> QED
    BY <1>2, <1>3, <1>4, <1>5, <1>6, <1>7, <1>8, <1>9 DEF Next

\* Where neither can happen, every commit is clean.
LEMMA CommitsClean ==
    ASSUME RefreshInTx = FALSE, MaxFaults = 0
    PROVE  Spec => CleanCommits
<1>1. Init => AllClean
    BY DEF Init, AllClean, IdleTx
<1>2. IInv /\ AllClean /\ [Next]_vars => AllClean'
    BY CleanNext
<1>3. AllClean => [\A t \in Tx : CommitsIn(t) => tx[t].clean]_vars
    BY DEF AllClean, CommitsIn
<1> QED
    BY <1>1, <1>2, <1>3, Invariant, PTL DEF Spec, CleanCommits

---------------------------------------------------------------------------
(***************************************************************************)
(* What traversal reads, for every set of handles and transactions and     *)
(* every value of the bounds: the base segment, loaded from a sidecar or   *)
(* rebuilt, under the delta overlay.                                       *)
(*                                                                         *)
(* A sidecar is accepted because its counts match, so both invariants say  *)
(* what any sidecar that could be accepted holds.  While no save failed it *)
(* lists rows the database has: with the right counts, all of them.  After *)
(* a failed save it may be any older one: each pair it lists is the pair of*)
(* the row with that id, if there is such a row, because an edge keeps its *)
(* endpoints and ids are used once.                                        *)
(***************************************************************************)

\* The segment, if there is one, lists only the edges of E.
Lists(segment, E) ==
    segment # Unreadable => /\ segment.adj.out \subseteq AdjacencyOf(E).out
                            /\ segment.adj.in \subseteq AdjacencyOf(E).in

ExactWhileSaved ==
    faults = 0 => AdjacencyMatchesRecords /\ Lists(sidecar.segment, db.edges)

\* A pair of adj has an id below next, and is the edge of E with that id if there is one.
Fits(adj, E, next) ==
    /\ \A p \in adj.out : p[2] < next /\ \A e \in E : e.id = p[2] => e.src = p[1]
    /\ \A p \in adj.in : p[2] < next /\ \A e \in E : e.id = p[2] => e.dst = p[1]

SegmentsFit ==
    /\ sidecar.segment # Unreadable =>
            Fits(sidecar.segment.adj, db.edges, LoadedNextEdge(db))
    /\ \A h \in Handle : Fits(EdgeIds(core[h]), core[h].edges, core[h].nextEdge)

---------------------------------------------------------------------------
(* Adjacency of a graph *)

\* There are as many entries in each direction as there are edges.
LEMMA AdjacencyCounts ==
    ASSUME NEW E \in SUBSET EdgeRecord, IsFiniteSet(E), IdsUnique(E)
    PROVE  LET a == AdjacencyOf(E) IN
           /\ IsFiniteSet(a.out) /\ Cardinality(a.out) = Cardinality(E)
           /\ IsFiniteSet(a.in) /\ Cardinality(a.in) = Cardinality(E)
<1> DEFINE a == AdjacencyOf(E)
           o == [e \in E |-> <<e.src, e.id>>]
           i == [e \in E |-> <<e.dst, e.id>>]
<1>1. a.out = {<<e.src, e.id>> : e \in E} /\ a.in = {<<e.dst, e.id>> : e \in E}
    BY DEF AdjacencyOf
<1>2. o \in Surjection(E, a.out) /\ i \in Surjection(E, a.in)
    BY <1>1 DEF Surjection
<1>3. o \in [E -> a.out] /\ i \in [E -> a.in]
    BY <1>2 DEF Surjection
<1>4. ASSUME NEW e \in E, NEW f \in E, o[e] = o[f] \/ i[e] = i[f] PROVE e = f
    <2>1. e.id = f.id
        BY <1>4
    <2> QED
        BY <2>1 DEF IdsUnique
<1> HIDE DEF a, o, i
<1>5. o \in Injection(E, a.out) /\ i \in Injection(E, a.in)
    BY <1>3, <1>4 DEF Injection, IsInjective
<1>6. IsFiniteSet(a.out) /\ Cardinality(a.out) = Cardinality(E)
    BY <1>2, <1>5, FS_Surjection
<1>7. IsFiniteSet(a.in) /\ Cardinality(a.in) = Cardinality(E)
    BY <1>2, <1>5, FS_Surjection
<1> QED
    BY <1>6, <1>7 DEF a

\* A compaction lists every edge once.
LEMMA CompactedExact ==
    ASSUME NEW g \in Graph
    PROVE  /\ AdjacencyExact(Compacted(g))
           /\ Compacted(g).base.adj = AdjacencyOf(g.edges)
           /\ EdgeIds(Compacted(g)) = AdjacencyOf(g.edges)
<1>1. /\ Compacted(g).edges = g.edges
      /\ Compacted(g).base.adj = AdjacencyOf(g.edges) /\ Compacted(g).delta = NoAdjacency
    BY DEF Compacted, Graph
<1>2. /\ NoAdjacency.out = {} /\ NoAdjacency.in = {}
    BY DEF NoAdjacency
<1>3. EdgeIds(Compacted(g)) = AdjacencyOf(g.edges)
    BY <1>1, <1>2 DEF EdgeIds, AdjacencyOf
<1> QED
    BY <1>1, <1>2, <1>3 DEF AdjacencyExact

\* So does a rebuild, and the graph a commit publishes.
LEMMA RebuiltExact ==
    ASSUME NEW g \in Graph
    PROVE  /\ AdjacencyExact(Rebuilt(g))
           /\ Rebuilt(g).base.adj = AdjacencyOf(g.edges)
           /\ EdgeIds(Rebuilt(g)) = AdjacencyOf(g.edges)
<1> DEFINE r == [g EXCEPT !.byName = {<<n.ext, n.id>> : n \in g.nodes},
                          !.byProp = {<<e.prop, e.id>> : e \in g.edges}]
<1>1. /\ {<<n.ext, n.id>> : n \in g.nodes} \subseteq Name \X Nat
      /\ {<<e.prop, e.id>> : e \in g.edges} \subseteq Prop \X Nat
    BY DEF Graph, NodeRecord, EdgeRecord
<1>2. r \in Graph /\ r.edges = g.edges
    BY <1>1 DEF Graph
<1>3. Rebuilt(g) = Compacted(r)
    BY DEF Rebuilt
<1> HIDE DEF r
<1> QED
    BY <1>2, <1>3, CompactedExact

\* What a commit leaves in memory.
LEMMA PublishedExact ==
    ASSUME NEW g \in Graph, NEW s \in Graph
    PROVE  /\ AdjacencyExact(Published(g, s))
           /\ EdgeIds(Published(g, s)) = AdjacencyOf(s.edges)
           /\ Published(g, s).edges = s.edges /\ Published(g, s).nextEdge = s.nextEdge
<1>1. /\ Rebuilt(s) \in Graph /\ Rebuilt(s).edges = s.edges
      /\ Rebuilt(s).nextEdge = s.nextEdge
    BY RebuiltFacts DEF SameGraph
<1>2. /\ Published(g, s).edges = Rebuilt(s).edges /\ Published(g, s).base = Rebuilt(s).base
      /\ Published(g, s).delta = Rebuilt(s).delta
      /\ Published(g, s).nextEdge = Rebuilt(s).nextEdge
    BY <1>1 DEF Published, Graph
<1> QED
    BY <1>1, <1>2, RebuiltExact DEF AdjacencyExact, EdgeIds

\* An append to the delta lists the new edges next to the old.
LEMMA WithEdgesExact ==
    ASSUME NEW g \in Graph, GraphOK(g), AdjacencyExact(g), NEW b \in EdgeBatches(g)
    PROVE  AdjacencyExact(WithEdges(g, b))
<1> DEFINE new == NewEdges(g, b)
           s == WithEdges(g, b)
<1>1. /\ new \subseteq EdgeRecord /\ \A e \in new : g.nextEdge <= e.id
    BY NewEdgesFacts
<1>2. /\ s.edges = g.edges \cup new /\ s.base = g.base
      /\ s.delta.out = g.delta.out \cup AdjacencyOf(new).out
      /\ s.delta.in = g.delta.in \cup AdjacencyOf(new).in
    BY DEF WithEdges, Graph
<1>3. \A e \in g.edges : e.id \in Nat /\ e.id < g.nextEdge
    BY DEF GraphOK, IdsBelow, Graph, EdgeRecord
<1>4. g.nextEdge \in Nat /\ \A e \in new : e.id \in Nat
    BY <1>1 DEF Graph, EdgeRecord
<1>5. /\ g.base.adj.out \cup g.delta.out = AdjacencyOf(g.edges).out
      /\ g.base.adj.in \cup g.delta.in = AdjacencyOf(g.edges).in
    BY DEF AdjacencyExact, EdgeIds
<1> HIDE DEF new, s
<1>6. /\ AdjacencyOf(g.edges).out \cap AdjacencyOf(new).out = {}
      /\ AdjacencyOf(g.edges).in \cap AdjacencyOf(new).in = {}
    <2>1. \A e \in g.edges, f \in new : e.id # f.id
        BY <1>1, <1>3, <1>4
    <2> QED
        BY <2>1 DEF AdjacencyOf
<1>7. EdgeIds(s) = AdjacencyOf(s.edges)
    <2>1. /\ AdjacencyOf(s.edges).out = AdjacencyOf(g.edges).out \cup AdjacencyOf(new).out
          /\ AdjacencyOf(s.edges).in = AdjacencyOf(g.edges).in \cup AdjacencyOf(new).in
        BY <1>2 DEF AdjacencyOf
    <2>2. /\ EdgeIds(s).out = AdjacencyOf(s.edges).out
          /\ EdgeIds(s).in = AdjacencyOf(s.edges).in
        BY <1>2, <1>5, <2>1 DEF EdgeIds
    <2> QED
        BY <2>2 DEF EdgeIds, AdjacencyOf
<1>8. s.base.adj.out \cap s.delta.out = {} /\ s.base.adj.in \cap s.delta.in = {}
    BY <1>2, <1>5, <1>6 DEF AdjacencyExact
<1> QED
    BY <1>7, <1>8 DEF AdjacencyExact, s

\* A segment with the counts of E that lists only edges of E lists them all.
LEMMA ListedAll ==
    ASSUME NEW E \in SUBSET EdgeRecord, IsFiniteSet(E), IdsUnique(E),
           NEW segment \in Segment, Lists(segment, E), segment # Unreadable,
           Cardinality(segment.adj.out) = Cardinality(E),
           Cardinality(segment.adj.in) = Cardinality(E)
    PROVE  segment.adj = AdjacencyOf(E)
<1> DEFINE a == AdjacencyOf(E)
<1>1. /\ IsFiniteSet(a.out) /\ Cardinality(a.out) = Cardinality(E)
      /\ IsFiniteSet(a.in) /\ Cardinality(a.in) = Cardinality(E)
    BY AdjacencyCounts
<1>2. segment.adj.out \subseteq a.out /\ segment.adj.in \subseteq a.in
    BY DEF Lists
<1>3. a \in Adjacency /\ segment.adj \in Adjacency
    BY AdjacencyType DEF Segment
<1> HIDE DEF a
<1>4. segment.adj.out = a.out /\ segment.adj.in = a.in
    BY <1>1, <1>2, FS_Subset
<1> QED
    BY <1>3, <1>4 DEF Adjacency, a
---------------------------------------------------------------------------
(* While every save succeeds *)

\* A step that sets the graph of one handle, or of none.
LEMMA ExactStep ==
    ASSUME IInv, ExactWhileSaved, NEW h \in Handle, NEW g,
           core' = [core EXCEPT ![h] = g], open' \subseteq open \cup {h},
           faults' = 0 => /\ faults = 0
                          /\ AdjacencyExact(g)
                          /\ Lists(sidecar'.segment, db'.edges)
    PROVE  ExactWhileSaved'
<1> SUFFICES ASSUME faults' = 0, NEW k \in open' PROVE AdjacencyExact(core'[k])
    BY DEF ExactWhileSaved, AdjacencyMatchesRecords
<1>1. core \in [Handle -> Graph] /\ open \subseteq Handle
    BY DEF IInv, TypeOK
<1>2. CASE k = h
    BY <1>1, <1>2
<1>3. CASE k # h
    <2>1. k \in open /\ core'[k] = core[k]
        BY <1>1, <1>3
    <2> QED
        BY <2>1 DEF ExactWhileSaved, AdjacencyMatchesRecords
<1> QED
    BY <1>2, <1>3

\* After a save that succeeded, or a failed one that is counted.
LEMMA SaveLists ==
    ASSUME IInv, NEW g, g.base.adj = AdjacencyOf(g.edges),
           SaveSucceeds(g) \/ SaveFails(g), faults' = 0
    PROVE  faults = 0 /\ Lists(sidecar'.segment, g.edges)
<1>1. faults \in Nat
    BY BoundAssumption DEF IInv, TypeOK
<1>2. SaveSucceeds(g)
    BY <1>1 DEF SaveFails
<1> QED
    BY <1>2 DEF SaveSucceeds, Saved, Lists

\* The graph a load computes has its own segment.
LEMMA LoadedSegment ==
    ASSUME IInv
    PROVE  LET g == LoadedGraph(db) IN
           /\ g \in Graph /\ g.edges = db.edges /\ g.nextEdge = LoadedNextEdge(db)
           /\ AdjacencyExact(g) /\ g.base.adj = AdjacencyOf(g.edges)
           /\ EdgeIds(g) = AdjacencyOf(g.edges) /\ g.delta = NoAdjacency
<1> DEFINE g == LoadedGraph(db)
           r == [EmptyGraph EXCEPT !.nodes = db.nodes, !.edges = db.edges, !.owned = db.owned,
                                   !.slots = NextAfter(IdsOf(db.nodes)),
                                   !.nextNode = LoadedNextNode(db),
                                   !.nextEdge = LoadedNextEdge(db)]
<1>1. db \in Database /\ DatabaseOK(db)
    BY DEF IInv, TypeOK
<1>2. /\ r \in Graph /\ r.edges = db.edges /\ g = Rebuilt(r)
      /\ g \in Graph /\ g.edges = db.edges /\ g.nextEdge = LoadedNextEdge(db)
    <2>1. /\ LoadedNextNode(db) \in Nat /\ LoadedNextEdge(db) \in Nat
          /\ NextAfter(IdsOf(db.nodes)) \in Nat
        BY <1>1, LoadedCounters
    <2>2. EmptyGraph \in Graph
        BY EmptyGraphFacts
    <2>3. r \in Graph /\ r.edges = db.edges
        BY <1>1, <2>1, <2>2 DEF Graph, Database
    <2>4. g = Rebuilt(r)
        BY DEF LoadedGraph
    <2>5. g \in Graph /\ g.edges = db.edges /\ g.nextEdge = LoadedNextEdge(db)
        BY <1>1, LoadedOK DEF Matches, RecordsOf
    <2> QED
        BY <2>3, <2>4, <2>5
<1>3. /\ AdjacencyExact(g) /\ g.base.adj = AdjacencyOf(db.edges)
      /\ EdgeIds(g) = AdjacencyOf(db.edges)
    BY <1>2, RebuiltExact
<1>4. g.delta = NoAdjacency
    BY <1>2 DEF Rebuilt, Compacted, Graph
<1> QED
    BY <1>2, <1>3, <1>4

\* The sidecar a load finds usable holds the whole adjacency.
LEMMA LoadExact ==
    ASSUME IInv, ExactWhileSaved, NEW h \in Handle, Load(h)
    PROVE  \E g : /\ core' = [core EXCEPT ![h] = g]
                  /\ faults' = 0 => /\ faults = 0
                                    /\ AdjacencyExact(g)
                                    /\ Lists(sidecar'.segment, db.edges)
<1> DEFINE g == LoadedGraph(db)
<1>1. db \in Database /\ DatabaseOK(db) /\ sidecar \in Sidecar
    BY DEF IInv, TypeOK
<1>2. g \in Graph /\ g.edges = db.edges
    BY LoadedSegment
<1>3. /\ AdjacencyExact(g) /\ g.base.adj = AdjacencyOf(db.edges)
      /\ EdgeIds(g) = AdjacencyOf(db.edges)
    BY <1>2, LoadedSegment
<1>4. g.delta = NoAdjacency
    BY LoadedSegment
<1> HIDE DEF g
<1>5. CASE UsableNow(g)
    <2> DEFINE s == [g EXCEPT !.base = sidecar.segment]
    <2>1. core' = [core EXCEPT ![h] = s] /\ sidecar' = sidecar /\ faults' = faults
        BY <1>5 DEF Load, g
    <2>2. /\ sidecar.segment # Unreadable /\ sidecar.segment \in Segment
          /\ Cardinality(sidecar.segment.adj.out) = Cardinality(db.edges)
          /\ Cardinality(sidecar.segment.adj.in) = Cardinality(db.edges)
        BY <1>1, <1>2, <1>5 DEF UsableNow, SegmentUsable, Sidecar
    <2>3. s.edges = db.edges /\ s.base = sidecar.segment /\ s.delta = NoAdjacency
        BY <1>2, <1>4 DEF Graph
    <2> HIDE DEF s
    <2>4. ASSUME faults' = 0 PROVE AdjacencyExact(s) /\ Lists(sidecar'.segment, db.edges)
        <3>1. Lists(sidecar.segment, db.edges)
            BY <2>1, <2>4 DEF ExactWhileSaved
        <3>2. sidecar.segment.adj = AdjacencyOf(db.edges)
            BY <1>1, <2>2, <3>1, ListedAll DEF DatabaseOK, Consistent, Database
        <3>3. EdgeIds(s) = AdjacencyOf(db.edges)
            BY <2>3, <3>2 DEF EdgeIds, AdjacencyOf, NoAdjacency
        <3> QED
            BY <2>1, <2>3, <3>1, <3>3 DEF AdjacencyExact, NoAdjacency
    <2> QED
        BY <2>1, <2>4
<1>6. CASE ~UsableNow(g)
    <2>1. /\ core' = [core EXCEPT ![h] = g] /\ faults' = faults
          /\ sidecar' = sidecar \/ sidecar' = Saved(g)
        BY <1>6 DEF Load, SaveSucceeds, g
    <2>2. ASSUME faults' = 0 PROVE Lists(sidecar'.segment, db.edges)
        BY <1>3, <2>1, <2>2 DEF ExactWhileSaved, Lists, Saved
    <2> QED
        BY <1>3, <2>1, <2>2
<1> QED
    BY <1>5, <1>6

\* Opening, refreshing, closing and compacting a handle, and the end of the process.
LEMMA HandleExact ==
    ASSUME IInv, ExactWhileSaved, NEW h \in Handle,
           Open(h) \/ Refresh(h) \/ Close(h) \/ Compact(h)
    PROVE  ExactWhileSaved'
<1>1. CASE Open(h) \/ Refresh(h)
    <2>1. Load(h) /\ db' = db /\ open' \subseteq open \cup {h}
        BY <1>1 DEF Open, Refresh
    <2> QED
        BY <2>1, LoadExact, ExactStep
<1>2. CASE Close(h)
    <2>1. /\ core' = [core EXCEPT ![h] = EmptyGraph] /\ open' = open \ {h}
          /\ db' = db /\ sidecar' = sidecar /\ faults' = faults
        BY <1>2 DEF Close
    <2>2. AdjacencyExact(EmptyGraph)
        BY DEF AdjacencyExact, EmptyGraph, NoAdjacency, EdgeIds, AdjacencyOf
    <2> QED
        BY <2>1, <2>2, ExactStep DEF ExactWhileSaved
<1>3. CASE Compact(h)
    <2> DEFINE g == Compacted(core[h])
    <2>1. /\ Current(h) /\ core' = [core EXCEPT ![h] = g] /\ open' = open /\ db' = db
          /\ SaveSucceeds(core'[h]) \/ SaveFails(core'[h])
        BY <1>3 DEF Compact
    <2>2. core[h] \in Graph /\ Matches(core[h], db) /\ core \in [Handle -> Graph]
        BY <2>1, CurrentFacts DEF IInv, TypeOK
    <2>3. AdjacencyExact(g) /\ g.base.adj = AdjacencyOf(g.edges) /\ g.edges = db.edges
        BY <2>2, CompactedExact, CompactedFacts DEF SameGraph, Matches, RecordsOf
    <2>4. core'[h] = g
        BY <2>1, <2>2
    <2> HIDE DEF g
    <2>5. faults' = 0 => faults = 0 /\ Lists(sidecar'.segment, db'.edges)
        BY <2>1, <2>3, <2>4, SaveLists
    <2> QED
        BY <2>1, <2>3, <2>5, ExactStep
<1> QED
    BY <1>1, <1>2, <1>3

\* Appends and variables of one handle.
LEMMA AppendExact ==
    ASSUME IInv, ExactWhileSaved, NEW h \in Handle,
           \/ \E b \in NodeBatches : AddNodes(h, b)
           \/ \E b \in EdgeBatches(core[h]) : AddEdges(h, b) \/ AddEdgesSaveFails(h, b)
           \/ \E o \in IdsOf(core[h].nodes) : AddVariable(h, o)
    PROVE  ExactWhileSaved'
<1>1. core[h] \in Graph /\ db \in Database /\ core \in [Handle -> Graph]
    BY DEF IInv, TypeOK
<1>2. CASE \E b \in NodeBatches : AddNodes(h, b)
    <2>1. PICK b \in NodeBatches : AddNodes(h, b)
        BY <1>2
    <2> DEFINE g == WithNodes(core[h], b)
    <2>2. /\ core' = [core EXCEPT ![h] = g] /\ open' = open /\ h \in open
          /\ sidecar' = sidecar /\ faults' = faults /\ db'.edges = db.edges
        BY <1>1, <2>1 DEF AddNodes, InsertNodeRows, Database, Current
    <2>3. g.edges = core[h].edges /\ g.base = core[h].base /\ g.delta = core[h].delta
        BY <1>1 DEF WithNodes, Graph
    <2> HIDE DEF g
    <2>4. AdjacencyExact(core[h]) => AdjacencyExact(g)
        BY <2>3 DEF AdjacencyExact, EdgeIds
    <2> QED
        BY <2>2, <2>4, ExactStep DEF ExactWhileSaved, AdjacencyMatchesRecords
<1>3. CASE \E b \in EdgeBatches(core[h]) : AddEdges(h, b) \/ AddEdgesSaveFails(h, b)
    <2>1. PICK b \in EdgeBatches(core[h]) : AddEdges(h, b) \/ AddEdgesSaveFails(h, b)
        BY <1>3
    <2> DEFINE g == WithEdges(core[h], b)
    <2>2. AppendEdges(h, b)
        BY <2>1 DEF AddEdges, AddEdgesSaveFails
    <2>3. /\ Current(h) /\ h \in open /\ open' = open /\ g \in Graph /\ g.edges = db'.edges
          /\ GraphOK(core[h]) /\ db.edges \subseteq db'.edges
        <3>1. Current(h) /\ open' = open /\ g \in Graph /\ Matches(g, db')
            BY <2>2, AppendFacts
        <3>2. db.edges \subseteq db'.edges
            BY <1>1, <2>2 DEF AppendEdges, InsertEdgeRows, Database
        <3> QED
            BY <3>1, <3>2, CurrentFacts DEF Matches, RecordsOf
    <2>4. AdjacencyExact(core[h]) => AdjacencyExact(g)
        BY <1>1, <2>3, WithEdgesExact
    <2>5. /\ AdjacencyExact(Compacted(g)) /\ Compacted(g).edges = g.edges
          /\ Compacted(g).base.adj = AdjacencyOf(Compacted(g).edges)
        BY <2>3, CompactedExact, CompactedFacts DEF SameGraph
    <2>6. \/ /\ core' = [core EXCEPT ![h] = Compacted(g)]
             /\ SaveSucceeds(core'[h]) \/ SaveFails(core'[h])
          \/ core' = [core EXCEPT ![h] = g] /\ sidecar' = sidecar /\ faults' = faults
        BY <2>1 DEF AddEdges, AddEdgesSaveFails
    <2> HIDE DEF g
    <2>7. CASE /\ core' = [core EXCEPT ![h] = Compacted(g)]
               /\ SaveSucceeds(core'[h]) \/ SaveFails(core'[h])
        <3>1. core'[h] = Compacted(g)
            BY <1>1, <2>7
        <3>2. faults' = 0 => faults = 0 /\ Lists(sidecar'.segment, db'.edges)
            BY <2>3, <2>5, <2>7, <3>1, SaveLists
        <3> QED
            BY <2>3, <2>5, <2>7, <3>2, ExactStep
    <2>8. CASE core' = [core EXCEPT ![h] = g] /\ sidecar' = sidecar /\ faults' = faults
        <3>1. Lists(sidecar.segment, db.edges) => Lists(sidecar.segment, db'.edges)
            BY <2>3 DEF Lists, AdjacencyOf
        <3> QED
            BY <2>3, <2>4, <2>8, <3>1, ExactStep DEF ExactWhileSaved, AdjacencyMatchesRecords
    <2> QED
        BY <2>6, <2>7, <2>8
<1>4. CASE \E o \in IdsOf(core[h].nodes) : AddVariable(h, o)
    <2>1. PICK o \in IdsOf(core[h].nodes) : AddVariable(h, o)
        BY <1>4
    <2> DEFINE var == [id |-> Cardinality(core[h].owned), owner |-> o]
               g == [core[h] EXCEPT !.owned = core[h].owned \cup {var}]
    <2>2. /\ core' = [core EXCEPT ![h] = g] /\ open' = open /\ h \in open
          /\ sidecar' = sidecar /\ faults' = faults /\ db'.edges = db.edges
        BY <1>1, <2>1 DEF AddVariable, Database, Current
    <2>3. g.edges = core[h].edges /\ g.base = core[h].base /\ g.delta = core[h].delta
        BY <1>1 DEF Graph
    <2> HIDE DEF g
    <2>4. AdjacencyExact(core[h]) => AdjacencyExact(g)
        BY <2>3 DEF AdjacencyExact, EdgeIds
    <2> QED
        BY <2>2, <2>4, ExactStep DEF ExactWhileSaved, AdjacencyMatchesRecords
<1> QED
    BY <1>2, <1>3, <1>4

\* A commit, staged or not.
LEMMA CommitExact ==
    ASSUME IInv, ExactWhileSaved, NEW h \in Handle, NEW s \in Graph, GraphOK(s),
           NEW base \in Nat, CommitStaged(h, s, base)
    PROVE  ExactWhileSaved'
<1> DEFINE g == Published(core[h], s)
<1>1. /\ core' = [core EXCEPT ![h] = g] /\ open' = open /\ Matches(g, db')
    BY CommitFacts
<1>2. SaveSucceeds(Rebuilt(s)) \/ SaveFails(Rebuilt(s))
    BY DEF CommitStaged
<1>3. /\ AdjacencyExact(g) /\ g.edges = s.edges
      /\ Rebuilt(s).base.adj = AdjacencyOf(s.edges) /\ Rebuilt(s).edges = s.edges
    BY PublishedExact, RebuiltExact, RebuiltFacts DEF SameGraph, IInv, TypeOK
<1> HIDE DEF g
<1>4. s.edges = db'.edges
    BY <1>1, <1>3 DEF Matches, RecordsOf
<1>5. faults' = 0 => faults = 0 /\ Lists(sidecar'.segment, db'.edges)
    BY <1>2, <1>3, <1>4, SaveLists
<1> QED
    BY <1>1, <1>3, <1>5, ExactStep

\* The first state.
LEMMA ExactInit == Init => ExactWhileSaved
BY DEF Init, ExactWhileSaved, AdjacencyMatchesRecords, Lists, NoSidecar

\* Every step.
LEMMA ExactNext == IInv /\ ExactWhileSaved /\ [Next]_vars => ExactWhileSaved'
<1> SUFFICES ASSUME IInv, ExactWhileSaved, [Next]_vars PROVE ExactWhileSaved'
    OBVIOUS
<1>1. CASE Crash
    BY <1>1 DEF Crash, ExactWhileSaved, AdjacencyMatchesRecords
<1>2. CASE LoadFails
    <2> DEFINE g == LoadedGraph(db)
    <2>1. /\ core' = core /\ open' = open /\ db' = db
          /\ SaveSucceeds(g) \/ SaveFails(g)
        BY <1>2 DEF LoadFails, memory
    <2>2. g.base.adj = AdjacencyOf(g.edges) /\ g.edges = db.edges
        BY LoadedSegment DEF IInv, TypeOK
    <2> HIDE DEF g
    <2>3. faults' = 0 => faults = 0 /\ Lists(sidecar'.segment, db'.edges)
        BY <2>1, <2>2, SaveLists
    <2> QED
        BY <2>1, <2>3 DEF ExactWhileSaved, AdjacencyMatchesRecords
<1>3. ASSUME NEW h \in Handle, Open(h) \/ Refresh(h) \/ Close(h) \/ Compact(h)
      PROVE  ExactWhileSaved'
    BY <1>3, HandleExact
<1>4. ASSUME NEW h \in Handle,
             \/ \E b \in NodeBatches : AddNodes(h, b)
             \/ \E b \in EdgeBatches(core[h]) : AddEdges(h, b) \/ AddEdgesSaveFails(h, b)
             \/ \E o \in IdsOf(core[h].nodes) : AddVariable(h, o)
      PROVE  ExactWhileSaved'
    BY <1>4, AppendExact
<1>5. ASSUME NEW h \in Handle, Mutate(h) PROVE ExactWhileSaved'
    <2>1. PICK s \in InPlaceChanges(core[h]) : CommitStaged(h, s, version[h])
        BY <1>5 DEF Mutate
    <2>2. core[h] \in Graph /\ GraphOK(core[h]) /\ version[h] \in Nat
        BY DEF IInv, TypeOK, CoresOK
    <2> QED
        BY <2>1, <2>2, InPlaceOK, CommitExact
<1>6. ASSUME NEW t \in Tx, Commit(t) PROVE ExactWhileSaved'
    <2>1. tx[t].active /\ CommitStaged(tx[t].handle, tx[t].staged, tx[t].base)
        BY <1>6 DEF Commit
    <2>2. /\ tx[t].handle \in Handle /\ tx[t].staged \in Graph /\ tx[t].base \in Nat
          /\ GraphOK(tx[t].staged)
        BY <2>1, ActiveType DEF ActiveTx, IInv, StagedOK
    <2> QED
        BY <2>1, <2>2, CommitExact
<1>7. ASSUME NEW t \in Tx, (\E h \in Handle : Begin(t, h)) \/ Run(t) \/ Finish(t)
      PROVE  ExactWhileSaved'
    BY <1>7 DEF Begin, Run, Finish, memory, ExactWhileSaved, AdjacencyMatchesRecords
<1>8. CASE UNCHANGED vars
    BY <1>8 DEF vars, ExactWhileSaved, AdjacencyMatchesRecords
<1> QED
    BY <1>1, <1>2, <1>3, <1>4, <1>5, <1>6, <1>7, <1>8 DEF Next

\* Base segment and delta overlay of every open handle list every edge exactly
\* once under each of its endpoints, until a save of a segment fails: whatever
\* handles and transactions wrote meanwhile, what a handle loads, rebuilds or
\* appends to is the adjacency of its records (lifecycle.rs:198-231).
THEOREM TraversalExact == Spec => []AdjacencyExactWhileSaved
<1>1. Spec => []ExactWhileSaved
    BY Invariant, ExactInit, ExactNext, PTL DEF Spec
<1>2. ExactWhileSaved => AdjacencyExactWhileSaved
    BY DEF ExactWhileSaved, AdjacencyExactWhileSaved
<1> QED
    BY <1>1, <1>2, PTL

---------------------------------------------------------------------------
(* Whatever was saved *)

\* The adjacency of records fits them.
LEMMA OwnFits ==
    ASSUME NEW E \in SUBSET EdgeRecord, IdsUnique(E), NEW next, IdsBelow(E, next)
    PROVE  Fits(AdjacencyOf(E), E, next)
BY DEF Fits, AdjacencyOf, IdsBelow, IdsUnique

\* What fitted the rows before a step fits them after it.
LEMMA FitsStill ==
    ASSUME IInv, IInv', RowsKept, NEW adj \in Adjacency,
           Fits(adj, db.edges, LoadedNextEdge(db))
    PROVE  Fits(adj, db'.edges, LoadedNextEdge(db'))
<1>1. /\ LoadedNextEdge(db) \in Nat /\ LoadedNextEdge(db') \in Nat
      /\ LoadedNextEdge(db') >= LoadedNextEdge(db)
    BY LoadedCounters DEF IInv, TypeOK, RowsKept, IdsKept
<1>2. \A p \in adj.out \cup adj.in : p[2] \in Nat
    BY DEF Adjacency, Pairs
<1>3. ASSUME NEW i \in Nat, i < LoadedNextEdge(db), NEW e \in db'.edges, e.id = i
      PROVE  \E f \in db.edges : f.id = i /\ e.src = f.src /\ e.dst = f.dst
    <2>1. i \in IdsOf(db'.edges)
        BY <1>3 DEF IdsOf
    <2>2. i \in IdsOf(db.edges)
        BY <1>1, <1>3, <2>1 DEF RowsKept, IdsKept
    <2>3. PICK f \in db.edges : f.id = i
        BY <2>2 DEF IdsOf
    <2> QED
        BY <1>3, <2>3 DEF RowsKept, EndpointsKept
<1>4. ASSUME NEW p \in adj.out
      PROVE  p[2] < LoadedNextEdge(db') /\ \A e \in db'.edges : e.id = p[2] => e.src = p[1]
    <2>1. p[2] \in Nat /\ p[2] < LoadedNextEdge(db)
        BY <1>2 DEF Fits
    <2>2. \A f \in db.edges : f.id = p[2] => f.src = p[1]
        BY DEF Fits
    <2> QED
        BY <1>1, <1>3, <2>1, <2>2
<1>5. ASSUME NEW p \in adj.in
      PROVE  p[2] < LoadedNextEdge(db') /\ \A e \in db'.edges : e.id = p[2] => e.dst = p[1]
    <2>1. p[2] \in Nat /\ p[2] < LoadedNextEdge(db)
        BY <1>2 DEF Fits
    <2>2. \A f \in db.edges : f.id = p[2] => f.dst = p[1]
        BY DEF Fits
    <2> QED
        BY <1>1, <1>3, <2>1, <2>2
<1> QED
    BY <1>4, <1>5 DEF Fits

\* New edges in the delta, over a base that fits the old ones.
LEMMA WithEdgesFits ==
    ASSUME NEW g \in Graph, GraphOK(g), NEW b \in EdgeBatches(g),
           GraphOK(WithEdges(g, b)), Fits(EdgeIds(g), g.edges, g.nextEdge)
    PROVE  LET s == WithEdges(g, b) IN Fits(EdgeIds(s), s.edges, s.nextEdge)
<1> DEFINE new == NewEdges(g, b)
           s == WithEdges(g, b)
<1>1. /\ new \subseteq EdgeRecord /\ \A e \in new : g.nextEdge <= e.id
    BY NewEdgesFacts
<1>2. /\ s.edges = g.edges \cup new /\ s.nextEdge = g.nextEdge + Len(b)
      /\ EdgeIds(s).out = EdgeIds(g).out \cup AdjacencyOf(new).out
      /\ EdgeIds(s).in = EdgeIds(g).in \cup AdjacencyOf(new).in
    BY DEF WithEdges, Graph, EdgeIds
<1>3. g.nextEdge \in Nat /\ Len(b) \in Nat /\ \A e \in new : e.id \in Nat
    BY <1>1, BatchFacts DEF Graph, EdgeRecord, EdgeBatches
<1>4. \A p \in EdgeIds(g).out \cup EdgeIds(g).in : p[2] \in Nat
    BY DEF EdgeIds, Graph, Segment, Adjacency, Pairs
<1>5. IdsUnique(s.edges) /\ IdsBelow(s.edges, s.nextEdge)
    BY DEF GraphOK, Consistent
<1> HIDE DEF new, s
<1>6. ASSUME NEW p \in EdgeIds(s).out
      PROVE  p[2] < s.nextEdge /\ \A e \in s.edges : e.id = p[2] => e.src = p[1]
    <2>1. CASE p \in EdgeIds(g).out
        BY <1>1, <1>2, <1>3, <1>4, <2>1 DEF Fits
    <2>2. CASE p \in AdjacencyOf(new).out
        <3>1. PICK f \in new : p = <<f.src, f.id>>
            BY <2>2 DEF AdjacencyOf
        <3> QED
            BY <1>2, <1>5, <3>1 DEF IdsUnique, IdsBelow
    <2> QED
        BY <1>2, <2>1, <2>2
<1>7. ASSUME NEW p \in EdgeIds(s).in
      PROVE  p[2] < s.nextEdge /\ \A e \in s.edges : e.id = p[2] => e.dst = p[1]
    <2>1. CASE p \in EdgeIds(g).in
        BY <1>1, <1>2, <1>3, <1>4, <2>1 DEF Fits
    <2>2. CASE p \in AdjacencyOf(new).in
        <3>1. PICK f \in new : p = <<f.dst, f.id>>
            BY <2>2 DEF AdjacencyOf
        <3> QED
            BY <1>2, <1>5, <3>1 DEF IdsUnique, IdsBelow
    <2> QED
        BY <1>2, <2>1, <2>2
<1> QED
    BY <1>6, <1>7 DEF Fits, s

\* A step that sets the graph of one handle, and the segment perhaps.
LEMMA FitsStep ==
    ASSUME IInv, IInv', SegmentsFit, RowsKept, NEW h \in Handle, NEW g,
           core' = [core EXCEPT ![h] = g], Fits(EdgeIds(g), g.edges, g.nextEdge),
           \/ sidecar'.segment \in {Unreadable, sidecar.segment}
           \/ sidecar'.segment.adj = AdjacencyOf(db'.edges)
    PROVE  SegmentsFit'
<1>1. core \in [Handle -> Graph] /\ db' \in Database /\ DatabaseOK(db')
      /\ sidecar \in Sidecar
    BY DEF IInv, TypeOK
<1>2. ASSUME NEW k \in Handle PROVE Fits(EdgeIds(core'[k]), core'[k].edges, core'[k].nextEdge)
    BY <1>1 DEF SegmentsFit
<1>3. ASSUME sidecar'.segment # Unreadable
      PROVE  Fits(sidecar'.segment.adj, db'.edges, LoadedNextEdge(db'))
    <2>1. CASE sidecar'.segment = sidecar.segment
        <3>1. sidecar.segment.adj \in Adjacency
            BY <1>1, <1>3, <2>1 DEF Sidecar, Segment
        <3> QED
            BY <1>3, <2>1, <3>1, FitsStill DEF SegmentsFit
    <2>2. CASE sidecar'.segment.adj = AdjacencyOf(db'.edges)
        BY <1>1, <2>2, OwnFits, LoadedCounters DEF Database, DatabaseOK, Consistent
    <2> QED
        BY <1>3, <2>1, <2>2
<1> QED
    BY <1>2, <1>3 DEF SegmentsFit

\* What a save, failed or not, leaves as segment.
LEMMA SavedSegment ==
    ASSUME IInv, NEW g, SaveSucceeds(g) \/ SaveFails(g)
    PROVE  sidecar'.segment \in {Unreadable, sidecar.segment, g.base}
BY DEF SaveSucceeds, SaveFails, Saved, FailedSaves, IInv, TypeOK, Sidecar

\* A loaded graph reads the sidecar's segment or its own.
LEMMA LoadFits ==
    ASSUME IInv, IInv', SegmentsFit, RowsKept, NEW h \in Handle, Load(h), db' = db
    PROVE  SegmentsFit'
<1> DEFINE g == LoadedGraph(db)
<1>1. /\ g \in Graph /\ g.edges = db.edges /\ g.nextEdge = LoadedNextEdge(db)
      /\ g.base.adj = AdjacencyOf(db.edges) /\ EdgeIds(g) = AdjacencyOf(db.edges)
      /\ g.delta = NoAdjacency
    BY LoadedSegment
<1>2. db \in Database /\ DatabaseOK(db) /\ sidecar \in Sidecar
    BY DEF IInv, TypeOK
<1> HIDE DEF g
<1>3. CASE UsableNow(g)
    <2> DEFINE s == [g EXCEPT !.base = sidecar.segment]
    <2>1. core' = [core EXCEPT ![h] = s] /\ sidecar' = sidecar
        BY <1>3 DEF Load, g
    <2>2. sidecar.segment # Unreadable /\ sidecar.segment \in Segment
        BY <1>2, <1>3 DEF UsableNow, SegmentUsable, Sidecar
    <2>3. /\ s.edges = db.edges /\ s.nextEdge = LoadedNextEdge(db)
          /\ EdgeIds(s).out = sidecar.segment.adj.out
          /\ EdgeIds(s).in = sidecar.segment.adj.in
        BY <1>1, <2>2 DEF Graph, EdgeIds, NoAdjacency
    <2> HIDE DEF s
    <2>4. Fits(EdgeIds(s), s.edges, s.nextEdge)
        BY <2>2, <2>3 DEF SegmentsFit, Fits
    <2> QED
        BY <2>1, <2>4, FitsStep
<1>4. CASE ~UsableNow(g)
    <2>1. /\ core' = [core EXCEPT ![h] = g]
          /\ sidecar' = sidecar \/ sidecar' = Saved(g)
        BY <1>4 DEF Load, SaveSucceeds, g
    <2>2. Fits(EdgeIds(g), g.edges, g.nextEdge)
        BY <1>1, <1>2, OwnFits, LoadedCounters DEF Database, DatabaseOK, Consistent
    <2>3. \/ sidecar'.segment = sidecar.segment
          \/ sidecar'.segment.adj = AdjacencyOf(db.edges)
        BY <1>1, <2>1 DEF Saved
    <2> QED
        BY <2>1, <2>2, <2>3, FitsStep
<1> QED
    BY <1>3, <1>4

\* Opening, refreshing, closing and compacting a handle.
LEMMA HandleFits ==
    ASSUME IInv, IInv', SegmentsFit, RowsKept, NEW h \in Handle,
           Open(h) \/ Refresh(h) \/ Close(h) \/ Compact(h)
    PROVE  SegmentsFit'
<1>1. CASE Open(h) \/ Refresh(h)
    BY <1>1, LoadFits DEF Open, Refresh
<1>2. CASE Close(h)
    <2>1. core' = [core EXCEPT ![h] = EmptyGraph] /\ sidecar' = sidecar
        BY <1>2 DEF Close
    <2>2. Fits(EdgeIds(EmptyGraph), EmptyGraph.edges, EmptyGraph.nextEdge)
        BY DEF EmptyGraph, NoAdjacency, EdgeIds, Fits
    <2> QED
        BY <2>1, <2>2, FitsStep
<1>3. CASE Compact(h)
    <2> DEFINE g == Compacted(core[h])
    <2>1. /\ Current(h) /\ core' = [core EXCEPT ![h] = g] /\ db' = db
          /\ SaveSucceeds(core'[h]) \/ SaveFails(core'[h])
        BY <1>3 DEF Compact
    <2>2. /\ core[h] \in Graph /\ GraphOK(core[h]) /\ Matches(core[h], db)
          /\ core \in [Handle -> Graph]
        BY <2>1, CurrentFacts DEF IInv, TypeOK
    <2>3. /\ g \in Graph /\ GraphOK(g) /\ EdgeIds(g) = AdjacencyOf(g.edges)
          /\ g.base.adj = AdjacencyOf(g.edges) /\ g.edges = db.edges
        BY <2>2, CompactedExact, CompactedFacts, CompactedOK DEF SameGraph, Matches, RecordsOf
    <2>4. core'[h] = g
        BY <2>1, <2>2
    <2> HIDE DEF g
    <2>5. Fits(EdgeIds(g), g.edges, g.nextEdge)
        BY <2>3, OwnFits DEF Graph, GraphOK, Consistent
    <2>6. sidecar'.segment \in {Unreadable, sidecar.segment, g.base}
        BY <2>1, <2>4, SavedSegment
    <2> QED
        BY <2>1, <2>3, <2>5, <2>6, FitsStep
<1> QED
    BY <1>1, <1>2, <1>3

\* Appends and variables of one handle.
LEMMA AppendFits ==
    ASSUME IInv, IInv', SegmentsFit, RowsKept, NEW h \in Handle,
           \/ \E b \in NodeBatches : AddNodes(h, b)
           \/ \E b \in EdgeBatches(core[h]) : AddEdges(h, b) \/ AddEdgesSaveFails(h, b)
           \/ \E o \in IdsOf(core[h].nodes) : AddVariable(h, o)
    PROVE  SegmentsFit'
<1>1. /\ core[h] \in Graph /\ GraphOK(core[h]) /\ core \in [Handle -> Graph]
      /\ Fits(EdgeIds(core[h]), core[h].edges, core[h].nextEdge)
    BY DEF IInv, TypeOK, CoresOK, SegmentsFit
<1>2. CASE \E b \in NodeBatches : AddNodes(h, b)
    <2>1. PICK b \in NodeBatches : AddNodes(h, b)
        BY <1>2
    <2> DEFINE g == WithNodes(core[h], b)
    <2>2. core' = [core EXCEPT ![h] = g] /\ sidecar' = sidecar
        BY <2>1 DEF AddNodes
    <2>3. /\ g.edges = core[h].edges /\ g.base = core[h].base /\ g.delta = core[h].delta
          /\ g.nextEdge = core[h].nextEdge
        BY <1>1 DEF WithNodes, Graph
    <2> HIDE DEF g
    <2>4. EdgeIds(g) = EdgeIds(core[h])
        BY <2>3 DEF EdgeIds
    <2> QED
        BY <1>1, <2>2, <2>3, <2>4, FitsStep
<1>3. CASE \E b \in EdgeBatches(core[h]) : AddEdges(h, b) \/ AddEdgesSaveFails(h, b)
    <2>1. PICK b \in EdgeBatches(core[h]) : AddEdges(h, b) \/ AddEdgesSaveFails(h, b)
        BY <1>3
    <2> DEFINE g == WithEdges(core[h], b)
    <2>2. AppendEdges(h, b)
        BY <2>1 DEF AddEdges, AddEdgesSaveFails
    <2>3. /\ g \in Graph /\ GraphOK(g) /\ g.edges = db'.edges
          /\ Compacted(g) \in Graph /\ GraphOK(Compacted(g))
        BY <2>2, AppendFacts DEF Matches, RecordsOf
    <2>4. Fits(EdgeIds(g), g.edges, g.nextEdge)
        BY <1>1, <2>3, WithEdgesFits
    <2>5. \/ /\ core' = [core EXCEPT ![h] = Compacted(g)]
             /\ SaveSucceeds(core'[h]) \/ SaveFails(core'[h])
          \/ core' = [core EXCEPT ![h] = g] /\ sidecar' = sidecar
        BY <2>1 DEF AddEdges, AddEdgesSaveFails
    <2> HIDE DEF g
    <2>6. CASE /\ core' = [core EXCEPT ![h] = Compacted(g)]
               /\ SaveSucceeds(core'[h]) \/ SaveFails(core'[h])
        <3> DEFINE c == Compacted(g)
        <3>1. /\ EdgeIds(c) = AdjacencyOf(c.edges) /\ c.edges = g.edges
              /\ c.base.adj = AdjacencyOf(g.edges)
            BY <2>3, CompactedExact, CompactedFacts DEF SameGraph
        <3>2. core'[h] = c
            BY <1>1, <2>6
        <3> HIDE DEF c
        <3>3. Fits(EdgeIds(c), c.edges, c.nextEdge)
            BY <2>3, <3>1, OwnFits DEF Graph, GraphOK, Consistent, c
        <3>4. sidecar'.segment \in {Unreadable, sidecar.segment, c.base}
            BY <2>6, <3>2, SavedSegment
        <3> QED
            BY <2>3, <2>6, <3>1, <3>3, <3>4, FitsStep DEF c
    <2>7. CASE core' = [core EXCEPT ![h] = g] /\ sidecar' = sidecar
        BY <2>4, <2>7, FitsStep
    <2> QED
        BY <2>5, <2>6, <2>7
<1>4. CASE \E o \in IdsOf(core[h].nodes) : AddVariable(h, o)
    <2>1. PICK o \in IdsOf(core[h].nodes) : AddVariable(h, o)
        BY <1>4
    <2> DEFINE var == [id |-> Cardinality(core[h].owned), owner |-> o]
               g == [core[h] EXCEPT !.owned = core[h].owned \cup {var}]
    <2>2. core' = [core EXCEPT ![h] = g] /\ sidecar' = sidecar
        BY <1>1, <2>1 DEF AddVariable
    <2>3. /\ g.edges = core[h].edges /\ g.base = core[h].base /\ g.delta = core[h].delta
          /\ g.nextEdge = core[h].nextEdge
        BY <1>1 DEF Graph
    <2> HIDE DEF g
    <2>4. EdgeIds(g) = EdgeIds(core[h])
        BY <2>3 DEF EdgeIds
    <2> QED
        BY <1>1, <2>2, <2>3, <2>4, FitsStep
<1> QED
    BY <1>2, <1>3, <1>4

\* A commit, staged or not: its save may leave any segment there was.
LEMMA CommitFits ==
    ASSUME IInv, IInv', SegmentsFit, RowsKept, NEW h \in Handle,
           NEW s \in Graph, GraphOK(s), NEW base \in Nat, CommitStaged(h, s, base)
    PROVE  SegmentsFit'
<1> DEFINE g == Published(core[h], s)
<1>1. core' = [core EXCEPT ![h] = g] /\ g \in Graph /\ GraphOK(g) /\ Matches(g, db')
    BY CommitFacts
<1>2. SaveSucceeds(Rebuilt(s)) \/ SaveFails(Rebuilt(s))
    BY DEF CommitStaged
<1>3. /\ EdgeIds(g) = AdjacencyOf(g.edges) /\ g.edges = s.edges
      /\ Rebuilt(s).base.adj = AdjacencyOf(s.edges)
    BY PublishedExact, RebuiltExact DEF IInv, TypeOK
<1> HIDE DEF g
<1>4. g.edges = db'.edges
    BY <1>1 DEF Matches, RecordsOf
<1>5. Fits(EdgeIds(g), g.edges, g.nextEdge)
    BY <1>1, <1>3, OwnFits DEF Graph, GraphOK, Consistent
<1>6. sidecar'.segment \in {Unreadable, sidecar.segment, Rebuilt(s).base}
    BY <1>2, SavedSegment
<1> QED
    BY <1>1, <1>3, <1>4, <1>5, <1>6, FitsStep

\* The first state.
LEMMA FitsInit == Init => SegmentsFit
BY DEF Init, SegmentsFit, NoSidecar, EmptyGraph, NoAdjacency, EdgeIds, Fits

\* Every step, as it keeps the rows that stay.
LEMMA FitsNext == IInv /\ IInv' /\ SegmentsFit /\ RowsKept /\ [Next]_vars => SegmentsFit'
<1> SUFFICES ASSUME IInv, IInv', SegmentsFit, RowsKept, [Next]_vars PROVE SegmentsFit'
    OBVIOUS
<1>1. CASE Crash
    BY <1>1 DEF Crash, SegmentsFit, EmptyGraph, NoAdjacency, EdgeIds, Fits
<1>2. CASE LoadFails
    <2> DEFINE g == LoadedGraph(db)
    <2>1. core' = core /\ db' = db /\ (SaveSucceeds(g) \/ SaveFails(g))
        BY <1>2 DEF LoadFails, memory
    <2>2. g.base.adj = AdjacencyOf(db.edges)
        BY LoadedSegment
    <2> HIDE DEF g
    <2>3. sidecar'.segment \in {Unreadable, sidecar.segment, g.base}
        BY <2>1, SavedSegment
    <2>4. /\ db \in Database /\ DatabaseOK(db)
        BY DEF IInv, TypeOK
    <2>5. Fits(AdjacencyOf(db.edges), db.edges, LoadedNextEdge(db))
        BY <2>4, OwnFits, LoadedCounters DEF Database, DatabaseOK, Consistent
    <2> QED
        BY <1>2, <2>2, <2>3, <2>5 DEF SegmentsFit, LoadFails, memory
<1>3. ASSUME NEW h \in Handle, Open(h) \/ Refresh(h) \/ Close(h) \/ Compact(h)
      PROVE  SegmentsFit'
    BY <1>3, HandleFits
<1>4. ASSUME NEW h \in Handle,
             \/ \E b \in NodeBatches : AddNodes(h, b)
             \/ \E b \in EdgeBatches(core[h]) : AddEdges(h, b) \/ AddEdgesSaveFails(h, b)
             \/ \E o \in IdsOf(core[h].nodes) : AddVariable(h, o)
      PROVE  SegmentsFit'
    BY <1>4, AppendFits
<1>5. ASSUME NEW h \in Handle, Mutate(h) PROVE SegmentsFit'
    <2>1. PICK s \in InPlaceChanges(core[h]) : CommitStaged(h, s, version[h])
        BY <1>5 DEF Mutate
    <2>2. core[h] \in Graph /\ GraphOK(core[h]) /\ version[h] \in Nat
        BY DEF IInv, TypeOK, CoresOK
    <2> QED
        BY <2>1, <2>2, InPlaceOK, CommitFits
<1>6. ASSUME NEW t \in Tx, Commit(t) PROVE SegmentsFit'
    <2>1. tx[t].active /\ CommitStaged(tx[t].handle, tx[t].staged, tx[t].base)
        BY <1>6 DEF Commit
    <2>2. /\ tx[t].handle \in Handle /\ tx[t].staged \in Graph /\ tx[t].base \in Nat
          /\ GraphOK(tx[t].staged)
        BY <2>1, ActiveType DEF ActiveTx, IInv, StagedOK
    <2> QED
        BY <2>1, <2>2, CommitFits
<1>7. ASSUME NEW t \in Tx, (\E h \in Handle : Begin(t, h)) \/ Run(t) \/ Finish(t)
      PROVE  SegmentsFit'
    BY <1>7 DEF Begin, Run, Finish, memory, SegmentsFit
<1>8. CASE UNCHANGED vars
    BY <1>8 DEF vars, SegmentsFit
<1> QED
    BY <1>1, <1>2, <1>3, <1>4, <1>5, <1>6, <1>7, <1>8 DEF Next

\* Whatever sidecar survived failed saves, crashes and the writes of other handles,
\* traversal reports no neighbour that the records do not have, as long as no
\* transaction commits over a refresh or a failed compaction of its handle: such a
\* commit may take ids back, and an old segment then speaks of other edges
\* (segment.rs, lifecycle.rs:198-231).
THEOREM TraversalReal == Spec /\ CleanCommits => []NeighborsReal
<1>1. Spec => []IInv /\ []StagedGrow
    BY Invariant, NextInv, StagedGrowInit, StagedGrowNext, PTL DEF Spec
<1>2. IInv /\ IInv' /\ StagedGrow /\ SegmentsFit /\ [Next]_vars
        /\ [\A t \in Tx : CommitsIn(t) => tx[t].clean]_vars => SegmentsFit'
    <2>1. CASE UNCHANGED vars
        BY <2>1 DEF vars, SegmentsFit
    <2>2. CASE \A t \in Tx : CommitsIn(t) => tx[t].clean
        BY <2>2, StepKept, FitsNext
    <2> QED
        BY <2>1, <2>2
<1>3. Spec /\ CleanCommits => []SegmentsFit
    BY <1>1, <1>2, FitsInit, PTL DEF Spec, CleanCommits
<1>4. IInv /\ SegmentsFit => NeighborsReal
    <2> SUFFICES ASSUME IInv, SegmentsFit, NEW h \in open, NEW id \in IdsOf(core[h].nodes)
                 PROVE  /\ OutNeighbors(core[h], id) \subseteq
                                {e.dst : e \in {x \in core[h].edges : x.src = id}}
                        /\ InNeighbors(core[h], id) \subseteq
                                {e.src : e \in {x \in core[h].edges : x.dst = id}}
        BY DEF NeighborsReal
    <2>1. Fits(EdgeIds(core[h]), core[h].edges, core[h].nextEdge)
        BY DEF SegmentsFit, IInv, TypeOK
    <2>2. \A e \in core[h].edges : <<id, e.id>> \in EdgeIds(core[h]).out => e.src = id
        BY <2>1 DEF Fits
    <2>3. \A e \in core[h].edges : <<id, e.id>> \in EdgeIds(core[h]).in => e.dst = id
        BY <2>1 DEF Fits
    <2> QED
        BY <2>2, <2>3 DEF OutNeighbors, InNeighbors
<1> QED
    BY <1>1, <1>3, <1>4, PTL

---------------------------------------------------------------------------
(* A graph read as a ledger *)

\* l lists the records of g under their ids.
Reads(l, g) ==
    /\ l = [nodes |-> l.nodes, edges |-> l.edges,
            nextNode |-> g.nextNode, nextEdge |-> g.nextEdge]
    /\ l.nodes \in [IdsOf(g.nodes) -> Name]
    /\ l.edges \in [IdsOf(g.edges) -> [src : Nat, dst : Nat, prop : Prop]]
    /\ \A n \in g.nodes : l.nodes[n.id] = n.ext
    /\ \A e \in g.edges : l.edges[e.id] = EdgeEntry(e)

\* The record an id finds is the one that has it.
LEMMA RecordFound ==
    ASSUME NEW R, IdsUnique(R), NEW r \in R
    PROVE  RecordWithId(R, r.id) = r
BY DEF RecordWithId, IdsUnique

\* The ledger of a graph lists its records,
LEMMA LedgerReads ==
    ASSUME NEW g \in Graph, GraphOK(g)
    PROVE  Reads(LedgerOf(g), g)
<1> DEFINE l == LedgerOf(g)
<1>1. IdsUnique(g.nodes) /\ IdsUnique(g.edges)
    BY DEF GraphOK, Consistent
<1>2. ASSUME NEW n \in g.nodes PROVE l.nodes[n.id] = n.ext /\ n.ext \in Name
    BY <1>1, RecordFound DEF LedgerOf, IdsOf, Graph, NodeRecord
<1>3. ASSUME NEW e \in g.edges
      PROVE  l.edges[e.id] = EdgeEntry(e)
    BY <1>1, RecordFound DEF LedgerOf, IdsOf
<1>4. ASSUME NEW e \in g.edges PROVE EdgeEntry(e) \in [src : Nat, dst : Nat, prop : Prop]
    BY DEF EdgeEntry, Graph, EdgeRecord
<1>5. l.nodes = [i \in IdsOf(g.nodes) |-> l.nodes[i]]
    BY DEF LedgerOf
<1>6. l.edges = [i \in IdsOf(g.edges) |-> l.edges[i]]
    BY DEF LedgerOf
<1>7. l = [nodes |-> l.nodes, edges |-> l.edges,
           nextNode |-> g.nextNode, nextEdge |-> g.nextEdge]
    BY DEF LedgerOf
<1> HIDE DEF l
<1>8. l.nodes \in [IdsOf(g.nodes) -> Name]
    BY <1>2, <1>5 DEF IdsOf
<1>9. l.edges \in [IdsOf(g.edges) -> [src : Nat, dst : Nat, prop : Prop]]
    <2>1. \A i \in IdsOf(g.edges) : l.edges[i] \in [src : Nat, dst : Nat, prop : Prop]
        BY <1>3, <1>4 DEF IdsOf
    <2> QED
        BY <1>6, <2>1
<1> QED
    BY <1>2, <1>3, <1>7, <1>8, <1>9 DEF Reads, l

\* and nothing else does.
LEMMA LedgerIs ==
    ASSUME NEW g \in Graph, GraphOK(g), NEW l, Reads(l, g)
    PROVE  l = LedgerOf(g)
<1> DEFINE m == LedgerOf(g)
<1>1. Reads(m, g)
    BY LedgerReads
<1> HIDE DEF m
<1>2. ASSUME NEW i \in IdsOf(g.nodes) PROVE l.nodes[i] = m.nodes[i]
    BY <1>1 DEF Reads, IdsOf
<1>3. ASSUME NEW i \in IdsOf(g.edges) PROVE l.edges[i] = m.edges[i]
    BY <1>1 DEF Reads, IdsOf
<1>4. l.nodes = m.nodes
    BY <1>1, <1>2 DEF Reads
<1>5. l.edges = m.edges
    <2> DEFINE S == [src : Nat, dst : Nat, prop : Prop]
    <2>1. l.edges \in [IdsOf(g.edges) -> S] /\ m.edges \in [IdsOf(g.edges) -> S]
        BY <1>1 DEF Reads
    <2> HIDE DEF S
    <2> QED
        BY <1>3, <2>1
<1> QED
    BY <1>1, <1>4, <1>5 DEF Reads, m

---------------------------------------------------------------------------
(* Statements *)

\* An edge that gets a property: EdgeChanged.
LEMMA EdgeChangedBy ==
    ASSUME NEW g \in Graph, GraphOK(g), NEW e \in g.edges, NEW x \in Prop
    PROVE  LedgerOf(UpdatedEdge(g, e, x)) \in Ledger!EdgeChanged(LedgerOf(g))
<1> DEFINE s == UpdatedEdge(g, e, x)
           l == LedgerOf(g)
           f == [e EXCEPT !.prop = x]
           m == [l EXCEPT !.edges[e.id].prop = x]
<1>1. s \in Graph /\ GraphOK(s)
    BY UpdatedEdgeOK
<1>2. /\ s.nodes = g.nodes /\ s.edges = (g.edges \ {e}) \cup {f}
      /\ s.nextNode = g.nextNode /\ s.nextEdge = g.nextEdge
    BY DEF UpdatedEdge, Rebuilt, Compacted, Graph
<1>3. e \in EdgeRecord /\ f.id = e.id /\ f.src = e.src /\ f.dst = e.dst /\ f.prop = x
    BY DEF Graph, EdgeRecord
<1>4. Reads(l, g)
    BY LedgerReads
<1>5. IdsUnique(g.edges)
    BY DEF GraphOK, Consistent
<1> HIDE DEF s, l, f
<1>6. IdsOf(s.edges) = IdsOf(g.edges) /\ e.id \in IdsOf(g.edges)
    BY <1>2, <1>3 DEF IdsOf
<1>7. /\ m.nodes = l.nodes /\ m.edges = [l.edges EXCEPT ![e.id].prop = x]
      /\ m = [nodes |-> m.nodes, edges |-> m.edges,
              nextNode |-> s.nextNode, nextEdge |-> s.nextEdge]
    BY <1>2, <1>4 DEF Reads
<1> HIDE DEF m
<1>8. [EdgeEntry(e) EXCEPT !.prop = x] = EdgeEntry(f)
    BY <1>3 DEF EdgeEntry
<1>9. EdgeEntry(f) \in [src : Nat, dst : Nat, prop : Prop]
    BY <1>3 DEF EdgeEntry, EdgeRecord
<1>10. m.edges = [l.edges EXCEPT ![e.id] = EdgeEntry(f)]
    BY <1>4, <1>6, <1>7, <1>8 DEF Reads
<1>11. ASSUME NEW y \in s.edges PROVE m.edges[y.id] = EdgeEntry(y)
    <2>1. CASE y = f
        BY <1>3, <1>4, <1>6, <1>10, <2>1 DEF Reads
    <2>2. CASE y # f
        <3>1. y \in g.edges /\ y.id # e.id /\ y.id \in IdsOf(g.edges)
            BY <1>2, <1>5, <2>2 DEF IdsUnique, IdsOf
        <3> QED
            BY <1>4, <1>10, <3>1 DEF Reads
    <2> QED
        BY <2>1, <2>2
<1>12. m.edges \in [IdsOf(s.edges) -> [src : Nat, dst : Nat, prop : Prop]]
    BY <1>4, <1>6, <1>9, <1>10 DEF Reads
<1>13. Reads(m, s)
    BY <1>2, <1>4, <1>7, <1>11, <1>12 DEF Reads
<1>14. m = LedgerOf(s)
    BY <1>1, <1>13, LedgerIs
<1>15. PICK c \in (DOMAIN l.edges) \X Prop : c[1] = e.id /\ c[2] = x
    <2>1. e.id \in DOMAIN l.edges
        BY <1>4, <1>6 DEF Reads
    <2>2. <<e.id, x>> \in (DOMAIN l.edges) \X Prop /\ <<e.id, x>>[1] = e.id /\ <<e.id, x>>[2] = x
        BY <2>1
    <2> QED
        BY <2>2, Zenon
<1>16. LedgerOf(s) = [l EXCEPT !.edges[c[1]].prop = c[2]]
    BY <1>14, <1>15 DEF m
<1>17. LedgerOf(s) \in Ledger!EdgeChanged(l)
    BY <1>16, Zenon DEF Ledger!EdgeChanged
<1> QED
    BY <1>17 DEF s, l

\* A node that gets a name no node has: NodeRenamed.  Its own name changes nothing.
LEMMA NodeRenamedBy ==
    ASSUME NEW g \in Graph, GraphOK(g), NEW n \in g.nodes, NEW name \in Name,
           ~NameTakenByOther(g, n.id, name)
    PROVE  \/ LedgerOf(UpdatedNode(g, n, name)) \in Ledger!NodeRenamed(LedgerOf(g))
           \/ LedgerOf(UpdatedNode(g, n, name)) = LedgerOf(g)
<1> DEFINE s == UpdatedNode(g, n, name)
           l == LedgerOf(g)
           q == [n EXCEPT !.ext = name]
           m == [l EXCEPT !.nodes[n.id] = name]
<1>1. s \in Graph /\ GraphOK(s)
    BY UpdatedNodeOK
<1>2. /\ s.edges = g.edges /\ s.nodes = (g.nodes \ {n}) \cup {q}
      /\ s.nextNode = g.nextNode /\ s.nextEdge = g.nextEdge
    BY DEF UpdatedNode, Rebuilt, Compacted, Graph
<1>3. n \in NodeRecord /\ q.id = n.id /\ q.ext = name
    BY DEF Graph, NodeRecord
<1>4. Reads(l, g)
    BY LedgerReads
<1>5. IdsUnique(g.nodes) /\ g.byName = {<<k.ext, k.id>> : k \in g.nodes}
    BY DEF GraphOK, Consistent, IndexExact
<1> HIDE DEF s, l, q
<1>6. IdsOf(s.nodes) = IdsOf(g.nodes) /\ n.id \in IdsOf(g.nodes)
    BY <1>2, <1>3 DEF IdsOf
<1>7. /\ m.edges = l.edges /\ m.nodes = [l.nodes EXCEPT ![n.id] = name]
      /\ m = [nodes |-> m.nodes, edges |-> m.edges,
              nextNode |-> s.nextNode, nextEdge |-> s.nextEdge]
    BY <1>2, <1>4 DEF Reads
<1> HIDE DEF m
<1>8. ASSUME NEW k \in s.nodes PROVE m.nodes[k.id] = k.ext
    <2>1. CASE k = q
        BY <1>3, <1>4, <1>6, <1>7, <2>1 DEF Reads
    <2>2. CASE k # q
        <3>1. k \in g.nodes /\ k.id # n.id /\ k.id \in IdsOf(g.nodes)
            BY <1>2, <1>5, <2>2 DEF IdsUnique, IdsOf
        <3> QED
            BY <1>4, <1>7, <3>1 DEF Reads
    <2> QED
        BY <2>1, <2>2
<1>9. m.nodes \in [IdsOf(s.nodes) -> Name]
    BY <1>4, <1>6, <1>7 DEF Reads
<1>10. Reads(m, s)
    BY <1>2, <1>4, <1>7, <1>8, <1>9 DEF Reads
<1>11. m = LedgerOf(s)
    BY <1>1, <1>10, LedgerIs
<1>12. CASE n.ext = name
    <2>1. q = n
        BY <1>3, <1>12 DEF NodeRecord, q
    <2>2. Reads(l, s)
        BY <1>2, <1>4, <2>1 DEF Reads
    <2>3. l = LedgerOf(s)
        BY <1>1, <2>2, LedgerIs
    <2> QED
        BY <2>3 DEF s, l
<1>13. CASE n.ext # name
    <2>1. name \notin Ledger!NamesIn(l.nodes)
        <3>1. \A k \in g.nodes : k.ext = name => k.id = n.id
            <4> SUFFICES ASSUME NEW k \in g.nodes, k.ext = name, k.id # n.id PROVE FALSE
                OBVIOUS
            <4>1. <<name, k.id>> \in g.byName
                BY <1>5
            <4>2. <<name, k.id>>[1] = name /\ <<name, k.id>>[2] = k.id
                OBVIOUS
            <4> QED
                BY <4>1, <4>2, Zenon DEF NameTakenByOther
        <3>2. \A k \in g.nodes : k.ext # name
            BY <1>5, <1>13, <3>1 DEF IdsUnique
        <3>3. \A i \in DOMAIN l.nodes : \E k \in g.nodes : l.nodes[i] = k.ext
            BY <1>4 DEF Reads, IdsOf
        <3> QED
            BY <3>2, <3>3 DEF Ledger!NamesIn
    <2>2. PICK c \in (DOMAIN l.nodes) \X Name :
            c[1] = n.id /\ c[2] = name /\ c[2] \notin Ledger!NamesIn(l.nodes)
        <3>1. n.id \in DOMAIN l.nodes
            BY <1>4, <1>6 DEF Reads
        <3>2. /\ <<n.id, name>> \in (DOMAIN l.nodes) \X Name
              /\ <<n.id, name>>[1] = n.id /\ <<n.id, name>>[2] = name
            BY <3>1
        <3> QED
            BY <2>1, <3>2, Zenon
    <2>3. LedgerOf(s) = [l EXCEPT !.nodes[c[1]] = c[2]]
        BY <1>11, <2>2 DEF m
    <2>4. LedgerOf(s) \in Ledger!NodeRenamed(l)
        BY <2>2, <2>3, Zenon DEF Ledger!NodeRenamed
    <2> QED
        BY <2>4 DEF s, l
<1> QED
    BY <1>12, <1>13

\* l without the nodes N and the edges E.
Shrunk(l, N, E) == [l EXCEPT !.nodes = Ledger!Without(l.nodes, N),
                             !.edges = Ledger!Without(l.edges, E)]

\* A deletion of some nodes and some edges.
LEMMA DeletedReads ==
    ASSUME NEW g \in Graph, GraphOK(g), NEW s \in Graph, GraphOK(s),
           s.nodes \subseteq g.nodes, s.edges \subseteq g.edges,
           s.nextNode = g.nextNode, s.nextEdge = g.nextEdge,
           NEW N, NEW E,
           IdsOf(s.nodes) = IdsOf(g.nodes) \ N, IdsOf(s.edges) = IdsOf(g.edges) \ E,
           NEW l, Reads(l, g)
    PROVE  LedgerOf(s) = Shrunk(l, N, E)
<1> DEFINE m == Shrunk(l, N, E)
<1>1. Reads(l, g)
    OBVIOUS
<1> DEFINE M == Ledger!Without(l.nodes, N)
           F == Ledger!Without(l.edges, E)
           Entries == [src : Nat, dst : Nat, prop : Prop]
<1>2. /\ M \in [IdsOf(s.nodes) -> Name]
      /\ \A i \in IdsOf(s.nodes) : M[i] = l.nodes[i]
    <2>1. l.nodes \in [IdsOf(g.nodes) -> Name]
        BY <1>1 DEF Reads
    <2>2. M = [i \in IdsOf(s.nodes) |-> l.nodes[i]]
        BY <2>1 DEF Ledger!Without
    <2> HIDE DEF M
    <2> QED
        BY <2>1, <2>2
<1>3. /\ F \in [IdsOf(s.edges) -> Entries]
      /\ \A i \in IdsOf(s.edges) : F[i] = l.edges[i]
    <2>1. l.edges \in [IdsOf(g.edges) -> Entries]
        BY <1>1 DEF Reads
    <2> HIDE DEF Entries
    <2>2. F = [i \in IdsOf(s.edges) |-> l.edges[i]]
        BY <2>1 DEF Ledger!Without
    <2> HIDE DEF F
    <2> QED
        BY <2>1, <2>2
<1>4. m = [nodes |-> M, edges |-> F, nextNode |-> s.nextNode, nextEdge |-> s.nextEdge]
    <2>1. m = [l EXCEPT !.nodes = M, !.edges = F]
        BY DEF Shrunk
    <2> HIDE DEF m, M, F
    <2>2. PICK a, b : l = [nodes |-> a, edges |-> b,
                           nextNode |-> s.nextNode, nextEdge |-> s.nextEdge]
        BY <1>1 DEF Reads
    <2> QED
        BY <2>1, <2>2
<1> HIDE DEF m, M, F
<1>5. Reads(m, s)
    BY <1>1, <1>2, <1>3, <1>4 DEF Reads, IdsOf
<1>6. m = LedgerOf(s)
    BY <1>5, LedgerIs
<1> QED
    BY <1>6 DEF m

\* An edge that goes: EdgeDeleted.
LEMMA EdgeDeletedBy ==
    ASSUME NEW g \in Graph, GraphOK(g), NEW e \in g.edges
    PROVE  LedgerOf(DeletedEdge(g, e)) \in Ledger!EdgeDeleted(LedgerOf(g))
<1> DEFINE s == DeletedEdge(g, e)
           l == LedgerOf(g)
           none == {}
           gone == {e.id}
<1>1. s \in Graph /\ GraphOK(s)
    BY DeletedEdgeOK
<1>2. /\ s.nodes = g.nodes /\ s.edges = g.edges \ {e}
      /\ s.nextNode = g.nextNode /\ s.nextEdge = g.nextEdge
    BY DEF DeletedEdge, Rebuilt, Compacted, Graph
<1>3. Reads(l, g)
    BY LedgerReads
<1>4. IdsUnique(g.edges)
    BY DEF GraphOK, Consistent
<1> HIDE DEF s, l
<1>5. /\ IdsOf(s.edges) = IdsOf(g.edges) \ gone /\ e.id \in IdsOf(g.edges)
      /\ IdsOf(s.nodes) = IdsOf(g.nodes) \ none
    BY <1>2, <1>4 DEF IdsOf, IdsUnique
<1> HIDE DEF none, gone
<1>6. LedgerOf(s) = Shrunk(l, none, gone)
    <2>1. /\ s.nodes \subseteq g.nodes /\ s.edges \subseteq g.edges
          /\ s.nextNode = g.nextNode /\ s.nextEdge = g.nextEdge
        BY <1>2
    <2> QED
        BY <1>1, <1>3, <1>5, <2>1, DeletedReads
<1>7. Ledger!Without(l.nodes, none) = l.nodes
    BY <1>3 DEF Ledger!Without, Reads, none
<1>8. LedgerOf(s) = [l EXCEPT !.edges = Ledger!Without(l.edges, {e.id})]
    BY <1>3, <1>6, <1>7 DEF Reads, Shrunk, gone
<1>9. e.id \in DOMAIN l.edges
    BY <1>3, <1>5 DEF Reads
<1>10. LedgerOf(s) \in Ledger!EdgeDeleted(l)
    BY <1>8, <1>9 DEF Ledger!EdgeDeleted
<1> QED
    BY <1>10 DEF s, l

\* A node that goes, with its edges: NodeDeleted.
LEMMA NodeDeletedBy ==
    ASSUME NEW g \in Graph, GraphOK(g), NEW n \in g.nodes
    PROVE  LedgerOf(DeletedNode(g, n)) \in Ledger!NodeDeleted(LedgerOf(g))
<1> DEFINE s == DeletedNode(g, n)
           l == LedgerOf(g)
           J == {j \in DOMAIN l.edges : n.id \in {l.edges[j].src, l.edges[j].dst}}
<1>1. s \in Graph /\ GraphOK(s)
    BY DeletedNodeOK
<1>2. /\ s.nodes = g.nodes \ {n} /\ s.edges = g.edges \ Incident(g, n.id)
      /\ s.nextNode = g.nextNode /\ s.nextEdge = g.nextEdge
    BY DEF DeletedNode, Rebuilt, Compacted, Graph
<1>3. Reads(l, g)
    BY LedgerReads
<1>4. IdsUnique(g.nodes) /\ IdsUnique(g.edges)
    BY DEF GraphOK, Consistent
<1> HIDE DEF s, l
<1>5. \A e \in g.edges : e.id \in J <=> e \in Incident(g, n.id)
    <2> SUFFICES ASSUME NEW e \in g.edges PROVE e.id \in J <=> e \in Incident(g, n.id)
        OBVIOUS
    <2>1. e.id \in DOMAIN l.edges /\ l.edges[e.id] = EdgeEntry(e)
        BY <1>3 DEF Reads, IdsOf
    <2> QED
        BY <2>1 DEF EdgeEntry, Incident
<1> HIDE DEF J
<1>6. IdsOf(s.edges) = IdsOf(g.edges) \ J
    BY <1>2, <1>4, <1>5 DEF IdsOf, IdsUnique
<1>7. IdsOf(s.nodes) = IdsOf(g.nodes) \ {n.id} /\ n.id \in IdsOf(g.nodes)
    BY <1>2, <1>4 DEF IdsOf, IdsUnique
<1>8. LedgerOf(s) = Shrunk(l, {n.id}, J)
    <2>1. IdsOf(s.nodes) = IdsOf(g.nodes) \ {n.id} /\ s.nodes \subseteq g.nodes
          /\ s.edges \subseteq g.edges
        BY <1>2, <1>7
    <2> QED
        BY <1>1, <1>2, <1>3, <1>6, <2>1, DeletedReads
<1>9. n.id \in DOMAIN l.nodes
    BY <1>3, <1>7 DEF Reads
<1>10. LedgerOf(s) \in Ledger!NodeDeleted(l)
    BY <1>8, <1>9 DEF Ledger!NodeDeleted, J, Shrunk
<1> QED
    BY <1>10 DEF s, l
\* Nodes that come: NodesCreated.
LEMMA NodesCreatedBy ==
    ASSUME NEW g \in Graph, GraphOK(g), NEW b \in NodeBatches,
           NamesFree(g, NewNodes(g, b)), g.nextNode + Len(b) <= MaxNodes
    PROVE  LedgerOf(WithNodes(g, b)) \in Ledger!NodesCreated(LedgerOf(g))
<1> DEFINE s == WithNodes(g, b)
           l == LedgerOf(g)
           first == g.nextNode
           ids == first..(first + Len(b) - 1)
           new == NewNodes(g, b)
           M == Ledger!Named(first, b)
           F == Ledger!Extended(M, l.nodes)
           m == [l EXCEPT !.nodes = F, !.nextNode = @ + Len(b)]
<1>1. s \in Graph /\ GraphOK(s)
    BY WithNodesOK
<1>2. /\ s.edges = g.edges /\ s.nodes = g.nodes \cup new
      /\ s.nextNode = first + Len(b) /\ s.nextEdge = g.nextEdge
    BY DEF WithNodes, Graph
<1>3. /\ Len(b) \in Nat \ {0} /\ DOMAIN b = 1..Len(b)
      /\ \A i \in 1..Len(b) : b[i] \in Name \cup {NoName}
      /\ first \in Nat
    BY BatchFacts DEF NodeBatches, Graph
<1>4. Reads(l, g)
    BY LedgerReads
<1>5. /\ \A i \in ids : i - first + 1 \in 1..Len(b) /\ i = first + ((i - first + 1) - 1)
      /\ \A i \in 1..Len(b) : first + (i - 1) \in ids /\ (first + (i - 1)) - first + 1 = i
    <2>1. ASSUME NEW i \in ids
          PROVE  i - first + 1 \in 1..Len(b) /\ i = first + ((i - first + 1) - 1)
        BY <1>3
    <2>2. ASSUME NEW i \in 1..Len(b)
          PROVE  first + (i - 1) \in ids /\ (first + (i - 1)) - first + 1 = i
        BY <1>3
    <2> QED
        BY <2>1, <2>2
<1>6. DOMAIN M = ids
    BY DEF Ledger!Named, Ledger!Numbered
<1>7. ASSUME NEW i \in ids PROVE [id |-> i, ext |-> M[i]] \in new
    <2> DEFINE j == i - first + 1
    <2>1. j \in 1..Len(b) /\ i = first + (j - 1)
        BY <1>5
    <2>2. M[i] = IF b[j] = NoName THEN DefaultName(i) ELSE b[j]
        BY DEF Ledger!Named, Ledger!Numbered
    <2> HIDE DEF j
    <2> QED
        BY <1>3, <2>1, <2>2 DEF NewNodes
<1>8. ASSUME NEW k \in new PROVE k.id \in ids /\ M[k.id] = k.ext
    <2>1. PICK i \in 1..Len(b) :
            k = [id |-> first + (i - 1),
                 ext |-> IF b[i] = NoName THEN DefaultName(first + (i - 1)) ELSE b[i]]
        BY <1>3 DEF NewNodes
    <2>2. k.id = first + (i - 1) /\ k.id \in ids /\ k.id - first + 1 = i
        BY <1>5, <2>1
    <2>3. M[k.id] = IF b[i] = NoName THEN DefaultName(k.id) ELSE b[i]
        BY <2>2 DEF Ledger!Named, Ledger!Numbered
    <2> QED
        BY <2>1, <2>2, <2>3
<1>9. new \subseteq NodeRecord
    BY NewNodesFacts
<1>10. \A n \in g.nodes : n.id \in Nat /\ n.id < first
    BY DEF GraphOK, IdsBelow, Graph, NodeRecord
<1> HIDE DEF s, l, new, M
<1>11. M \in [ids -> Name]
    <2>1. M = [i \in ids |-> M[i]]
        BY DEF M, Ledger!Named, Ledger!Numbered
    <2>2. \A i \in ids : M[i] \in Name
        BY <1>7, <1>9 DEF NodeRecord
    <2> QED
        BY <2>1, <2>2
<1>12. IdsOf(new) = ids /\ IdsOf(s.nodes) = ids \cup IdsOf(g.nodes)
    <2>1. IdsOf(new) \subseteq ids
        BY <1>8 DEF IdsOf
    <2>2. ASSUME NEW i \in ids PROVE i \in IdsOf(new)
        <3>1. [id |-> i, ext |-> M[i]].id = i
            OBVIOUS
        <3> QED
            BY <1>7, <3>1 DEF IdsOf
    <2> QED
        BY <1>2, <2>1, <2>2 DEF IdsOf
<1>13. l.nodes \in [IdsOf(g.nodes) -> Name]
    BY <1>4 DEF Reads
<1>14. \A n \in g.nodes : n.id \notin ids /\ n.id \in IdsOf(g.nodes)
    BY <1>3, <1>10 DEF IdsOf
<1> HIDE DEF ids
<1>15. /\ F \in [IdsOf(s.nodes) -> Name]
       /\ \A i \in ids : F[i] = M[i]
       /\ \A i \in IdsOf(g.nodes) \ ids : F[i] = l.nodes[i]
    BY <1>11, <1>12, <1>13 DEF Ledger!Extended
<1> HIDE DEF F
<1>16. /\ m.nodes = F /\ m.edges = l.edges
       /\ m = [nodes |-> m.nodes, edges |-> m.edges,
               nextNode |-> s.nextNode, nextEdge |-> s.nextEdge]
    <2>1. m = [l EXCEPT !.nodes = F, !.nextNode = l.nextNode + Len(b)]
        OBVIOUS
    <2> HIDE DEF m
    <2>2. PICK a, c : l = [nodes |-> a, edges |-> c,
                           nextNode |-> first, nextEdge |-> s.nextEdge]
        BY <1>2, <1>4 DEF Reads
    <2> QED
        BY <1>2, <2>1, <2>2
<1> HIDE DEF m
<1>17. ASSUME NEW n \in s.nodes PROVE m.nodes[n.id] = n.ext
    <2>1. CASE n \in new
        BY <1>8, <1>15, <1>16, <2>1
    <2>2. CASE n \in g.nodes
        BY <1>4, <1>14, <1>15, <1>16, <2>2 DEF Reads
    <2> QED
        BY <1>2, <2>1, <2>2
<1>18. Reads(m, s)
    BY <1>2, <1>4, <1>15, <1>16, <1>17 DEF Reads
<1>19. m = LedgerOf(s)
    BY <1>1, <1>18, LedgerIs
<1>20. b \in Ledger!Drafts(Name \cup {NoName})
    BY DEF NodeBatches, Batches, Ledger!Drafts
<1>21. Ledger!NamesIn(M) \cap Ledger!NamesIn(l.nodes) = {}
    <2>1. ASSUME NEW i \in ids, NEW j \in IdsOf(g.nodes), M[i] = l.nodes[j] PROVE FALSE
        <3>1. PICK n \in g.nodes : n.id = j /\ n.ext = l.nodes[j]
            BY <1>4 DEF IdsOf, Reads
        <3>2. <<n.ext, n.id>> \in g.byName
            BY DEF GraphOK, IndexExact
        <3>3. [id |-> i, ext |-> M[i]] \in new /\ [id |-> i, ext |-> M[i]].ext = M[i]
            BY <1>7
        <3>4. <<n.ext, n.id>>[1] = n.ext
            OBVIOUS
        <3> QED
            BY <2>1, <3>1, <3>2, <3>3, <3>4 DEF NamesFree, new
    <2>2. DOMAIN M = ids /\ DOMAIN l.nodes = IdsOf(g.nodes)
        BY <1>11, <1>13
    <2> QED
        BY <2>1, <2>2 DEF Ledger!NamesIn
<1>22. \A i, j \in DOMAIN M : M[i] = M[j] => i = j
    <2> SUFFICES ASSUME NEW i \in ids, NEW j \in ids, M[i] = M[j] PROVE i = j
        BY <1>11
    <2> DEFINE p == [id |-> i, ext |-> M[i]]
               q == [id |-> j, ext |-> M[j]]
    <2>1. p \in new /\ q \in new
        BY <1>7
    <2>2. p.ext = q.ext => p = q
        BY <2>1 DEF NamesFree, new
    <2> QED
        BY <2>2
<1>23. l.nextNode = first
    BY <1>4 DEF Reads
<1>24. m \in Ledger!NodesCreated(l)
    BY <1>20, <1>21, <1>22, <1>23 DEF Ledger!NodesCreated, m, F, M
<1> QED
    BY <1>19, <1>24 DEF s, l

\* Edges that come: EdgesCreated.
LEMMA EdgesCreatedBy ==
    ASSUME NEW g \in Graph, GraphOK(g), NEW b \in EdgeBatches(g),
           g.nextEdge + Len(b) <= MaxEdges
    PROVE  LedgerOf(WithEdges(g, b)) \in Ledger!EdgesCreated(LedgerOf(g))
<1> DEFINE s == WithEdges(g, b)
           l == LedgerOf(g)
           first == g.nextEdge
           ids == first..(first + Len(b) - 1)
           new == NewEdges(g, b)
           Entries == [src : Nat, dst : Nat, prop : Prop]
           Ends == [src : IdsOf(g.nodes), dst : IdsOf(g.nodes), prop : Prop]
           M == Ledger!Numbered(first, b)
           F == Ledger!Extended(M, l.edges)
           m == [l EXCEPT !.edges = F, !.nextEdge = @ + Len(b)]
<1>1. s \in Graph /\ GraphOK(s)
    BY WithEdgesOK
<1>2. /\ s.nodes = g.nodes /\ s.edges = g.edges \cup new
      /\ s.nextNode = g.nextNode /\ s.nextEdge = first + Len(b)
    BY DEF WithEdges, Graph
<1>3. /\ Len(b) \in Nat \ {0} /\ DOMAIN b = 1..Len(b)
      /\ \A i \in 1..Len(b) : b[i] \in Ends
      /\ first \in Nat
    BY BatchFacts DEF EdgeBatches, Graph
<1>4. Reads(l, g)
    BY LedgerReads
<1>5. /\ \A i \in ids : i - first + 1 \in 1..Len(b) /\ i = first + ((i - first + 1) - 1)
      /\ \A i \in 1..Len(b) : first + (i - 1) \in ids /\ (first + (i - 1)) - first + 1 = i
    <2>1. ASSUME NEW i \in ids
          PROVE  i - first + 1 \in 1..Len(b) /\ i = first + ((i - first + 1) - 1)
        BY <1>3
    <2>2. ASSUME NEW i \in 1..Len(b)
          PROVE  first + (i - 1) \in ids /\ (first + (i - 1)) - first + 1 = i
        BY <1>3
    <2> QED
        BY <2>1, <2>2
<1>6. M = [i \in ids |-> b[i - first + 1]]
    BY DEF Ledger!Numbered
<1>7. IdsOf(g.nodes) \subseteq Nat
    BY DEF Graph, NodeRecord, IdsOf
<1>8. \A x \in Ends : EdgeEntry(x) = x /\ x \in Entries
    BY <1>7 DEF EdgeEntry
<1>9. \A e \in g.edges : e.id \in Nat /\ e.id < first
    BY DEF GraphOK, IdsBelow, Graph, EdgeRecord
<1> HIDE DEF s, l, M, Entries
<1>10. ASSUME NEW i \in ids PROVE M[i] \in Entries /\ i \in IdsOf(new)
    <2> DEFINE j == i - first + 1
    <2>1. j \in 1..Len(b) /\ i = first + (j - 1) /\ M[i] = b[j]
        BY <1>5, <1>6
    <2>2. M[i] \in Entries
        BY <1>3, <1>8, <2>1
    <2> HIDE DEF j
    <2>3. [id |-> i, src |-> b[j].src, dst |-> b[j].dst, prop |-> b[j].prop] \in new
        BY <1>3, <2>1 DEF NewEdges
    <2>4. [id |-> i, src |-> b[j].src, dst |-> b[j].dst, prop |-> b[j].prop].id = i
        OBVIOUS
    <2> HIDE DEF new, ids
    <2> QED
        BY <2>2, <2>3, <2>4 DEF IdsOf
<1>11. ASSUME NEW e \in new PROVE e.id \in ids /\ M[e.id] = EdgeEntry(e)
    <2>1. PICK i \in 1..Len(b) :
            e = [id |-> first + (i - 1),
                 src |-> b[i].src, dst |-> b[i].dst, prop |-> b[i].prop]
        BY <1>3 DEF NewEdges
    <2>2. e.id = first + (i - 1) /\ e.id \in ids /\ e.id - first + 1 = i
        BY <1>5, <2>1
    <2>3. M[e.id] = b[i]
        BY <1>6, <2>2
    <2>4. EdgeEntry(e) = EdgeEntry(b[i])
        BY <2>1 DEF EdgeEntry
    <2> QED
        BY <1>3, <1>8, <2>2, <2>3, <2>4
<1> HIDE DEF new
<1>12. IdsOf(new) = ids /\ IdsOf(s.edges) = ids \cup IdsOf(g.edges)
    <2>1. IdsOf(new) \subseteq ids
        BY <1>11 DEF IdsOf
    <2> QED
        BY <1>2, <1>10, <2>1 DEF IdsOf
<1>13. l.edges \in [IdsOf(g.edges) -> Entries]
    BY <1>4 DEF Reads, Entries
<1>14. M \in [ids -> Entries]
    BY <1>6, <1>10
<1>15. \A e \in g.edges : e.id \notin ids /\ e.id \in IdsOf(g.edges)
    BY <1>3, <1>9 DEF IdsOf
<1> HIDE DEF ids
<1>16. /\ F \in [IdsOf(s.edges) -> Entries]
       /\ \A i \in ids : F[i] = M[i]
       /\ \A i \in IdsOf(g.edges) \ ids : F[i] = l.edges[i]
    BY <1>12, <1>13, <1>14 DEF Ledger!Extended
<1> HIDE DEF F
<1>17. /\ m.edges = F /\ m.nodes = l.nodes
       /\ m = [nodes |-> m.nodes, edges |-> m.edges,
               nextNode |-> s.nextNode, nextEdge |-> s.nextEdge]
    <2>1. m = [l EXCEPT !.edges = F, !.nextEdge = l.nextEdge + Len(b)]
        OBVIOUS
    <2> HIDE DEF m
    <2>2. PICK a, c : l = [nodes |-> a, edges |-> c,
                           nextNode |-> s.nextNode, nextEdge |-> first]
        BY <1>2, <1>4 DEF Reads
    <2> QED
        BY <1>2, <2>1, <2>2
<1> HIDE DEF m
<1>18. ASSUME NEW e \in s.edges PROVE m.edges[e.id] = EdgeEntry(e)
    <2>1. CASE e \in new
        BY <1>11, <1>16, <1>17, <2>1
    <2>2. CASE e \in g.edges
        BY <1>4, <1>15, <1>16, <1>17, <2>2 DEF Reads
    <2> QED
        BY <1>2, <2>1, <2>2
<1>19. Reads(m, s)
    BY <1>2, <1>4, <1>16, <1>17, <1>18 DEF Reads, Entries
<1>20. m = LedgerOf(s)
    BY <1>1, <1>19, LedgerIs
<1>21. DOMAIN l.nodes = IdsOf(g.nodes) /\ l.nextEdge = first
    BY <1>4 DEF Reads
<1>22. b \in Ledger!Drafts([src : DOMAIN l.nodes, dst : DOMAIN l.nodes, prop : Prop])
    BY <1>21 DEF EdgeBatches, Batches, Ledger!Drafts
<1>23. m \in Ledger!EdgesCreated(l)
    BY <1>21, <1>22 DEF Ledger!EdgesCreated, m, F, M
<1> QED
    BY <1>20, <1>23 DEF s, l

\* A statement on a graph is a statement on its ledger, or changes nothing there.
LEMMA StatementBy ==
    ASSUME NEW g \in Graph, GraphOK(g), NEW s \in InPlaceChanges(g) \cup StagedAppends(g)
    PROVE  LedgerOf(s) = LedgerOf(g) \/ LedgerOf(s) \in Ledger!Statement(LedgerOf(g))
<1>1. CASE s \in NodeUpdates(g)
    <2>1. PICK p \in g.nodes \X Name :
            ~NameTakenByOther(g, p[1].id, p[2]) /\ s = UpdatedNode(g, p[1], p[2])
        BY <1>1 DEF NodeUpdates
    <2>2. p[1] \in g.nodes /\ p[2] \in Name
        OBVIOUS
    <2> QED
        BY <2>1, <2>2, NodeRenamedBy DEF Ledger!Statement
<1>2. CASE s \in EdgeUpdates(g)
    <2>1. PICK e \in g.edges, x \in Prop : s = UpdatedEdge(g, e, x)
        BY <1>2 DEF EdgeUpdates
    <2> QED
        BY <2>1, EdgeChangedBy DEF Ledger!Statement
<1>3. CASE s \in EdgeDeletions(g)
    <2>1. PICK e \in g.edges : s = DeletedEdge(g, e)
        BY <1>3 DEF EdgeDeletions
    <2> QED
        BY <2>1, EdgeDeletedBy DEF Ledger!Statement
<1>4. CASE s \in NodeDeletions(g, TRUE) \cup NodeDeletions(g, FALSE)
    <2>1. PICK n \in g.nodes : s = DeletedNode(g, n)
        BY <1>4 DEF NodeDeletions
    <2> QED
        BY <2>1, NodeDeletedBy DEF Ledger!Statement
<1>5. CASE s \in StagedAppends(g)
    <2>1. \/ \E b \in NodeBatches : /\ NamesFree(g, NewNodes(g, b))
                                    /\ g.nextNode + Len(b) <= MaxNodes
                                    /\ s = WithNodes(g, b)
          \/ \E b \in EdgeBatches(g) : /\ g.nextEdge + Len(b) <= MaxEdges
                                       /\ s = WithEdges(g, b)
        BY <1>5 DEF StagedAppends
    <2> QED
        BY <2>1, NodesCreatedBy, EdgesCreatedBy DEF Ledger!Statement
<1> QED
    BY <1>1, <1>2, <1>3, <1>4, <1>5 DEF InPlaceChanges

---------------------------------------------------------------------------
(* Statements one after the other *)

\* Where one more statement leads from the ledgers of L.
OneMore(L) == UNION {Ledger!Statement(m) : m \in L}

\* A function on 0..n that follows the recursion of After.
Follows(f, l, n) == f = [k \in 0..n |-> IF k = 0 THEN {l} ELSE OneMore(f[k - 1])]

\* There is one for every n: the least n without one would have one.
LEMMA RecursionFollowed ==
    ASSUME NEW l, NEW n \in Nat
    PROVE  \E f : Follows(f, l, n)
<1> DEFINE Bad == {i \in Nat : ~\E f : Follows(f, l, i)}
<1> SUFFICES ASSUME Bad # {} PROVE FALSE
    OBVIOUS
<1>1. PICK i \in Bad : \A j \in Bad : i <= j
    <2>1. PICK i \in Bad : \A j \in Bad : <<j, i>> \notin OpToRel(<, Nat)
        BY NatLessThanWellFounded, WFMin
    <2>2. ASSUME NEW j \in Bad PROVE i <= j
        <3>1. j \in Nat /\ i \in Nat
            OBVIOUS
        <3> HIDE DEF Bad
        <3>2. ~(j < i)
            BY <2>1, <3>1, Zenon DEF OpToRel
        <3> QED
            BY <3>1, <3>2
    <2> QED
        BY <2>2
<1>2. CASE i = 0
    <2> DEFINE f == [k \in 0..0 |-> {l}]
    <2>1. Follows(f, l, 0)
        BY DEF Follows
    <2> QED
        BY <1>2, <2>1
<1>3. CASE i # 0
    <2>1. i - 1 \in Nat /\ i - 1 \notin Bad
        BY <1>1, <1>3
    <2>2. PICK f : Follows(f, l, i - 1)
        BY <2>1
    <2> DEFINE g == [k \in 0..i |-> IF k = 0 THEN {l} ELSE OneMore(f[k - 1])]
    <2>3. ASSUME NEW k \in 0..(i - 1) PROVE g[k] = f[k]
        <3>1. f[k] = IF k = 0 THEN {l} ELSE OneMore(f[k - 1])
            BY <2>2 DEF Follows
        <3>2. k \in 0..i
            BY <2>1
        <3> QED
            BY <3>1, <3>2
    <2>4. ASSUME NEW k \in 0..i PROVE g[k] = IF k = 0 THEN {l} ELSE OneMore(g[k - 1])
        <3>1. k # 0 => k - 1 \in 0..(i - 1)
            BY <2>1
        <3> QED
            BY <2>3, <3>1
    <2>5. Follows(g, l, i)
        BY <2>4 DEF Follows
    <2> QED
        BY <2>5
<1> QED
    BY <1>2, <1>3

\* So After(l) follows it.
LEMMA AfterFollows ==
    ASSUME NEW l
    PROVE  /\ Ledger!After(l)[0] = {l}
           /\ \A k \in 1..MaxStatements :
                Ledger!After(l)[k] = OneMore(Ledger!After(l)[k - 1])
<1>1. MaxStatements \in Nat
    BY BoundAssumption
<1>2. Ledger!After(l) = CHOOSE f : Follows(f, l, MaxStatements)
    BY DEF Ledger!After, Follows, OneMore
<1>3. Follows(Ledger!After(l), l, MaxStatements)
    BY <1>1, <1>2, RecursionFollowed
<1>4. \A k \in 0..MaxStatements :
        Ledger!After(l)[k] = IF k = 0 THEN {l} ELSE OneMore(Ledger!After(l)[k - 1])
    BY <1>3 DEF Follows
<1> QED
    BY <1>1, <1>4

\* One more statement leads one further.
LEMMA AfterOneMore ==
    ASSUME NEW l, NEW k \in 1..MaxStatements, NEW m \in Ledger!After(l)[k - 1],
           NEW n \in Ledger!Statement(m)
    PROVE  n \in Ledger!After(l)[k]
BY AfterFollows DEF OneMore

---------------------------------------------------------------------------
(* What a transaction stages *)

\* As long as its commit can succeed, a few statements lead from its handle's
\* graph to what a transaction has staged.
StagedRuns ==
    \A t \in Tx : MayCommit(t) =>
        \E k \in 0..tx[t].ran :
            LedgerOf(tx[t].staged) \in Ledger!After(LedgerOf(core[tx[t].handle]))[k]

\* No transaction has begun in the first state.
LEMMA RunsInit == Init => StagedRuns
BY DEF Init, StagedRuns, MayCommit, IdleTx

\* A begin stages what no statement leads to, and a statement leads one further.
LEMMA RunsNext == IInv /\ IInv' /\ StagedRuns /\ [Next]_vars => StagedRuns'
<1> SUFFICES ASSUME IInv, IInv', StagedRuns, [Next]_vars, NEW t \in Tx, MayCommit(t)'
             PROVE  \E k \in 0..tx'[t].ran :
                        LedgerOf(tx'[t].staged)
                            \in Ledger!After(LedgerOf(core'[tx'[t].handle]))[k]
    BY DEF StagedRuns
<1>1. CASE Began(t)
    BY <1>1, AfterFollows DEF Began
<1>2. CASE Stayed(t)
    <2>1. LedgerOf(core'[tx'[t].handle]) = LedgerOf(core[tx[t].handle])
        BY <1>2 DEF Stayed, SameIds, LedgerOf
    <2> QED
        BY <1>2, <2>1 DEF Stayed, StagedRuns
<1>3. CASE RanStatement(t)
    <2> DEFINE l == LedgerOf(core[tx[t].handle])
               m == LedgerOf(tx[t].staged)
               n == LedgerOf(tx'[t].staged)
    <2>1. PICK k \in 0..tx[t].ran : m \in Ledger!After(l)[k]
        BY <1>3 DEF RanStatement, StagedRuns
    <2>2. tx[t] \in ActiveTx /\ tx[t].staged \in Graph /\ GraphOK(tx[t].staged)
        BY <1>3, ActiveType DEF RanStatement, MayCommit, ActiveTx, IInv, StagedOK
    <2>3. n = m \/ n \in Ledger!Statement(m)
        BY <1>3, <2>2, StatementBy DEF RanStatement
    <2>4. tx'[t] \in ActiveTx
        BY DEF MayCommit, IInv, TypeOK, IdleTx
    <2>5. tx[t].ran \in Nat /\ tx'[t].ran = tx[t].ran + 1 /\ tx'[t].ran <= MaxStatements
        <3>1. tx[t].ran \in 0..MaxStatements
            BY <2>2 DEF ActiveTx
        <3>2. tx'[t].ran \in 0..MaxStatements
            BY <2>4 DEF ActiveTx
        <3> QED
            BY <1>3, <3>1, <3>2, BoundAssumption DEF RanStatement
    <2>6. core'[tx'[t].handle] = core[tx[t].handle]
        BY <1>3 DEF RanStatement
    <2> HIDE DEF l, m, n
    <2>7. CASE n = m
        <3>1. k \in 0..tx'[t].ran
            BY <2>5
        <3> QED
            BY <2>1, <2>6, <2>7, <3>1 DEF l, n
    <2>8. CASE n \in Ledger!Statement(m)
        <3>1. k + 1 \in 1..MaxStatements /\ k + 1 \in 0..tx'[t].ran /\ (k + 1) - 1 = k
            BY <2>5, BoundAssumption
        <3>2. n \in Ledger!After(l)[k + 1]
            BY <2>1, <2>8, <3>1, AfterOneMore
        <3> QED
            BY <2>6, <3>1, <3>2 DEF l, n
    <2> QED
        BY <2>3, <2>7, <2>8
<1> QED
    BY <1>1, <1>2, <1>3, StepFollowed DEF Followed

---------------------------------------------------------------------------
(* Steps *)

\* The ledger of the rows is that of a graph that matches them.
LEMMA StoredIs ==
    ASSUME NEW g, NEW d, Matches(g, d)
    PROVE  LedgerOf(g) = LedgerOf([nodes |-> d.nodes, edges |-> d.edges,
                                   nextNode |-> LoadedNextNode(d),
                                   nextEdge |-> LoadedNextEdge(d)])
BY DEF Matches, RecordsOf, LedgerOf

\* A step that leaves records and stored counters alone leaves the ledger alone.
LEMMA SameLedger ==
    ASSUME db'.nodes = db.nodes, db'.edges = db.edges,
           db'.nextNode = db.nextNode, db'.nextEdge = db.nextEdge
    PROVE  StoredLedger' = StoredLedger
BY DEF StoredLedger, LoadedNextNode, LoadedNextEdge

\* A write of what some statements lead to from the handle's graph is a transaction.
LEMMA WriteTransacts ==
    ASSUME IInv, NEW h \in Handle, Current(h), NEW g, Matches(g, db'),
           NEW k \in 0..MaxStatements, LedgerOf(g) \in Ledger!After(LedgerOf(core[h]))[k]
    PROVE  Ledger!Transaction \/ StoredLedger' = StoredLedger
<1>1. StoredLedger = LedgerOf(core[h])
    BY CurrentFacts, StoredIs DEF StoredLedger
<1>2. StoredLedger' = LedgerOf(g)
    BY StoredIs DEF StoredLedger
<1>3. CASE k = 0
    BY <1>1, <1>2, <1>3, AfterFollows
<1>4. CASE k # 0
    <2>1. k \in 1..MaxStatements
        BY <1>4
    <2>2. StoredLedger' \in Ledger!After(StoredLedger)[k]
        BY <1>1, <1>2
    <2> QED
        BY <2>1, <2>2 DEF Ledger!Transaction
<1> QED
    BY <1>3, <1>4

\* So is a write of one statement.
LEMMA OneTransacts ==
    ASSUME IInv, MaxStatements >= 1, NEW h \in Handle, Current(h), NEW g, Matches(g, db'),
           \/ LedgerOf(g) = LedgerOf(core[h])
           \/ LedgerOf(g) \in Ledger!Statement(LedgerOf(core[h]))
    PROVE  Ledger!Transaction \/ StoredLedger' = StoredLedger
<1>1. 0 \in 0..MaxStatements /\ 1 \in 0..MaxStatements /\ 1 \in 1..MaxStatements
    BY BoundAssumption
<1>2. LedgerOf(core[h]) \in Ledger!After(LedgerOf(core[h]))[0]
    BY AfterFollows
<1>3. CASE LedgerOf(g) = LedgerOf(core[h])
    BY <1>1, <1>2, <1>3, WriteTransacts
<1>4. CASE LedgerOf(g) \in Ledger!Statement(LedgerOf(core[h]))
    <2>1. 1 - 1 = 0
        OBVIOUS
    <2>2. LedgerOf(g) \in Ledger!After(LedgerOf(core[h]))[1]
        BY <1>1, <1>2, <1>4, <2>1, AfterOneMore
    <2> QED
        BY <1>1, <2>2, WriteTransacts
<1> QED
    BY <1>3, <1>4

\* The graph a commit publishes has the ledger of the staged one.
LEMMA PublishedLedger ==
    ASSUME NEW g, NEW s \in Graph
    PROVE  LedgerOf(Published(g, s)) = LedgerOf(s)
<1>1. /\ Published(g, s).nodes = s.nodes /\ Published(g, s).edges = s.edges
      /\ Published(g, s).nextNode = s.nextNode /\ Published(g, s).nextEdge = s.nextEdge
    BY RebuiltFacts DEF Published, SameGraph, Graph
<1> QED
    BY <1>1 DEF LedgerOf

\* A commit, staged or not.
LEMMA CommitTransacts ==
    ASSUME IInv, NEW h \in Handle, NEW s \in Graph, GraphOK(s), NEW base \in Nat,
           CommitStaged(h, s, base)
    PROVE  /\ Current(h) /\ Matches(Published(core[h], s), db')
           /\ LedgerOf(Published(core[h], s)) = LedgerOf(s)
BY CommitFacts, PublishedLedger

\* Every step whose commits are clean is a transaction of the ledger, or none.
LEMMA StepTransacts ==
    ASSUME IInv, StagedRuns, MaxStatements >= 1, Next,
           \A t \in Tx : CommitsIn(t) => tx[t].clean
    PROVE  Ledger!Transaction \/ StoredLedger' = StoredLedger
<1>1. ASSUME db' = db PROVE StoredLedger' = StoredLedger
    BY <1>1, SameLedger
<1>2. ASSUME NEW h \in Handle, Mutate(h)
      PROVE  Ledger!Transaction \/ StoredLedger' = StoredLedger
    <2>1. PICK s \in InPlaceChanges(core[h]) : CommitStaged(h, s, version[h])
        BY <1>2 DEF Mutate
    <2>2. core[h] \in Graph /\ GraphOK(core[h]) /\ version[h] \in Nat
        BY DEF IInv, TypeOK, CoresOK
    <2>3. s \in Graph /\ GraphOK(s)
        BY <2>2, InPlaceOK
    <2>4. /\ Current(h) /\ Matches(Published(core[h], s), db')
          /\ LedgerOf(Published(core[h], s)) = LedgerOf(s)
        BY <2>1, <2>2, <2>3, CommitTransacts
    <2>5. LedgerOf(s) = LedgerOf(core[h]) \/ LedgerOf(s) \in Ledger!Statement(LedgerOf(core[h]))
        BY <2>2, StatementBy
    <2> QED
        BY <2>4, <2>5, OneTransacts
<1>3. ASSUME NEW h \in Handle, NEW b \in NodeBatches, AddNodes(h, b)
      PROVE  Ledger!Transaction \/ StoredLedger' = StoredLedger
    <2>1. /\ Current(h) /\ NamesFree(core[h], NewNodes(core[h], b))
          /\ core[h].nextNode + Len(b) <= MaxNodes
          /\ db' = InsertNodeRows(db, NewNodes(core[h], b))
        BY <1>3 DEF AddNodes
    <2>2. /\ core[h] \in Graph /\ GraphOK(core[h])
          /\ db \in Database /\ DatabaseOK(db) /\ Matches(core[h], db)
        BY <2>1, CurrentFacts
    <2>3. Matches(WithNodes(core[h], b), db')
        BY <2>1, <2>2, NodesWritten
    <2>4. LedgerOf(WithNodes(core[h], b)) \in Ledger!Statement(LedgerOf(core[h]))
        BY <2>1, <2>2, NodesCreatedBy DEF Ledger!Statement
    <2> QED
        BY <2>1, <2>3, <2>4, OneTransacts
<1>4. ASSUME NEW h \in Handle, NEW b \in EdgeBatches(core[h]), AppendEdges(h, b)
      PROVE  Ledger!Transaction \/ StoredLedger' = StoredLedger
    <2>1. Current(h) /\ Matches(WithEdges(core[h], b), db')
        BY <1>4, AppendFacts
    <2>2. core[h] \in Graph /\ GraphOK(core[h]) /\ core[h].nextEdge + Len(b) <= MaxEdges
        BY <1>4, <2>1, CurrentFacts DEF AppendEdges
    <2>3. LedgerOf(WithEdges(core[h], b)) \in Ledger!Statement(LedgerOf(core[h]))
        BY <2>2, EdgesCreatedBy DEF Ledger!Statement
    <2> QED
        BY <2>1, <2>3, OneTransacts
<1>5. ASSUME NEW h \in Handle, NEW o \in IdsOf(core[h].nodes), AddVariable(h, o)
      PROVE  StoredLedger' = StoredLedger
    <2>1. /\ db'.nodes = db.nodes /\ db'.edges = db.edges
          /\ db'.nextNode = db.nextNode /\ db'.nextEdge = db.nextEdge
        BY <1>5 DEF AddVariable, IInv, TypeOK, Database
    <2> QED
        BY <2>1, SameLedger
<1>6. ASSUME NEW t \in Tx, Commit(t)
      PROVE  Ledger!Transaction \/ StoredLedger' = StoredLedger
    <2>1. /\ tx[t].active /\ CommitStaged(tx[t].handle, tx[t].staged, tx[t].base)
          /\ tx' = [tx EXCEPT ![t] = IdleTx]
        BY <1>6 DEF Commit
    <2>2. tx[t] \in ActiveTx
        BY <2>1, ActiveType DEF IInv
    <2>3. /\ tx[t].handle \in Handle /\ tx[t].staged \in Graph /\ tx[t].base \in Nat
          /\ GraphOK(tx[t].staged) /\ tx[t].ran \in 0..MaxStatements
        BY <2>1, <2>2 DEF ActiveTx, IInv, StagedOK
    <2>4. db'.seq = db.seq + 1
        BY <2>1, <2>3, CommitFacts
    <2>5. CommitsIn(t)
        BY <2>1, <2>4 DEF CommitsIn, IInv, TypeOK, Database, IdleTx
    <2>6. tx[t].base = version[tx[t].handle]
        BY <2>1 DEF CommitStaged
    <2>7. PICK k \in 0..tx[t].ran :
            LedgerOf(tx[t].staged) \in Ledger!After(LedgerOf(core[tx[t].handle]))[k]
        BY <2>1, <2>5, <2>6 DEF StagedRuns, MayCommit
    <2>8. /\ Current(tx[t].handle)
          /\ Matches(Published(core[tx[t].handle], tx[t].staged), db')
          /\ LedgerOf(Published(core[tx[t].handle], tx[t].staged)) = LedgerOf(tx[t].staged)
        BY <2>1, <2>3, CommitTransacts
    <2>9. k \in 0..MaxStatements
        BY <2>3, BoundAssumption
    <2> QED
        BY <2>3, <2>7, <2>8, <2>9, WriteTransacts
<1>7. ASSUME NEW h \in Handle, Open(h) \/ Refresh(h) \/ Close(h) \/ Compact(h) PROVE db' = db
    BY <1>7 DEF Open, Refresh, Close, Compact
<1>8. ASSUME NEW t \in Tx, (\E h \in Handle : Begin(t, h)) \/ Run(t) \/ Finish(t) PROVE db' = db
    BY <1>8 DEF Begin, Run, Finish
<1>9. ASSUME Crash \/ LoadFails PROVE db' = db
    BY <1>9 DEF Crash, LoadFails
<1>10. ASSUME NEW h \in Handle, NEW b \in EdgeBatches(core[h]),
              AddEdges(h, b) \/ AddEdgesSaveFails(h, b)
       PROVE  AppendEdges(h, b)
    BY <1>10 DEF AddEdges, AddEdgesSaveFails
<1> QED
    BY <1>1, <1>2, <1>3, <1>4, <1>5, <1>6, <1>7, <1>8, <1>9, <1>10 DEF Next

\* An empty database is an empty ledger.
LEMMA EmptyStored == Init => Ledger!LedgerInit
<1> SUFFICES ASSUME Init PROVE StoredLedger = Ledger!EmptyLedger
    BY DEF Ledger!LedgerInit
<1>1. /\ db.nodes = {} /\ db.edges = {} /\ db.nextNode = 0 /\ db.nextEdge = 0
    BY DEF Init, EmptyDatabase
<1>2. IdsOf(db.nodes) = {} /\ IdsOf(db.edges) = {}
    BY <1>1 DEF IdsOf
<1>3. LoadedNextNode(db) = 0 /\ LoadedNextEdge(db) = 0
    BY <1>1, <1>2 DEF LoadedNextNode, LoadedNextEdge, NextAfter, MaxOf
<1>4. \A f : DOMAIN f = {} /\ f = [i \in DOMAIN f |-> f[i]] => f = <<>>
    OBVIOUS
<1>5. StoredLedger.nodes = <<>> /\ StoredLedger.edges = <<>>
    BY <1>2, <1>4 DEF StoredLedger, LedgerOf
<1> QED
    BY <1>3, <1>5 DEF StoredLedger, LedgerOf, Ledger!EmptyLedger

\* Whatever the handles hold in memory, and however their transactions overlap, the
\* rows change only as if transactions of a few statements ran one after the other on
\* the rows as they were, as long as no transaction commits over a refresh or a failed
\* compaction of its handle (lifecycle.rs:198-231).
THEOREM LedgerImplemented ==
    ASSUME MaxStatements >= 1
    PROVE  Spec /\ CleanCommits => ImplementsLedger
<1>1. Spec => []IInv /\ []StagedRuns
    BY Invariant, NextInv, RunsInit, RunsNext, PTL DEF Spec
<1>2. IInv /\ StagedRuns /\ [Next]_vars
        /\ [\A t \in Tx : CommitsIn(t) => tx[t].clean]_vars
            => [Ledger!Transaction]_StoredLedger
    <2>1. ASSUME UNCHANGED vars PROVE StoredLedger' = StoredLedger
        BY <2>1, SameLedger DEF vars
    <2>2. ASSUME IInv, StagedRuns, Next, \A t \in Tx : CommitsIn(t) => tx[t].clean
          PROVE  Ledger!Transaction \/ StoredLedger' = StoredLedger
        BY <2>2, StepTransacts
    <2> QED
        BY <2>1, <2>2
<1> QED
    BY <1>1, <1>2, EmptyStored, PTL
        DEF Spec, CleanCommits, ImplementsLedger, Ledger!LedgerSpec

\* Without refreshes of a handle whose transaction is open, and without failed saves,
\* every commit is clean and nothing more has to be assumed.
THEOREM LedgerImplementedWhileSaved ==
    ASSUME MaxStatements >= 1, RefreshInTx = FALSE, MaxFaults = 0
    PROVE  Spec => ImplementsLedger
BY LedgerImplemented, CommitsClean, PTL
=============================================================================
