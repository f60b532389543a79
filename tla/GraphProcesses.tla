--------------------------- MODULE GraphProcesses ---------------------------
(***************************************************************************)
(* Operating-system processes, each with one graph handle on the same      *)
(* SQLite file.  SQLite makes each SELECT and each write transaction atomic*)
(* and nothing more: loading a graph is one SELECT after the other, and a  *)
(* write compares the operation log, writes in a transaction of its own,   *)
(* and reads the log again.  Every such step is an action here, so steps of*)
(* other processes fall between them.                                      *)
(*                                                                         *)
(* In memory a process does what GraphState says.  The sidecar, owners and *)
(* explicit transactions are in GraphHandles; a change set here is that of *)
(* a single update, deletion or autocommit statement.                      *)
(***************************************************************************)
EXTENDS GraphTypes

CONSTANTS
    Process,   \* processes that open the database
    MaxSeq     \* bound: committed database transactions

VARIABLES
    db,     \* the SQLite database
    phase,  \* phase[p]: which step of an operation comes next
    core,   \* core[p]: the graph in memory
    load,   \* load[p]: the graph an open or a refresh is reading
    seen,   \* seen[p]: store_op_seq, NotOpen before the first open
    plan,   \* plan[p]: the write that passed the stale-handle check
    raced,  \* raced[p]: history, another process committed inside an operation
    harmed  \* history: a raced process has committed

vars == <<db, phase, core, load, seen, plan, raced, harmed>>

NotOpen == -1
NoPlan == [kind |-> "none"]

Init ==
    /\ db = EmptyDatabase
    /\ phase = [p \in Process |-> "idle"]
    /\ core = [p \in Process |-> EmptyGraph]
    /\ load = [p \in Process |-> EmptyGraph]
    /\ seen = [p \in Process |-> NotOpen]
    /\ plan = [p \in Process |-> NoPlan]
    /\ raced = [p \in Process |-> FALSE]
    /\ harmed = FALSE

Go(p, next) == phase' = [phase EXCEPT ![p] = next]

---------------------------------------------------------------------------
(* GraphCore::open, for a new handle or a refreshed one *)

ReadNodes(p) ==
    /\ phase[p] = "idle"
    /\ load' = [load EXCEPT ![p] = [EmptyGraph EXCEPT !.nodes = db.nodes,
                                                      !.slots = NextAfter(IdsOf(db.nodes))]]
    /\ raced' = [raced EXCEPT ![p] = FALSE]
    /\ Go(p, "read edges")
    /\ UNCHANGED <<db, core, seen, plan, harmed>>

\* An edge whose endpoints were not among the nodes read makes open fail; a
\* refreshed handle then keeps what it had, and what it had missed.
ReadEdges(p) ==
    /\ phase[p] = "read edges"
    /\ IF EdgesLoadable([db EXCEPT !.nodes = load[p].nodes])
       THEN /\ load' = [load EXCEPT ![p].edges = db.edges]
            /\ Go(p, "read next node")
            /\ UNCHANGED raced
       ELSE /\ load' = [load EXCEPT ![p] = EmptyGraph]
            /\ Go(p, "idle")
            /\ raced' = [raced EXCEPT ![p] = TRUE]
    /\ UNCHANGED <<db, core, seen, plan, harmed>>

ReadNextNode(p) ==
    /\ phase[p] = "read next node"
    /\ load' = [load EXCEPT ![p].nextNode = MaxOf(load[p].slots, db.nextNode)]
    /\ Go(p, "read next edge")
    /\ UNCHANGED <<db, core, seen, plan, raced, harmed>>

ReadNextEdge(p) ==
    /\ phase[p] = "read next edge"
    /\ load' = [load EXCEPT ![p].nextEdge = MaxOf(NextAfter(IdsOf(load[p].edges)), db.nextEdge)]
    /\ Go(p, "read seq")
    /\ UNCHANGED <<db, core, seen, plan, raced, harmed>>

ReadSeq(p) ==
    /\ phase[p] = "read seq"
    /\ core' = [core EXCEPT ![p] = Rebuilt(load[p])]
    /\ load' = [load EXCEPT ![p] = EmptyGraph]
    /\ seen' = [seen EXCEPT ![p] = db.seq]
    /\ Go(p, "idle")
    /\ UNCHANGED <<db, plan, raced, harmed>>

---------------------------------------------------------------------------
(* A write: the check, the database transaction, the log position again *)

Inserts(g) ==
    {[kind |-> "insert", nodes |-> NewNodes(g, b), edges |-> {}, result |-> WithNodes(g, b)] :
        b \in {x \in NodeBatches : NamesFree(g, NewNodes(g, x))}}
    \cup
    {[kind |-> "insert", nodes |-> {}, edges |-> NewEdges(g, b), result |-> WithEdges(g, b)] :
        b \in EdgeBatches(g)}

Staged(g) == InPlaceChanges(g) \cup {i.result : i \in Inserts(g)}

ChangeSets(g) ==
    {[kind |-> "changes", changes |-> GraphChanges(g, s), result |-> Rebuilt(s)] :
        s \in {x \in Staged(g) : ~NoChanges(GraphChanges(g, x))}}

Plans(g) == {w \in Inserts(g) \cup ChangeSets(g) :
                w.result.nextNode <= MaxNodes /\ w.result.nextEdge <= MaxEdges}

\* Wrong variant: any open handle may write.
AnyHandleCurrent(p) == seen[p] # NotOpen

\* ensure_store_current
CurrentHandle(p) == seen[p] = db.seq

Check(p) ==
    /\ phase[p] = "idle"
    /\ CurrentHandle(p)
    /\ \E w \in Plans(core[p]) : plan' = [plan EXCEPT ![p] = w]
    /\ Go(p, "write")
    /\ UNCHANGED <<db, core, load, seen, raced, harmed>>

\* The constraints of the tables reject the rows.
Rejected(w) ==
    IF w.kind = "insert"
    THEN NodeRowsClash(db, w.nodes) \/ EdgeRowsClash(db, w.edges)
    ELSE UpsertClash(db, w.changes)

\* The others in the middle of an operation will have missed this commit.
RacedBy(p) == [q \in Process |-> raced[q] \/ (q # p /\ phase[q] # "idle")]

WriteRows(p) ==
    /\ phase[p] = "write"
    /\ ~Rejected(plan[p])
    /\ db.seq < MaxSeq
    /\ db' = IF plan[p].kind = "changes" THEN ApplyChanges(db, plan[p].changes)
             ELSE IF plan[p].edges = {} THEN InsertNodeRows(db, plan[p].nodes)
             ELSE InsertEdgeRows(db, plan[p].edges)
    /\ raced' = RacedBy(p)
    /\ harmed' = (harmed \/ raced[p])
    /\ Go(p, "publish")
    /\ UNCHANGED <<core, load, seen, plan>>

\* A constraint, or the write lock not granted within the busy timeout.
WriteFails(p) ==
    /\ phase[p] = "write"
    /\ plan' = [plan EXCEPT ![p] = NoPlan]
    /\ Go(p, "idle")
    /\ UNCHANGED <<db, core, load, seen, raced, harmed>>

Publish(p) ==
    /\ phase[p] = "publish"
    /\ core' = [core EXCEPT ![p] = plan[p].result]
    /\ seen' = [seen EXCEPT ![p] = db.seq]
    /\ plan' = [plan EXCEPT ![p] = NoPlan]
    /\ Go(p, "idle")
    /\ UNCHANGED <<db, load, raced, harmed>>

\* The process ends, between any two steps; another may take its place.
Die(p) ==
    /\ seen[p] # NotOpen \/ phase[p] # "idle"
    /\ core' = [core EXCEPT ![p] = EmptyGraph]
    /\ load' = [load EXCEPT ![p] = EmptyGraph]
    /\ seen' = [seen EXCEPT ![p] = NotOpen]
    /\ plan' = [plan EXCEPT ![p] = NoPlan]
    /\ raced' = [raced EXCEPT ![p] = FALSE]
    /\ Go(p, "idle")
    /\ UNCHANGED <<db, harmed>>

Next ==
    \E p \in Process :
        \/ ReadNodes(p) \/ ReadEdges(p) \/ ReadNextNode(p) \/ ReadNextEdge(p) \/ ReadSeq(p)
        \/ Check(p) \/ WriteRows(p) \/ WriteFails(p) \/ Publish(p)
        \/ Die(p)

Spec == Init /\ [][Next]_vars

---------------------------------------------------------------------------
(* Properties *)

InMemory(p) == /\ RecordsOf(core[p]) = RecordsOf(db)
               /\ core[p].nextNode = LoadedNextNode(db)
               /\ core[p].nextEdge = LoadedNextEdge(db)

\* The comparison with the operation log misses a commit of another process
\* only if that commit fell inside an open, a refresh or a write of this one
\* (lifecycle.rs:41-96, :233-253): any other stale handle is caught.
CheckMissesOnlyRaces ==
    \A p \in Process :
        phase[p] = "idle" /\ CurrentHandle(p) /\ ~raced[p] => InMemory(p)

\* And until a process that missed a commit commits itself, the database is a
\* graph every process can open (entities.rs:115-163).
OnlyRacesHarm == ~harmed => Consistent(db)

\* The allocator never goes back and ids are handed out once, as long as no
\* raced process has committed: "deleted IDs are not reused after reopening"
\* (persistence.md:81).
IdsReusedOnlyInRaces ==
    [][~harmed' =>
        /\ LoadedNextNode(db') >= LoadedNextNode(db)
        /\ LoadedNextEdge(db') >= LoadedNextEdge(db)
        /\ \A i \in IdsOf(db'.nodes) \ IdsOf(db.nodes) : i >= LoadedNextNode(db)
        /\ \A i \in IdsOf(db'.edges) \ IdsOf(db.edges) : i >= LoadedNextEdge(db)]_vars

\* A process writes only over the records it has in memory: "stale handles
\* raise a refresh-required error before writing" (persistence.md:75).
StaleHandlesNeverWrite ==
    [][\A p \in Process : phase[p] = "write" /\ phase'[p] = "publish" => InMemory(p)]_vars
=============================================================================
