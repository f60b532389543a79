--------------------------- MODULE DerivedIndexes ---------------------------
(***************************************************************************)
(* Full-text and vector indexes in memory and in SQLite, beside the nodes  *)
(* and edges they are about, for processes with a handle each.             *)
(*                                                                         *)
(* FTS5 rows are in the database only and are derived: every graph commit  *)
(* brings them up to date and every open writes them again.  Vectors are   *)
(* in memory too, and are data of their own.  A SELECT and a write         *)
(* transaction are each a step; steps of other processes fall between.     *)
(*                                                                         *)
(* A record is [kind, id, at, text]: an edge is a loop at the node `at`,   *)
(* and a text is there or not.  A definition is [name, kind].  What there  *)
(* is to search in is in IndexSearch.                                      *)
(***************************************************************************)
EXTENDS Integers, Sequences, FiniteSetsExt

CONSTANTS
    Process,    \* processes that open the database
    TextName,   \* names of full-text indexes
    VecName,    \* names of vector indexes
    MaxNodes,   \* bound: nodes
    MaxEdges,   \* bound: edges
    MaxSeq,     \* bound: logged transactions
    MaxTx,      \* bound: explicit transactions
    MaxFaults,  \* bound: calls that fail and processes that die
    MaxLoads    \* bound: opens and refreshes

ASSUME IndexBoundAssumption ==
    {MaxNodes, MaxEdges, MaxSeq, MaxTx, MaxFaults, MaxLoads} \subseteq Nat

VARIABLES
    db,      \* the database: [rec, text, vec, vectors, rows, next, seq]
    mem,     \* mem[p]: the handle, [rec, text, vec, vectors, next, version]
    load,    \* load[p]: what an open or a refresh has read
    seen,    \* seen[p]: store_op_seq, NotOpen before an open
    phase,   \* phase[p]: which step of a call comes next
    plan,    \* plan[p]: what the call does
    tx,      \* tx[p]: the staged graph of an explicit transaction, or NoTx
    raced,   \* raced[p]: history, another process logged something inside a call, a
             \* refresh failed, or a transaction lived through one
    behind,  \* history: indexes whose rows were written from records that were
             \* not, or no longer, the database's
    harmed,  \* history: a process that had been raced wrote
    counts   \* [tx, faults, loads] so far

vars == <<db, mem, load, seen, phase, plan, tx, raced, behind, harmed, counts>>

NotOpen == -1
NoNode == -1
NoTx == [version |-> -1]
NoPlan == [op |-> "none"]

Kinds == {"node", "edge"}
Key(r) == <<r.kind, r.id>>
Keys(R) == {Key(r) : r \in R}
OfKind(R, kind) == {r \in R : r.kind = kind}
Names(D) == {d.name : d \in D}
NodeIds(R) == {r.id : r \in OfKind(R, "node")}

Node0 == [kind |-> "node", id |-> 0, at |-> NoNode, text |-> TRUE]
Started ==
    [rec |-> {Node0}, text |-> {[name |-> n, kind |-> "node"] : n \in TextName},
     vec |-> {[name |-> n, kind |-> "node"] : n \in VecName},
     vectors |-> {[index |-> n, id |-> 0] : n \in VecName},
     next |-> [kind \in Kinds |-> IF kind = "node" THEN 1 ELSE 0]]

\* A handle: a graph with a mutation_version.
Handle(g) == [rec |-> g.rec, text |-> g.text, vec |-> g.vec, vectors |-> g.vectors,
              next |-> g.next, version |-> 0]
Empty == Handle([Started EXCEPT !.rec = {}, !.text = {}, !.vec = {}, !.vectors = {},
                                !.next = [kind \in Kinds |-> 0]])

\* insert_fulltext_entity: a row for every record that has text.
RowsOf(D, R) ==
    UNION {{[index |-> d.name, id |-> r.id] : r \in {x \in OfKind(R, d.kind) : x.text}} : d \in D}

\* Every process has opened a database with a node that is in both indexes.
Init ==
    /\ db = [rec |-> Started.rec, text |-> Started.text, vec |-> Started.vec,
             vectors |-> Started.vectors, rows |-> RowsOf(Started.text, Started.rec),
             next |-> Started.next, seq |-> 0]
    /\ mem = [p \in Process |-> Handle(Started)]
    /\ load = [p \in Process |-> Empty]
    /\ seen = [p \in Process |-> 0]
    /\ phase = [p \in Process |-> "idle"]
    /\ plan = [p \in Process |-> NoPlan]
    /\ tx = [p \in Process |-> NoTx]
    /\ raced = [p \in Process |-> FALSE]
    /\ behind = {} /\ harmed = FALSE
    /\ counts = [tx |-> 0, faults |-> 0, loads |-> 0]

Go(p, next) == phase' = [phase EXCEPT ![p] = next]
Return(p) == Go(p, "idle") /\ plan' = [plan EXCEPT ![p] = NoPlan]
Current(p) == seen[p] = db.seq

---------------------------------------------------------------------------
(* Graph changes, and what they do to the indexes *)

\* The index is about entities of the record's kind, by its definition in D.
About(D, index, r) == [name |-> index, kind |-> r.kind] \in D

\* Wrong variant: vectors outlive what they belong to.
WithAll(D, vectors, gone) == vectors

\* delete_entity_vectors and remove_entity_vectors
Without(D, vectors, gone) ==
    {v \in vectors : \A r \in gone : v.id = r.id => ~About(D, v.index, r)}

\* What update_node, update_edge, delete_edge and delete_node (which takes the
\* edges at the node with it) make of a graph.
Changed(g) ==
    LET Put(r) == [g EXCEPT !.rec = (@ \ {r}) \cup {[r EXCEPT !.text = ~@]}]
        Drop(R) == [g EXCEPT !.rec = @ \ R, !.vectors = Without(g.vec, @, R)]
    IN  {Put(r) : r \in g.rec}
        \cup {Drop({r} \cup IF r.kind = "edge" THEN {} ELSE {e \in OfKind(g.rec, "edge") : e.at = r.id}) :
                r \in g.rec}

\* Wrong variant: rows of what was deleted stay.
SyncedPutOnly(gone, put) ==
    {w \in db.rows : \A r \in put : w.id = r.id => ~About(db.text, w.index, r)}
        \cup RowsOf(db.text, put)

\* sync_fulltext_entity, by the definitions in the database.
Synced(gone, put) ==
    {w \in db.rows : \A r \in gone \cup put : w.id = r.id => ~About(db.text, w.index, r)}
        \cup RowsOf(db.text, put)

\* apply_graph_changes: from the records in memory to the staged ones.
Applied(old, new) ==
    LET gone == {r \in old.rec : Key(r) \notin Keys(new.rec)}
        put  == new.rec \ old.rec
    IN  [db EXCEPT !.rec = {r \in @ : Key(r) \notin Keys(gone \cup put)} \cup put,
                   !.vectors = Without(db.vec, @, gone),
                   !.rows = Synced(gone, put),
                   !.next = new.next,
                   !.seq = @ + 1]

\* rebuild_fulltext_definition, for each of the definitions.
Rewritten(D, R) == {w \in db.rows : w.index \notin Names(D)} \cup RowsOf(D, R)

\* Whether that was right, seen from the database.
BehindAfter(D, R, defined) ==
    (behind \ Names(D)) \cup
        {d.name : d \in {x \in D : x \notin defined \/ RowsOf({x}, R) # RowsOf({x}, db.rec)}}

---------------------------------------------------------------------------
(* Calls: the check, the transaction, and what it leaves in memory *)

NewRecords(m) ==
    {[kind |-> "node", id |-> m.next.node, at |-> NoNode, text |-> b] :
        b \in IF m.next.node < MaxNodes THEN {TRUE} ELSE {}}
    \cup {[kind |-> "edge", id |-> m.next.edge, at |-> n, text |-> TRUE] :
        n \in IF m.next.edge < MaxEdges THEN NodeIds(m.rec) ELSE {}}

\* Vectors an index may hold: of live entities of its kind.
Placeable(m) ==
    UNION {{[index |-> d.name, id |-> r.id] : r \in OfKind(m.rec, d.kind)} : d \in m.vec}

Calls(m) ==
    {[op |-> "insert", row |-> r] : r \in NewRecords(m)}
    \cup {[op |-> "change", to |-> g] : g \in Changed(m)}
    \cup {[op |-> "create_text", row |-> d] : d \in [name : TextName \ Names(m.text), kind : Kinds]}
    \cup {[op |-> "drop_text", row |-> d] : d \in m.text}
    \cup {[op |-> "rebuild"] : d \in m.text}
    \cup {[op |-> "create_vec", row |-> d] : d \in [name : VecName \ Names(m.vec), kind : Kinds]}
    \cup {[op |-> "drop_vec", row |-> d] : d \in m.vec}
    \cup {[op |-> "upsert", row |-> v] : v \in Placeable(m)}
    \cup {[op |-> "delete", row |-> v] : v \in Placeable(m)}

\* ensure_store_current, after what the call checks in memory.
Check(p) ==
    /\ phase[p] = "idle" /\ Current(p) /\ db.seq < MaxSeq
    /\ \E call \in Calls(mem[p]) : plan' = [plan EXCEPT ![p] = call]
    /\ Go(p, "write")
    /\ UNCHANGED <<db, mem, load, seen, tx, raced, behind, harmed, counts>>

\* An explicit transaction: a copy of the graph, a statement on it, its commit.
Begin(p) ==
    /\ phase[p] = "idle" /\ seen[p] # NotOpen
    /\ tx[p] = NoTx /\ counts.tx < MaxTx
    /\ tx' = [tx EXCEPT ![p] = mem[p]]
    /\ counts' = [counts EXCEPT !.tx = @ + 1]
    /\ UNCHANGED <<db, mem, load, seen, phase, plan, raced, behind, harmed>>

Stage(p) ==
    /\ phase[p] = "idle" /\ tx[p] # NoTx
    /\ tx[p].rec = mem[p].rec  \* a bound: one statement
    /\ \E g \in Changed(tx[p]) : tx' = [tx EXCEPT ![p] = g]
    /\ UNCHANGED <<db, mem, load, seen, phase, plan, raced, behind, harmed, counts>>

\* commit_transaction_snapshot: refused when the version or the log moved on; a
\* commit that fails leaves the transaction open.
Commit(p) ==
    /\ phase[p] = "idle" /\ tx[p] # NoTx
    /\ Current(p) /\ db.seq < MaxSeq
    /\ tx[p].version = mem[p].version
    /\ tx[p].rec # mem[p].rec
    /\ plan' = [plan EXCEPT ![p] = [op |-> "commit", to |-> tx[p]]]
    /\ Go(p, "write")
    /\ UNCHANGED <<db, mem, load, seen, tx, raced, behind, harmed, counts>>

\* Rollback, or the commit of a graph without changes.
Finish(p) ==
    /\ phase[p] = "idle" /\ tx[p] # NoTx
    /\ tx' = [tx EXCEPT ![p] = NoTx]
    /\ UNCHANGED <<db, mem, load, seen, phase, plan, raced, behind, harmed, counts>>

\* The tables' constraints: keys of inserted rows are free, a vector's index is
\* there, and a full-text index is found before it is dropped.
Accepts(call) ==
    CASE call.op = "insert"      -> Key(call.row) \notin Keys(db.rec)
      [] call.op = "create_text" -> call.row.name \notin Names(db.text)
      [] call.op = "drop_text"   -> call.row.name \in Names(db.text)
      [] call.op = "create_vec"  -> call.row.name \notin Names(db.vec)
      [] call.op = "upsert"      -> call.row.index \in Names(db.vec)
      [] OTHER                   -> TRUE

\* An update or deletion of its own, or what a transaction staged.
Changes == {"change", "commit"}

Logs(next) == [next EXCEPT !.seq = db.seq + 1]

\* The database after the transaction of a call of a handle.
After(call, m) ==
    CASE call.op = "insert"      -> Logs([db EXCEPT !.rec = @ \cup {call.row},
                                                    !.rows = Synced({}, {call.row})])
      [] call.op \in Changes     -> Applied(m, call.to)
      [] call.op = "create_text" -> Logs([db EXCEPT !.text = @ \cup {call.row},
                                                    !.rows = Rewritten({call.row}, m.rec)])
      [] call.op = "drop_text"   -> Logs([db EXCEPT !.text = {d \in @ : d.name # call.row.name},
                                                    !.rows = {w \in @ : w.index # call.row.name}])
      [] call.op = "rebuild"     -> [db EXCEPT !.rows = Rewritten(m.text, m.rec)]
      [] call.op = "create_vec"  -> Logs([db EXCEPT !.vec = @ \cup {call.row}])
      [] call.op = "drop_vec"    -> Logs([db EXCEPT !.vec = {d \in @ : d.name # call.row.name},
                                                    !.vectors = {v \in @ : v.index # call.row.name}])
      [] call.op = "upsert"      -> Logs([db EXCEPT !.vectors = @ \cup {call.row}])
      [] call.op = "delete"      -> Logs([db EXCEPT !.vectors = @ \ {call.row}])

Write(p) ==
    LET call == plan[p] IN
    /\ phase[p] = "write"
    /\ IF ~Accepts(call) THEN Return(p) /\ UNCHANGED <<db, raced, behind, harmed>>
       ELSE /\ db' = After(call, mem[p])
            /\ raced' = [q \in Process |-> raced[q] \/ (q # p /\ phase[q] # "idle" /\ call.op # "rebuild")]
            /\ behind' = CASE call.op = "create_text" -> BehindAfter({call.row}, mem[p].rec, db'.text)
                           [] call.op = "rebuild"     -> BehindAfter(mem[p].text, mem[p].rec, db'.text)
                           [] call.op = "drop_text"   -> behind \ {call.row.name}
                           [] OTHER                   -> behind
            /\ harmed' = (harmed \/ raced[p])
            /\ IF call.op = "rebuild" THEN Return(p) ELSE Go(p, "publish") /\ UNCHANGED plan
    /\ UNCHANGED <<mem, load, seen, tx, counts>>

\* Wrong variant: a vector is not counted as a change of the graph.
VersionOfRecords(call, m) ==
    IF call.op \in {"insert"} \cup Changes THEN m.version + 1 ELSE m.version

\* Full-text definitions do not count as a change of the graph.
Version(call, m) ==
    IF call.op \in {"create_text", "drop_text"} THEN m.version ELSE m.version + 1

\* Wrong variant: the vectors stay as they are.
AdoptedRecords(m, g) == [m EXCEPT !.rec = g.rec, !.next = g.next]

\* publish_staged: the staged vectors are taken, the definitions there are stay.
Adopted(m, g) == [m EXCEPT !.rec = g.rec, !.vectors = g.vectors, !.next = g.next]

\* The handle after the call.
Published(call, m) ==
    LET d == [m EXCEPT !.version = Version(call, m)] IN
    CASE call.op = "insert"      -> [d EXCEPT !.rec = @ \cup {call.row}, !.next[call.row.kind] = @ + 1]
      [] call.op \in Changes     -> Adopted(d, call.to)
      [] call.op = "create_text" -> [d EXCEPT !.text = @ \cup {call.row}]
      [] call.op = "drop_text"   -> [d EXCEPT !.text = @ \ {call.row}]
      [] call.op = "create_vec"  -> [d EXCEPT !.vec = @ \cup {call.row}]
      [] call.op = "drop_vec"    -> [d EXCEPT !.vec = @ \ {call.row},
                                              !.vectors = {v \in @ : v.index # call.row.name}]
      [] call.op = "upsert"      -> [d EXCEPT !.vectors = @ \cup {call.row}]
      [] call.op = "delete"      -> [d EXCEPT !.vectors = @ \ {call.row}]

\* The change of memory and refresh_store_op_seq.
Publish(p) ==
    /\ phase[p] = "publish"
    /\ mem' = [mem EXCEPT ![p] = Published(plan[p], @)]
    /\ seen' = [seen EXCEPT ![p] = db.seq]
    /\ tx' = IF plan[p].op = "commit" THEN [tx EXCEPT ![p] = NoTx] ELSE tx
    /\ Return(p)
    /\ UNCHANGED <<db, load, raced, behind, harmed, counts>>

---------------------------------------------------------------------------
(* GraphCore::open, for a new handle or a refreshed one *)

LoadOrder == <<"nodes", "edges", "definitions", "rows", "vector_indexes", "vectors", "ids">>

\* The phases of a load that has begun.
Loading == {LoadOrder[k] : k \in 2..Len(LoadOrder)} \cup {"position"}

MaxId(R, kind) == Max({-1} \cup {r.id : r \in OfKind(R, kind)})

\* What the handle being loaded holds after a step.
ReadBy(step, g) ==
    CASE step = "nodes"          -> [Empty EXCEPT !.rec = OfKind(db.rec, "node")]
      [] step = "edges"          -> [g EXCEPT !.rec = @ \cup OfKind(db.rec, "edge")]
      [] step = "definitions"    -> [g EXCEPT !.text = db.text]
      [] step = "rows"           -> g
      [] step = "vector_indexes" -> [g EXCEPT !.vec = db.vec]
      [] step = "vectors"        -> [g EXCEPT !.vectors = db.vectors]
      [] step = "ids"            ->
            [g EXCEPT !.next = [kind \in Kinds |-> Max({MaxId(g.rec, kind) + 1, db.next[kind]})]]

\* insert_loaded_edge and load_vector_state refuse what refers to nothing.
Fits(step, g) ==
    CASE step = "edges"   -> \A e \in OfKind(g.rec, "edge") : e.at \in NodeIds(g.rec)
      [] step = "vectors" -> g.vectors \subseteq Placeable(g)
      [] OTHER            -> TRUE

Read(p, k) ==
    LET step == LoadOrder[k]
        read == ReadBy(step, load[p])
        fits == Fits(step, read)
        rest == IF k = Len(LoadOrder) THEN "position" ELSE LoadOrder[k + 1]
    IN  /\ phase[p] = IF k = 1 THEN "idle" ELSE step
        /\ load' = [load EXCEPT ![p] = IF fits THEN read ELSE Empty]
        /\ Go(p, IF fits THEN rest ELSE "idle")
        /\ raced' = [raced EXCEPT ![p] = (k > 1 /\ @) \/ ~fits]
        \* The rows are written again, from the records read.
        /\ db' = IF step = "rows" THEN [db EXCEPT !.rows = Rewritten(read.text, read.rec)] ELSE db
        /\ behind' = IF step = "rows" THEN BehindAfter(read.text, read.rec, db.text) ELSE behind
        /\ UNCHANGED <<mem, seen, plan, tx, harmed>>

ReadPosition(p) ==
    /\ phase[p] = "position"
    /\ mem' = [mem EXCEPT ![p] = load[p]]
    /\ load' = [load EXCEPT ![p] = Empty]
    /\ seen' = [seen EXCEPT ![p] = db.seq]
    /\ Go(p, "idle")
    /\ raced' = [raced EXCEPT ![p] = @ \/ tx[p] # NoTx]
    /\ UNCHANGED <<db, plan, tx, behind, harmed, counts>>

---------------------------------------------------------------------------
(* Failures *)

\* A statement of a call fails: what it did so far stays.  All calls but inserts
\* change memory before they read the log position.
Stop(p) ==
    /\ phase[p] # "idle"
    /\ Return(p)
    /\ mem' = IF phase[p] = "publish" /\ plan[p].op # "insert"
              THEN [mem EXCEPT ![p] = Published(plan[p], @)] ELSE mem
    /\ load' = [load EXCEPT ![p] = Empty]
    /\ raced' = [raced EXCEPT ![p] = @ \/ phase[p] \in Loading]
    /\ UNCHANGED <<db, seen, tx, behind, harmed>>

Die(p) ==
    /\ seen[p] # NotOpen
    /\ Return(p)
    /\ mem' = [mem EXCEPT ![p] = Empty]
    /\ load' = [load EXCEPT ![p] = Empty]
    /\ seen' = [seen EXCEPT ![p] = NotOpen]
    /\ tx' = [tx EXCEPT ![p] = NoTx]
    /\ raced' = [raced EXCEPT ![p] = FALSE]
    /\ UNCHANGED <<db, behind, harmed>>

Next == \E p \in Process :
    \/ Check(p) \/ Write(p) \/ Publish(p)
    \/ Begin(p) \/ Stage(p) \/ Commit(p) \/ Finish(p)
    \/ Read(p, 1) /\ counts.loads < MaxLoads /\ counts' = [counts EXCEPT !.loads = @ + 1]
    \/ (\E k \in 2..Len(LoadOrder) : Read(p, k)) /\ UNCHANGED counts
    \/ ReadPosition(p)
    \/ (Stop(p) \/ Die(p)) /\ counts.faults < MaxFaults /\ counts' = [counts EXCEPT !.faults = @ + 1]

Spec == Init /\ [][Next]_vars

---------------------------------------------------------------------------
(* What is promised *)

\* FTS5 rows are those of the records and of the definitions in the database, in
\* every state other processes can see, except of an index that an open or a
\* rebuild wrote from records that were out of date (sqlite.rs:491-655, 267-285,
\* lifecycle.rs:79-84; "synchronize FTS rows in the same SQLite transaction",
\* fulltext-search.md:96-98).
RowsFollowRecords ==
    /\ \A d \in {x \in db.text : x.name \notin behind} :
            {w \in db.rows : w.index = d.name} = RowsOf({d}, db.rec)
    /\ {w.index : w \in db.rows} \subseteq Names(db.text) \cup behind

\* A handle that passes for current has the indexes and the vectors of the
\* database, unless another process wrote inside one of its calls (vector.rs:20-194,
\* fulltext.rs:17-80, mutations.rs:263-281).
CurrentIndexesMatch ==
    \A p \in Process :
        phase[p] = "idle" /\ Current(p) /\ ~raced[p] =>
            /\ mem[p].rec = db.rec
            /\ mem[p].text = db.text
            /\ mem[p].vec = db.vec
            /\ mem[p].vectors = db.vectors

\* Only a race can make an open fail: one in which it was read, or one in which
\* a process stored a vector or an edge for what another had deleted
\* (vector.rs:262-308, entities.rs:115-163).
OpensUnlessRaced ==
    [][\A p \in Process, k \in 2..Len(LoadOrder) :
        phase[p] = LoadOrder[k] /\ phase'[p] = "idle" /\ counts'.faults = counts.faults
            => raced[p] \/ harmed]_vars

\* A commit takes no vector from memory but those of what it deletes, whatever
\* vectors and indexes came and went since its transaction began, if that was
\* after the last refresh (vector.rs:38, 56, 107, 157, mutations.rs:277).
CommitKeepsVectors ==
    [][\A p \in Process :
        plan[p].op \in Changes /\ mem'[p] # mem[p] /\ seen'[p] # NotOpen /\ ~raced[p] =>
            mem'[p].vectors = mem[p].vectors \cap Placeable(mem'[p])]_vars
=============================================================================
