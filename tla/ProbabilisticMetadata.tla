------------------------ MODULE ProbabilisticMetadata ------------------------
(***************************************************************************)
(* Variables, factors, factor tables, evidence, traces and posteriors, as  *)
(* processes with a handle each keep them in one SQLite file.              *)
(*                                                                         *)
(* SQLite makes each SELECT, each statement outside a transaction and each *)
(* write transaction atomic and nothing more; every one of them is an      *)
(* action here, steps of other processes fall between them, and after any  *)
(* of them a call may fail or its process die.  Variables have no owner    *)
(* (owners and the nodes they name are in GraphHandles).                   *)
(*                                                                         *)
(* A posterior is what the handle knew when it was computed: [tables,      *)
(* evidence], the ids of its factor tables and evidence records.  The      *)
(* numbers are in BeliefPropagation.                                       *)
(***************************************************************************)
EXTENDS Integers, Sequences, FiniteSetsExt

CONSTANTS
    Process,       \* processes that open the database
    Variables,     \* ids of the variables the database starts with
    MaxVariables,  \* bound: variables
    MaxFactors,    \* bound: factors
    MaxEvidence,   \* bound: evidence records
    MaxSeq,        \* bound: logged transactions
    MaxFaults,     \* bound: calls that fail and processes that die
    MaxLoads       \* bound: opens and refreshes

ASSUME MetadataBoundAssumption ==
    /\ {MaxVariables, MaxFactors, MaxEvidence, MaxSeq, MaxFaults, MaxLoads} \subseteq Nat
    /\ IsFiniteSet(Variables)
    /\ Variables = 0..(Cardinality(Variables) - 1)

VARIABLES
    db,      \* the database: [what, seq], the rows and the last op_log entry
    mem,     \* mem[p]: what the handle has in memory
    load,    \* load[p]: what an open or a refresh has read
    seen,    \* seen[p]: store_op_seq, NotOpen before an open
    phase,   \* phase[p]: which step of a call comes next
    plan,    \* plan[p]: the rows a call writes, and the posteriors left to store
    raced,   \* raced[p]: history, another process logged something inside a call,
             \* or a refresh failed
    others,  \* others[p]: history, the tables and posteriors that others stored
             \* since the handle was loaded
    unsaved, \* unsaved[p]: history, posteriors in memory that were not stored
    faults,  \* calls that failed and processes that died
    loads    \* opens and refreshes that began

vars == <<db, mem, load, seen, phase, plan, raced, others, unsaved, faults, loads>>

NotOpen == -1
Nothing == [variable |-> {}, factor |-> {}, table |-> {}, posterior |-> <<>>,
            evidence |-> {}, trace |-> {}]
NoPlan == [kind |-> "none", row |-> [id |-> 0], tabled |-> FALSE, left |-> {}]

Ids(R) == {r.id : r \in R}

\* next_variable_id and its like.
NextId(R) == IF R = {} THEN 0 ELSE Max(Ids(R)) + 1

\* Wrong variant: tables are read before the factors they belong to.
LoadOrderTablesFirst == <<"variable", "table", "factor", "posterior", "evidence", "trace">>

\* The order in which open reads the database; the log position comes last.
LoadOrder == <<"variable", "factor", "table", "posterior", "evidence", "trace">>

\* The phases of a load that has begun.
Loading == {LoadOrder[k] : k \in 2..Len(LoadOrder)} \cup {"position"}

Started == [Nothing EXCEPT !.variable = {[id |-> v] : v \in Variables}]

\* Every process has opened a database with a few variables.
Init ==
    /\ db = [what |-> Started, seq |-> Cardinality(Variables)]
    /\ faults = 0 /\ loads = 0
    /\ mem = [p \in Process |-> Started]
    /\ load = [p \in Process |-> Nothing]
    /\ seen = [p \in Process |-> Cardinality(Variables)]
    /\ phase = [p \in Process |-> "idle"]
    /\ plan = [p \in Process |-> NoPlan]
    /\ raced = [p \in Process |-> FALSE]
    /\ others = [p \in Process |-> {}]
    /\ unsaved = [p \in Process |-> {}]

Go(p, next) == phase' = [phase EXCEPT ![p] = next]

\* The call returns, or raises an error.
Return(p) == Go(p, "idle") /\ plan' = [plan EXCEPT ![p] = NoPlan]

\* Wrong variant: the transaction has no log entry.
RowOnly(p, kind, row) ==
    /\ db' = [db EXCEPT !.what[kind] = @ \cup {row}]
    /\ UNCHANGED raced

\* A logged transaction, and every process that is inside a call.
Logged(p, kind, row) ==
    /\ db' = [what |-> [db.what EXCEPT ![kind] = @ \cup {row}], seq |-> db.seq + 1]
    /\ raced' = [q \in Process |-> raced[q] \/ (q # p /\ phase[q] # "idle")]

\* A statement outside a transaction, of which the log says nothing.
Unlogged(p, kind, rows, item) ==
    /\ db' = [db EXCEPT !.what[kind] = rows]
    /\ others' = [q \in Process |-> IF q = p THEN others[q] \ {item} ELSE others[q] \cup {item}]

---------------------------------------------------------------------------
(* What loading accepts *)

\* insert_loaded_*: rows name rows that were loaded before them.
Fits(m, kind) ==
    CASE kind = "factor"    -> \A f \in m.factor : f.vars \subseteq Ids(m.variable)
      [] kind = "table"     -> \A t \in m.table : /\ t.id \in Ids(m.factor)
                                                 /\ t.vars \subseteq Ids(m.variable)
      [] kind = "posterior" -> DOMAIN m.posterior \subseteq Ids(m.variable)
      [] kind = "evidence"  -> \A e \in m.evidence : e.variable \in Ids(m.variable)
      [] OTHER              -> TRUE

---------------------------------------------------------------------------
(* GraphCore::open, for a new handle or a refreshed one *)

Read(p, k) ==
    LET kind == LoadOrder[k]
        read == [(IF k = 1 THEN Nothing ELSE load[p]) EXCEPT ![kind] = db.what[kind]]
        fits == Fits(read, kind)
    IN  /\ phase[p] = IF k = 1 THEN "idle" ELSE kind
        /\ load' = [load EXCEPT ![p] = IF fits THEN read ELSE Nothing]
        /\ Go(p, IF ~fits THEN "idle" ELSE IF k = Len(LoadOrder) THEN "position" ELSE LoadOrder[k + 1])
        /\ raced' = [raced EXCEPT ![p] = (k > 1 /\ @) \/ ~fits]
        /\ others' = [others EXCEPT ![p] = IF k = 1 THEN {} ELSE @]
        /\ UNCHANGED <<db, mem, seen, plan, unsaved>>

ReadPosition(p) ==
    /\ phase[p] = "position"
    /\ mem' = [mem EXCEPT ![p] = load[p]]
    /\ load' = [load EXCEPT ![p] = Nothing]
    /\ seen' = [seen EXCEPT ![p] = db.seq]
    /\ unsaved' = [unsaved EXCEPT ![p] = {}]
    /\ Go(p, "idle")
    /\ UNCHANGED <<db, plan, raced, others>>

---------------------------------------------------------------------------
(* add_variable, add_factor, add_factor_table, add_cpd, add_evidence *)

Write(kind, row, tabled) == [kind |-> kind, row |-> row, tabled |-> tabled, left |-> {}]

\* Factors and tables are over all variables.
Additions(m) ==
    {Write("variable", [id |-> NextId(m.variable)], FALSE)}
    \cup {Write("factor", [id |-> NextId(m.factor), vars |-> Ids(m.variable)], tabled) :
            tabled \in IF m.variable = {} THEN {FALSE} ELSE BOOLEAN}
    \cup {Write("evidence", [id |-> NextId(m.evidence), variable |-> v], FALSE) :
            v \in Ids(m.variable)}

InBounds(write) ==
    write.row.id < CASE write.kind = "variable" -> MaxVariables
                     [] write.kind = "factor"   -> MaxFactors
                     [] write.kind = "evidence" -> MaxEvidence

\* Wrong variant: the log position is not compared.
OpenIsEnough(p) == seen[p] # NotOpen

\* ensure_store_current: the log has nothing the handle has not seen.
Current(p) == seen[p] = db.seq

CheckAddition(p) ==
    /\ phase[p] = "idle"
    /\ Current(p)
    /\ db.seq < MaxSeq
    /\ \E write \in {w \in Additions(mem[p]) : InBounds(w)} :
            plan' = [plan EXCEPT ![p] = write] /\ Go(p, "insert")
    /\ UNCHANGED <<db, mem, load, seen, raced, others, unsaved>>

\* The row and its log entry, unless the id is taken.
Insert(p) ==
    /\ phase[p] = "insert"
    /\ IF plan[p].row.id \in Ids(db.what[plan[p].kind])
       THEN Return(p) /\ UNCHANGED <<db, raced>>
       ELSE Logged(p, plan[p].kind, plan[p].row) /\ Go(p, "publish") /\ UNCHANGED plan
    /\ UNCHANGED <<mem, load, seen, others, unsaved>>

\* refresh_store_op_seq, and the record in memory.
Publish(p) ==
    /\ phase[p] = "publish"
    /\ seen' = [seen EXCEPT ![p] = db.seq]
    /\ mem' = [mem EXCEPT ![p][plan[p].kind] = @ \cup {plan[p].row}]
    /\ IF ~plan[p].tabled THEN Return(p) ELSE Go(p, "check table") /\ UNCHANGED plan
    /\ UNCHANGED <<db, load, raced, others, unsaved>>

CheckTable(p) ==
    /\ phase[p] = "check table"
    /\ IF Current(p) THEN Go(p, "put table") /\ UNCHANGED plan ELSE Return(p)
    /\ UNCHANGED <<db, mem, load, seen, raced, others, unsaved>>

\* insert_factor_table: a statement of its own.
PutTable(p) ==
    LET row == plan[p].row IN
    /\ phase[p] = "put table"
    /\ Unlogged(p, "table", {t \in db.what.table : t.id # row.id} \cup {row}, <<"table", row.id>>)
    /\ mem' = [mem EXCEPT ![p].table = @ \cup {row}]
    /\ Return(p)
    /\ UNCHANGED <<load, seen, raced, unsaved>>

---------------------------------------------------------------------------
(* belief_propagation with persist *)

KnownTo(m) == [tables |-> Ids(m.table), evidence |-> Ids(m.evidence)]

\* Beliefs enter memory one by one; the factors may leave one without mass, which
\* is an error; then every posterior in memory is to be stored.
Persist(p, query) ==
    LET m == mem[p] IN
    /\ phase[p] = "idle"
    /\ Current(p)
    /\ db.seq < MaxSeq
    /\ \E done \in IF m.table = {} THEN {query} ELSE SUBSET query :
        LET all == [v \in DOMAIN m.posterior \cup done |->
                        IF v \in done THEN KnownTo(m) ELSE m.posterior[v]]
        IN  /\ mem' = [mem EXCEPT ![p].posterior = all]
            /\ unsaved' = [unsaved EXCEPT ![p] = @ \cup done]
            /\ IF done = query
               THEN /\ plan' = [plan EXCEPT ![p] = [NoPlan EXCEPT !.left = DOMAIN all]]
                    /\ Go(p, "posteriors left")
               ELSE UNCHANGED <<plan, phase>>
    /\ UNCHANGED <<db, load, seen, raced, others>>

\* Wrong variant: the posterior stays on the list.
LeftOver(left, v) == left

Without(left, v) == left \ {v}

\* upsert_posterior: a statement of its own, in any order.
StorePosterior(p) ==
    /\ phase[p] = "posteriors left"
    /\ \E v \in plan[p].left :
        /\ Unlogged(p, "posterior",
                    [u \in DOMAIN db.what.posterior \cup {v} |->
                        IF u = v THEN mem[p].posterior[v] ELSE db.what.posterior[u]],
                    <<"posterior", v>>)
        /\ unsaved' = [unsaved EXCEPT ![p] = @ \ {v}]
        /\ plan' = [plan EXCEPT ![p].left = Without(@, v)]
    /\ UNCHANGED <<mem, load, seen, phase, raced>>

\* add_trace compares the log position once more.
CheckTrace(p) ==
    /\ phase[p] = "posteriors left" /\ plan[p].left = {}
    /\ IF Current(p)
       THEN /\ plan' = [plan EXCEPT ![p] = Write("trace", [id |-> NextId(mem[p].trace)], FALSE)]
            /\ Go(p, "insert")
       ELSE Return(p)
    /\ UNCHANGED <<db, mem, load, seen, raced, others, unsaved>>

---------------------------------------------------------------------------
(* Failures *)

\* A statement of a call fails, and with it the call: what it did so far stays.
Stop(p) ==
    /\ phase[p] # "idle"
    /\ Return(p)
    /\ load' = [load EXCEPT ![p] = Nothing]
    /\ raced' = [raced EXCEPT ![p] = @ \/ phase[p] \in Loading]
    /\ UNCHANGED <<db, mem, seen, others, unsaved>>

\* The process ends.
Die(p) ==
    /\ seen[p] # NotOpen
    /\ Return(p)
    /\ mem' = [mem EXCEPT ![p] = Nothing]
    /\ load' = [load EXCEPT ![p] = Nothing]
    /\ seen' = [seen EXCEPT ![p] = NotOpen]
    /\ raced' = [raced EXCEPT ![p] = FALSE]
    /\ others' = [others EXCEPT ![p] = {}]
    /\ unsaved' = [unsaved EXCEPT ![p] = {}]
    /\ UNCHANGED db

\* The next step of a call that has begun.
Continue(p) ==
    \/ \E k \in 2..Len(LoadOrder) : Read(p, k)
    \/ ReadPosition(p)
    \/ Insert(p) \/ Publish(p) \/ CheckTable(p) \/ PutTable(p)
    \/ StorePosterior(p) \/ CheckTrace(p)

Begin(p) ==
    \/ CheckAddition(p)
    \/ \E query \in (SUBSET Ids(mem[p].variable)) \ {{}} : Persist(p, query)

Next == \E p \in Process :
    \/ Read(p, 1) /\ loads < MaxLoads /\ loads' = loads + 1 /\ UNCHANGED faults
    \/ (Begin(p) \/ Continue(p)) /\ UNCHANGED <<faults, loads>>
    \/ (Stop(p) \/ Die(p)) /\ faults < MaxFaults /\ faults' = faults + 1 /\ UNCHANGED loads

\* A call that has begun goes on: nothing in it waits for another call.
CallsGoOn == \A p \in Process : WF_vars(Continue(p) /\ UNCHANGED <<faults, loads>>)

Spec == Init /\ [][Next]_vars /\ CallsGoOn

---------------------------------------------------------------------------
(* What is promised *)

\* A load is refused only if another process logged something while it ran
\* (lifecycle.rs:61-77).
RefusedOnlyInRaces ==
    [][\A p \in Process, k \in 2..Len(LoadOrder) :
        phase[p] = LoadOrder[k] /\ Read(p, k) /\ phase'[p] = "idle" => raced[p]]_vars

\* A handle that passes for current lacks nothing but tables and posteriors that
\* others stored since it was loaded, for which the log has no entry; what it has
\* and the database has not are posteriors it failed to store (lifecycle.rs:223,
\* sqlite.rs:693-707, 837-845).
CurrentLacksOnlyUnlogged ==
    \A p \in Process :
        LET m == mem[p] IN
        phase[p] = "idle" /\ Current(p) /\ ~raced[p] =>
            /\ \A kind \in {"variable", "factor", "evidence", "trace"} : m[kind] = db.what[kind]
            /\ m.table \subseteq db.what.table
            /\ \A t \in db.what.table \ m.table : <<"table", t.id>> \in others[p]
            /\ \A v \in DOMAIN m.posterior \cup DOMAIN db.what.posterior :
                \/ v \in unsaved[p] \/ <<"posterior", v>> \in others[p]
                \/ /\ v \in DOMAIN m.posterior \cap DOMAIN db.what.posterior
                   /\ m.posterior[v] = db.what.posterior[v]

\* Persisting stores every posterior of the handle again.  What the call computed
\* replaces no posterior that rests on more evidence; one from memory does only if
\* the log could not tell the handle of the newer one; and the same goes for
\* tables, of which the log says nothing (inference.rs:231-246, 275-281).
ForgetsOnlyUnlogged ==
    [][\A p \in Process, v \in DOMAIN db.what.posterior :
        LET old  == db.what.posterior[v]
            new  == db'.what.posterior[v]
            late == new # KnownTo(mem[p]) /\ <<"posterior", v>> \in others[p]
        IN  phase[p] = "posteriors left" /\ plan'[p] # plan[p] /\ ~raced[p] =>
                /\ old.evidence \subseteq new.evidence \/ late
                /\ \/ old.tables \subseteq new.tables \/ late
                   \/ \E t \in old.tables : <<"table", t>> \in others[p]]_vars

\* A call that has begun ends.
CallsEnd == \A p \in Process : phase[p] # "idle" ~> phase[p] = "idle"
=============================================================================
