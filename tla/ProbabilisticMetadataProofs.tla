--------------------- MODULE ProbabilisticMetadataProofs ---------------------
(***************************************************************************)
(* Proofs about ProbabilisticMetadata, for every set of processes and      *)
(* every bound: a handle that passes for current lacks only what the log   *)
(* has no entry for, and a load is refused only when something was logged  *)
(* while it ran.                                                           *)
(*                                                                         *)
(* Neither is inductive.  A load or a call holds its reads or its row over *)
(* steps of other processes, so the invariant says, phase by phase, what   *)
(* it still knows of the database if nobody logged anything meanwhile; and *)
(* that the database refers only to what it has.                           *)
(***************************************************************************)
EXTENDS ProbabilisticMetadata, TLAPS, FiniteSetTheorems

Kinds == {"variable", "factor", "table", "posterior", "evidence", "trace"}

\* The kinds whose writes are logged.
LoggedKinds == {"variable", "factor", "evidence", "trace"}

LoadPhases == {"factor", "table", "posterior", "evidence", "trace", "position"}

Phases == LoadPhases \cup
    {"idle", "insert", "publish", "check table", "put table", "posteriors left"}

---------------------------------------------------------------------------
(* The parts of the inductive invariant *)

IsStore(m) == m = [k \in Kinds |-> m[k]]
IsPlan(w) == w = [kind |-> w.kind, row |-> w.row, tabled |-> w.tabled, left |-> w.left]
PerProcess(f) == f = [p \in Process |-> f[p]]

Shape ==
    /\ db = [what |-> db.what, seq |-> db.seq] /\ IsStore(db.what) /\ db.seq \in Nat
    /\ PerProcess(mem) /\ PerProcess(load) /\ PerProcess(plan)
    /\ PerProcess(others) /\ PerProcess(unsaved)
    /\ seen \in [Process -> Int] /\ phase \in [Process -> Phases]
    /\ raced \in [Process -> BOOLEAN]
    /\ \A p \in Process : IsStore(mem[p]) /\ IsStore(load[p]) /\ IsPlan(plan[p])

\* What a database refers to, it has.
Sound(d) ==
    /\ \A f \in d.factor : f.vars \subseteq Ids(d.variable)
    /\ \A f, g \in d.factor : f.id = g.id => f = g
    /\ d.table \subseteq d.factor
    /\ DOMAIN d.posterior \subseteq Ids(d.variable)
    /\ \A e \in d.evidence : e.variable \in Ids(d.variable)

\* What a handle can name is in the database: variables are never deleted.
Within(m, d) ==
    /\ m.variable \subseteq d.variable
    /\ DOMAIN m.posterior \subseteq Ids(d.variable)

\* What a call is about to write, or has written, fits the database.
PlanFits(p) ==
    LET w == plan[p]  d == db.what IN
    /\ phase[p] = "insert" =>
        /\ w.kind \in LoggedKinds
        /\ w.kind = "factor" => w.row.vars \subseteq Ids(d.variable)
        /\ w.kind = "evidence" => w.row.variable \in Ids(d.variable)
        /\ w.tabled => w.kind = "factor"
    /\ phase[p] = "publish" =>
        /\ w.kind \in LoggedKinds
        /\ w.row \in d[w.kind]
        /\ w.tabled => w.kind = "factor"
        /\ seen[p] < db.seq
    /\ phase[p] \in {"check table", "put table"} => w.row \in d.factor
    /\ phase[p] = "posteriors left" => w.left \subseteq DOMAIN mem[p].posterior

TablesMatch(m, d, other) ==
    /\ m.table \subseteq d.table
    /\ \A t \in d.table \ m.table : <<"table", t.id>> \in other

PosteriorsMatch(m, d, other, own) ==
    \A v \in DOMAIN m.posterior \cup DOMAIN d.posterior :
        \/ v \in own \/ <<"posterior", v>> \in other
        \/ /\ v \in DOMAIN m.posterior \cap DOMAIN d.posterior
           /\ m.posterior[v] = d.posterior[v]

Matches(m, d, other, own) ==
    /\ \A kind \in LoggedKinds : m[kind] = d[kind]
    /\ TablesMatch(m, d, other)
    /\ PosteriorsMatch(m, d, other, own)

\* What a load has read is still so.
LoadMatches(p) ==
    LET m == load[p]  d == db.what IN
    phase[p] \in LoadPhases /\ ~raced[p] =>
        /\ m.variable = d.variable
        /\ phase[p] # "factor" => m.factor = d.factor
        /\ phase[p] \notin {"factor", "table"} => TablesMatch(m, d, others[p])
        /\ phase[p] \notin {"factor", "table", "posterior"} => PosteriorsMatch(m, d, others[p], {})
        /\ phase[p] \in {"trace", "position"} => m.evidence = d.evidence
        /\ phase[p] = "position" => m.trace = d.trace

\* The handle with the row that a call has inserted and not yet published.
WithRow(p) == [mem[p] EXCEPT ![plan[p].kind] = @ \cup {plan[p].row}]

HandleMatches(p) ==
    ~raced[p] =>
        /\ phase[p] = "insert" => seen[p] = db.seq
        /\ phase[p] = "publish" => Matches(WithRow(p), db.what, others[p], unsaved[p])
        /\ phase[p] \notin LoadPhases \cup {"publish"} /\ seen[p] = db.seq =>
                Matches(mem[p], db.what, others[p], unsaved[p])

Good(p) ==
    /\ seen[p] <= db.seq
    /\ Within(mem[p], db.what) /\ Within(load[p], db.what)
    /\ PlanFits(p)
    /\ LoadMatches(p)
    /\ HandleMatches(p)

IInv == Shape /\ Sound(db.what) /\ \A p \in Process : Good(p)

---------------------------------------------------------------------------
(* The records, and the order of a load *)

\* An empty store has the shape of one.
LEMMA NothingIsStore == IsStore(Nothing)
BY DEF IsStore, Kinds, Nothing

\* So has the plan of a process that is in no call.
LEMMA NoPlanIsPlan == IsPlan(NoPlan)
BY DEF IsPlan, NoPlan

\* The phases of a load, read off the order in which open reads.
LEMMA LoadOrderIs ==
    /\ Len(LoadOrder) = 6
    /\ LoadOrder[1] = "variable" /\ LoadOrder[2] = "factor" /\ LoadOrder[3] = "table"
    /\ LoadOrder[4] = "posterior" /\ LoadOrder[5] = "evidence" /\ LoadOrder[6] = "trace"
    /\ Loading = LoadPhases
<1>1. Len(LoadOrder) = 6
  BY DEF LoadOrder
<1>2. /\ LoadOrder[1] = "variable" /\ LoadOrder[2] = "factor" /\ LoadOrder[3] = "table"
      /\ LoadOrder[4] = "posterior" /\ LoadOrder[5] = "evidence" /\ LoadOrder[6] = "trace"
  BY DEF LoadOrder
<1>3. 2..Len(LoadOrder) = {2, 3, 4, 5, 6}
  BY <1>1
<1>4. Loading = LoadPhases
  BY <1>2, <1>3 DEF Loading, LoadPhases
<1> QED BY <1>1, <1>2, <1>4

---------------------------------------------------------------------------
(* The three ways in which a step of p changes the database *)

\* What a step of p leaves to the other processes.
Aside(p) ==
    \A q \in Process \ {p} :
        /\ mem'[q] = mem[q] /\ load'[q] = load[q] /\ seen'[q] = seen[q]
        /\ phase'[q] = phase[q] /\ plan'[q] = plan[q] /\ unsaved'[q] = unsaved[q]

SameDb(p) ==
    /\ db' = db
    /\ \A q \in Process \ {p} : raced'[q] = raced[q] /\ others'[q] = others[q]

\* A row that fits goes into db with a log entry.
RowLogged(p, kind, row) ==
    /\ kind \in LoggedKinds
    /\ row.id \notin Ids(db.what[kind])
    /\ kind = "factor" => row.vars \subseteq Ids(db.what.variable)
    /\ kind = "evidence" => row.variable \in Ids(db.what.variable)
    /\ db' = [what |-> [db.what EXCEPT ![kind] = @ \cup {row}], seq |-> db.seq + 1]
    /\ \A q \in Process \ {p} :
        /\ raced'[q] = (raced[q] \/ phase[q] # "idle")
        /\ others'[q] = others[q]

\* A table of a stored factor goes into db, and the log has no entry for it.
TableStored(p, row) ==
    /\ row \in db.what.factor
    /\ db' = [what |-> [db.what EXCEPT !["table"] = {t \in @ : t.id # row.id} \cup {row}],
              seq |-> db.seq]
    /\ \A q \in Process \ {p} :
        /\ raced'[q] = raced[q]
        /\ others'[q] = others[q] \cup {<<"table", row.id>>}

\* A posterior of a stored variable, likewise.
PosteriorStored(p, v, belief) ==
    /\ v \in Ids(db.what.variable)
    /\ db' = [what |-> [db.what EXCEPT !["posterior"] =
                        [u \in DOMAIN @ \cup {v} |-> IF u = v THEN belief ELSE @[u]]],
              seq |-> db.seq]
    /\ \A q \in Process \ {p} :
        /\ raced'[q] = raced[q]
        /\ others'[q] = others[q] \cup {<<"posterior", v>>}

---------------------------------------------------------------------------
(* What each of them keeps *)

\* What a transaction with this row adds to a kind.
Gain(kind, row, k) == IF k = kind THEN {row} ELSE {}

RowAdded(kind, row) ==
    LET d == db.what  e == db'.what IN
    /\ db'.seq = db.seq + 1
    /\ IsStore(e)
    /\ e.variable = d.variable \cup Gain(kind, row, "variable")
    /\ e.factor = d.factor \cup Gain(kind, row, "factor")
    /\ e.evidence = d.evidence \cup Gain(kind, row, "evidence")
    /\ e.trace = d.trace \cup Gain(kind, row, "trace")
    /\ e.table = d.table /\ e.posterior = d.posterior

\* A logged row is added to its kind, and no other field of the database changes.
LEMMA RowLoggedFields ==
    ASSUME NEW p, NEW kind, NEW row, Shape, RowLogged(p, kind, row)
    PROVE  RowAdded(kind, row)
<1>1. db'.what = [db.what EXCEPT ![kind] = db.what[kind] \cup {row}] /\ db'.seq = db.seq + 1
  BY DEF RowLogged
<1>2. kind \in Kinds /\ kind \in LoggedKinds
  BY DEF RowLogged, Kinds, LoggedKinds
<1>3. /\ IsStore(db'.what)
      /\ db'.what[kind] = db.what[kind] \cup {row}
      /\ \A k \in Kinds \ {kind} : db'.what[k] = db.what[k]
  <2>1. IsStore(db.what)
    BY DEF Shape
  <2> QED BY <1>1, <1>2, <2>1 DEF IsStore
<1>4. CASE kind = "variable"
  BY <1>1, <1>3, <1>4 DEF RowAdded, Kinds, Gain
<1>5. CASE kind = "factor"
  BY <1>1, <1>3, <1>5 DEF RowAdded, Kinds, Gain
<1>6. CASE kind = "evidence"
  BY <1>1, <1>3, <1>6 DEF RowAdded, Kinds, Gain
<1>7. CASE kind = "trace"
  BY <1>1, <1>3, <1>7 DEF RowAdded, Kinds, Gain
<1> QED BY <1>2, <1>4, <1>5, <1>6, <1>7 DEF LoggedKinds

\* A stored table replaces the one with its id, if any.
LEMMA TableStoredFields ==
    ASSUME NEW p, NEW row, Shape, TableStored(p, row)
    PROVE  LET d == db.what  e == db'.what IN
           /\ db'.seq = db.seq
           /\ IsStore(e)
           /\ e.variable = d.variable /\ e.factor = d.factor /\ e.evidence = d.evidence
           /\ e.trace = d.trace /\ e.posterior = d.posterior
           /\ e.table = {t \in d.table : t.id # row.id} \cup {row}
<1>1. /\ db'.what = [db.what EXCEPT !["table"] = {t \in db.what["table"] : t.id # row.id} \cup {row}]
      /\ db'.seq = db.seq
  BY DEF TableStored
<1>2. IsStore(db.what)
  BY DEF Shape
<1> QED BY <1>1, <1>2 DEF IsStore, Kinds

\* A stored posterior replaces the variable's earlier one.
LEMMA PosteriorStoredFields ==
    ASSUME NEW p, NEW v, NEW belief, Shape, PosteriorStored(p, v, belief)
    PROVE  LET d == db.what  e == db'.what IN
           /\ db'.seq = db.seq
           /\ IsStore(e)
           /\ e.variable = d.variable /\ e.factor = d.factor /\ e.evidence = d.evidence
           /\ e.trace = d.trace /\ e.table = d.table
           /\ DOMAIN e.posterior = DOMAIN d.posterior \cup {v}
           /\ e.posterior[v] = belief
           /\ \A u \in DOMAIN d.posterior \ {v} : e.posterior[u] = d.posterior[u]
<1> DEFINE after == [u \in DOMAIN db.what.posterior \cup {v} |->
                        IF u = v THEN belief ELSE db.what.posterior[u]]
<1>1. db'.what = [db.what EXCEPT !["posterior"] = after] /\ db'.seq = db.seq
  BY DEF PosteriorStored
<1>2. /\ DOMAIN after = DOMAIN db.what.posterior \cup {v}
      /\ after[v] = belief
      /\ \A u \in DOMAIN db.what.posterior \ {v} : after[u] = db.what.posterior[u]
  OBVIOUS
<1>3. IsStore(db.what)
  BY DEF Shape
<1> HIDE DEF after
<1>4. /\ IsStore(db'.what)
      /\ db'.what.variable = db.what.variable /\ db'.what.factor = db.what.factor
      /\ db'.what.evidence = db.what.evidence /\ db'.what.trace = db.what.trace
      /\ db'.what.table = db.what.table /\ db'.what.posterior = after
  BY <1>1, <1>3 DEF IsStore, Kinds
<1> QED BY <1>1, <1>2, <1>4

\* Every way keeps what the database refers to.
LEMMA RowLoggedSound ==
    ASSUME NEW p, NEW kind, NEW row, Shape, Sound(db.what), RowLogged(p, kind, row)
    PROVE  Sound(db'.what)
<1>1. RowAdded(kind, row)
  BY RowLoggedFields
<1>2. kind \in LoggedKinds /\ row.id \notin Ids(db.what[kind])
  BY DEF RowLogged
<1>3. Ids(db.what.variable) \subseteq Ids(db'.what.variable)
  BY <1>1 DEF RowAdded, Ids
<1>4. \A f \in db'.what.factor : f.vars \subseteq Ids(db'.what.variable)
  <2>1. \A f \in db.what.factor : f.vars \subseteq Ids(db.what.variable)
    BY DEF Sound
  <2>2. kind = "factor" => row.vars \subseteq Ids(db.what.variable)
    BY DEF RowLogged
  <2>3. \A f \in db'.what.factor : f \in db.what.factor \/ (kind = "factor" /\ f = row)
    BY <1>1 DEF RowAdded, Gain
  <2> QED BY <1>3, <2>1, <2>2, <2>3
<1>5. \A f, g \in db'.what.factor : f.id = g.id => f = g
  <2>1. kind = "factor" => \A f \in db.what.factor : f.id # row.id
    BY <1>2 DEF Ids
  <2>2. \A f, g \in db.what.factor : f.id = g.id => f = g
    BY DEF Sound
  <2>3. \A f \in db'.what.factor : f \in db.what.factor \/ (kind = "factor" /\ f = row)
    BY <1>1 DEF RowAdded, Gain
  <2> QED BY <2>1, <2>2, <2>3
<1>6. db'.what.table \subseteq db'.what.factor
  BY <1>1 DEF RowAdded, Sound
<1>7. DOMAIN db'.what.posterior \subseteq Ids(db'.what.variable)
  BY <1>3, <1>1 DEF RowAdded, Sound
<1>8. \A e \in db'.what.evidence : e.variable \in Ids(db'.what.variable)
  <2>1. \A e \in db.what.evidence : e.variable \in Ids(db.what.variable)
    BY DEF Sound
  <2>2. kind = "evidence" => row.variable \in Ids(db.what.variable)
    BY DEF RowLogged
  <2>3. \A e \in db'.what.evidence : e \in db.what.evidence \/ (kind = "evidence" /\ e = row)
    BY <1>1 DEF RowAdded, Gain
  <2> QED BY <1>3, <2>1, <2>2, <2>3
<1> QED BY <1>4, <1>5, <1>6, <1>7, <1>8 DEF Sound

\* Replacing a table keeps tables of stored factors only.
LEMMA TableStoredSound ==
    ASSUME NEW p, NEW row, Shape, Sound(db.what), TableStored(p, row)
    PROVE  Sound(db'.what)
BY TableStoredFields DEF Sound, TableStored

\* A posterior of a stored variable leaves no posterior without its variable.
LEMMA PosteriorStoredSound ==
    ASSUME NEW p, NEW v, NEW belief, Shape, Sound(db.what), PosteriorStored(p, v, belief)
    PROVE  Sound(db'.what)
<1>1. DOMAIN db'.what.posterior = DOMAIN db.what.posterior \cup {v}
  BY PosteriorStoredFields
<1> QED BY <1>1, PosteriorStoredFields DEF Sound, PosteriorStored

---------------------------------------------------------------------------
(* What a step of p leaves true of another process *)

\* A table or a posterior that q has not heard of goes to its `others`.
LEMMA TablesKept ==
    ASSUME NEW p, NEW row, NEW m, NEW other, Shape, Sound(db.what), TableStored(p, row),
           TablesMatch(m, db.what, other)
    PROVE  TablesMatch(m, db'.what, other \cup {<<"table", row.id>>})
<1>1. row \in db.what.factor /\ db.what.table \subseteq db.what.factor
  BY DEF TableStored, Sound
<1>2. \A t \in db.what.table : t.id = row.id => t = row
  BY <1>1 DEF Sound
<1> QED BY <1>2, TableStoredFields DEF TablesMatch

\* The same for a posterior.
LEMMA PosteriorsKept ==
    ASSUME NEW p, NEW v, NEW belief, NEW m, NEW other, NEW own, Shape,
           PosteriorStored(p, v, belief), PosteriorsMatch(m, db.what, other, own)
    PROVE  PosteriorsMatch(m, db'.what, other \cup {<<"posterior", v>>}, own)
<1> DEFINE d == db.what.posterior  e == db'.what.posterior
<1>1. DOMAIN e = DOMAIN d \cup {v} /\ \A u \in DOMAIN d \ {v} : e[u] = d[u]
  BY PosteriorStoredFields
<1>2. \A u \in DOMAIN m.posterior \cup DOMAIN d :
        \/ u \in own \/ <<"posterior", u>> \in other
        \/ u \in DOMAIN m.posterior \cap DOMAIN d /\ m.posterior[u] = d[u]
  BY DEF PosteriorsMatch
<1> HIDE DEF d, e
<1>3. ASSUME NEW u \in DOMAIN m.posterior \cup DOMAIN e
      PROVE  \/ u \in own \/ <<"posterior", u>> \in other \cup {<<"posterior", v>>}
             \/ u \in DOMAIN m.posterior \cap DOMAIN e /\ m.posterior[u] = e[u]
  <2>1. CASE u = v
    BY <2>1
  <2>2. CASE u # v
    BY <1>1, <1>2, <2>2
  <2> QED BY <2>1, <2>2
<1> QED BY <1>3 DEF PosteriorsMatch, d, e

\* A step of p that leaves the database alone leaves q as it was.
LEMMA OtherUnmoved ==
    ASSUME NEW p \in Process, NEW q \in Process \ {p}, Good(q), Aside(p), SameDb(p)
    PROVE  Good(q)'
<1>1. /\ mem'[q] = mem[q] /\ load'[q] = load[q] /\ seen'[q] = seen[q]
      /\ phase'[q] = phase[q] /\ plan'[q] = plan[q] /\ unsaved'[q] = unsaved[q]
      /\ raced'[q] = raced[q] /\ others'[q] = others[q] /\ db' = db
  BY DEF Aside, SameDb
<1>2. Within(mem[q], db.what)' /\ Within(load[q], db.what)' /\ (seen[q] <= db.seq)'
  BY <1>1 DEF Good, Within
<1>3. PlanFits(q)'
  <2>1. PlanFits(q)
    BY DEF Good
  <2> QED BY <1>1, <2>1 DEF PlanFits
<1>4. LoadMatches(q)'
  <2>1. LoadMatches(q)
    BY DEF Good
  <2> QED BY <1>1, <2>1 DEF LoadMatches
<1>5. HandleMatches(q)'
  <2>1. HandleMatches(q)
    BY DEF Good
  <2> QED BY <1>1, <2>1 DEF HandleMatches, WithRow
<1> QED BY <1>2, <1>3, <1>4, <1>5 DEF Good

\* A logged row puts q behind the log, and a call of q that is under way is raced.
LEMMA OtherLogged ==
    ASSUME NEW p \in Process, NEW q \in Process \ {p}, NEW kind, NEW row,
           Shape, Good(q), Aside(p), RowLogged(p, kind, row)
    PROVE  Good(q)'
<1>1. /\ mem'[q] = mem[q] /\ load'[q] = load[q] /\ seen'[q] = seen[q]
      /\ phase'[q] = phase[q] /\ plan'[q] = plan[q] /\ unsaved'[q] = unsaved[q]
  BY DEF Aside
<1>2. /\ db'.seq = db.seq + 1
      /\ Ids(db.what.variable) \subseteq Ids(db'.what.variable)
      /\ db.what.variable \subseteq db'.what.variable
      /\ db.what.factor \subseteq db'.what.factor
      /\ \A k \in LoggedKinds : db.what[k] \subseteq db'.what[k]
  <2>1. RowAdded(kind, row)
    BY RowLoggedFields
  <2> QED BY <2>1 DEF RowAdded, Ids, LoggedKinds
<1>3. seen[q] \in Int /\ db.seq \in Nat /\ seen[q] <= db.seq /\ phase[q] \in Phases
  BY DEF Shape, Good
<1>4. raced'[q] = (raced[q] \/ phase[q] # "idle")
  BY DEF RowLogged
<1>5. seen'[q] <= db'.seq /\ seen'[q] # db'.seq
  BY <1>1, <1>2, <1>3
<1>6. Within(mem[q], db.what)' /\ Within(load[q], db.what)'
  BY <1>1, <1>2 DEF Good, Within
<1>7. PlanFits(q)'
  <2>1. PlanFits(q)
    BY DEF Good
  <2>2. CASE phase[q] = "insert"
    BY <1>1, <1>2, <2>1, <2>2 DEF PlanFits
  <2>3. CASE phase[q] = "publish"
    <3>1. plan[q].kind \in LoggedKinds /\ plan[q].row \in db.what[plan[q].kind]
      BY <2>1, <2>3 DEF PlanFits
    <3>2. plan[q].row \in db'.what[plan[q].kind]
      BY <1>2, <3>1
    <3> QED BY <1>1, <1>2, <1>3, <2>1, <2>3, <3>2 DEF PlanFits
  <2>4. CASE phase[q] \in {"check table", "put table"}
    BY <1>1, <1>2, <2>1, <2>4 DEF PlanFits
  <2>5. CASE phase[q] \notin {"insert", "publish", "check table", "put table"}
    BY <1>1, <2>1, <2>5 DEF PlanFits
  <2> QED BY <2>2, <2>3, <2>4, <2>5
<1>8. LoadMatches(q)'
  BY <1>1, <1>4 DEF LoadMatches, LoadPhases
<1>9. HandleMatches(q)'
  BY <1>1, <1>4, <1>5 DEF HandleMatches
<1> QED BY <1>5, <1>6, <1>7, <1>8, <1>9 DEF Good

\* Nothing is logged, and what matched still does, but for what q is told to miss.
LEMMA OtherUnlogged ==
    ASSUME NEW p \in Process, NEW q \in Process \ {p}, Good(q), Aside(p),
           db'.seq = db.seq, raced'[q] = raced[q],
           db'.what.variable = db.what.variable, db'.what.factor = db.what.factor,
           db'.what.evidence = db.what.evidence, db'.what.trace = db.what.trace,
           DOMAIN db'.what.posterior \subseteq Ids(db'.what.variable),
           \A k \in LoggedKinds : db'.what[k] = db.what[k],
           \A m : TablesMatch(m, db.what, others[q]) => TablesMatch(m, db'.what, others'[q]),
           \A m, own : PosteriorsMatch(m, db.what, others[q], own) =>
                            PosteriorsMatch(m, db'.what, others'[q], own)
    PROVE  Good(q)'
<1>1. /\ mem'[q] = mem[q] /\ load'[q] = load[q] /\ seen'[q] = seen[q]
      /\ phase'[q] = phase[q] /\ plan'[q] = plan[q] /\ unsaved'[q] = unsaved[q]
  BY DEF Aside
<1>2. \A m : Matches(m, db.what, others[q], unsaved[q]) => Matches(m, db'.what, others'[q], unsaved'[q])
  BY <1>1 DEF Matches
<1>3. Within(mem[q], db.what)' /\ Within(load[q], db.what)' /\ (seen[q] <= db.seq)'
  BY <1>1 DEF Good, Within
<1>4. PlanFits(q)'
  <2>1. PlanFits(q)
    BY DEF Good
  <2> QED BY <1>1, <2>1 DEF PlanFits
<1>5. LoadMatches(q)'
  <2>1. LoadMatches(q)
    BY DEF Good
  <2> QED BY <1>1, <2>1 DEF LoadMatches
<1>6. HandleMatches(q)'
  <2>1. HandleMatches(q)
    BY DEF Good
  <2>2. WithRow(q)' = WithRow(q)
    BY <1>1 DEF WithRow
  <2> QED BY <1>1, <1>2, <2>1, <2>2 DEF HandleMatches
<1> QED BY <1>3, <1>4, <1>5, <1>6 DEF Good

\* Another process keeps its part of the invariant when p stores a table,
LEMMA OtherTable ==
    ASSUME NEW p \in Process, NEW q \in Process \ {p}, NEW row,
           Shape, Sound(db.what), Good(q), Aside(p), TableStored(p, row)
    PROVE  Good(q)'
<1>1. raced'[q] = raced[q] /\ others'[q] = others[q] \cup {<<"table", row.id>>}
  BY DEF TableStored
<1>2. \A m : TablesMatch(m, db.what, others[q]) => TablesMatch(m, db'.what, others'[q])
  BY <1>1, TablesKept
<1>3. \A m, own : PosteriorsMatch(m, db.what, others[q], own) => PosteriorsMatch(m, db'.what, others'[q], own)
  BY <1>1, TableStoredFields DEF PosteriorsMatch
<1>4. DOMAIN db'.what.posterior \subseteq Ids(db'.what.variable)
  BY TableStoredFields DEF Sound
<1>5. \A k \in LoggedKinds : db'.what[k] = db.what[k]
  BY TableStoredFields DEF LoggedKinds
<1> QED BY <1>1, <1>2, <1>3, <1>4, <1>5, TableStoredFields, OtherUnlogged

\* and when p stores a posterior.
LEMMA OtherPosterior ==
    ASSUME NEW p \in Process, NEW q \in Process \ {p}, NEW v, NEW belief,
           Shape, Sound(db.what), Good(q), Aside(p), PosteriorStored(p, v, belief)
    PROVE  Good(q)'
<1>1. raced'[q] = raced[q] /\ others'[q] = others[q] \cup {<<"posterior", v>>}
  BY DEF PosteriorStored
<1>2. \A m : TablesMatch(m, db.what, others[q]) => TablesMatch(m, db'.what, others'[q])
  BY <1>1, PosteriorStoredFields DEF TablesMatch
<1>3. \A m, own : PosteriorsMatch(m, db.what, others[q], own) => PosteriorsMatch(m, db'.what, others'[q], own)
  BY <1>1, PosteriorsKept
<1>4. DOMAIN db'.what.posterior \subseteq Ids(db'.what.variable)
  BY PosteriorStoredSound DEF Sound
<1>5. \A k \in LoggedKinds : db'.what[k] = db.what[k]
  BY PosteriorStoredFields DEF LoggedKinds
<1> QED BY <1>1, <1>2, <1>3, <1>4, <1>5, PosteriorStoredFields, OtherUnlogged

---------------------------------------------------------------------------
(* The initial states *)

\* The database starts with finitely many variables.
LEMMA CardinalityInNat == Cardinality(Variables) \in Nat
BY MetadataBoundAssumption, FS_CardinalityType

\* Every process starts with what the database has.
LEMMA InitGood == Init => IInv
<1> SUFFICES ASSUME Init PROVE IInv
  OBVIOUS
<1>1. IsStore(Started) /\ Started.variable = {[id |-> v] : v \in Variables}
      /\ Started.factor = {} /\ Started.table = {} /\ Started.evidence = {}
      /\ Started.trace = {} /\ DOMAIN Started.posterior = {}
  <2>1. Started = [Nothing EXCEPT !["variable"] = {[id |-> v] : v \in Variables}]
    BY DEF Started
  <2>2. IsStore(Started) /\ Started.variable = {[id |-> v] : v \in Variables}
        /\ \A k \in Kinds \ {"variable"} : Started[k] = Nothing[k]
    BY <2>1, NothingIsStore DEF IsStore, Kinds
  <2>3. Nothing.factor = {} /\ Nothing.table = {} /\ Nothing.evidence = {}
        /\ Nothing.trace = {} /\ DOMAIN Nothing.posterior = {}
    BY DEF Nothing
  <2> QED BY <2>2, <2>3 DEF Kinds
<1>2. db.what = Started /\ db.seq = Cardinality(Variables) /\ db = [what |-> db.what, seq |-> db.seq]
  BY DEF Init
<1>3. \A p \in Process :
        /\ mem[p] = Started /\ load[p] = Nothing /\ seen[p] = db.seq /\ phase[p] = "idle"
        /\ plan[p] = NoPlan
  BY <1>2 DEF Init
<1>4. Shape
  BY <1>1, <1>2, <1>3, CardinalityInNat, NothingIsStore, NoPlanIsPlan
     DEF Init, Shape, PerProcess, Phases
<1>5. Sound(db.what)
  BY <1>1, <1>2 DEF Sound
<1>6. ASSUME NEW p \in Process PROVE Good(p)
  <2>1. Within(mem[p], db.what)
    BY <1>1, <1>2, <1>3 DEF Within
  <2>2. Within(load[p], db.what)
    BY <1>3 DEF Within, Nothing
  <2>3. PlanFits(p) /\ LoadMatches(p)
    BY <1>3 DEF PlanFits, LoadMatches, LoadPhases
  <2>4. Matches(mem[p], db.what, others[p], unsaved[p])
    BY <1>1, <1>2, <1>3 DEF Matches, TablesMatch, PosteriorsMatch
  <2>5. HandleMatches(p) /\ seen[p] <= db.seq
    BY <1>2, <1>3, <2>4, CardinalityInNat DEF HandleMatches
  <2> QED BY <2>1, <2>2, <2>3, <2>5 DEF Good
<1> QED BY <1>4, <1>5, <1>6 DEF IInv

---------------------------------------------------------------------------
(* The steps *)

\* What a step of p has to show.
Kept(p) ==
    /\ Shape' /\ Good(p)' /\ Aside(p)
    /\ \/ SameDb(p)
       \/ \E kind, row : RowLogged(p, kind, row)
       \/ \E row : TableStored(p, row)
       \/ \E v, belief : PosteriorStored(p, v, belief)

\* A step with all that keeps the invariant: its effect on the database says what the
\* other processes still know.
LEMMA StepKeeps ==
    ASSUME NEW p \in Process, IInv, Kept(p)
    PROVE  IInv'
<1>1. Shape /\ Sound(db.what) /\ Shape' /\ Good(p)' /\ Aside(p)
  BY DEF IInv, Kept
<1>2. \A q \in Process : Good(q)
  BY DEF IInv
<1>3. CASE SameDb(p)
  <2>1. \A q \in Process \ {p} : Good(q)'
    BY <1>1, <1>2, <1>3, OtherUnmoved
  <2>2. Sound(db.what)'
    BY <1>1, <1>3 DEF SameDb
  <2> QED BY <1>1, <2>1, <2>2 DEF IInv
<1>4. CASE \E kind, row : RowLogged(p, kind, row)
  <2>1. PICK kind, row : RowLogged(p, kind, row)
    BY <1>4
  <2>2. \A q \in Process \ {p} : Good(q)'
    BY <1>1, <1>2, <2>1, OtherLogged
  <2>3. Sound(db.what)'
    BY <1>1, <2>1, RowLoggedSound
  <2> QED BY <1>1, <2>2, <2>3 DEF IInv
<1>5. CASE \E row : TableStored(p, row)
  <2>1. PICK row : TableStored(p, row)
    BY <1>5
  <2>2. \A q \in Process \ {p} : Good(q)'
    BY <1>1, <1>2, <2>1, OtherTable
  <2>3. Sound(db.what)'
    BY <1>1, <2>1, TableStoredSound
  <2> QED BY <1>1, <2>2, <2>3 DEF IInv
<1>6. CASE \E v, belief : PosteriorStored(p, v, belief)
  <2>1. PICK v, belief : PosteriorStored(p, v, belief)
    BY <1>6
  <2>2. \A q \in Process \ {p} : Good(q)'
    BY <1>1, <1>2, <2>1, OtherPosterior
  <2>3. Sound(db.what)'
    BY <1>1, <2>1, PosteriorStoredSound
  <2> QED BY <1>1, <2>2, <2>3 DEF IInv
<1> QED BY <1>3, <1>4, <1>5, <1>6 DEF Kept

\* A load that ends becomes the handle: what it read still holds unless it was raced.
LEMMA ReadPositionKeeps ==
    ASSUME NEW p \in Process, IInv, ReadPosition(p)
    PROVE  Kept(p)
<1>1. Shape /\ Good(p)
  BY DEF IInv
<1>2. /\ phase[p] = "position" /\ phase'[p] = "idle" /\ mem'[p] = load[p] /\ load'[p] = Nothing
      /\ seen'[p] = db.seq /\ unsaved'[p] = {} /\ others'[p] = others[p] /\ raced'[p] = raced[p]
      /\ db' = db
  BY <1>1 DEF ReadPosition, Go, Shape, PerProcess
<1>3. Shape'
  <2>1. PerProcess(mem)' /\ PerProcess(load)' /\ PerProcess(unsaved)'
    BY <1>1 DEF ReadPosition, Shape, PerProcess
  <2>2. seen' \in [Process -> Int] /\ phase' \in [Process -> Phases]
    <3>1. db.seq \in Nat
      BY <1>1 DEF Shape
    <3>2. "idle" \in Phases
      BY DEF Phases
    <3> QED BY <1>1, <3>1, <3>2 DEF ReadPosition, Go, Shape
  <2>3. \A q \in Process : IsStore(mem'[q]) /\ IsStore(load'[q])
    BY <1>1, NothingIsStore DEF ReadPosition, Shape, PerProcess
  <2> QED BY <1>1, <2>1, <2>2, <2>3 DEF ReadPosition, Shape, PerProcess
<1>4. Aside(p) /\ SameDb(p)
  BY <1>1 DEF ReadPosition, Go, Shape, PerProcess, Aside, SameDb
<1>5. Good(p)'
  <2>1. (seen[p] <= db.seq)' /\ Within(mem[p], db.what)' /\ Within(load[p], db.what)'
    BY <1>1, <1>2 DEF Shape, Good, Within, Nothing
  <2>2. PlanFits(p)' /\ LoadMatches(p)'
    BY <1>2 DEF PlanFits, LoadMatches, LoadPhases
  <2>3. ~raced[p] => Matches(load[p], db.what, others[p], {})
    BY <1>1, <1>2 DEF Good, LoadMatches, LoadPhases, Matches, LoggedKinds
  <2>4. HandleMatches(p)'
    BY <1>2, <2>3 DEF HandleMatches
  <2> QED BY <2>1, <2>2, <2>4 DEF Good
<1> QED BY <1>3, <1>4, <1>5 DEF Kept

\* What an addition to m writes.
PlannedFrom(w, m) ==
    /\ IsPlan(w) /\ w.kind \in LoggedKinds
    /\ w.kind = "factor" => w.row.vars = Ids(m.variable)
    /\ w.kind = "evidence" => w.row.variable \in Ids(m.variable)
    /\ w.tabled => w.kind = "factor"

\* An addition that starts names only what the handle has, and so the database.
LEMMA CheckAdditionKeeps ==
    ASSUME NEW p \in Process, IInv, CheckAddition(p)
    PROVE  Kept(p)
<1>1. Shape /\ Good(p)
  BY DEF IInv
<1>2. PICK write \in Additions(mem[p]) : plan' = [plan EXCEPT ![p] = write] /\ Go(p, "insert")
  BY DEF CheckAddition
<1>3. /\ phase[p] = "idle" /\ seen[p] = db.seq
      /\ phase'[p] = "insert" /\ plan'[p] = write /\ mem' = mem /\ load' = load /\ seen' = seen
      /\ db' = db /\ raced' = raced /\ others' = others /\ unsaved' = unsaved
  BY <1>1, <1>2 DEF CheckAddition, Current, Go, Shape, PerProcess
<1>4. PlannedFrom(write, mem[p])
  <2>1. CASE write = Write("variable", [id |-> NextId(mem[p].variable)], FALSE)
    BY <2>1 DEF PlannedFrom, Write, IsPlan, LoggedKinds
  <2>2. ASSUME NEW tabled,
               write = Write("factor", [id |-> NextId(mem[p].factor), vars |-> Ids(mem[p].variable)], tabled)
        PROVE  PlannedFrom(write, mem[p])
    BY <2>2 DEF PlannedFrom, Write, IsPlan, LoggedKinds
  <2>3. ASSUME NEW v \in Ids(mem[p].variable),
               write = Write("evidence", [id |-> NextId(mem[p].evidence), variable |-> v], FALSE)
        PROVE  PlannedFrom(write, mem[p])
    BY <2>3 DEF PlannedFrom, Write, IsPlan, LoggedKinds
  <2> QED BY <1>2, <2>1, <2>2, <2>3 DEF Additions
<1>5. Shape'
  BY <1>1, <1>2, <1>3, <1>4 DEF PlannedFrom, Go, Shape, PerProcess, Phases
<1>6. Aside(p) /\ SameDb(p)
  BY <1>1, <1>2, <1>3 DEF Go, Shape, PerProcess, Aside, SameDb
<1>7. Good(p)'
  <2>1. (seen[p] <= db.seq)' /\ Within(mem[p], db.what)' /\ Within(load[p], db.what)'
    BY <1>1, <1>3 DEF Good, Within
  <2>2. Ids(mem[p].variable) \subseteq Ids(db.what.variable)
    BY <1>1 DEF Good, Within, Ids
  <2>3. PlanFits(p)'
    BY <1>3, <1>4, <2>2 DEF PlannedFrom, PlanFits
  <2>4. LoadMatches(p)'
    BY <1>3 DEF LoadMatches, LoadPhases
  <2>5. ~raced[p] => Matches(mem[p], db.what, others[p], unsaved[p])
    BY <1>1, <1>3 DEF Good, HandleMatches, LoadPhases
  <2>6. HandleMatches(p)'
    BY <1>3, <2>5 DEF HandleMatches
  <2> QED BY <2>1, <2>3, <2>4, <2>6 DEF Good
<1> QED BY <1>5, <1>6, <1>7 DEF Kept

\* A row whose id is free enters the database; the handle lacks only that row.
LEMMA InsertKeeps ==
    ASSUME NEW p \in Process, IInv, Insert(p)
    PROVE  Kept(p)
<1> DEFINE w == plan[p]
<1>1. Shape /\ Good(p) /\ Sound(db.what)
  BY DEF IInv
<1>2. /\ phase[p] = "insert" /\ mem' = mem /\ load' = load /\ seen' = seen
      /\ others' = others /\ unsaved' = unsaved
  BY DEF Insert
<1>3. /\ w.kind \in LoggedKinds
      /\ w.kind = "factor" => w.row.vars \subseteq Ids(db.what.variable)
      /\ w.kind = "evidence" => w.row.variable \in Ids(db.what.variable)
      /\ w.tabled => w.kind = "factor"
  BY <1>1, <1>2 DEF Good, PlanFits
<1>4. ~raced[p] => seen[p] = db.seq /\ Matches(mem[p], db.what, others[p], unsaved[p])
  BY <1>1, <1>2 DEF Good, HandleMatches, LoadPhases
<1>5. CASE w.row.id \in Ids(db.what[w.kind])
  <2>1. Return(p) /\ db' = db /\ raced' = raced
    BY <1>5 DEF Insert
  <2>2. phase'[p] = "idle" /\ plan'[p] = NoPlan
    BY <1>1, <2>1 DEF Return, Go, Shape, PerProcess
  <2>3. Shape'
    BY <1>1, <1>2, <2>1, NoPlanIsPlan DEF Return, Go, Shape, PerProcess, Phases
  <2>4. Aside(p) /\ SameDb(p)
    BY <1>1, <1>2, <2>1 DEF Return, Go, Shape, PerProcess, Aside, SameDb
  <2>5. Good(p)'
    <3>1. (seen[p] <= db.seq)' /\ Within(mem[p], db.what)' /\ Within(load[p], db.what)'
      BY <1>1, <1>2, <2>1 DEF Good, Within
    <3>2. PlanFits(p)' /\ LoadMatches(p)'
      BY <2>2 DEF PlanFits, LoadMatches, LoadPhases
    <3>3. HandleMatches(p)'
      BY <1>2, <1>4, <2>1, <2>2 DEF HandleMatches
    <3> QED BY <3>1, <3>2, <3>3 DEF Good
  <2> QED BY <2>3, <2>4, <2>5 DEF Kept
<1>6. CASE w.row.id \notin Ids(db.what[w.kind])
  <2>1. Logged(p, w.kind, w.row) /\ phase' = [phase EXCEPT ![p] = "publish"] /\ plan' = plan
    BY <1>6 DEF Insert, Go
  <2>2. RowLogged(p, w.kind, w.row)
    BY <1>3, <1>6, <2>1, <1>2 DEF RowLogged, Logged
  <2>3. RowAdded(w.kind, w.row)
    BY <1>1, <2>2, RowLoggedFields
  <2>4. phase'[p] = "publish" /\ raced'[p] = raced[p] /\ plan'[p] = plan[p]
    BY <1>1, <2>1 DEF Logged, Shape
  <2>5. /\ \A k \in LoggedKinds : db'.what[k] = db.what[k] \cup Gain(w.kind, w.row, k)
        /\ db'.what.table = db.what.table /\ db'.what.posterior = db.what.posterior
        /\ db'.seq = db.seq + 1
    BY <2>3 DEF RowAdded, LoggedKinds
  <2>6. Shape'
    <3>1. db' = [what |-> db'.what, seq |-> db'.seq] /\ IsStore(db'.what) /\ db'.seq \in Nat
      <4>1. db.seq \in Nat
        BY <1>1 DEF Shape
      <4> QED BY <2>1, <2>3, <4>1 DEF Logged, RowAdded
    <3>2. phase' \in [Process -> Phases]
      <4>1. "publish" \in Phases
        BY DEF Phases
      <4> QED BY <1>1, <2>1, <4>1 DEF Shape
    <3>3. raced' \in [Process -> BOOLEAN]
      BY <1>1, <2>1 DEF Logged, Shape
    <3> QED BY <1>1, <1>2, <2>1, <3>1, <3>2, <3>3 DEF Shape, PerProcess
  <2>7. Aside(p)
    BY <1>1, <1>2, <2>1 DEF Shape, Aside
  <2>8. Good(p)'
    <3>1. seen[p] \in Int /\ db.seq \in Nat /\ seen[p] <= db.seq
      BY <1>1 DEF Shape, Good
    <3>2. db.what.variable \subseteq db'.what.variable /\ Ids(db.what.variable) \subseteq Ids(db'.what.variable)
      BY <2>3 DEF RowAdded, Ids
    <3>3. Within(mem[p], db.what)' /\ Within(load[p], db.what)'
      BY <1>1, <1>2, <3>2 DEF Good, Within
    <3>4. PlanFits(p)'
      <4>1. w.row \in db'.what[w.kind]
        BY <1>3, <2>5 DEF Gain
      <4>2. seen'[p] < db'.seq
        BY <1>2, <2>5, <3>1
      <4> QED BY <1>3, <2>4, <4>1, <4>2 DEF PlanFits
    <3>5. LoadMatches(p)'
      BY <2>4 DEF LoadMatches, LoadPhases
    <3>6. ASSUME ~raced[p]
          PROVE  Matches(WithRow(p)', db'.what, others'[p], unsaved'[p])
      <4> DEFINE m == mem[p]  n == [mem[p] EXCEPT ![w.kind] = mem[p][w.kind] \cup {w.row}]
      <4>1. WithRow(p)' = n
        BY <1>2, <2>1 DEF WithRow
      <4>2. Matches(m, db.what, others[p], unsaved[p])
        BY <1>4, <3>6
      <4>3. IsStore(m) /\ w.kind \in Kinds
        BY <1>1, <1>3 DEF Shape, Kinds, LoggedKinds
      <4>4. n[w.kind] = m[w.kind] \cup {w.row} /\ \A k \in Kinds \ {w.kind} : n[k] = m[k]
        BY <4>3 DEF IsStore
      <4> HIDE DEF n, m
      <4>5. \A k \in LoggedKinds : n[k] = m[k] \cup Gain(w.kind, w.row, k)
        BY <4>4, <1>3 DEF Gain, LoggedKinds, Kinds
      <4>6. n.table = m.table /\ n.posterior = m.posterior
        BY <4>4, <1>3 DEF LoggedKinds, Kinds
      <4>7. \A k \in LoggedKinds : n[k] = db'.what[k]
        BY <2>5, <4>2, <4>5 DEF Matches
      <4>8. Matches(n, db'.what, others[p], unsaved[p])
        BY <2>5, <4>2, <4>6, <4>7 DEF Matches, TablesMatch, PosteriorsMatch
      <4> QED BY <1>2, <4>1, <4>8
    <3>7. HandleMatches(p)'
      BY <2>4, <3>6 DEF HandleMatches
    <3> QED BY <1>2, <2>5, <3>1, <3>3, <3>4, <3>5, <3>7 DEF Good
  <2> QED BY <2>2, <2>6, <2>7, <2>8 DEF Kept
<1> QED BY <1>5, <1>6

\* The row enters the handle, which is current again unless it was raced.
LEMMA PublishKeeps ==
    ASSUME NEW p \in Process, IInv, Publish(p)
    PROVE  Kept(p)
<1> DEFINE w == plan[p]
<1>1. Shape /\ Good(p) /\ Sound(db.what)
  BY DEF IInv
<1>2. /\ phase[p] = "publish" /\ load' = load /\ db' = db /\ raced' = raced
      /\ others' = others /\ unsaved' = unsaved
      /\ seen' = [seen EXCEPT ![p] = db.seq]
      /\ mem' = [mem EXCEPT ![p] = WithRow(p)]
  BY DEF Publish, WithRow
<1>3. w.kind \in LoggedKinds /\ w.row \in db.what[w.kind] /\ (w.tabled => w.kind = "factor")
  BY <1>1, <1>2 DEF Good, PlanFits
<1>4. \/ w.tabled /\ phase' = [phase EXCEPT ![p] = "check table"] /\ plan' = plan
      \/ phase' = [phase EXCEPT ![p] = "idle"] /\ plan' = [plan EXCEPT ![p] = NoPlan]
  BY DEF Publish, Return, Go
<1>5. /\ phase'[p] \in {"check table", "idle"} /\ mem'[p] = WithRow(p) /\ seen'[p] = db.seq
      /\ phase'[p] = "check table" => w.tabled /\ plan'[p] = w
  BY <1>1, <1>2, <1>4 DEF Shape, PerProcess
<1>6. /\ IsStore(WithRow(p)) /\ WithRow(p)[w.kind] = mem[p][w.kind] \cup {w.row}
      /\ \A k \in Kinds \ {w.kind} : WithRow(p)[k] = mem[p][k]
  <2>1. IsStore(mem[p]) /\ w.kind \in Kinds
    BY <1>1, <1>3 DEF Shape, Kinds, LoggedKinds
  <2> QED BY <2>1 DEF WithRow, IsStore
<1>7. Shape'
  <2>1. PerProcess(mem)' /\ \A q \in Process : IsStore(mem'[q])
    BY <1>1, <1>2, <1>6 DEF Shape, PerProcess
  <2>2. seen' \in [Process -> Int]
    <3>1. db.seq \in Nat
      BY <1>1 DEF Shape
    <3> QED BY <1>1, <1>2, <3>1 DEF Shape
  <2>3. phase' \in [Process -> Phases]
    <3>1. "idle" \in Phases /\ "check table" \in Phases
      BY DEF Phases
    <3> QED BY <1>1, <1>4, <3>1 DEF Shape
  <2>4. PerProcess(plan)' /\ \A q \in Process : IsPlan(plan'[q])
    BY <1>1, <1>4, NoPlanIsPlan DEF Shape, PerProcess
  <2> QED BY <1>1, <1>2, <2>1, <2>2, <2>3, <2>4 DEF Shape, PerProcess
<1>8. Aside(p) /\ SameDb(p)
  BY <1>1, <1>2, <1>4 DEF Shape, PerProcess, Aside, SameDb
<1>9. Good(p)'
  <2>1. db.seq \in Nat /\ Within(load[p], db.what)'
    BY <1>1, <1>2 DEF Shape, Good, Within
  <2>2. Within(WithRow(p), db.what)
    <3>1. Within(mem[p], db.what)
      BY <1>1 DEF Good
    <3>2. WithRow(p).variable \subseteq db.what.variable /\ WithRow(p).posterior = mem[p].posterior
      BY <1>3, <1>6, <3>1 DEF Kinds, LoggedKinds, Within
    <3> QED BY <3>1, <3>2 DEF Within
  <2>3. PlanFits(p)'
    BY <1>2, <1>3, <1>5 DEF PlanFits
  <2>4. LoadMatches(p)'
    BY <1>5 DEF LoadMatches, LoadPhases
  <2>5. HandleMatches(p)'
    <3>1. ~raced[p] => Matches(WithRow(p), db.what, others[p], unsaved[p])
      BY <1>1, <1>2 DEF Good, HandleMatches
    <3>2. ~raced'[p] => Matches(mem'[p], db'.what, others'[p], unsaved'[p])
      BY <1>2, <1>5, <3>1
    <3> QED BY <1>5, <3>2 DEF HandleMatches
  <2>6. Within(mem[p], db.what)'
    <3>1. mem'[p] = WithRow(p) /\ db'.what = db.what
      BY <1>2, <1>5
    <3> QED BY <2>2, <3>1 DEF Within
  <2>7. (seen[p] <= db.seq)'
    <3>1. seen'[p] = db.seq /\ db'.seq = db.seq /\ db.seq \in Nat
      BY <1>2, <1>5, <2>1
    <3> QED BY <3>1
  <2> QED BY <2>1, <2>3, <2>4, <2>5, <2>6, <2>7 DEF Good
<1> QED BY <1>7, <1>8, <1>9 DEF Kept

\* The second check of add_cpd changes the phase only.
LEMMA CheckTableKeeps ==
    ASSUME NEW p \in Process, IInv, CheckTable(p)
    PROVE  Kept(p)
<1>1. Shape /\ Good(p)
  BY DEF IInv
<1>2. /\ phase[p] = "check table" /\ db' = db /\ mem' = mem /\ load' = load /\ seen' = seen
      /\ raced' = raced /\ others' = others /\ unsaved' = unsaved
      /\ \/ phase' = [phase EXCEPT ![p] = "put table"] /\ plan' = plan
         \/ phase' = [phase EXCEPT ![p] = "idle"] /\ plan' = [plan EXCEPT ![p] = NoPlan]
  BY DEF CheckTable, Return, Go
<1>3. phase'[p] \in {"put table", "idle"} /\ (phase'[p] = "put table" => plan'[p] = plan[p])
  BY <1>1, <1>2 DEF Shape
<1>4. Shape'
  <2>1. phase' \in [Process -> Phases]
    <3>1. "idle" \in Phases /\ "put table" \in Phases
      BY DEF Phases
    <3> QED BY <1>1, <1>2, <3>1 DEF Shape
  <2>2. PerProcess(plan)' /\ \A q \in Process : IsPlan(plan'[q])
    BY <1>1, <1>2, NoPlanIsPlan DEF Shape, PerProcess
  <2> QED BY <1>1, <1>2, <2>1, <2>2 DEF Shape, PerProcess
<1>5. Aside(p) /\ SameDb(p)
  BY <1>1, <1>2 DEF Shape, PerProcess, Aside, SameDb
<1>6. Good(p)'
  <2>1. (seen[p] <= db.seq)' /\ Within(mem[p], db.what)' /\ Within(load[p], db.what)'
    BY <1>1, <1>2 DEF Good, Within
  <2>2. PlanFits(p)'
    BY <1>1, <1>2, <1>3 DEF Good, PlanFits
  <2>3. LoadMatches(p)'
    BY <1>3 DEF LoadMatches, LoadPhases
  <2>4. HandleMatches(p)'
    <3>1. ~raced[p] /\ seen[p] = db.seq => Matches(mem[p], db.what, others[p], unsaved[p])
      BY <1>1, <1>2 DEF Good, HandleMatches, LoadPhases
    <3> QED BY <1>2, <1>3, <3>1 DEF HandleMatches
  <2> QED BY <2>1, <2>2, <2>3, <2>4 DEF Good
<1> QED BY <1>4, <1>5, <1>6 DEF Kept

\* The table enters database and handle, and p need not be told of it.
LEMMA PutTableKeeps ==
    ASSUME NEW p \in Process, IInv, PutTable(p)
    PROVE  Kept(p)
<1> DEFINE row == plan[p].row
<1>1. Shape /\ Good(p) /\ Sound(db.what)
  BY DEF IInv
<1>2. /\ phase[p] = "put table" /\ load' = load /\ seen' = seen /\ raced' = raced
      /\ unsaved' = unsaved
      /\ db' = [db EXCEPT !.what["table"] = {t \in db.what.table : t.id # row.id} \cup {row}]
      /\ others' = [q \in Process |-> IF q = p THEN others[q] \ {<<"table", row.id>>}
                                      ELSE others[q] \cup {<<"table", row.id>>}]
      /\ mem' = [mem EXCEPT ![p] = [mem[p] EXCEPT !["table"] = mem[p]["table"] \cup {row}]]
      /\ phase' = [phase EXCEPT ![p] = "idle"] /\ plan' = [plan EXCEPT ![p] = NoPlan]
  BY DEF PutTable, Unlogged, Return, Go
<1>3. row \in db.what.factor
  BY <1>1, <1>2 DEF Good, PlanFits
<1>4. TableStored(p, row)
  <2>1. db = [what |-> db.what, seq |-> db.seq]
    BY <1>1 DEF Shape
  <2>2. db' = [what |-> [db.what EXCEPT !["table"] = {t \in db.what["table"] : t.id # row.id} \cup {row}],
               seq |-> db.seq]
    BY <1>2, <2>1
  <2> QED BY <1>2, <1>3, <2>2 DEF TableStored
<1>5. /\ db'.seq = db.seq /\ IsStore(db'.what)
      /\ db'.what.variable = db.what.variable /\ db'.what.factor = db.what.factor
      /\ db'.what.evidence = db.what.evidence /\ db'.what.trace = db.what.trace
      /\ db'.what.posterior = db.what.posterior
      /\ db'.what.table = {t \in db.what.table : t.id # row.id} \cup {row}
  BY <1>1, <1>4, TableStoredFields
<1>6. phase'[p] = "idle" /\ others'[p] = others[p] \ {<<"table", row.id>>}
  BY <1>1, <1>2 DEF Shape
<1>7. /\ IsStore(mem'[p])
      /\ mem'[p].table = mem[p].table \cup {row} /\ mem'[p].posterior = mem[p].posterior
      /\ \A k \in LoggedKinds : mem'[p][k] = mem[p][k]
  <2>1. mem'[p] = [mem[p] EXCEPT !["table"] = mem[p]["table"] \cup {row}] /\ IsStore(mem[p])
    BY <1>1, <1>2 DEF Shape, PerProcess
  <2> QED BY <2>1 DEF IsStore, Kinds, LoggedKinds
<1>8. Shape'
  <2>1. PerProcess(mem)' /\ \A q \in Process : IsStore(mem'[q])
    BY <1>1, <1>2, <1>7 DEF Shape, PerProcess
  <2>2. phase' \in [Process -> Phases]
    <3>1. "idle" \in Phases
      BY DEF Phases
    <3> QED BY <1>1, <1>2, <3>1 DEF Shape
  <2>3. PerProcess(plan)' /\ \A q \in Process : IsPlan(plan'[q])
    BY <1>1, <1>2, NoPlanIsPlan DEF Shape, PerProcess
  <2>4. PerProcess(others)'
    BY <1>2 DEF PerProcess
  <2>5. db' = [what |-> db'.what, seq |-> db'.seq] /\ db'.seq \in Nat
    BY <1>1, <1>4, <1>5 DEF Shape, TableStored
  <2> QED BY <1>1, <1>2, <1>5, <2>1, <2>2, <2>3, <2>4, <2>5 DEF Shape
<1>9. Aside(p)
  BY <1>1, <1>2 DEF Shape, PerProcess, Aside
<1>10. Good(p)'
  <2>1. (seen[p] <= db.seq)' /\ Within(load[p], db.what)'
    BY <1>1, <1>2, <1>5 DEF Good, Within
  <2>2. Within(mem[p], db.what)'
    <3>1. mem'[p].variable = mem[p].variable
      BY <1>7 DEF LoggedKinds
    <3> QED BY <1>1, <1>5, <1>7, <3>1 DEF Good, Within
  <2>3. PlanFits(p)' /\ LoadMatches(p)'
    BY <1>6 DEF PlanFits, LoadMatches, LoadPhases
  <2>4. ASSUME Matches(mem[p], db.what, others[p], unsaved[p])
        PROVE  Matches(mem[p], db.what, others[p], unsaved[p])'
    <3>1. \A k \in LoggedKinds : mem'[p][k] = db'.what[k]
      BY <1>5, <1>7, <2>4 DEF Matches, LoggedKinds
    <3>2. TablesMatch(mem[p], db.what, others[p])'
      <4>1. mem[p].table \subseteq db.what.table
            /\ \A t \in db.what.table \ mem[p].table : <<"table", t.id>> \in others[p]
        BY <2>4 DEF Matches, TablesMatch
      <4>2. \A t \in db.what.table : t.id = row.id => t = row
        BY <1>1, <1>3 DEF Sound
      <4>3. mem'[p].table \subseteq db'.what.table
        BY <1>5, <1>7, <4>1, <4>2
      <4>4. ASSUME NEW t \in db'.what.table \ mem'[p].table
            PROVE  <<"table", t.id>> \in others'[p]
        <5>1. t \in db.what.table \ mem[p].table /\ t.id # row.id
          BY <1>5, <1>7, <4>4
        <5> QED BY <1>6, <4>1, <5>1
      <4> QED BY <4>3, <4>4 DEF TablesMatch
    <3>3. PosteriorsMatch(mem[p], db.what, others[p], unsaved[p])'
      <4>1. PosteriorsMatch(mem[p], db.what, others[p], unsaved[p])
        BY <2>4 DEF Matches
      <4>2. \A v : <<"posterior", v>> \in others[p] => <<"posterior", v>> \in others'[p]
        BY <1>6
      <4> QED BY <1>2, <1>5, <1>7, <4>1, <4>2 DEF PosteriorsMatch
    <3> QED BY <3>1, <3>2, <3>3 DEF Matches
  <2>5. HandleMatches(p)'
    <3>1. ~raced[p] /\ seen[p] = db.seq => Matches(mem[p], db.what, others[p], unsaved[p])
      BY <1>1, <1>2 DEF Good, HandleMatches, LoadPhases
    <3> QED BY <1>2, <1>5, <1>6, <2>4, <3>1 DEF HandleMatches
  <2> QED BY <2>1, <2>2, <2>3, <2>5 DEF Good
<1> QED BY <1>4, <1>8, <1>9, <1>10 DEF Kept

\* A plan with other posteriors left is a plan.
LEMMA PlanLeft ==
    ASSUME NEW w, IsPlan(w), NEW rest
    PROVE  IsPlan([w EXCEPT !.left = rest]) /\ [w EXCEPT !.left = rest].left = rest
<1> DEFINE n == [w EXCEPT !.left = rest]
<1>1. n = [kind |-> w.kind, row |-> w.row, tabled |-> w.tabled, left |-> rest]
  BY DEF IsPlan
<1> HIDE DEF n
<1>2. n.kind = w.kind /\ n.row = w.row /\ n.tabled = w.tabled /\ n.left = rest
  BY <1>1
<1>3. IsPlan(n) /\ n.left = rest
  BY <1>1, <1>2 DEF IsPlan
<1> QED BY <1>3 DEF n

\* Beliefs enter the handle unsaved, for variables the database has.
LEMMA PersistKeeps ==
    ASSUME NEW p \in Process, IInv, NEW query \in SUBSET Ids(mem[p].variable), Persist(p, query)
    PROVE  Kept(p)
<1> DEFINE m == mem[p]
<1>1. Shape /\ Good(p) /\ Sound(db.what)
  BY DEF IInv
<1>2. PICK done \in SUBSET query :
        LET all == [v \in DOMAIN m.posterior \cup done |->
                        IF v \in done THEN KnownTo(m) ELSE m.posterior[v]]
        IN  /\ mem' = [mem EXCEPT ![p].posterior = all]
            /\ unsaved' = [unsaved EXCEPT ![p] = @ \cup done]
            /\ IF done = query
               THEN /\ plan' = [plan EXCEPT ![p] = [NoPlan EXCEPT !.left = DOMAIN all]]
                    /\ Go(p, "posteriors left")
               ELSE UNCHANGED <<plan, phase>>
  BY DEF Persist
<1> DEFINE all == [v \in DOMAIN m.posterior \cup done |->
                        IF v \in done THEN KnownTo(m) ELSE m.posterior[v]]
<1>3. /\ phase[p] = "idle" /\ db' = db /\ load' = load /\ seen' = seen /\ raced' = raced
      /\ others' = others /\ seen[p] = db.seq
  BY DEF Persist, Current
<1>4. /\ DOMAIN all = DOMAIN m.posterior \cup done
      /\ \A v \in DOMAIN m.posterior \ done : all[v] = m.posterior[v]
  OBVIOUS
<1>5. /\ mem' = [mem EXCEPT ![p] = [m EXCEPT !["posterior"] = all]]
      /\ unsaved' = [unsaved EXCEPT ![p] = unsaved[p] \cup done]
      /\ \/ /\ plan' = [plan EXCEPT ![p] = [NoPlan EXCEPT !.left = DOMAIN all]]
            /\ phase' = [phase EXCEPT ![p] = "posteriors left"]
         \/ plan' = plan /\ phase' = phase
  BY <1>2 DEF Go
<1> HIDE DEF all, m
<1>6. IsPlan([NoPlan EXCEPT !.left = DOMAIN all]) /\ [NoPlan EXCEPT !.left = DOMAIN all].left = DOMAIN all
  BY PlanLeft, NoPlanIsPlan
<1>7. /\ IsStore(mem'[p]) /\ mem'[p].posterior = all
      /\ \A k \in Kinds \ {"posterior"} : mem'[p][k] = m[k]
  <2>1. mem'[p] = [m EXCEPT !["posterior"] = all] /\ IsStore(m)
    BY <1>1, <1>5 DEF m, Shape, PerProcess
  <2> QED BY <2>1 DEF IsStore, Kinds
<1>8. /\ unsaved'[p] = unsaved[p] \cup done
      /\ phase'[p] \in {"posteriors left", "idle"}
      /\ phase'[p] = "posteriors left" => plan'[p].left = DOMAIN all
  BY <1>1, <1>3, <1>5, <1>6 DEF Shape, PerProcess
<1>9. Shape'
  <2>1. PerProcess(mem)' /\ \A q \in Process : IsStore(mem'[q])
    BY <1>1, <1>5, <1>7 DEF Shape, PerProcess
  <2>2. phase' \in [Process -> Phases]
    <3>1. "posteriors left" \in Phases
      BY DEF Phases
    <3> QED BY <1>1, <1>5, <3>1 DEF Shape
  <2>3. PerProcess(plan)' /\ \A q \in Process : IsPlan(plan'[q])
    BY <1>1, <1>5, <1>6 DEF Shape, PerProcess
  <2>4. PerProcess(unsaved)'
    BY <1>1, <1>5 DEF Shape, PerProcess
  <2> QED BY <1>1, <1>3, <2>1, <2>2, <2>3, <2>4 DEF Shape, PerProcess
<1>10. Aside(p) /\ SameDb(p)
  BY <1>1, <1>3, <1>5 DEF Shape, PerProcess, Aside, SameDb
<1>11. Good(p)'
  <2>1. (seen[p] <= db.seq)' /\ Within(load[p], db.what)'
    BY <1>1, <1>3 DEF Good, Within
  <2>2. Within(mem[p], db.what)'
    <3>1. m.variable \subseteq db.what.variable /\ DOMAIN m.posterior \subseteq Ids(db.what.variable)
      BY <1>1 DEF m, Good, Within
    <3>2. done \subseteq Ids(db.what.variable)
      BY <3>1 DEF m, Ids
    <3>3. mem'[p].variable = m.variable
      BY <1>7 DEF Kinds
    <3> QED BY <1>3, <1>4, <1>7, <3>1, <3>2, <3>3 DEF Within
  <2>3. PlanFits(p)'
    BY <1>7, <1>8 DEF PlanFits
  <2>4. LoadMatches(p)'
    BY <1>8 DEF LoadMatches, LoadPhases
  <2>5. ASSUME ~raced[p] PROVE Matches(mem[p], db.what, others[p], unsaved[p])'
    <3>1. Matches(m, db.what, others[p], unsaved[p])
      BY <1>1, <1>3, <2>5 DEF m, Good, HandleMatches, LoadPhases
    <3>2. \A k \in LoggedKinds : mem'[p][k] = db'.what[k]
      BY <1>3, <1>7, <3>1 DEF Matches, LoggedKinds, Kinds
    <3>3. TablesMatch(mem[p], db.what, others[p])'
      <4>1. mem'[p].table = m.table
        BY <1>7 DEF Kinds
      <4> QED BY <1>3, <3>1, <4>1 DEF Matches, TablesMatch
    <3>4. PosteriorsMatch(mem[p], db.what, others[p], unsaved[p])'
      <4>1. PosteriorsMatch(m, db.what, others[p], unsaved[p])
        BY <3>1 DEF Matches
      <4> QED BY <1>3, <1>4, <1>7, <1>8, <4>1 DEF PosteriorsMatch
    <3> QED BY <3>2, <3>3, <3>4 DEF Matches
  <2>6. HandleMatches(p)'
    BY <1>3, <1>8, <2>5 DEF HandleMatches
  <2> QED BY <2>1, <2>2, <2>3, <2>4, <2>6 DEF Good
<1> QED BY <1>9, <1>10, <1>11 DEF Kept

\* A stored posterior is the handle's, and p need not be told of it.
LEMMA StorePosteriorKeeps ==
    ASSUME NEW p \in Process, IInv, StorePosterior(p)
    PROVE  Kept(p)
<1>1. Shape /\ Good(p) /\ Sound(db.what)
  BY DEF IInv
<1>2. PICK v \in plan[p].left :
        /\ Unlogged(p, "posterior",
                    [u \in DOMAIN db.what.posterior \cup {v} |->
                        IF u = v THEN mem[p].posterior[v] ELSE db.what.posterior[u]],
                    <<"posterior", v>>)
        /\ unsaved' = [unsaved EXCEPT ![p] = @ \ {v}]
        /\ plan' = [plan EXCEPT ![p].left = Without(@, v)]
  BY DEF StorePosterior
<1> DEFINE belief == mem[p].posterior[v]
           after == [u \in DOMAIN db.what["posterior"] \cup {v} |->
                        IF u = v THEN belief ELSE db.what["posterior"][u]]
<1>3. /\ phase[p] = "posteriors left" /\ phase' = phase /\ mem' = mem /\ load' = load
      /\ seen' = seen /\ raced' = raced
      /\ unsaved' = [unsaved EXCEPT ![p] = unsaved[p] \ {v}]
      /\ plan' = [plan EXCEPT ![p] = [plan[p] EXCEPT !.left = plan[p].left \ {v}]]
      /\ db' = [db EXCEPT !.what["posterior"] = after]
      /\ others' = [q \in Process |-> IF q = p THEN others[q] \ {<<"posterior", v>>}
                                      ELSE others[q] \cup {<<"posterior", v>>}]
  BY <1>2 DEF StorePosterior, Unlogged, Without
<1>4. v \in DOMAIN mem[p].posterior /\ v \in Ids(db.what.variable)
      /\ plan[p].left \subseteq DOMAIN mem[p].posterior
  BY <1>1, <1>3 DEF Good, PlanFits, Within
<1>5. PosteriorStored(p, v, belief)
  <2> HIDE DEF after, belief
  <2>1. db = [what |-> db.what, seq |-> db.seq]
    BY <1>1 DEF Shape
  <2>2. db' = [what |-> [db.what EXCEPT !["posterior"] = after], seq |-> db.seq]
    BY <1>3, <2>1
  <2> USE DEF after
  <2> QED BY <1>3, <1>4, <2>2 DEF PosteriorStored
<1> HIDE DEF after, belief
<1>6. /\ db'.seq = db.seq /\ IsStore(db'.what)
      /\ db'.what.variable = db.what.variable /\ db'.what.factor = db.what.factor
      /\ db'.what.evidence = db.what.evidence /\ db'.what.trace = db.what.trace
      /\ db'.what.table = db.what.table
      /\ DOMAIN db'.what.posterior = DOMAIN db.what.posterior \cup {v}
      /\ db'.what.posterior[v] = belief
      /\ \A u \in DOMAIN db.what.posterior \ {v} : db'.what.posterior[u] = db.what.posterior[u]
  BY <1>1, <1>5, PosteriorStoredFields
<1>7. /\ phase'[p] = "posteriors left" /\ others'[p] = others[p] \ {<<"posterior", v>>}
      /\ unsaved'[p] = unsaved[p] \ {v} /\ mem'[p] = mem[p]
  BY <1>1, <1>3 DEF Shape, PerProcess
<1>8. IsPlan(plan'[p]) /\ plan'[p].left = plan[p].left \ {v}
  <2>1. plan'[p] = [plan[p] EXCEPT !.left = plan[p].left \ {v}] /\ IsPlan(plan[p])
    BY <1>1, <1>3 DEF Shape, PerProcess
  <2> QED BY <2>1, PlanLeft
<1>9. Shape'
  <2>1. PerProcess(plan)' /\ \A q \in Process : IsPlan(plan'[q])
    BY <1>1, <1>3, <1>8 DEF Shape, PerProcess
  <2>2. PerProcess(others)' /\ PerProcess(unsaved)'
    BY <1>1, <1>3 DEF Shape, PerProcess
  <2>3. db' = [what |-> db'.what, seq |-> db'.seq] /\ db'.seq \in Nat
    BY <1>1, <1>5, <1>6 DEF Shape, PosteriorStored
  <2> QED BY <1>1, <1>3, <1>6, <2>1, <2>2, <2>3 DEF Shape, PerProcess
<1>10. Aside(p)
  BY <1>1, <1>3 DEF Shape, PerProcess, Aside
<1>11. Good(p)'
  <2>1. (seen[p] <= db.seq)' /\ Within(mem[p], db.what)' /\ Within(load[p], db.what)'
    BY <1>1, <1>3, <1>6 DEF Good, Within
  <2>2. PlanFits(p)'
    BY <1>3, <1>4, <1>7, <1>8 DEF PlanFits
  <2>3. LoadMatches(p)'
    BY <1>7 DEF LoadMatches, LoadPhases
  <2>4. ASSUME Matches(mem[p], db.what, others[p], unsaved[p])
        PROVE  Matches(mem[p], db.what, others[p], unsaved[p])'
    <3>1. \A k \in LoggedKinds : mem'[p][k] = db'.what[k]
      BY <1>3, <1>6, <2>4 DEF Matches, LoggedKinds
    <3>2. TablesMatch(mem[p], db.what, others[p])'
      <4>1. \A t : <<"table", t.id>> \in others[p] => <<"table", t.id>> \in others'[p]
        BY <1>7
      <4> QED BY <1>3, <1>6, <2>4, <4>1 DEF Matches, TablesMatch
    <3>3. PosteriorsMatch(mem[p], db.what, others[p], unsaved[p])'
      <4>1. PosteriorsMatch(mem[p], db.what, others[p], unsaved[p])
        BY <2>4 DEF Matches
      <4>2. ASSUME NEW u \in DOMAIN mem[p].posterior \cup DOMAIN db'.what.posterior
            PROVE  \/ u \in unsaved'[p] \/ <<"posterior", u>> \in others'[p]
                   \/ /\ u \in DOMAIN mem[p].posterior \cap DOMAIN db'.what.posterior
                      /\ mem[p].posterior[u] = db'.what.posterior[u]
        <5>1. CASE u = v
          BY <1>4, <1>6, <5>1 DEF belief
        <5>2. CASE u # v
          <6>1. \/ u \in unsaved[p] \/ <<"posterior", u>> \in others[p]
                \/ /\ u \in DOMAIN mem[p].posterior \cap DOMAIN db.what.posterior
                   /\ mem[p].posterior[u] = db.what.posterior[u]
            BY <1>6, <4>1, <4>2, <5>2 DEF PosteriorsMatch
          <6> QED BY <1>6, <1>7, <5>2, <6>1
        <5> QED BY <5>1, <5>2
      <4> QED BY <1>7, <4>2 DEF PosteriorsMatch
    <3> QED BY <3>1, <3>2, <3>3 DEF Matches
  <2>5. HandleMatches(p)'
    <3>1. ~raced[p] /\ seen[p] = db.seq => Matches(mem[p], db.what, others[p], unsaved[p])
      BY <1>1, <1>3 DEF Good, HandleMatches, LoadPhases
    <3> QED BY <1>3, <1>6, <1>7, <2>4, <3>1 DEF HandleMatches
  <2> QED BY <2>1, <2>2, <2>3, <2>5 DEF Good
<1> QED BY <1>5, <1>9, <1>10, <1>11 DEF Kept

\* The trace of a persisted run is a row like another.
LEMMA CheckTraceKeeps ==
    ASSUME NEW p \in Process, IInv, CheckTrace(p)
    PROVE  Kept(p)
<1> DEFINE w == Write("trace", [id |-> NextId(mem[p].trace)], FALSE)
<1>1. Shape /\ Good(p)
  BY DEF IInv
<1>2. /\ phase[p] = "posteriors left" /\ db' = db /\ mem' = mem /\ load' = load /\ seen' = seen
      /\ raced' = raced /\ others' = others /\ unsaved' = unsaved
      /\ \/ /\ seen[p] = db.seq
            /\ phase' = [phase EXCEPT ![p] = "insert"] /\ plan' = [plan EXCEPT ![p] = w]
         \/ phase' = [phase EXCEPT ![p] = "idle"] /\ plan' = [plan EXCEPT ![p] = NoPlan]
  BY DEF CheckTrace, Current, Return, Go
<1>3. IsPlan(w) /\ w.kind = "trace" /\ w.tabled = FALSE
  BY DEF IsPlan, Write
<1> HIDE DEF w
<1>4. /\ phase'[p] \in {"insert", "idle"}
      /\ phase'[p] = "insert" => plan'[p] = w /\ seen[p] = db.seq
  BY <1>1, <1>2 DEF Shape, PerProcess
<1>5. Shape'
  <2>1. phase' \in [Process -> Phases]
    <3>1. "idle" \in Phases /\ "insert" \in Phases
      BY DEF Phases
    <3> QED BY <1>1, <1>2, <3>1 DEF Shape
  <2>2. PerProcess(plan)' /\ \A q \in Process : IsPlan(plan'[q])
    BY <1>1, <1>2, <1>3, NoPlanIsPlan DEF Shape, PerProcess
  <2> QED BY <1>1, <1>2, <2>1, <2>2 DEF Shape, PerProcess
<1>6. Aside(p) /\ SameDb(p)
  BY <1>1, <1>2 DEF Shape, PerProcess, Aside, SameDb
<1>7. Good(p)'
  <2>1. (seen[p] <= db.seq)' /\ Within(mem[p], db.what)' /\ Within(load[p], db.what)'
    BY <1>1, <1>2 DEF Good, Within
  <2>2. PlanFits(p)'
    BY <1>3, <1>4 DEF PlanFits, LoggedKinds
  <2>3. LoadMatches(p)'
    BY <1>4 DEF LoadMatches, LoadPhases
  <2>4. HandleMatches(p)'
    <3>1. ~raced[p] /\ seen[p] = db.seq => Matches(mem[p], db.what, others[p], unsaved[p])
      BY <1>1, <1>2 DEF Good, HandleMatches, LoadPhases
    <3> QED BY <1>2, <1>4, <3>1 DEF HandleMatches
  <2> QED BY <2>1, <2>2, <2>3, <2>4 DEF Good
<1> QED BY <1>5, <1>6, <1>7 DEF Kept

\* A call that fails leaves a handle that is behind the log or was raced, or matches.
LEMMA StopKeeps ==
    ASSUME NEW p \in Process, IInv, Stop(p)
    PROVE  Kept(p)
<1>1. Shape /\ Good(p)
  BY DEF IInv
<1>2. /\ db' = db /\ mem' = mem /\ seen' = seen /\ others' = others /\ unsaved' = unsaved
      /\ phase' = [phase EXCEPT ![p] = "idle"] /\ plan' = [plan EXCEPT ![p] = NoPlan]
      /\ load' = [load EXCEPT ![p] = Nothing]
      /\ raced' = [raced EXCEPT ![p] = raced[p] \/ phase[p] \in LoadPhases]
  BY LoadOrderIs DEF Stop, Return, Go
<1>3. /\ phase'[p] = "idle" /\ load'[p] = Nothing
      /\ ~raced'[p] => ~raced[p] /\ phase[p] \notin LoadPhases
  BY <1>1, <1>2 DEF Shape, PerProcess
<1>4. Shape'
  <2>1. phase' \in [Process -> Phases]
    <3>1. "idle" \in Phases
      BY DEF Phases
    <3> QED BY <1>1, <1>2, <3>1 DEF Shape
  <2>2. /\ PerProcess(plan)' /\ PerProcess(load)'
        /\ \A q \in Process : IsPlan(plan'[q]) /\ IsStore(load'[q])
    BY <1>1, <1>2, NoPlanIsPlan, NothingIsStore DEF Shape, PerProcess
  <2>3. raced' \in [Process -> BOOLEAN]
    BY <1>1, <1>2 DEF Shape
  <2> QED BY <1>1, <1>2, <2>1, <2>2, <2>3 DEF Shape, PerProcess
<1>5. Aside(p) /\ SameDb(p)
  BY <1>1, <1>2 DEF Shape, PerProcess, Aside, SameDb
<1>6. Good(p)'
  <2>1. (seen[p] <= db.seq)' /\ Within(mem[p], db.what)'
    BY <1>1, <1>2 DEF Good, Within
  <2>2. Within(load[p], db.what)'
    BY <1>3 DEF Within, Nothing
  <2>3. PlanFits(p)' /\ LoadMatches(p)'
    BY <1>3 DEF PlanFits, LoadMatches, LoadPhases
  <2>4. ASSUME ~raced'[p], seen[p] = db.seq
        PROVE  Matches(mem[p], db.what, others[p], unsaved[p])
    <3>1. phase[p] # "publish"
      <4>1. db.seq \in Nat
        BY <1>1 DEF Shape
      <4>2. phase[p] = "publish" => seen[p] < db.seq
        BY <1>1 DEF Good, PlanFits
      <4> QED BY <2>4, <4>1, <4>2
    <3> QED BY <1>1, <1>3, <2>4, <3>1 DEF Good, HandleMatches
  <2>5. HandleMatches(p)'
    BY <1>2, <1>3, <2>4 DEF HandleMatches
  <2> QED BY <2>1, <2>2, <2>3, <2>5 DEF Good
<1> QED BY <1>4, <1>5, <1>6 DEF Kept

\* A process that ended has no handle.
LEMMA DieKeeps ==
    ASSUME NEW p \in Process, IInv, Die(p)
    PROVE  Kept(p)
<1>1. Shape /\ Good(p)
  BY DEF IInv
<1>2. /\ db' = db
      /\ phase' = [phase EXCEPT ![p] = "idle"] /\ plan' = [plan EXCEPT ![p] = NoPlan]
      /\ mem' = [mem EXCEPT ![p] = Nothing] /\ load' = [load EXCEPT ![p] = Nothing]
      /\ seen' = [seen EXCEPT ![p] = NotOpen] /\ raced' = [raced EXCEPT ![p] = FALSE]
      /\ others' = [others EXCEPT ![p] = {}] /\ unsaved' = [unsaved EXCEPT ![p] = {}]
  BY DEF Die, Return, Go
<1>3. /\ phase'[p] = "idle" /\ mem'[p] = Nothing /\ load'[p] = Nothing /\ seen'[p] = -1
      /\ db.seq \in Nat
  BY <1>1, <1>2 DEF Shape, PerProcess, NotOpen
<1>4. Shape'
  <2>1. phase' \in [Process -> Phases]
    <3>1. "idle" \in Phases
      BY DEF Phases
    <3> QED BY <1>1, <1>2, <3>1 DEF Shape
  <2>2. /\ PerProcess(plan)' /\ PerProcess(load)' /\ PerProcess(mem)'
        /\ \A q \in Process : IsPlan(plan'[q]) /\ IsStore(load'[q]) /\ IsStore(mem'[q])
    BY <1>1, <1>2, NoPlanIsPlan, NothingIsStore DEF Shape, PerProcess
  <2>3. /\ raced' \in [Process -> BOOLEAN] /\ seen' \in [Process -> Int]
        /\ PerProcess(others)' /\ PerProcess(unsaved)'
    <3>1. NotOpen \in Int
      BY DEF NotOpen
    <3> QED BY <1>1, <1>2, <3>1 DEF Shape, PerProcess
  <2> QED BY <1>1, <1>2, <2>1, <2>2, <2>3 DEF Shape
<1>5. Aside(p) /\ SameDb(p)
  BY <1>1, <1>2 DEF Shape, PerProcess, Aside, SameDb
<1>6. Good(p)'
  <2>1. Within(mem[p], db.what)' /\ Within(load[p], db.what)'
    BY <1>3 DEF Within, Nothing
  <2>2. PlanFits(p)' /\ LoadMatches(p)'
    BY <1>3 DEF PlanFits, LoadMatches, LoadPhases
  <2>3. HandleMatches(p)' /\ (seen[p] <= db.seq)'
    BY <1>2, <1>3 DEF HandleMatches
  <2> QED BY <2>1, <2>2, <2>3 DEF Good
<1> QED BY <1>4, <1>5, <1>6 DEF Kept

\* What a load has after its k-th SELECT, and the phase after it if the rows fit.
Had(p, k) == IF k = 1 THEN Nothing ELSE load[p]

HasRead(p, k) == [Had(p, k) EXCEPT ![LoadOrder[k]] = db.what[LoadOrder[k]]]

AfterRead(k) == IF k = Len(LoadOrder) THEN "position" ELSE LoadOrder[k + 1]

\* A SELECT replaces the rows of one kind.
LEMMA HasReadFields ==
    ASSUME NEW p \in Process, Shape, NEW k \in 1..6
    PROVE  /\ IsStore(HasRead(p, k))
           /\ HasRead(p, k)[LoadOrder[k]] = db.what[LoadOrder[k]]
           /\ \A kind \in Kinds \ {LoadOrder[k]} : HasRead(p, k)[kind] = Had(p, k)[kind]
<1>1. LoadOrder[k] \in Kinds
  BY LoadOrderIs DEF Kinds
<1>2. IsStore(Had(p, k))
  BY NothingIsStore DEF Shape, Had
<1> QED BY <1>1, <1>2 DEF IsStore, HasRead

\* One step of a load, phase by phase.
LEMMA ReadMoves ==
    ASSUME NEW p \in Process, Shape, NEW k \in 1..6, Read(p, k)
    PROVE  /\ phase[p] = IF k = 1 THEN "idle" ELSE LoadOrder[k]
           /\ db' = db /\ mem' = mem /\ seen' = seen /\ plan' = plan /\ unsaved' = unsaved
           /\ \/ /\ Fits(HasRead(p, k), LoadOrder[k])
                 /\ load' = [load EXCEPT ![p] = HasRead(p, k)]
                 /\ phase' = [phase EXCEPT ![p] = AfterRead(k)]
                 /\ raced' = [raced EXCEPT ![p] = k > 1 /\ raced[p]]
              \/ /\ ~Fits(HasRead(p, k), LoadOrder[k])
                 /\ load' = [load EXCEPT ![p] = Nothing]
                 /\ phase' = [phase EXCEPT ![p] = "idle"]
                 /\ raced' = [raced EXCEPT ![p] = TRUE]
           /\ others' = [others EXCEPT ![p] = IF k = 1 THEN {} ELSE others[p]]
<1> DEFINE fits == Fits(HasRead(p, k), LoadOrder[k])
<1>1. /\ phase[p] = IF k = 1 THEN "idle" ELSE LoadOrder[k]
      /\ db' = db /\ mem' = mem /\ seen' = seen /\ plan' = plan /\ unsaved' = unsaved
      /\ others' = [others EXCEPT ![p] = IF k = 1 THEN {} ELSE others[p]]
  BY DEF Read
<1>2. /\ load' = [load EXCEPT ![p] = IF fits THEN HasRead(p, k) ELSE Nothing]
      /\ phase' = [phase EXCEPT ![p] = IF ~fits THEN "idle" ELSE AfterRead(k)]
      /\ raced' = [raced EXCEPT ![p] = (k > 1 /\ raced[p]) \/ ~fits]
  BY DEF Read, Go, HasRead, Had, AfterRead
<1> HIDE DEF fits
<1>3. CASE fits
  <2>1. ((k > 1 /\ raced[p]) \/ ~fits) = (k > 1 /\ raced[p])
    BY <1>3
  <2> QED BY <1>1, <1>2, <1>3, <2>1 DEF fits
<1>4. CASE ~fits
  <2>1. ((k > 1 /\ raced[p]) \/ ~fits) = TRUE
    BY <1>4
  <2> QED BY <1>1, <1>2, <1>4, <2>1 DEF fits
<1> QED BY <1>3, <1>4

\* Unless it was raced, a load finds that the rows fit.
LEMMA ReadFits ==
    ASSUME NEW p \in Process, IInv, NEW k \in 2..6, phase[p] = LoadOrder[k], ~raced[p]
    PROVE  Fits(HasRead(p, k), LoadOrder[k])
<1>1. Shape /\ Sound(db.what) /\ LoadMatches(p)
  BY DEF IInv, Good
<1>2. /\ HasRead(p, k)[LoadOrder[k]] = db.what[LoadOrder[k]]
      /\ \A kind \in Kinds \ {LoadOrder[k]} : HasRead(p, k)[kind] = load[p][kind]
  BY <1>1, HasReadFields DEF Had
<1>3. HasRead(p, k).variable = db.what.variable
  BY <1>1, <1>2, LoadOrderIs DEF LoadMatches, LoadPhases, Kinds
<1>4. CASE k = 2
  BY <1>1, <1>2, <1>3, <1>4, LoadOrderIs DEF Fits, Sound
<1>5. CASE k = 3
  <2>1. HasRead(p, k).factor = db.what.factor /\ HasRead(p, k).table = db.what.table
    BY <1>1, <1>2, <1>5, LoadOrderIs DEF LoadMatches, LoadPhases, Kinds
  <2>2. \A t \in db.what.table : t.id \in Ids(db.what.factor) /\ t.vars \subseteq Ids(db.what.variable)
    BY <1>1 DEF Sound, Ids
  <2> QED BY <1>3, <1>5, <2>1, <2>2, LoadOrderIs DEF Fits
<1>6. CASE k = 4
  BY <1>1, <1>2, <1>3, <1>6, LoadOrderIs DEF Fits, Sound
<1>7. CASE k = 5
  BY <1>1, <1>2, <1>3, <1>7, LoadOrderIs DEF Fits, Sound
<1>8. CASE k = 6
  BY <1>8, LoadOrderIs DEF Fits
<1> QED BY <1>4, <1>5, <1>6, <1>7, <1>8

\* A SELECT adds one kind that matches, unless the load is raced.
LEMMA ReadKeeps ==
    ASSUME NEW p \in Process, IInv, NEW k \in 1..6, Read(p, k)
    PROVE  Kept(p)
<1> DEFINE read == HasRead(p, k)  old == Had(p, k)  d == db.what
<1>1. Shape /\ Good(p) /\ Sound(db.what)
  BY DEF IInv
<1>2. /\ phase[p] = IF k = 1 THEN "idle" ELSE LoadOrder[k]
      /\ db' = db /\ mem' = mem /\ seen' = seen /\ plan' = plan /\ unsaved' = unsaved
      /\ others' = [others EXCEPT ![p] = IF k = 1 THEN {} ELSE others[p]]
  BY <1>1, ReadMoves
<1>3. \/ /\ load' = [load EXCEPT ![p] = read] /\ phase' = [phase EXCEPT ![p] = AfterRead(k)]
         /\ raced' = [raced EXCEPT ![p] = k > 1 /\ raced[p]]
      \/ /\ load' = [load EXCEPT ![p] = Nothing] /\ phase' = [phase EXCEPT ![p] = "idle"]
         /\ raced' = [raced EXCEPT ![p] = TRUE]
  BY <1>1, ReadMoves
<1>4. IsStore(read) /\ read[LoadOrder[k]] = d[LoadOrder[k]]
      /\ \A kind \in Kinds \ {LoadOrder[k]} : read[kind] = old[kind]
  BY <1>1, HasReadFields
<1>5. AfterRead(k) \in LoadPhases
  BY LoadOrderIs DEF AfterRead, LoadPhases
<1> HIDE DEF read, old, d
<1>6. Shape'
  <2>1. PerProcess(load)' /\ \A q \in Process : IsStore(load'[q])
    BY <1>1, <1>3, <1>4, NothingIsStore DEF Shape, PerProcess
  <2>2. phase' \in [Process -> Phases]
    <3>1. "idle" \in Phases /\ AfterRead(k) \in Phases
      BY <1>5 DEF Phases
    <3> QED BY <1>1, <1>3, <3>1 DEF Shape
  <2>3. raced' \in [Process -> BOOLEAN]
    BY <1>1, <1>3 DEF Shape
  <2>4. PerProcess(others)'
    BY <1>1, <1>2 DEF Shape, PerProcess
  <2> QED BY <1>1, <1>2, <2>1, <2>2, <2>3, <2>4 DEF Shape, PerProcess
<1>7. Aside(p) /\ SameDb(p)
  BY <1>1, <1>2, <1>3 DEF Shape, PerProcess, Aside, SameDb
<1>8. (seen[p] <= db.seq)' /\ Within(mem[p], db.what)'
  BY <1>1, <1>2 DEF Good, Within
<1>9. CASE phase'[p] = "idle" /\ load'[p] = Nothing /\ raced'[p] = TRUE
  <2>1. Within(load[p], db.what)'
    BY <1>9 DEF Within, Nothing
  <2>2. PlanFits(p)' /\ LoadMatches(p)' /\ HandleMatches(p)'
    BY <1>9 DEF PlanFits, LoadMatches, HandleMatches, LoadPhases
  <2> QED BY <1>6, <1>7, <1>8, <2>1, <2>2 DEF Good, Kept
<1>10. CASE phase'[p] = AfterRead(k) /\ load'[p] = read /\ raced'[p] = (k > 1 /\ raced[p])
  <2>1. PlanFits(p)' /\ HandleMatches(p)'
    BY <1>5, <1>10 DEF PlanFits, HandleMatches, LoadPhases
  <2>2. Within(read, d)
    <3>1. Within(old, d)
      BY <1>1 DEF Good, Within, Nothing, old, Had, d
    <3>2. read.variable \subseteq d.variable
      BY <1>4, <3>1 DEF Within, Kinds
    <3>3. DOMAIN read.posterior \subseteq Ids(d.variable)
      BY <1>1, <1>4, <3>1 DEF Within, Sound, Kinds, d
    <3> QED BY <3>2, <3>3 DEF Within
  <2>3. Within(load[p], db.what)'
    BY <1>2, <1>10, <2>2 DEF Within, d
  <2>4. LoadMatches(p)'
    <3> SUFFICES ASSUME ~raced'[p] PROVE LoadMatches(p)'
      BY DEF LoadMatches
    <3>1. CASE k = 1
      <4>1. AfterRead(k) = "factor" /\ read.variable = d.variable
        BY <1>4, <3>1, LoadOrderIs DEF AfterRead
      <4> QED BY <1>2, <1>10, <4>1 DEF LoadMatches, d
    <3>2. CASE k > 1
      <4>1. LoadMatches(p) /\ ~raced[p] /\ old = load[p] /\ others'[p] = others[p]
            /\ phase[p] = LoadOrder[k]
        BY <1>1, <1>2, <1>10, <3>2 DEF Good, old, Had, Shape, PerProcess
      <4>2. read.variable = d.variable
        BY <1>4, <3>2, <4>1, LoadOrderIs DEF LoadMatches, LoadPhases, Kinds, d
      <4>3. read.factor = d.factor
        BY <1>4, <3>2, <4>1, LoadOrderIs DEF LoadMatches, LoadPhases, Kinds, d
      <4>4. k > 2 => TablesMatch(read, d, others[p])
        <5>1. CASE k = 3
          BY <1>4, <5>1, LoadOrderIs DEF TablesMatch
        <5>2. CASE k > 3
          <6>1. TablesMatch(load[p], d, others[p])
            BY <4>1, <5>2, LoadOrderIs DEF LoadMatches, LoadPhases, d
          <6>2. read.table = load[p].table
            BY <1>4, <4>1, <5>2, LoadOrderIs DEF Kinds
          <6> QED BY <6>1, <6>2 DEF TablesMatch
        <5> QED BY <5>1, <5>2
      <4>5. k > 3 => PosteriorsMatch(read, d, others[p], {})
        <5>1. CASE k = 4
          BY <1>4, <5>1, LoadOrderIs DEF PosteriorsMatch
        <5>2. CASE k > 4
          <6>1. PosteriorsMatch(load[p], d, others[p], {})
            BY <4>1, <5>2, LoadOrderIs DEF LoadMatches, LoadPhases, d
          <6>2. read.posterior = load[p].posterior
            BY <1>4, <4>1, <5>2, LoadOrderIs DEF Kinds
          <6> QED BY <6>1, <6>2 DEF PosteriorsMatch
        <5> QED BY <5>1, <5>2
      <4>6. k > 4 => read.evidence = d.evidence
        BY <1>4, <4>1, LoadOrderIs DEF LoadMatches, LoadPhases, Kinds, d
      <4>7. k = 6 => read.trace = d.trace
        BY <1>4, LoadOrderIs
      <4>8. /\ k = 2 => AfterRead(k) = "table"
            /\ k = 3 => AfterRead(k) = "posterior"
            /\ k = 4 => AfterRead(k) = "evidence"
            /\ k = 5 => AfterRead(k) = "trace"
            /\ k = 6 => AfterRead(k) = "position"
        BY LoadOrderIs DEF AfterRead
      <4>9. phase'[p] = AfterRead(k) /\ load'[p] = read /\ db'.what = d
        BY <1>2, <1>10 DEF d
      <4> QED BY <3>2, <4>1, <4>2, <4>3, <4>4, <4>5, <4>6, <4>7, <4>8, <4>9 DEF LoadMatches
    <3> QED BY <3>1, <3>2
  <2> QED BY <1>6, <1>7, <1>8, <2>1, <2>3, <2>4 DEF Good, Kept
<1> QED BY <1>1, <1>3, <1>9, <1>10 DEF Shape, PerProcess

---------------------------------------------------------------------------
(* The theorems *)

\* Every step of the specification keeps the invariant.
LEMMA StepGood == IInv /\ [Next]_vars => IInv'
<1> SUFFICES ASSUME IInv, [Next]_vars PROVE IInv'
  OBVIOUS
<1>1. CASE Next
  <2>1. PICK p \in Process :
          \/ Read(p, 1) \/ Begin(p) \/ Continue(p) \/ Stop(p) \/ Die(p)
    BY <1>1 DEF Next
  <2>2. Kept(p)
    <3>1. CASE Read(p, 1)
      BY <3>1, ReadKeeps
    <3>2. CASE Begin(p)
      BY <3>2, CheckAdditionKeeps, PersistKeeps DEF Begin
    <3>3. CASE Continue(p)
      BY <3>3, LoadOrderIs, ReadKeeps, ReadPositionKeeps, InsertKeeps, PublishKeeps,
         CheckTableKeeps, PutTableKeeps, StorePosteriorKeeps, CheckTraceKeeps DEF Continue
    <3>4. CASE Stop(p) \/ Die(p)
      BY <3>4, StopKeeps, DieKeeps
    <3> QED BY <2>1, <3>1, <3>2, <3>3, <3>4
  <2> QED BY <2>2, StepKeeps
<1>2. CASE UNCHANGED vars
  BY <1>2 DEF vars, IInv, Shape, PerProcess, Good, PlanFits, LoadMatches, HandleMatches, WithRow
<1> QED BY <1>1, <1>2

\* The invariant holds in every reachable state.
LEMMA Invariant == Spec => []IInv
BY InitGood, StepGood, PTL DEF Spec

\* A handle that passes for current lacks nothing but tables and posteriors that
\* others stored since it was loaded, for which the log has no entry; what it has
\* and the database has not are posteriors it failed to store (lifecycle.rs:223,
\* sqlite.rs:693-707, 837-845).
THEOREM LacksOnlyUnlogged == Spec => []CurrentLacksOnlyUnlogged
<1>1. IInv => CurrentLacksOnlyUnlogged
  <2> SUFFICES ASSUME IInv, NEW p \in Process, phase[p] = "idle", seen[p] = db.seq, ~raced[p]
               PROVE  Matches(mem[p], db.what, others[p], unsaved[p])
    BY DEF CurrentLacksOnlyUnlogged, Current, Matches, TablesMatch, PosteriorsMatch, LoggedKinds
  <2> QED BY DEF IInv, Good, HandleMatches, LoadPhases
<1> QED BY <1>1, Invariant, PTL

\* A load is refused only if another process logged something while it ran
\* (lifecycle.rs:61-77).
THEOREM LoadsRefusedOnlyInRaces == Spec => RefusedOnlyInRaces
<1> DEFINE Refusal == \A p \in Process, k \in 2..Len(LoadOrder) :
            phase[p] = LoadOrder[k] /\ Read(p, k) /\ phase'[p] = "idle" => raced[p]
<1>1. IInv => Refusal
  <2> SUFFICES ASSUME IInv, NEW p \in Process, NEW k \in 2..6,
                      phase[p] = LoadOrder[k], Read(p, k), ~raced[p]
               PROVE  phase'[p] # "idle"
    BY LoadOrderIs
  <2>1. Fits(HasRead(p, k), LoadOrder[k])
    BY ReadFits
  <2>2. phase' = [phase EXCEPT ![p] = AfterRead(k)]
    BY <2>1, ReadMoves DEF IInv
  <2>3. AfterRead(k) # "idle"
    BY LoadOrderIs DEF AfterRead
  <2> QED BY <2>2, <2>3 DEF IInv, Shape
<1>2. Spec => [][Refusal]_vars
  BY <1>1, Invariant, PTL
<1> QED BY <1>2 DEF RefusedOnlyInRaces

---------------------------------------------------------------------------
(***************************************************************************)
(* What persisted posteriors forget, for every set of processes and every  *)
(* bound: belief_propagation with persist replaces a stored posterior by   *)
(* one that rests on less only if the log could not tell the handle.       *)
(*                                                                         *)
(* A posterior is stored long after it was computed, after failures        *)
(* perhaps, from a handle that others have overtaken.  So the invariant    *)
(* compares what a handle has computed and not stored with what the        *)
(* database has (Latest), and says that every posterior, wherever it is,   *)
(* rests on tables and evidence the database has (Backed).                 *)
(***************************************************************************)

\* What a posterior rests on is in d.
Rests(k, d) == k.evidence \subseteq Ids(d.evidence) /\ k.tables \subseteq Ids(d.table)

AllRest(posterior, d) == \A v \in DOMAIN posterior : Rests(posterior[v], d)

\* The same for all that a handle or a load has.
Backed(m, d) ==
    /\ Ids(m.evidence) \subseteq Ids(d.evidence) /\ Ids(m.table) \subseteq Ids(d.table)
    /\ AllRest(m.posterior, d)

\* p has inserted a factor whose table it has yet to store.
Pending(p) ==
    \/ phase[p] = "publish" /\ plan[p].kind = "factor"
    \/ phase[p] \in {"check table", "put table"}

\* It is not stored,
Unstored(p) == Pending(p) => plan[p].row.id \notin Ids(db.what.table)

\* and nobody else is to store it.
Apart ==
    \A p, q \in Process : p # q /\ Pending(p) /\ Pending(q) => plan[p].row.id # plan[q].row.id

\* The posterior k rests on all that old rests on, but for tables p was not told of.
Supersedes(k, old, other) ==
    /\ old.evidence \subseteq k.evidence
    /\ \/ old.tables \subseteq k.tables
       \/ \E t \in old.tables : <<"table", t>> \in other

\* What p has computed and not stored supersedes what is stored, unless others stored it.
Latest(p) ==
    ~raced[p] /\ phase[p] \notin LoadPhases =>
        \A v \in DOMAIN mem[p].posterior \cap DOMAIN db.what.posterior :
            v \in unsaved[p] /\ <<"posterior", v>> \notin others[p] =>
                Supersedes(mem[p].posterior[v], db.what.posterior[v], others[p])

\* Nothing was logged since p began to store posteriors.
AtLog(p) == phase[p] = "posteriors left" /\ ~raced[p] => seen[p] = db.seq

Held(p) ==
    /\ Backed(mem[p], db.what) /\ Backed(load[p], db.what)
    /\ Unstored(p) /\ Latest(p) /\ AtLog(p)

PInv == AllRest(db.what.posterior, db.what) /\ Apart /\ \A p \in Process : Held(p)

---------------------------------------------------------------------------
(* What every step does to what posteriors rest on *)

\* Evidence, tables and factors stay, tables perhaps replaced.
Grown ==
    /\ Ids(db.what.evidence) \subseteq Ids(db'.what.evidence)
    /\ Ids(db.what.table) \subseteq Ids(db'.what.table)
    /\ db.what.factor \subseteq db'.what.factor

\* An evidence or table row that is logged is added to what is stored.
LEMMA RowLoggedGrows ==
    ASSUME NEW p, NEW kind, NEW row, Shape, RowLogged(p, kind, row)
    PROVE  Grown /\ db'.what.posterior = db.what.posterior /\ db'.what.table = db.what.table
<1>1. RowAdded(kind, row)
  BY RowLoggedFields
<1> QED BY <1>1 DEF RowAdded, Grown, Ids

\* A stored table adds a table and loses no row.
LEMMA TableStoredGrows ==
    ASSUME NEW p, NEW row, Shape, TableStored(p, row)
    PROVE  /\ Grown /\ db'.what.posterior = db.what.posterior
           /\ Ids(db'.what.table) = Ids(db.what.table) \cup {row.id}
<1>1. /\ db'.what.evidence = db.what.evidence /\ db'.what.factor = db.what.factor
      /\ db'.what.posterior = db.what.posterior
      /\ db'.what.table = {t \in db.what.table : t.id # row.id} \cup {row}
  BY TableStoredFields
<1>2. Ids(db'.what.table) = Ids(db.what.table) \cup {row.id}
  BY <1>1 DEF Ids
<1> QED BY <1>1, <1>2 DEF Grown, Ids

\* A stored posterior leaves tables and evidence alone.
LEMMA PosteriorStoredGrows ==
    ASSUME NEW p, NEW v, NEW belief, Shape, PosteriorStored(p, v, belief)
    PROVE  Grown /\ db'.what.table = db.what.table
BY PosteriorStoredFields DEF Grown, Ids

\* What was backed stays so.
LEMMA BackedStays ==
    ASSUME NEW m, Grown, Backed(m, db.what)
    PROVE  Backed(m, db'.what)
BY DEF Grown, Backed, AllRest, Rests

\* And so do posteriors that rest on what is stored.
LEMMA AllRestStays ==
    ASSUME NEW f, Grown, AllRest(f, db.what)
    PROVE  AllRest(f, db'.what)
BY DEF Grown, AllRest, Rests

\* Who is told of more has no less excuse.
LEMMA SupersedesStill ==
    ASSUME NEW k, NEW old, NEW other, NEW more, Supersedes(k, old, other), other \subseteq more
    PROVE  Supersedes(k, old, more)
BY DEF Supersedes

---------------------------------------------------------------------------
(* What a step of p has to show, and what it leaves true of another process *)

\* p is to store a table only for a factor it has just inserted, or had inserted.
PendingKept(p) ==
    Pending(p)' => \/ Pending(p) /\ plan'[p].row = plan[p].row
                   \/ plan'[p].row.id \notin Ids(db.what.factor)

Effect(p) ==
    \/ SameDb(p)
    \/ \E kind, row : RowLogged(p, kind, row)
    \/ Pending(p) /\ TableStored(p, plan[p].row)
    \/ \E v, belief : PosteriorStored(p, v, belief) /\ Rests(belief, db.what)

Passed(p) == Aside(p) /\ Effect(p) /\ PendingKept(p) /\ Held(p)'

\* A table a process is to store is one of a stored factor.
LEMMA PendingStored ==
    ASSUME NEW q \in Process, Good(q), Pending(q)
    PROVE  plan[q].row \in db.what.factor
BY DEF Good, PlanFits, Pending

\* A step that leaves posteriors and the log alone leaves q as it was.
LEMMA OtherHeldSame ==
    ASSUME NEW p \in Process, NEW q \in Process \ {p}, Held(q), Aside(p), SameDb(p)
    PROVE  Held(q)'
<1>1. /\ mem'[q] = mem[q] /\ load'[q] = load[q] /\ seen'[q] = seen[q]
      /\ phase'[q] = phase[q] /\ plan'[q] = plan[q] /\ unsaved'[q] = unsaved[q]
      /\ raced'[q] = raced[q] /\ others'[q] = others[q] /\ db' = db
  BY DEF Aside, SameDb
<1>2. (Backed(mem[q], db.what) /\ Backed(load[q], db.what))'
  BY <1>1 DEF Held
<1>3. Unstored(q)' /\ AtLog(q)'
  BY <1>1 DEF Held, Unstored, Pending, AtLog
<1>4. Latest(q)'
  BY <1>1 DEF Held, Latest
<1> QED BY <1>2, <1>3, <1>4 DEF Held

\* A logged row races q unless it is idle.
LEMMA OtherHeldLogged ==
    ASSUME NEW p \in Process, NEW q \in Process \ {p}, NEW kind, NEW row,
           Shape, Held(q), Aside(p), RowLogged(p, kind, row)
    PROVE  Held(q)'
<1>1. /\ mem'[q] = mem[q] /\ load'[q] = load[q] /\ seen'[q] = seen[q]
      /\ phase'[q] = phase[q] /\ plan'[q] = plan[q] /\ unsaved'[q] = unsaved[q]
      /\ raced'[q] = (raced[q] \/ phase[q] # "idle") /\ others'[q] = others[q]
  BY DEF Aside, RowLogged
<1>2. Grown /\ db'.what.posterior = db.what.posterior /\ db'.what.table = db.what.table
  BY RowLoggedGrows
<1>3. (Backed(mem[q], db.what) /\ Backed(load[q], db.what))'
  BY <1>1, <1>2, BackedStays DEF Held
<1>4. Unstored(q)' /\ AtLog(q)'
  BY <1>1, <1>2 DEF Held, Unstored, Pending, AtLog
<1>5. Latest(q)'
  BY <1>1, <1>2 DEF Held, Latest
<1> QED BY <1>3, <1>4, <1>5 DEF Held

\* A table that p stores is not the one q is to store.
LEMMA OtherHeldTable ==
    ASSUME NEW p \in Process, NEW q \in Process \ {p}, Shape, Apart, Held(q), Aside(p),
           Pending(p), TableStored(p, plan[p].row)
    PROVE  Held(q)'
<1>1. /\ mem'[q] = mem[q] /\ load'[q] = load[q] /\ seen'[q] = seen[q]
      /\ phase'[q] = phase[q] /\ plan'[q] = plan[q] /\ unsaved'[q] = unsaved[q]
      /\ raced'[q] = raced[q] /\ others'[q] = others[q] \cup {<<"table", plan[p].row.id>>}
      /\ db'.seq = db.seq
  BY DEF Aside, TableStored
<1>2. /\ Grown /\ db'.what.posterior = db.what.posterior
      /\ Ids(db'.what.table) = Ids(db.what.table) \cup {plan[p].row.id}
  BY TableStoredGrows
<1>3. (Backed(mem[q], db.what) /\ Backed(load[q], db.what))'
  BY <1>1, <1>2, BackedStays DEF Held
<1>4. Unstored(q)' /\ AtLog(q)'
  BY <1>1, <1>2 DEF Held, Unstored, Pending, AtLog, Apart
<1>5. Latest(q)'
  <2> SUFFICES ASSUME ~raced[q], phase[q] \notin LoadPhases,
                      NEW u \in DOMAIN mem[q].posterior \cap DOMAIN db.what.posterior,
                      u \in unsaved[q], <<"posterior", u>> \notin others'[q]
               PROVE  Supersedes(mem[q].posterior[u], db.what.posterior[u], others'[q])
    BY <1>1, <1>2 DEF Latest
  <2>1. Supersedes(mem[q].posterior[u], db.what.posterior[u], others[q])
    BY <1>1 DEF Held, Latest
  <2> QED BY <1>1, <2>1, SupersedesStill
<1> QED BY <1>3, <1>4, <1>5 DEF Held

\* A posterior that p stores is one q need not supersede.
LEMMA OtherHeldPosterior ==
    ASSUME NEW p \in Process, NEW q \in Process \ {p}, NEW v, NEW belief,
           Shape, Held(q), Aside(p), PosteriorStored(p, v, belief)
    PROVE  Held(q)'
<1>1. /\ mem'[q] = mem[q] /\ load'[q] = load[q] /\ seen'[q] = seen[q]
      /\ phase'[q] = phase[q] /\ plan'[q] = plan[q] /\ unsaved'[q] = unsaved[q]
      /\ raced'[q] = raced[q] /\ others'[q] = others[q] \cup {<<"posterior", v>>}
      /\ db'.seq = db.seq
  BY DEF Aside, PosteriorStored
<1>2. /\ Grown /\ db'.what.table = db.what.table
      /\ DOMAIN db'.what.posterior = DOMAIN db.what.posterior \cup {v}
      /\ \A u \in DOMAIN db.what.posterior \ {v} :
            db'.what.posterior[u] = db.what.posterior[u]
  BY PosteriorStoredGrows, PosteriorStoredFields
<1>3. (Backed(mem[q], db.what) /\ Backed(load[q], db.what))'
  BY <1>1, <1>2, BackedStays DEF Held
<1>4. Unstored(q)' /\ AtLog(q)'
  BY <1>1, <1>2 DEF Held, Unstored, Pending, AtLog
<1>5. Latest(q)'
  <2> SUFFICES ASSUME ~raced[q], phase[q] \notin LoadPhases,
                      NEW u \in DOMAIN mem[q].posterior \cap DOMAIN db'.what.posterior,
                      u \in unsaved[q], <<"posterior", u>> \notin others'[q]
               PROVE  Supersedes(mem[q].posterior[u], db'.what.posterior[u], others'[q])
    BY <1>1 DEF Latest
  <2>1. u # v /\ u \in DOMAIN db.what.posterior /\ <<"posterior", u>> \notin others[q]
    BY <1>1, <1>2
  <2>2. Supersedes(mem[q].posterior[u], db.what.posterior[u], others[q])
    BY <2>1 DEF Held, Latest
  <2> QED BY <1>1, <1>2, <2>1, <2>2, SupersedesStill
<1> QED BY <1>3, <1>4, <1>5 DEF Held

\* A step that does what Passed says keeps the invariant: the other processes are left as they were, or told of what was stored.
LEMMA PassedKeeps ==
    ASSUME NEW p \in Process, IInv, PInv, Passed(p)
    PROVE  PInv'
<1>1. Shape /\ Sound(db.what) /\ Aside(p) /\ Held(p)' /\ PendingKept(p) /\ Apart
  BY DEF IInv, PInv, Passed
<1>2. \A q \in Process : Good(q) /\ Held(q)
  BY DEF IInv, PInv
<1>3. Apart'
  <2>1. ASSUME NEW q \in Process \ {p}
        PROVE  Pending(q)' = Pending(q) /\ plan'[q] = plan[q]
    BY <1>1 DEF Aside, Pending
  <2>2. ASSUME NEW q \in Process \ {p}, Pending(q), Pending(p)'
        PROVE  plan'[p].row.id # plan[q].row.id
    <3>1. plan[q].row.id \in Ids(db.what.factor)
      BY <1>2, <2>2, PendingStored DEF Ids
    <3> QED BY <1>1, <2>2, <3>1 DEF PendingKept, Apart
  <2> QED BY <1>1, <2>1, <2>2 DEF Apart
<1>4. CASE SameDb(p)
  <2>1. \A q \in Process \ {p} : Held(q)'
    BY <1>1, <1>2, <1>4, OtherHeldSame
  <2>2. AllRest(db.what.posterior, db.what)'
    BY <1>4 DEF SameDb, PInv
  <2> QED BY <1>1, <1>3, <2>1, <2>2 DEF PInv
<1>5. CASE \E kind, row : RowLogged(p, kind, row)
  <2>1. PICK kind, row : RowLogged(p, kind, row)
    BY <1>5
  <2>2. \A q \in Process \ {p} : Held(q)'
    BY <1>1, <1>2, <2>1, OtherHeldLogged
  <2>3. AllRest(db.what.posterior, db.what)'
    BY <1>1, <2>1, RowLoggedGrows, AllRestStays DEF PInv
  <2> QED BY <1>1, <1>3, <2>2, <2>3 DEF PInv
<1>6. CASE Pending(p) /\ TableStored(p, plan[p].row)
  <2>1. \A q \in Process \ {p} : Held(q)'
    BY <1>1, <1>2, <1>6, OtherHeldTable
  <2>2. AllRest(db.what.posterior, db.what)'
    BY <1>1, <1>6, TableStoredGrows, AllRestStays DEF PInv
  <2> QED BY <1>1, <1>3, <2>1, <2>2 DEF PInv
<1>7. CASE \E v, belief : PosteriorStored(p, v, belief) /\ Rests(belief, db.what)
  <2>1. PICK v, belief : PosteriorStored(p, v, belief) /\ Rests(belief, db.what)
    BY <1>7
  <2>2. \A q \in Process \ {p} : Held(q)'
    BY <1>1, <1>2, <2>1, OtherHeldPosterior
  <2>3. AllRest(db.what.posterior, db.what)'
    <3>1. Grown /\ AllRest(db.what.posterior, db.what)
      BY <1>1, <2>1, PosteriorStoredGrows DEF PInv
    <3>2. Rests(belief, db'.what)
      BY <2>1, <3>1 DEF Rests, Grown
    <3>3. AllRest(db.what.posterior, db'.what)
      BY <3>1, AllRestStays
    <3> QED BY <1>1, <2>1, <3>2, <3>3, PosteriorStoredFields DEF AllRest
  <2> QED BY <1>1, <1>3, <2>2, <2>3 DEF PInv
<1> QED BY <1>4, <1>5, <1>6, <1>7 DEF Passed, Effect

---------------------------------------------------------------------------
(* The steps *)

\* A process that loads or was raced, or whose posteriors are as they were.
LEMMA SameLatest ==
    ASSUME NEW p \in Process, Latest(p), db' = db, others'[p] = others[p],
           unsaved'[p] = unsaved[p], mem'[p].posterior = mem[p].posterior,
           ~raced'[p] /\ phase'[p] \notin LoadPhases =>
                ~raced[p] /\ phase[p] \notin LoadPhases
    PROVE  Latest(p)'
BY DEF Latest

\* An empty handle rests on nothing.
LEMMA NothingBacked ==
    ASSUME NEW d
    PROVE  Backed(Nothing, d)
<1>1. Nothing.evidence = {} /\ Nothing.table = {} /\ DOMAIN Nothing.posterior = {}
  BY DEF Nothing
<1> QED BY <1>1 DEF Backed, AllRest, Ids

\* A SELECT reads what is backed, and p has nothing to say while it loads.
LEMMA ReadPasses ==
    ASSUME NEW p \in Process, IInv, PInv, NEW k \in 1..6, Read(p, k)
    PROVE  Passed(p)
<1> DEFINE read == HasRead(p, k)  old == Had(p, k)
<1>1. Shape /\ Held(p) /\ AllRest(db.what.posterior, db.what)
  BY DEF IInv, PInv
<1>2. /\ db' = db /\ mem' = mem /\ seen' = seen /\ plan' = plan /\ unsaved' = unsaved
      /\ others' = [others EXCEPT ![p] = IF k = 1 THEN {} ELSE others[p]]
      /\ \/ /\ load' = [load EXCEPT ![p] = read] /\ phase' = [phase EXCEPT ![p] = AfterRead(k)]
            /\ raced' = [raced EXCEPT ![p] = k > 1 /\ raced[p]]
         \/ /\ load' = [load EXCEPT ![p] = Nothing] /\ phase' = [phase EXCEPT ![p] = "idle"]
            /\ raced' = [raced EXCEPT ![p] = TRUE]
  BY <1>1, ReadMoves
<1>3. Backed(read, db.what)
  <2>1. Backed(old, db.what)
    BY <1>1, NothingBacked DEF Held, Had
  <2>2. /\ read.evidence \in {old.evidence, db.what.evidence}
        /\ read.table \in {old.table, db.what.table}
        /\ read.posterior \in {old.posterior, db.what.posterior}
    BY <1>1, HasReadFields DEF Kinds
  <2> HIDE DEF read, old
  <2> QED BY <1>1, <2>1, <2>2 DEF Backed
<1>4. AfterRead(k) \in LoadPhases
  BY LoadOrderIs DEF AfterRead, LoadPhases
<1> HIDE DEF read, old
<1>5. load'[p] \in {read, Nothing} /\ (phase'[p] \in LoadPhases \/ (phase'[p] = "idle" /\ raced'[p]))
  BY <1>1, <1>2, <1>4 DEF Shape, PerProcess
<1>6. Aside(p) /\ Effect(p)
  BY <1>1, <1>2 DEF Shape, PerProcess, Aside, SameDb, Effect
<1>7. ~Pending(p)'
  BY <1>5 DEF Pending, LoadPhases
<1>8. Held(p)'
  <2>1. (Backed(mem[p], db.what) /\ Backed(load[p], db.what))'
    BY <1>1, <1>2, <1>3, <1>5, NothingBacked DEF Held
  <2>2. Latest(p)' /\ AtLog(p)' /\ Unstored(p)'
    BY <1>5, <1>7 DEF Latest, AtLog, Unstored, LoadPhases
  <2> QED BY <2>1, <2>2 DEF Held
<1> QED BY <1>6, <1>7, <1>8 DEF Passed, PendingKept

\* A handle just loaded has nothing unsaved.
LEMMA ReadPositionPasses ==
    ASSUME NEW p \in Process, IInv, PInv, ReadPosition(p)
    PROVE  Passed(p)
<1>1. Shape /\ Held(p)
  BY DEF IInv, PInv
<1>2. /\ phase'[p] = "idle" /\ mem'[p] = load[p] /\ load'[p] = Nothing
      /\ unsaved'[p] = {} /\ db' = db
  BY <1>1 DEF ReadPosition, Go, Shape, PerProcess
<1>3. Aside(p) /\ Effect(p)
  BY <1>1 DEF ReadPosition, Go, Shape, PerProcess, Aside, SameDb, Effect
<1>4. ~Pending(p)' /\ Unstored(p)' /\ AtLog(p)' /\ Latest(p)'
  BY <1>2 DEF Pending, Unstored, AtLog, Latest
<1>5. (Backed(mem[p], db.what) /\ Backed(load[p], db.what))'
  BY <1>1, <1>2, NothingBacked DEF Held
<1> QED BY <1>3, <1>4, <1>5 DEF Passed, PendingKept, Held

\* A check of an addition computes and stores no posterior.
LEMMA CheckAdditionPasses ==
    ASSUME NEW p \in Process, IInv, PInv, CheckAddition(p)
    PROVE  Passed(p)
<1>1. Shape /\ Held(p)
  BY DEF IInv, PInv
<1>2. PICK write : plan' = [plan EXCEPT ![p] = write] /\ phase' = [phase EXCEPT ![p] = "insert"]
  BY DEF CheckAddition, Go
<1>3. /\ phase[p] = "idle" /\ phase'[p] = "insert" /\ mem' = mem /\ load' = load /\ seen' = seen
      /\ db' = db /\ raced' = raced /\ others' = others /\ unsaved' = unsaved
  BY <1>1, <1>2 DEF CheckAddition, Shape, PerProcess
<1>4. Aside(p) /\ Effect(p)
  BY <1>1, <1>2, <1>3 DEF Shape, PerProcess, Aside, SameDb, Effect
<1>5. ~Pending(p)' /\ Unstored(p)' /\ AtLog(p)'
  BY <1>3 DEF Pending, Unstored, AtLog
<1>6. Latest(p)' /\ (Backed(mem[p], db.what) /\ Backed(load[p], db.what))'
  BY <1>1, <1>3, SameLatest DEF Held, LoadPhases
<1> QED BY <1>4, <1>5, <1>6 DEF Passed, PendingKept, Held

\* A new factor has no table, and nobody else is to store one for it.
LEMMA InsertPasses ==
    ASSUME NEW p \in Process, IInv, PInv, Insert(p)
    PROVE  Passed(p)
<1> DEFINE w == plan[p]
<1>1. Shape /\ Held(p) /\ Good(p) /\ Sound(db.what)
  BY DEF IInv, PInv
<1>2. /\ phase[p] = "insert" /\ mem' = mem /\ load' = load /\ seen' = seen
      /\ others' = others /\ unsaved' = unsaved
  BY DEF Insert
<1>3. CASE w.row.id \in Ids(db.what[w.kind])
  <2>1. /\ db' = db /\ raced' = raced
        /\ phase' = [phase EXCEPT ![p] = "idle"] /\ plan' = [plan EXCEPT ![p] = NoPlan]
    BY <1>3 DEF Insert, Return, Go
  <2>2. phase'[p] = "idle"
    BY <1>1, <2>1 DEF Shape
  <2>3. Aside(p) /\ Effect(p)
    BY <1>1, <1>2, <2>1 DEF Shape, PerProcess, Aside, SameDb, Effect
  <2>4. ~Pending(p)' /\ Unstored(p)' /\ AtLog(p)'
    BY <2>2 DEF Pending, Unstored, AtLog
  <2>5. Latest(p)' /\ (Backed(mem[p], db.what) /\ Backed(load[p], db.what))'
    BY <1>1, <1>2, <2>1, SameLatest DEF Held, LoadPhases
  <2> QED BY <2>3, <2>4, <2>5 DEF Passed, PendingKept, Held
<1>4. CASE w.row.id \notin Ids(db.what[w.kind])
  <2>1. /\ Logged(p, w.kind, w.row) /\ plan' = plan
        /\ phase' = [phase EXCEPT ![p] = "publish"]
    BY <1>4 DEF Insert, Go
  <2>2. RowLogged(p, w.kind, w.row)
    BY <1>1, <1>2, <1>4, <2>1 DEF RowLogged, Logged, Good, PlanFits
  <2>3. /\ phase'[p] = "publish" /\ raced'[p] = raced[p]
        /\ Grown /\ db'.what.posterior = db.what.posterior /\ db'.what.table = db.what.table
    BY <1>1, <2>1, <2>2, RowLoggedGrows DEF Logged, Shape
  <2>4. Aside(p) /\ Effect(p)
    BY <1>1, <1>2, <2>1, <2>2 DEF Shape, PerProcess, Aside, Effect
  <2>5. Pending(p)' => w.row.id \notin Ids(db.what.factor)
    BY <1>4, <2>1, <2>3 DEF Pending
  <2>6. PendingKept(p) /\ Unstored(p)'
    <3>1. Ids(db.what.table) \subseteq Ids(db.what.factor)
      BY <1>1 DEF Sound, Ids
    <3> QED BY <2>1, <2>3, <2>5, <3>1 DEF PendingKept, Unstored
  <2>7. AtLog(p)' /\ Latest(p)'
    BY <1>1, <1>2, <2>3 DEF AtLog, Latest, Held, LoadPhases
  <2>8. (Backed(mem[p], db.what) /\ Backed(load[p], db.what))'
    BY <1>1, <1>2, <2>3, BackedStays DEF Held
  <2> QED BY <2>4, <2>6, <2>7, <2>8 DEF Passed, Held
<1> QED BY <1>3, <1>4

\* A published row is in the database.
LEMMA PublishPasses ==
    ASSUME NEW p \in Process, IInv, PInv, Publish(p)
    PROVE  Passed(p)
<1> DEFINE w == plan[p]
<1>1. Shape /\ Held(p) /\ Good(p)
  BY DEF IInv, PInv
<1>2. /\ phase[p] = "publish" /\ load' = load /\ db' = db /\ raced' = raced
      /\ others' = others /\ unsaved' = unsaved /\ seen' = [seen EXCEPT ![p] = db.seq]
      /\ mem' = [mem EXCEPT ![p] = WithRow(p)]
      /\ \/ w.tabled /\ phase' = [phase EXCEPT ![p] = "check table"] /\ plan' = plan
         \/ phase' = [phase EXCEPT ![p] = "idle"] /\ plan' = [plan EXCEPT ![p] = NoPlan]
  BY DEF Publish, WithRow, Return, Go
<1>3. w.kind \in LoggedKinds /\ w.row \in db.what[w.kind] /\ (w.tabled => w.kind = "factor")
  BY <1>1, <1>2 DEF Good, PlanFits
<1>4. /\ mem'[p] = WithRow(p)
      /\ \/ phase'[p] = "check table" /\ plan'[p] = w /\ w.kind = "factor"
         \/ phase'[p] = "idle"
  BY <1>1, <1>2, <1>3 DEF Shape, PerProcess
<1>5. /\ WithRow(p)[w.kind] = mem[p][w.kind] \cup {w.row}
      /\ \A k \in Kinds \ {w.kind} : WithRow(p)[k] = mem[p][k]
  <2>1. IsStore(mem[p]) /\ w.kind \in Kinds
    BY <1>1, <1>3 DEF Shape, Kinds, LoggedKinds
  <2> QED BY <2>1 DEF WithRow, IsStore
<1>6. WithRow(p).table = mem[p].table /\ WithRow(p).posterior = mem[p].posterior
  BY <1>3, <1>5 DEF LoggedKinds, Kinds
<1>7. Ids(WithRow(p).evidence) \subseteq Ids(db.what.evidence)
  <2>1. Ids(mem[p].evidence) \subseteq Ids(db.what.evidence)
    BY <1>1 DEF Held, Backed
  <2>2. CASE w.kind = "evidence"
    BY <1>3, <1>5, <2>1, <2>2 DEF Ids
  <2>3. CASE w.kind # "evidence"
    BY <1>5, <2>1, <2>3 DEF Kinds
  <2> QED BY <2>2, <2>3
<1>8. (Backed(mem[p], db.what) /\ Backed(load[p], db.what))'
  BY <1>1, <1>2, <1>4, <1>6, <1>7 DEF Held, Backed
<1>9. Aside(p) /\ Effect(p)
  BY <1>1, <1>2 DEF Shape, PerProcess, Aside, SameDb, Effect
<1>10. PendingKept(p) /\ Unstored(p)' /\ AtLog(p)'
  BY <1>1, <1>2, <1>4 DEF PendingKept, Pending, Unstored, AtLog, Held
<1>11. Latest(p)'
  BY <1>1, <1>2, <1>4, <1>6, SameLatest DEF Held, LoadPhases
<1> QED BY <1>8, <1>9, <1>10, <1>11 DEF Passed, Held

\* A check of a table stores nothing: the factor's table stays to be stored.
LEMMA CheckTablePasses ==
    ASSUME NEW p \in Process, IInv, PInv, CheckTable(p)
    PROVE  Passed(p)
<1>1. Shape /\ Held(p)
  BY DEF IInv, PInv
<1>2. /\ phase[p] = "check table" /\ db' = db /\ mem' = mem /\ load' = load /\ seen' = seen
      /\ raced' = raced /\ others' = others /\ unsaved' = unsaved
      /\ \/ phase' = [phase EXCEPT ![p] = "put table"] /\ plan' = plan
         \/ phase' = [phase EXCEPT ![p] = "idle"] /\ plan' = [plan EXCEPT ![p] = NoPlan]
  BY DEF CheckTable, Return, Go
<1>3. \/ phase'[p] = "put table" /\ plan'[p] = plan[p]
      \/ phase'[p] = "idle"
  BY <1>1, <1>2 DEF Shape
<1>4. Aside(p) /\ Effect(p)
  BY <1>1, <1>2 DEF Shape, PerProcess, Aside, SameDb, Effect
<1>5. PendingKept(p) /\ Unstored(p)' /\ AtLog(p)'
  BY <1>1, <1>2, <1>3 DEF PendingKept, Pending, Unstored, AtLog, Held
<1>6. Latest(p)' /\ (Backed(mem[p], db.what) /\ Backed(load[p], db.what))'
  BY <1>1, <1>2, SameLatest DEF Held, LoadPhases
<1> QED BY <1>4, <1>5, <1>6 DEF Passed, Held

\* The table p stores is in no posterior yet: what p may be excused for stays.
LEMMA PutTablePasses ==
    ASSUME NEW p \in Process, IInv, PInv, PutTable(p)
    PROVE  Passed(p)
<1> DEFINE row == plan[p].row
<1>1. Shape /\ Good(p) /\ Held(p) /\ AllRest(db.what.posterior, db.what)
  BY DEF IInv, PInv
<1>2. /\ phase[p] = "put table" /\ load' = load /\ seen' = seen /\ raced' = raced
      /\ unsaved' = unsaved
      /\ db' = [db EXCEPT !.what["table"] = {t \in db.what.table : t.id # row.id} \cup {row}]
      /\ others' = [q \in Process |-> IF q = p THEN others[q] \ {<<"table", row.id>>}
                                      ELSE others[q] \cup {<<"table", row.id>>}]
      /\ mem' = [mem EXCEPT ![p] = [mem[p] EXCEPT !["table"] = mem[p]["table"] \cup {row}]]
      /\ phase' = [phase EXCEPT ![p] = "idle"] /\ plan' = [plan EXCEPT ![p] = NoPlan]
  BY DEF PutTable, Unlogged, Return, Go
<1>3. Pending(p) /\ TableStored(p, row)
  <2>1. row \in db.what.factor
    BY <1>1, <1>2 DEF Good, PlanFits
  <2>2. db = [what |-> db.what, seq |-> db.seq]
    BY <1>1 DEF Shape
  <2>3. db' = [what |-> [db.what EXCEPT !["table"] = {t \in db.what["table"] : t.id # row.id} \cup {row}],
               seq |-> db.seq]
    BY <1>2, <2>2
  <2> QED BY <1>2, <2>1, <2>3 DEF TableStored, Pending
<1>4. /\ Grown /\ db'.what.posterior = db.what.posterior
      /\ Ids(db'.what.table) = Ids(db.what.table) \cup {row.id}
  BY <1>1, <1>3, TableStoredGrows
<1>5. /\ phase'[p] = "idle" /\ others'[p] = others[p] \ {<<"table", row.id>>}
      /\ load'[p] = load[p] /\ unsaved'[p] = unsaved[p]
  BY <1>1, <1>2 DEF Shape
<1>6. /\ mem'[p].table = mem[p].table \cup {row} /\ mem'[p].posterior = mem[p].posterior
      /\ mem'[p].evidence = mem[p].evidence
  <2>1. mem'[p] = [mem[p] EXCEPT !["table"] = mem[p]["table"] \cup {row}] /\ IsStore(mem[p])
    BY <1>1, <1>2 DEF Shape, PerProcess
  <2> QED BY <2>1 DEF IsStore, Kinds
<1> HIDE DEF row
<1>7. Backed(mem[p], db.what)' /\ Backed(load[p], db.what)'
  <2>1. Backed(mem[p], db'.what) /\ Backed(load[p], db'.what)
    BY <1>1, <1>4, BackedStays DEF Held
  <2>2. Ids(mem'[p].table) \subseteq Ids(db'.what.table)
    BY <1>4, <1>6, <2>1 DEF Backed, Ids
  <2> QED BY <1>5, <1>6, <2>1, <2>2 DEF Backed
<1>8. Aside(p) /\ Effect(p)
  <2>1. Aside(p)
    BY <1>1, <1>2 DEF Shape, PerProcess, Aside
  <2> QED BY <1>3, <2>1 DEF Effect, row
<1>9. PendingKept(p) /\ Unstored(p)' /\ AtLog(p)'
  BY <1>5 DEF PendingKept, Pending, Unstored, AtLog
<1>10. Latest(p)'
  <2> SUFFICES ASSUME ~raced[p],
                      NEW v \in DOMAIN mem[p].posterior \cap DOMAIN db.what.posterior,
                      v \in unsaved[p], <<"posterior", v>> \notin others[p]
               PROVE  Supersedes(mem[p].posterior[v], db.what.posterior[v], others'[p])
    BY <1>2, <1>4, <1>5, <1>6 DEF Latest
  <2>1. Supersedes(mem[p].posterior[v], db.what.posterior[v], others[p])
    BY <1>1, <1>2 DEF Held, Latest, LoadPhases
  <2>2. row.id \notin Ids(db.what.table)
    BY <1>1, <1>3 DEF Held, Unstored, row
  <2>3. db.what.posterior[v].tables \subseteq Ids(db.what.table)
    BY <1>1 DEF AllRest, Rests
  <2>4. \A t \in db.what.posterior[v].tables : <<"table", t>> # <<"table", row.id>>
    BY <2>2, <2>3
  <2> QED BY <1>5, <2>1, <2>4 DEF Supersedes
<1> QED BY <1>7, <1>8, <1>9, <1>10 DEF Passed, Held

\* What a handle that is up to date knows supersedes every posterior.
LEMMA KnownSupersedes ==
    ASSUME NEW m, NEW d, NEW other, NEW own, NEW old, Matches(m, d, other, own), Rests(old, d)
    PROVE  Supersedes(KnownTo(m), old, other)
<1>1. m.evidence = d.evidence
  BY DEF Matches, LoggedKinds
<1>2. \A t \in d.table \ m.table : <<"table", t.id>> \in other
  BY DEF Matches, TablesMatch
<1>3. old.evidence \subseteq Ids(m.evidence) /\ old.tables \subseteq Ids(d.table)
  BY <1>1 DEF Rests
<1>4. \A i \in old.tables : i \in Ids(m.table) \/ <<"table", i>> \in other
  BY <1>2, <1>3 DEF Ids
<1> QED BY <1>3, <1>4 DEF Supersedes, KnownTo

\* Beliefs enter a handle that is up to date.
LEMMA PersistPasses ==
    ASSUME NEW p \in Process, IInv, PInv, NEW query \in SUBSET Ids(mem[p].variable),
           Persist(p, query)
    PROVE  Passed(p)
<1> DEFINE m == mem[p]
<1>1. Shape /\ Good(p) /\ Held(p) /\ AllRest(db.what.posterior, db.what)
  BY DEF IInv, PInv
<1>2. PICK done \in SUBSET query :
        LET all == [v \in DOMAIN m.posterior \cup done |->
                        IF v \in done THEN KnownTo(m) ELSE m.posterior[v]]
        IN  /\ mem' = [mem EXCEPT ![p].posterior = all]
            /\ unsaved' = [unsaved EXCEPT ![p] = @ \cup done]
            /\ IF done = query
               THEN /\ plan' = [plan EXCEPT ![p] = [NoPlan EXCEPT !.left = DOMAIN all]]
                    /\ Go(p, "posteriors left")
               ELSE UNCHANGED <<plan, phase>>
  BY DEF Persist
<1> DEFINE all == [v \in DOMAIN m.posterior \cup done |->
                        IF v \in done THEN KnownTo(m) ELSE m.posterior[v]]
<1>3. /\ phase[p] = "idle" /\ db' = db /\ load' = load /\ seen' = seen /\ raced' = raced
      /\ others' = others /\ seen[p] = db.seq
  BY DEF Persist, Current
<1>4. /\ DOMAIN all = DOMAIN m.posterior \cup done
      /\ \A v \in DOMAIN m.posterior \ done : all[v] = m.posterior[v]
      /\ \A v \in done : all[v] = KnownTo(m)
  OBVIOUS
<1>5. /\ mem' = [mem EXCEPT ![p] = [m EXCEPT !["posterior"] = all]]
      /\ unsaved' = [unsaved EXCEPT ![p] = unsaved[p] \cup done]
      /\ \/ /\ plan' = [plan EXCEPT ![p] = [NoPlan EXCEPT !.left = DOMAIN all]]
            /\ phase' = [phase EXCEPT ![p] = "posteriors left"]
         \/ plan' = plan /\ phase' = phase
  BY <1>2 DEF Go
<1> HIDE DEF all, m
<1>6. mem'[p].posterior = all /\ \A k \in Kinds \ {"posterior"} : mem'[p][k] = m[k]
  <2>1. mem'[p] = [m EXCEPT !["posterior"] = all] /\ IsStore(m)
    BY <1>1, <1>5 DEF m, Shape, PerProcess
  <2> QED BY <2>1 DEF IsStore, Kinds
<1>7. unsaved'[p] = unsaved[p] \cup done /\ phase'[p] \in {"posteriors left", "idle"}
  BY <1>1, <1>3, <1>5 DEF Shape, PerProcess
<1>8. Aside(p) /\ Effect(p)
  BY <1>1, <1>3, <1>5 DEF Shape, PerProcess, Aside, SameDb, Effect
<1>9. PendingKept(p) /\ Unstored(p)' /\ AtLog(p)'
  BY <1>3, <1>7 DEF PendingKept, Pending, Unstored, AtLog
<1>10. Backed(mem[p], db.what)' /\ Backed(load[p], db.what)'
  <2>1. Backed(m, db.what) /\ Backed(load[p], db.what)
    BY <1>1 DEF Held, m
  <2>2. mem'[p].evidence = m.evidence /\ mem'[p].table = m.table
    BY <1>6 DEF Kinds
  <2>3. Rests(KnownTo(m), db.what)
    BY <2>1 DEF Backed, Rests, KnownTo
  <2>4. AllRest(all, db.what)
    BY <1>4, <2>1, <2>3 DEF Backed, AllRest
  <2> QED BY <1>3, <1>6, <2>1, <2>2, <2>4 DEF Backed
<1>11. Latest(p)'
  <2> SUFFICES ASSUME ~raced[p], NEW v \in DOMAIN all \cap DOMAIN db.what.posterior,
                      v \in unsaved'[p], <<"posterior", v>> \notin others[p]
               PROVE  Supersedes(all[v], db.what.posterior[v], others[p])
    BY <1>3, <1>6 DEF Latest
  <2>1. CASE v \in done
    <3>1. Matches(m, db.what, others[p], unsaved[p])
      BY <1>1, <1>3 DEF m, Good, HandleMatches, LoadPhases
    <3>2. Rests(db.what.posterior[v], db.what)
      BY <1>1 DEF AllRest
    <3> QED BY <1>4, <2>1, <3>1, <3>2, KnownSupersedes
  <2>2. CASE v \notin done
    BY <1>1, <1>3, <1>4, <1>7, <2>2 DEF Held, Latest, LoadPhases, m
  <2> QED BY <2>1, <2>2
<1> QED BY <1>8, <1>9, <1>10, <1>11 DEF Passed, Held

\* A stored posterior is the handle's, and rests on what the database has.
LEMMA StorePosteriorStores ==
    ASSUME NEW p \in Process, IInv, StorePosterior(p)
    PROVE  \E v \in plan[p].left :
            /\ v \in DOMAIN mem[p].posterior
            /\ PosteriorStored(p, v, mem[p].posterior[v])
            /\ phase[p] = "posteriors left" /\ phase' = phase /\ mem' = mem /\ load' = load
            /\ seen' = seen /\ raced' = raced /\ Aside(p)
            /\ unsaved'[p] = unsaved[p] \ {v}
            /\ others'[p] = others[p] \ {<<"posterior", v>>}
<1>1. Shape /\ Good(p)
  BY DEF IInv
<1>2. PICK v \in plan[p].left :
        /\ Unlogged(p, "posterior",
                    [u \in DOMAIN db.what.posterior \cup {v} |->
                        IF u = v THEN mem[p].posterior[v] ELSE db.what.posterior[u]],
                    <<"posterior", v>>)
        /\ unsaved' = [unsaved EXCEPT ![p] = @ \ {v}]
        /\ plan' = [plan EXCEPT ![p].left = Without(@, v)]
  BY DEF StorePosterior
<1> DEFINE belief == mem[p].posterior[v]
           after == [u \in DOMAIN db.what["posterior"] \cup {v} |->
                        IF u = v THEN belief ELSE db.what["posterior"][u]]
<1>3. /\ phase[p] = "posteriors left" /\ phase' = phase /\ mem' = mem /\ load' = load
      /\ seen' = seen /\ raced' = raced
      /\ unsaved' = [unsaved EXCEPT ![p] = unsaved[p] \ {v}]
      /\ plan' = [plan EXCEPT ![p] = [plan[p] EXCEPT !.left = plan[p].left \ {v}]]
      /\ db' = [db EXCEPT !.what["posterior"] = after]
      /\ others' = [q \in Process |-> IF q = p THEN others[q] \ {<<"posterior", v>>}
                                      ELSE others[q] \cup {<<"posterior", v>>}]
  BY <1>2 DEF StorePosterior, Unlogged, Without
<1>4. v \in DOMAIN mem[p].posterior /\ v \in Ids(db.what.variable)
  BY <1>1, <1>3 DEF Good, PlanFits, Within
<1>5. PosteriorStored(p, v, belief)
  <2> HIDE DEF after, belief
  <2>1. db = [what |-> db.what, seq |-> db.seq]
    BY <1>1 DEF Shape
  <2>2. db' = [what |-> [db.what EXCEPT !["posterior"] = after], seq |-> db.seq]
    BY <1>3, <2>1
  <2> USE DEF after
  <2> QED BY <1>3, <1>4, <2>2 DEF PosteriorStored
<1> HIDE DEF after, belief
<1>6. Aside(p)
  BY <1>1, <1>3 DEF Shape, PerProcess, Aside
<1>7. unsaved'[p] = unsaved[p] \ {v} /\ others'[p] = others[p] \ {<<"posterior", v>>}
  BY <1>1, <1>3 DEF Shape, PerProcess
<1> QED BY <1>3, <1>4, <1>5, <1>6, <1>7 DEF belief

\* Storing a posterior: what is stored is then what the handle has, and other handles are told of it.
LEMMA StorePosteriorPasses ==
    ASSUME NEW p \in Process, IInv, PInv, StorePosterior(p)
    PROVE  Passed(p)
<1>1. Shape /\ Held(p)
  BY DEF IInv, PInv
<1>2. PICK v \in plan[p].left :
            /\ v \in DOMAIN mem[p].posterior
            /\ PosteriorStored(p, v, mem[p].posterior[v])
            /\ phase[p] = "posteriors left" /\ phase' = phase /\ mem' = mem /\ load' = load
            /\ seen' = seen /\ raced' = raced /\ Aside(p)
            /\ unsaved'[p] = unsaved[p] \ {v}
            /\ others'[p] = others[p] \ {<<"posterior", v>>}
  BY StorePosteriorStores
<1>3. Rests(mem[p].posterior[v], db.what)
  BY <1>1, <1>2 DEF Held, Backed, AllRest
<1>4. Effect(p)
  BY <1>2, <1>3 DEF Effect
<1>5. /\ Grown /\ db'.seq = db.seq
      /\ DOMAIN db'.what.posterior = DOMAIN db.what.posterior \cup {v}
      /\ \A u \in DOMAIN db.what.posterior \ {v} : db'.what.posterior[u] = db.what.posterior[u]
  BY <1>1, <1>2, PosteriorStoredGrows, PosteriorStoredFields
<1>6. Backed(mem[p], db.what)' /\ Backed(load[p], db.what)'
  BY <1>1, <1>2, <1>5, BackedStays DEF Held
<1>7. PendingKept(p) /\ Unstored(p)' /\ AtLog(p)'
  BY <1>1, <1>2, <1>5 DEF PendingKept, Pending, Unstored, AtLog, Held
<1>8. Latest(p)'
  <2> SUFFICES ASSUME ~raced[p],
                      NEW u \in DOMAIN mem[p].posterior \cap DOMAIN db'.what.posterior,
                      u \in unsaved'[p], <<"posterior", u>> \notin others'[p]
               PROVE  Supersedes(mem[p].posterior[u], db'.what.posterior[u], others'[p])
    BY <1>2 DEF Latest
  <2>1. u # v /\ u \in unsaved[p] /\ u \in DOMAIN db.what.posterior
        /\ <<"posterior", u>> \notin others[p]
    BY <1>2, <1>5
  <2>2. Supersedes(mem[p].posterior[u], db.what.posterior[u], others[p])
    BY <1>1, <1>2, <2>1 DEF Held, Latest, LoadPhases
  <2>3. \A t : <<"table", t>> \in others[p] => <<"table", t>> \in others'[p]
    BY <1>2
  <2> QED BY <1>5, <2>1, <2>2, <2>3 DEF Supersedes
<1> QED BY <1>2, <1>4, <1>6, <1>7, <1>8 DEF Passed, Held

\* The end of a persist: the trace compares the log and stores nothing.
LEMMA CheckTracePasses ==
    ASSUME NEW p \in Process, IInv, PInv, CheckTrace(p)
    PROVE  Passed(p) /\ db' = db
<1>1. Shape /\ Held(p)
  BY DEF IInv, PInv
<1>2. PICK write : /\ plan' = [plan EXCEPT ![p] = write]
                   /\ \/ phase' = [phase EXCEPT ![p] = "insert"]
                      \/ phase' = [phase EXCEPT ![p] = "idle"]
  BY DEF CheckTrace, Return, Go
<1>3. /\ phase[p] = "posteriors left" /\ phase'[p] \in {"insert", "idle"} /\ db' = db
      /\ mem' = mem /\ load' = load /\ seen' = seen
      /\ raced' = raced /\ others' = others /\ unsaved' = unsaved
  BY <1>1, <1>2 DEF CheckTrace, Shape
<1>4. Aside(p) /\ Effect(p)
  BY <1>1, <1>2, <1>3 DEF Shape, PerProcess, Aside, SameDb, Effect
<1>5. PendingKept(p) /\ Unstored(p)' /\ AtLog(p)'
  BY <1>3 DEF PendingKept, Pending, Unstored, AtLog
<1>6. Latest(p)' /\ (Backed(mem[p], db.what) /\ Backed(load[p], db.what))'
  BY <1>1, <1>3, SameLatest DEF Held, LoadPhases
<1> QED BY <1>3, <1>4, <1>5, <1>6 DEF Passed, Held

\* A call that fails leaves in the handle what it has computed.
LEMMA StopPasses ==
    ASSUME NEW p \in Process, IInv, PInv, Stop(p)
    PROVE  Passed(p) /\ db' = db
<1>1. Shape /\ Held(p)
  BY DEF IInv, PInv
<1>2. /\ mem' = mem /\ db' = db /\ seen' = seen /\ others' = others /\ unsaved' = unsaved
      /\ phase' = [phase EXCEPT ![p] = "idle"] /\ plan' = [plan EXCEPT ![p] = NoPlan]
      /\ load' = [load EXCEPT ![p] = Nothing]
      /\ raced' = [raced EXCEPT ![p] = raced[p] \/ phase[p] \in LoadPhases]
  BY LoadOrderIs DEF Stop, Return, Go
<1>3. /\ phase'[p] = "idle" /\ load'[p] = Nothing
      /\ ~raced'[p] => ~raced[p] /\ phase[p] \notin LoadPhases
  BY <1>1, <1>2 DEF Shape, PerProcess
<1>4. Aside(p) /\ Effect(p)
  BY <1>1, <1>2 DEF Shape, PerProcess, Aside, SameDb, Effect
<1>5. PendingKept(p) /\ Unstored(p)' /\ AtLog(p)'
  BY <1>3 DEF PendingKept, Pending, Unstored, AtLog
<1>6. Latest(p)'
  BY <1>1, <1>2, <1>3, SameLatest DEF Held
<1>7. (Backed(mem[p], db.what) /\ Backed(load[p], db.what))'
  BY <1>1, <1>2, <1>3, NothingBacked DEF Held
<1> QED BY <1>2, <1>4, <1>5, <1>6, <1>7 DEF Passed, Held

\* A process that dies leaves the rows it committed and forgets the rest.
LEMMA DiePasses ==
    ASSUME NEW p \in Process, IInv, PInv, Die(p)
    PROVE  Passed(p) /\ db' = db
<1>1. Shape /\ Held(p)
  BY DEF IInv, PInv
<1>2. /\ db' = db
      /\ phase' = [phase EXCEPT ![p] = "idle"] /\ plan' = [plan EXCEPT ![p] = NoPlan]
      /\ mem' = [mem EXCEPT ![p] = Nothing] /\ load' = [load EXCEPT ![p] = Nothing]
      /\ seen' = [seen EXCEPT ![p] = NotOpen] /\ raced' = [raced EXCEPT ![p] = FALSE]
      /\ others' = [others EXCEPT ![p] = {}] /\ unsaved' = [unsaved EXCEPT ![p] = {}]
  BY DEF Die, Return, Go
<1>3. phase'[p] = "idle" /\ mem'[p] = Nothing /\ load'[p] = Nothing /\ unsaved'[p] = {}
  BY <1>1, <1>2 DEF Shape, PerProcess
<1>4. Aside(p) /\ Effect(p)
  BY <1>1, <1>2 DEF Shape, PerProcess, Aside, SameDb, Effect
<1>5. PendingKept(p) /\ Unstored(p)' /\ AtLog(p)' /\ Latest(p)'
  BY <1>3 DEF PendingKept, Pending, Unstored, AtLog, Latest
<1>6. (Backed(mem[p], db.what) /\ Backed(load[p], db.what))'
  BY <1>2, <1>3, NothingBacked
<1> QED BY <1>2, <1>4, <1>5, <1>6 DEF Passed, Held

---------------------------------------------------------------------------
(* The theorem *)

\* The first state: no table, no evidence, no posterior.
LEMMA InitHeld == Init => PInv
<1> SUFFICES ASSUME Init PROVE PInv
  OBVIOUS
<1>1. Started.table = {} /\ Started.evidence = {} /\ DOMAIN Started.posterior = {}
  <2>1. Started = [Nothing EXCEPT !["variable"] = {[id |-> v] : v \in Variables}]
    BY DEF Started
  <2>2. \A k \in Kinds \ {"variable"} : Started[k] = Nothing[k]
    BY <2>1, NothingIsStore DEF IsStore, Kinds
  <2>3. Nothing.table = {} /\ Nothing.evidence = {} /\ DOMAIN Nothing.posterior = {}
    BY DEF Nothing
  <2> QED BY <2>2, <2>3 DEF Kinds
<1>2. db.what = Started
  BY DEF Init
<1>3. \A p \in Process : mem[p] = Started /\ load[p] = Nothing /\ phase[p] = "idle"
  BY DEF Init
<1>4. AllRest(db.what.posterior, db.what) /\ Apart
  BY <1>1, <1>2, <1>3 DEF AllRest, Apart, Pending
<1>5. ASSUME NEW p \in Process PROVE Held(p)
  <2>1. Backed(mem[p], db.what)
    BY <1>1, <1>3 DEF Backed, AllRest, Ids
  <2>2. Backed(load[p], db.what)
    BY <1>3, NothingBacked
  <2>3. Unstored(p) /\ Latest(p) /\ AtLog(p)
    BY <1>1, <1>2, <1>3 DEF Unstored, Pending, Latest, AtLog
  <2> QED BY <2>1, <2>2, <2>3 DEF Held
<1> QED BY <1>4, <1>5 DEF PInv

\* Every step of a process passes, and only storing a posterior changes the
\* database while posteriors are left to store.
LEMMA StepPasses ==
    ASSUME NEW p \in Process, IInv, PInv,
           Read(p, 1) \/ Begin(p) \/ Continue(p) \/ Stop(p) \/ Die(p)
    PROVE  Passed(p) /\ (phase[p] = "posteriors left" => db' = db \/ StorePosterior(p))
<1>1. CASE Read(p, 1)
  <2>1. 1 \in 1..6 /\ db' = db
    BY <1>1 DEF Read
  <2> QED BY <1>1, <2>1, ReadPasses
<1>2. CASE CheckAddition(p)
  BY <1>2, CheckAdditionPasses DEF CheckAddition
<1>3. CASE \E query \in (SUBSET Ids(mem[p].variable)) \ {{}} : Persist(p, query)
  BY <1>3, PersistPasses DEF Persist
<1>4. CASE \E k \in 2..Len(LoadOrder) : Read(p, k)
  <2>1. PICK k \in 2..6 : Read(p, k)
    BY <1>4, LoadOrderIs
  <2>2. k \in 1..6 /\ db' = db
    BY <2>1 DEF Read
  <2> QED BY <2>1, <2>2, ReadPasses
<1>5. CASE ReadPosition(p)
  BY <1>5, ReadPositionPasses DEF ReadPosition
<1>6. CASE Insert(p)
  BY <1>6, InsertPasses DEF Insert
<1>7. CASE Publish(p)
  BY <1>7, PublishPasses DEF Publish
<1>8. CASE CheckTable(p)
  BY <1>8, CheckTablePasses DEF CheckTable
<1>9. CASE PutTable(p)
  BY <1>9, PutTablePasses DEF PutTable
<1>10. CASE StorePosterior(p)
  BY <1>10, StorePosteriorPasses
<1>11. CASE CheckTrace(p) \/ Stop(p) \/ Die(p)
  BY <1>11, CheckTracePasses, StopPasses, DiePasses
<1> QED BY <1>1, <1>2, <1>3, <1>4, <1>5, <1>6, <1>7, <1>8, <1>9, <1>10, <1>11
        DEF Begin, Continue

\* Every step keeps the invariant,
LEMMA StepHeld == IInv /\ PInv /\ [Next]_vars => PInv'
<1> SUFFICES ASSUME IInv, PInv, [Next]_vars PROVE PInv'
  OBVIOUS
<1>1. CASE Next
  <2>1. PICK p \in Process : Read(p, 1) \/ Begin(p) \/ Continue(p) \/ Stop(p) \/ Die(p)
    BY <1>1 DEF Next
  <2> QED BY <2>1, StepPasses, PassedKeeps
<1>2. CASE UNCHANGED vars
  BY <1>2 DEF vars, PInv, Apart, Pending, Held, Unstored, Latest, AtLog
<1> QED BY <1>1, <1>2

\* so it holds of every run.
LEMMA PosteriorInvariant == Spec => []PInv
BY Invariant, InitHeld, StepHeld, PTL DEF Spec

\* What a step of belief_propagation with persist may replace.
Forgets(p, v) ==
    LET old  == db.what.posterior[v]
        new  == db'.what.posterior[v]
        late == new # KnownTo(mem[p]) /\ <<"posterior", v>> \in others[p]
    IN  phase[p] = "posteriors left" /\ plan'[p] # plan[p] /\ ~raced[p] =>
            /\ old.evidence \subseteq new.evidence \/ late
            /\ \/ old.tables \subseteq new.tables \/ late
               \/ \E t \in old.tables : <<"table", t>> \in others[p]

\* A posterior that supersedes the old one, or comes late, may replace it.
LEMMA StoreForgets ==
    ASSUME NEW p \in Process, IInv, PInv, StorePosterior(p), ~raced[p],
           NEW v \in DOMAIN db.what.posterior
    PROVE  Forgets(p, v)
<1> DEFINE old == db.what.posterior[v]  new == db'.what.posterior[v]
<1>1. Shape /\ Good(p) /\ Held(p) /\ Rests(old, db.what)
  BY DEF IInv, PInv, AllRest
<1>2. PICK u \in plan[p].left :
        /\ u \in DOMAIN mem[p].posterior
        /\ PosteriorStored(p, u, mem[p].posterior[u])
        /\ phase[p] = "posteriors left"
  BY StorePosteriorStores
<1>3. /\ u = v => new = mem[p].posterior[v]
      /\ u # v => new = old
  <2> DEFINE belief == mem[p].posterior[u]
  <2>1. PosteriorStored(p, u, belief)
    BY <1>2
  <2> HIDE DEF belief, old, new
  <2>2. /\ db'.what.posterior[u] = belief
        /\ \A w \in DOMAIN db.what.posterior \ {u} :
              db'.what.posterior[w] = db.what.posterior[w]
    BY <1>1, <2>1, PosteriorStoredFields
  <2>3. CASE u = v
    BY <2>2, <2>3 DEF belief, new
  <2>4. CASE u # v
    <3>1. v \in DOMAIN db.what.posterior \ {u}
      BY <2>4
    <3> QED BY <2>2, <2>4, <3>1 DEF old, new
  <2> QED BY <2>3, <2>4
<1>4. seen[p] = db.seq /\ Matches(mem[p], db.what, others[p], unsaved[p])
  BY <1>1, <1>2 DEF Held, AtLog, Good, HandleMatches, LoadPhases
<1> HIDE DEF old, new
<1>5. CASE new = old
  BY <1>5 DEF Forgets, old, new
<1>6. CASE Supersedes(new, old, others[p])
  BY <1>6 DEF Forgets, Supersedes, old, new
<1>7. CASE u = v /\ <<"posterior", v>> \in others[p]
  <2>1. Supersedes(KnownTo(mem[p]), old, others[p])
    BY <1>1, <1>4, KnownSupersedes
  <2>2. CASE new = KnownTo(mem[p])
    BY <1>6, <2>1, <2>2
  <2>3. CASE new # KnownTo(mem[p])
    BY <1>7, <2>3 DEF Forgets, new
  <2> QED BY <2>2, <2>3
<1>8. CASE u = v /\ <<"posterior", v>> \notin others[p]
  <2>1. CASE v \in unsaved[p]
    BY <1>1, <1>2, <1>3, <1>6, <1>8, <2>1 DEF Held, Latest, LoadPhases, old
  <2>2. CASE v \notin unsaved[p]
    BY <1>2, <1>3, <1>4, <1>5, <1>8, <2>2 DEF Matches, PosteriorsMatch, old
  <2> QED BY <2>1, <2>2
<1> QED BY <1>3, <1>5, <1>7, <1>8

\* Persisting stores every posterior of the handle again.  What the call computed
\* replaces no posterior that rests on more evidence; one from memory does only if
\* the log could not tell the handle of the newer one; and the same goes for
\* tables, of which the log says nothing (inference.rs:231-246, 275-281).
THEOREM PersistForgetsOnlyUnlogged == Spec => ForgetsOnlyUnlogged
<1> DEFINE Step == \A p \in Process, v \in DOMAIN db.what.posterior : Forgets(p, v)
<1>1. IInv /\ PInv /\ [Next]_vars => [Step]_vars
  <2> SUFFICES ASSUME IInv, PInv, Next,
                      NEW p \in Process, NEW v \in DOMAIN db.what.posterior,
                      phase[p] = "posteriors left", plan'[p] # plan[p], ~raced[p]
               PROVE  Forgets(p, v)
    BY DEF Forgets
  <2>1. PICK q \in Process : Read(q, 1) \/ Begin(q) \/ Continue(q) \/ Stop(q) \/ Die(q)
    BY DEF Next
  <2>2. Passed(q) /\ (phase[q] = "posteriors left" => db' = db \/ StorePosterior(q))
    BY <2>1, StepPasses
  <2>3. q = p
    BY <2>2 DEF Passed, Aside
  <2>4. CASE db' = db
    BY <2>4 DEF Forgets
  <2>5. CASE StorePosterior(p)
    BY <2>5, StoreForgets
  <2> QED BY <2>2, <2>3, <2>4, <2>5
<1>2. Spec => [][Step]_vars
  BY <1>1, Invariant, PosteriorInvariant, PTL DEF Spec
<1> QED BY <1>2 DEF ForgetsOnlyUnlogged, Forgets
=============================================================================
