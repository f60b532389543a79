------------------------ MODULE DerivedIndexesProofs ------------------------
(***************************************************************************)
(* Proofs about DerivedIndexes, for every set of processes and index names *)
(* and every bound.                                                        *)
(*                                                                         *)
(* The rows need little: whatever a call makes of the records, from however*)
(* old a graph in memory, the same transaction makes of the rows, as long  *)
(* as no two definitions have a name.                                      *)
(*                                                                         *)
(* The rest is about vectors, which have no history of their own: a commit *)
(* replaces those in memory by the staged ones.  The invariant says of a   *)
(* staged graph, as long as the version in memory has not moved, that it   *)
(* is the graph in memory without some records and what belonged to them   *)
(* (Follows), and phase by phase what a load or a call knows of the        *)
(* database if nobody logged anything meanwhile.                           *)
(***************************************************************************)
EXTENDS DerivedIndexes, TLAPS, FiniteSetTheorems, WellFoundedInduction

---------------------------------------------------------------------------
(* Types *)

Record == [kind : Kinds, id : Nat, at : Int, text : BOOLEAN]
TextDefinition == [name : TextName, kind : Kinds]
VecDefinition == [name : VecName, kind : Kinds]
Vector == [index : VecName, id : Nat]
Row == [index : TextName, id : Nat]

Handles ==
    [rec : SUBSET Record, text : SUBSET TextDefinition, vec : SUBSET VecDefinition,
     vectors : SUBSET Vector, next : [Kinds -> Nat], version : Nat]

Database ==
    [rec : SUBSET Record, text : SUBSET TextDefinition, vec : SUBSET VecDefinition,
     vectors : SUBSET Vector, rows : SUBSET Row, next : [Kinds -> Nat], seq : Nat]

Ops == {"insert", "create_text", "drop_text", "rebuild", "create_vec", "drop_vec",
        "upsert", "delete"} \cup Changes

LoadPhases ==
    {"edges", "definitions", "rows", "vector_indexes", "vectors", "ids", "position"}
Phases == {"idle", "write", "publish"} \cup LoadPhases

TypeOK ==
    /\ db \in Database
    /\ mem \in [Process -> Handles] /\ load \in [Process -> Handles]
    /\ seen \in [Process -> Int] /\ phase \in [Process -> Phases]
    /\ tx \in [Process -> Handles \cup {NoTx}]
    /\ raced \in [Process -> BOOLEAN] /\ harmed \in BOOLEAN
    /\ plan = [p \in Process |-> plan[p]]

---------------------------------------------------------------------------
(* The parts of the inductive invariant *)

\* No two records have a key, no two definitions a name.
Keyed(R) == \A r, s \in R : r.kind = s.kind /\ r.id = s.id => r = s
Named(D) == \A d, e \in D : d.name = e.name => d = e

\* Ids to come are free.
Ahead(g) == \A r \in g.rec : r.id < g.next[r.kind]

Stored(g) == IsFiniteSet(g.rec) /\ Keyed(g.rec) /\ Named(g.text) /\ Named(g.vec)
GraphOK(g) == Stored(g) /\ Ahead(g)

\* What search reads of a graph is the same.
Same(g, d) == g.rec = d.rec /\ g.text = d.text /\ g.vec = d.vec /\ g.vectors = d.vectors

\* Edges and vectors are of entities there are.
Closed(R) == \A e \in OfKind(R, "edge") : e.at \in NodeIds(R)
Placed(g) == g.vectors \subseteq Placeable(g)

Gone(old, new) == {r \in old.rec : Key(r) \notin Keys(new.rec)}

\* t is g without some records and the vectors that belonged to them.
Follows(t, g) ==
    /\ t.vectors = Without(g.vec, g.vectors, Gone(g, t))
    /\ Closed(g.rec) => Closed(t.rec)

\* A call is one of those the graph it was checked against allows.
CallFits(c, m) ==
    /\ c.op \in Ops
    /\ c.op = "insert" => /\ c.row \in Record /\ c.row.id = m.next[c.row.kind]
                          /\ c.row.kind = "edge" => c.row.at \in NodeIds(m.rec)
    /\ c.op \in Changes => c.to \in Handles /\ GraphOK(c.to)
    /\ c.op = "change" => Follows(c.to, m)
    /\ c.op = "create_text" => c.row \in TextDefinition /\ c.row.name \notin Names(m.text)
    /\ c.op = "drop_text" => c.row \in m.text
    /\ c.op = "create_vec" => c.row \in VecDefinition /\ c.row.name \notin Names(m.vec)
    /\ c.op = "drop_vec" => c.row \in m.vec
    /\ c.op \in {"upsert", "delete"} => c.row \in Placeable(m)

Calling(p) == phase[p] \in {"write", "publish"}

PlanFits(p) ==
    /\ Calling(p) => CallFits(plan[p], mem[p])
    /\ Calling(p) /\ ~raced[p] /\ plan[p].op = "commit" => Follows(plan[p].to, mem[p])
    /\ phase[p] = "publish" => seen[p] < db.seq /\ plan[p].op # "rebuild"
    /\ ~Calling(p) => plan[p] = NoPlan

\* A handle that was not raced has in memory what the database has, unless the
\* log tells it otherwise.
Knows(p) ==
    ~raced[p] =>
        /\ phase[p] = "idle" /\ seen[p] = db.seq => Same(mem[p], db)
        /\ phase[p] = "write" => Same(mem[p], db)
        /\ phase[p] = "publish" => Same(Published(plan[p], mem[p]), db)

\* Its memory is consistent, and a transaction it can commit was staged from it.
Keeps(p) ==
    ~raced[p] /\ phase[p] \notin LoadPhases =>
        /\ Placed(mem[p])
        /\ tx[p] # NoTx =>
            /\ tx[p].version <= mem[p].version
            /\ tx[p].version = mem[p].version => Follows(tx[p], mem[p]) /\ tx[p].vec = mem[p].vec

\* What a load has read holds together,
LoadFits(p) ==
    /\ Stored(load[p])
    /\ phase[p] = "edges" => \A r \in load[p].rec : r.kind = "node"
    /\ phase[p] \in {"ids", "position"} => Placed(load[p])
    /\ phase[p] = "position" => Ahead(load[p])

\* and is still so if nothing was logged since.
LoadKnows(p) ==
    ~raced[p] =>
        /\ phase[p] = "edges" => load[p].rec = OfKind(db.rec, "node")
        /\ phase[p] \in LoadPhases \ {"edges"} => load[p].rec = db.rec
        /\ phase[p] \in LoadPhases \ {"edges", "definitions"} => load[p].text = db.text
        /\ phase[p] \in {"vectors", "ids", "position"} => load[p].vec = db.vec
        /\ phase[p] \in {"ids", "position"} => load[p].vectors = db.vectors

\* Nobody who was raced wrote: the database is consistent.
Harmless == ~harmed => Closed(db.rec) /\ Placed(db)

Held(p) ==
    /\ seen[p] <= db.seq
    /\ GraphOK(mem[p]) /\ (tx[p] # NoTx => GraphOK(tx[p]))
    /\ PlanFits(p) /\ Knows(p) /\ Keeps(p) /\ LoadFits(p) /\ LoadKnows(p)

IInv == TypeOK /\ Stored(db) /\ Harmless /\ \A p \in Process : Held(p)

---------------------------------------------------------------------------
(* Constants of the model *)

\* The order of a load, step by step.
LEMMA LoadOrderIs ==
    /\ Len(LoadOrder) = 7
    /\ LoadOrder[1] = "nodes" /\ LoadOrder[2] = "edges" /\ LoadOrder[3] = "definitions"
    /\ LoadOrder[4] = "rows" /\ LoadOrder[5] = "vector_indexes" /\ LoadOrder[6] = "vectors"
    /\ LoadOrder[7] = "ids"
    /\ Loading = LoadPhases
<1>1. Len(LoadOrder) = 7
    BY DEF LoadOrder
<1>2. /\ LoadOrder[1] = "nodes" /\ LoadOrder[2] = "edges" /\ LoadOrder[3] = "definitions"
      /\ LoadOrder[4] = "rows" /\ LoadOrder[5] = "vector_indexes" /\ LoadOrder[6] = "vectors"
      /\ LoadOrder[7] = "ids"
    BY DEF LoadOrder
<1>3. 2..Len(LoadOrder) = {2, 3, 4, 5, 6, 7}
    BY <1>1
<1>4. Loading = LoadPhases
    <2>1. Loading \subseteq LoadPhases
        BY <1>2, <1>3 DEF Loading, LoadPhases
    <2>2. \A k \in {2, 3, 4, 5, 6, 7} : LoadOrder[k] \in Loading
        BY <1>3 DEF Loading
    <2>3. "position" \in Loading
        BY DEF Loading
    <2>4. LoadPhases \subseteq Loading
        BY <1>2, <2>2, <2>3 DEF LoadPhases
    <2> QED
        BY <2>1, <2>4
<1> QED
    BY <1>1, <1>2, <1>4

\* Keys are the same if kind and id are.
LEMMA KeyIs == \A r, s : Key(r) = Key(s) <=> r.kind = s.kind /\ r.id = s.id
BY DEF Key

\* No handle has the version of NoTx.
LEMMA NoTxIsNone == \A m \in Handles : m # NoTx
BY DEF Handles, NoTx

---------------------------------------------------------------------------
(* What an update or a deletion makes of a graph *)

\* The record and, of a node, the edges at it.
With(g, r) ==
    {r} \cup IF r.kind = "edge" THEN {} ELSE {e \in OfKind(g.rec, "edge") : e.at = r.id}

PutOf(g, r) == [g EXCEPT !.rec = (@ \ {r}) \cup {[r EXCEPT !.text = ~@]}]
DropOf(g, R) == [g EXCEPT !.rec = @ \ R, !.vectors = Without(g.vec, @, R)]

\* The graphs an update or a deletion may stage.
LEMMA ChangedIs ==
    \A g : Changed(g) = {PutOf(g, r) : r \in g.rec} \cup {DropOf(g, With(g, r)) : r \in g.rec}
BY DEF Changed, PutOf, DropOf, With

\* Nothing is gone: no vector is.
LEMMA WithoutNothing == \A D, V : Without(D, V, {}) = V
BY DEF Without

\* An update keeps the key of its record.
LEMMA PutFollows ==
    ASSUME NEW g \in Handles, GraphOK(g), NEW r \in g.rec, NEW c, c = PutOf(g, r)
    PROVE  /\ c \in Handles /\ GraphOK(c) /\ Follows(c, g)
           /\ c.vec = g.vec /\ c.version = g.version
<1> DEFINE s == [r EXCEPT !.text = ~@]
<1>1. r \in Record /\ g.rec \subseteq Record
    BY DEF Handles
<1>2. /\ s \in Record /\ s.kind = r.kind /\ s.id = r.id /\ s.at = r.at
    BY <1>1 DEF Record
<1>3. /\ c.rec = (g.rec \ {r}) \cup {s}
      /\ c.text = g.text /\ c.vec = g.vec /\ c.vectors = g.vectors
      /\ c.next = g.next /\ c.version = g.version
    BY DEF Handles, PutOf
<1>4. c \in Handles
    BY <1>1, <1>2 DEF Handles, PutOf
<1> HIDE DEF s
<1>5. IsFiniteSet(c.rec)
    <2>1. IsFiniteSet(g.rec \ {r})
        BY FS_RemoveElement DEF GraphOK, Stored
    <2> QED
        BY <1>3, <2>1, FS_AddElement
<1>6. Keyed(c.rec) /\ Ahead(c)
    BY <1>2, <1>3 DEF GraphOK, Stored, Keyed, Ahead
<1>7. GraphOK(c)
    BY <1>3, <1>5, <1>6 DEF GraphOK, Stored
<1>8. Gone(g, c) = {}
    <2>1. \A x \in g.rec : x = r \/ x \in c.rec
        BY <1>3
    <2>2. Key(r) = Key(s) /\ s \in c.rec
        BY <1>2, <1>3, KeyIs
    <2> QED
        BY <2>1, <2>2 DEF Gone, Keys
<1>9. Closed(g.rec) => Closed(c.rec)
    <2>1. NodeIds(g.rec) \subseteq NodeIds(c.rec)
        BY <1>2, <1>3 DEF NodeIds, OfKind
    <2>2. \A e \in OfKind(c.rec, "edge") : \E f \in OfKind(g.rec, "edge") : e.at = f.at
        BY <1>2, <1>3 DEF OfKind
    <2> QED
        BY <2>1, <2>2 DEF Closed
<1> QED
    BY <1>3, <1>4, <1>7, <1>8, <1>9, WithoutNothing DEF Follows

\* A deletion takes the edges at a node, and the vectors of all that goes.
LEMMA DropFollows ==
    ASSUME NEW g \in Handles, GraphOK(g), NEW r \in g.rec, NEW R, NEW c,
           R = With(g, r), c = DropOf(g, R)
    PROVE  /\ c \in Handles /\ GraphOK(c) /\ Follows(c, g)
           /\ c.vec = g.vec /\ c.version = g.version
<1>1. r \in Record /\ g.rec \subseteq Record /\ R \subseteq g.rec
    BY DEF Handles, OfKind, With
<1>2. Without(g.vec, g.vectors, R) \subseteq g.vectors
    BY DEF Without
<1>3. /\ c.rec = g.rec \ R
      /\ c.text = g.text /\ c.vec = g.vec /\ c.vectors = Without(g.vec, g.vectors, R)
      /\ c.next = g.next /\ c.version = g.version
    BY DEF Handles, DropOf
<1>4. c \in Handles
    BY <1>1, <1>2 DEF Handles, DropOf
<1>5. IsFiniteSet(c.rec)
    BY <1>3, FS_Subset DEF GraphOK, Stored
<1>6. Keyed(c.rec) /\ Ahead(c)
    BY <1>3 DEF GraphOK, Stored, Keyed, Ahead
<1>7. GraphOK(c)
    BY <1>3, <1>5, <1>6 DEF GraphOK, Stored
<1>8. Gone(g, c) = R
    BY <1>1, <1>3, KeyIs DEF Gone, Keys, GraphOK, Stored, Keyed
<1>9. Closed(g.rec) => Closed(c.rec)
    <2> SUFFICES ASSUME Closed(g.rec), NEW e \in OfKind(c.rec, "edge")
                 PROVE  e.at \in NodeIds(c.rec)
        BY DEF Closed
    <2>1. e \in OfKind(g.rec, "edge") /\ e \notin R
        BY <1>3 DEF OfKind
    <2>2. PICK n \in g.rec : n.kind = "node" /\ n.id = e.at
        BY <2>1 DEF Closed, NodeIds, OfKind
    <2>3. n \notin R
        BY <1>1, <2>1, <2>2 DEF OfKind, Record, Kinds, With
    <2> QED
        BY <1>3, <2>2, <2>3 DEF NodeIds, OfKind
<1> QED
    BY <1>3, <1>4, <1>7, <1>8, <1>9 DEF Follows

\* Both.
LEMMA ChangedFollows ==
    ASSUME NEW g \in Handles, GraphOK(g), NEW c \in Changed(g)
    PROVE  /\ c \in Handles /\ GraphOK(c) /\ Follows(c, g)
           /\ c.vec = g.vec /\ c.version = g.version
<1>1. CASE \E r \in g.rec : c = PutOf(g, r)
    BY <1>1, PutFollows
<1>2. CASE \E r \in g.rec : c = DropOf(g, With(g, r))
    BY <1>2, DropFollows
<1> QED
    BY <1>1, <1>2, ChangedIs

---------------------------------------------------------------------------
(* What a call makes of memory and of the database, field by field *)

Removed(D, name) == {d \in D : d.name # name}

RecIn(c, m) ==
    IF c.op = "insert" THEN m.rec \cup {c.row} ELSE IF c.op \in Changes THEN c.to.rec ELSE m.rec
TextIn(c, m) ==
    IF c.op = "create_text" THEN m.text \cup {c.row}
    ELSE IF c.op = "drop_text" THEN m.text \ {c.row} ELSE m.text
VecIn(c, m) ==
    IF c.op = "create_vec" THEN m.vec \cup {c.row}
    ELSE IF c.op = "drop_vec" THEN m.vec \ {c.row} ELSE m.vec
VectorsIn(c, m) ==
    IF c.op \in Changes THEN c.to.vectors
    ELSE IF c.op = "drop_vec" THEN {v \in m.vectors : v.index # c.row.name}
    ELSE IF c.op = "upsert" THEN m.vectors \cup {c.row}
    ELSE IF c.op = "delete" THEN m.vectors \ {c.row} ELSE m.vectors
NextIn(c, m) ==
    IF c.op = "insert" THEN [m.next EXCEPT ![c.row.kind] = @ + 1]
    ELSE IF c.op \in Changes THEN c.to.next ELSE m.next

\* Memory.
LEMMA PublishedIs ==
    ASSUME NEW m \in Handles, NEW c, c.op \in Ops \ {"rebuild"}
    PROVE  Published(c, m) =
            [rec |-> RecIn(c, m), text |-> TextIn(c, m), vec |-> VecIn(c, m),
             vectors |-> VectorsIn(c, m), next |-> NextIn(c, m), version |-> Version(c, m)]
<1> DEFINE d == [m EXCEPT !.version = Version(c, m)]
           r == [rec |-> RecIn(c, m), text |-> TextIn(c, m), vec |-> VecIn(c, m),
                 vectors |-> VectorsIn(c, m), next |-> NextIn(c, m), version |-> Version(c, m)]
<1>1. d = [rec |-> m.rec, text |-> m.text, vec |-> m.vec, vectors |-> m.vectors,
           next |-> m.next, version |-> Version(c, m)]
    BY DEF Handles
<1> HIDE DEF d
<1>2. CASE c.op = "insert"
    <2>1. Published(c, m) = [d EXCEPT !.rec = @ \cup {c.row}, !.next[c.row.kind] = @ + 1]
        BY <1>2 DEF Published, d, Changes
    <2>2. r = [rec |-> m.rec \cup {c.row}, text |-> m.text, vec |-> m.vec, vectors |-> m.vectors,
               next |-> [m.next EXCEPT ![c.row.kind] = @ + 1], version |-> Version(c, m)]
        BY <1>2 DEF RecIn, TextIn, VecIn, VectorsIn, NextIn, Changes
    <2> QED
        BY <1>1, <2>1, <2>2
<1>3. CASE c.op \in Changes
    <2>1. Published(c, m) = [d EXCEPT !.rec = c.to.rec, !.vectors = c.to.vectors, !.next = c.to.next]
        BY <1>3 DEF Published, d, Adopted, Changes
    <2>2. r = [rec |-> c.to.rec, text |-> m.text, vec |-> m.vec, vectors |-> c.to.vectors,
               next |-> c.to.next, version |-> Version(c, m)]
        BY <1>3 DEF RecIn, TextIn, VecIn, VectorsIn, NextIn, Changes
    <2> QED
        BY <1>1, <2>1, <2>2
<1>4. CASE c.op \in {"create_text", "drop_text"}
    <2>1. Published(c, m) = [d EXCEPT !.text = TextIn(c, m)]
        BY <1>1, <1>4 DEF Published, d, Changes, TextIn
    <2>2. r = [rec |-> m.rec, text |-> TextIn(c, m), vec |-> m.vec, vectors |-> m.vectors,
               next |-> m.next, version |-> Version(c, m)]
        BY <1>4 DEF RecIn, VecIn, VectorsIn, NextIn, Changes
    <2> QED
        BY <1>1, <2>1, <2>2
<1>5. CASE c.op \in {"create_vec", "drop_vec", "upsert", "delete"}
    <2>1. Published(c, m) = [d EXCEPT !.vec = VecIn(c, m), !.vectors = VectorsIn(c, m)]
        BY <1>1, <1>5 DEF Published, d, Changes, VecIn, VectorsIn
    <2>2. r = [rec |-> m.rec, text |-> m.text, vec |-> VecIn(c, m), vectors |-> VectorsIn(c, m),
               next |-> m.next, version |-> Version(c, m)]
        BY <1>5 DEF RecIn, TextIn, NextIn, Changes
    <2> QED
        BY <1>1, <2>1, <2>2
<1> QED
    BY <1>2, <1>3, <1>4, <1>5 DEF Ops

\* A graph that goes on from a good one is good.
LEMMA PublishedOK ==
    ASSUME NEW m \in Handles, GraphOK(m), NEW c, CallFits(c, m), c.op # "rebuild"
    PROVE  /\ Published(c, m) \in Handles /\ GraphOK(Published(c, m))
           /\ Published(c, m).version >= m.version
           /\ c.op \notin {"create_text", "drop_text"} => Published(c, m).version > m.version
<1> DEFINE P == Published(c, m)
<1>1. c.op \in Ops \ {"rebuild"}
    BY DEF CallFits
<1>2. P = [rec |-> RecIn(c, m), text |-> TextIn(c, m), vec |-> VecIn(c, m),
           vectors |-> VectorsIn(c, m), next |-> NextIn(c, m), version |-> Version(c, m)]
    BY <1>1, PublishedIs
<1>3. /\ P.rec = RecIn(c, m) /\ P.text = TextIn(c, m) /\ P.vec = VecIn(c, m)
      /\ P.vectors = VectorsIn(c, m) /\ P.next = NextIn(c, m) /\ P.version = Version(c, m)
    BY <1>2
<1> HIDE DEF P
<1>4. /\ m.rec \subseteq Record /\ m.text \subseteq TextDefinition /\ m.vec \subseteq VecDefinition
      /\ m.vectors \subseteq Vector /\ m.next \in [Kinds -> Nat] /\ m.version \in Nat
    BY DEF Handles
<1>5. c.op \in Changes => /\ c.to.rec \subseteq Record /\ c.to.vectors \subseteq Vector
                          /\ c.to.next \in [Kinds -> Nat]
    BY DEF CallFits, Handles
<1>6. RecIn(c, m) \subseteq Record /\ TextIn(c, m) \subseteq TextDefinition
    BY <1>4, <1>5 DEF RecIn, TextIn, CallFits
<1>7. VecIn(c, m) \subseteq VecDefinition
    BY <1>4 DEF VecIn, CallFits
<1>8. Placeable(m) \subseteq Vector
    BY <1>4 DEF Placeable, OfKind, Vector, VecDefinition, Record
<1>9. VectorsIn(c, m) \subseteq Vector
    BY <1>4, <1>5, <1>8 DEF VectorsIn, CallFits
<1>10. NextIn(c, m) \in [Kinds -> Nat]
    <2>1. CASE c.op = "insert"
        <3>1. c.row.kind \in Kinds
            BY <2>1 DEF CallFits, Record
        <3>2. [m.next EXCEPT ![c.row.kind] = @ + 1] \in [Kinds -> Nat]
            BY <1>4, <3>1
        <3> QED
            BY <2>1, <3>2 DEF NextIn
    <2>2. CASE c.op # "insert"
        BY <1>4, <1>5, <2>2 DEF NextIn
    <2> QED
        BY <2>1, <2>2
<1>11. /\ Version(c, m) \in Nat /\ Version(c, m) >= m.version
       /\ c.op \notin {"create_text", "drop_text"} => Version(c, m) > m.version
    <2> DEFINE v == m.version
    <2>1. v \in Nat
        BY <1>4
    <2>2. Version(c, m) = IF c.op \in {"create_text", "drop_text"} THEN v ELSE v + 1
        BY DEF Version
    <2> HIDE DEF v
    <2>3. CASE c.op \in {"create_text", "drop_text"}
        <3>1. Version(c, m) = v
            BY <2>2, <2>3
        <3>2. v \in Nat /\ v >= v
            BY <2>1
        <3> QED
            BY <2>3, <3>1, <3>2 DEF v
    <2>4. CASE c.op \notin {"create_text", "drop_text"}
        <3>1. Version(c, m) = v + 1
            BY <2>2, <2>4
        <3>2. v + 1 \in Nat /\ v + 1 > v /\ v + 1 >= v
            BY <2>1
        <3> QED
            BY <3>1, <3>2 DEF v
    <2> QED
        BY <2>3, <2>4
<1>12. P \in Handles
    BY <1>2, <1>6, <1>7, <1>9, <1>10, <1>11 DEF Handles
<1>13. IsFiniteSet(P.rec)
    <2>1. IsFiniteSet(m.rec \cup {c.row})
        BY FS_AddElement DEF GraphOK, Stored
    <2> QED
        BY <1>3, <2>1 DEF RecIn, CallFits, GraphOK, Stored
<1>14. Keyed(P.rec) /\ Ahead(P)
    <2>1. CASE c.op = "insert"
        <3>1. P.rec = m.rec \cup {c.row} /\ P.next = [m.next EXCEPT ![c.row.kind] = @ + 1]
            BY <1>3, <2>1 DEF RecIn, NextIn
        <3>2. c.row \in Record /\ c.row.id = m.next[c.row.kind]
            BY <2>1 DEF CallFits
        <3>3. \A r \in m.rec : r.id < m.next[r.kind]
            BY DEF GraphOK, Ahead
        <3>4. P.next[c.row.kind] = c.row.id + 1
            BY <1>4, <3>1, <3>2 DEF Record
        <3>5. \A r \in m.rec : r.id < P.next[r.kind]
            BY <1>4, <3>1, <3>2, <3>3, <3>4 DEF Record
        <3>6. Ahead(P)
            BY <3>1, <3>2, <3>4, <3>5 DEF Ahead, Record
        <3>7. Keyed(P.rec)
            BY <1>4, <3>1, <3>2, <3>3 DEF Keyed, GraphOK, Stored, Record
        <3> QED
            BY <3>6, <3>7
    <2>2. CASE c.op \in Changes
        BY <1>3, <2>2 DEF RecIn, NextIn, CallFits, GraphOK, Stored, Ahead, Changes
    <2>3. CASE c.op # "insert" /\ c.op \notin Changes
        BY <1>3, <2>3 DEF RecIn, NextIn, GraphOK, Stored, Ahead
    <2> QED
        BY <2>1, <2>2, <2>3
<1>15. Named(P.text)
    <2>1. c.op = "create_text" => \A d \in m.text : d.name # c.row.name
        BY DEF CallFits, Names
    <2> QED
        BY <1>3, <2>1 DEF TextIn, GraphOK, Stored, Named
<1>16. Named(P.vec)
    <2>1. c.op = "create_vec" => \A d \in m.vec : d.name # c.row.name
        BY DEF CallFits, Names
    <2> QED
        BY <1>3, <2>1 DEF VecIn, GraphOK, Stored, Named
<1> QED
    BY <1>3, <1>11, <1>12, <1>13, <1>14, <1>15, <1>16 DEF GraphOK, Stored, P

\* The database.
PutBy(c, m) == c.to.rec \ m.rec

StoredRec(c, m) ==
    IF c.op = "insert" THEN db.rec \cup {c.row}
    ELSE IF c.op \in Changes
    THEN {r \in db.rec : Key(r) \notin Keys(Gone(m, c.to) \cup PutBy(c, m))} \cup PutBy(c, m)
    ELSE db.rec
StoredText(c) ==
    IF c.op = "create_text" THEN db.text \cup {c.row}
    ELSE IF c.op = "drop_text" THEN Removed(db.text, c.row.name) ELSE db.text
StoredVec(c) ==
    IF c.op = "create_vec" THEN db.vec \cup {c.row}
    ELSE IF c.op = "drop_vec" THEN Removed(db.vec, c.row.name) ELSE db.vec
StoredVectors(c, m) ==
    IF c.op \in Changes THEN Without(db.vec, db.vectors, Gone(m, c.to))
    ELSE IF c.op = "drop_vec" THEN {v \in db.vectors : v.index # c.row.name}
    ELSE IF c.op = "upsert" THEN db.vectors \cup {c.row}
    ELSE IF c.op = "delete" THEN db.vectors \ {c.row} ELSE db.vectors
StoredRows(c, m) ==
    IF c.op = "insert" THEN Synced({}, {c.row})
    ELSE IF c.op \in Changes THEN Synced(Gone(m, c.to), PutBy(c, m))
    ELSE IF c.op = "create_text" THEN Rewritten({c.row}, m.rec)
    ELSE IF c.op = "drop_text" THEN {w \in db.rows : w.index # c.row.name}
    ELSE IF c.op = "rebuild" THEN Rewritten(m.text, m.rec) ELSE db.rows
StoredNext(c) == IF c.op \in Changes THEN c.to.next ELSE db.next
StoredSeq(c) == IF c.op = "rebuild" THEN db.seq ELSE db.seq + 1

\* The database after a call, part by part.
LEMMA AfterIs ==
    ASSUME db \in Database, NEW m, NEW c, c.op \in Ops
    PROVE  After(c, m) =
            [rec |-> StoredRec(c, m), text |-> StoredText(c), vec |-> StoredVec(c),
             vectors |-> StoredVectors(c, m), rows |-> StoredRows(c, m),
             next |-> StoredNext(c), seq |-> StoredSeq(c)]
<1> DEFINE d == [rec |-> StoredRec(c, m), text |-> StoredText(c), vec |-> StoredVec(c),
                 vectors |-> StoredVectors(c, m), rows |-> StoredRows(c, m),
                 next |-> StoredNext(c), seq |-> StoredSeq(c)]
<1>1. db = [rec |-> db.rec, text |-> db.text, vec |-> db.vec, vectors |-> db.vectors,
            rows |-> db.rows, next |-> db.next, seq |-> db.seq]
    BY DEF Database
<1>2. CASE c.op = "insert"
    <2>1. After(c, m) = Logs([db EXCEPT !.rec = @ \cup {c.row}, !.rows = Synced({}, {c.row})])
        BY <1>2 DEF After, Changes
    <2>2. d = [rec |-> db.rec \cup {c.row}, text |-> db.text, vec |-> db.vec,
               vectors |-> db.vectors, rows |-> Synced({}, {c.row}), next |-> db.next,
               seq |-> db.seq + 1]
        BY <1>2 DEF StoredRec, StoredText, StoredVec, StoredVectors, StoredRows, StoredNext,
                    StoredSeq, Changes
    <2> QED
        BY <1>1, <2>1, <2>2 DEF Logs
<1>3. CASE c.op \in Changes
    <2>1. After(c, m) =
            [db EXCEPT !.rec = StoredRec(c, m), !.vectors = StoredVectors(c, m),
                       !.rows = StoredRows(c, m), !.next = c.to.next, !.seq = @ + 1]
        <3>1. After(c, m) = Applied(m, c.to)
            BY <1>3 DEF After, Changes
        <3>2. StoredRec(c, m) =
                {r \in db.rec : Key(r) \notin Keys(Gone(m, c.to) \cup PutBy(c, m))} \cup PutBy(c, m)
            BY <1>3 DEF StoredRec, Changes
        <3>3. StoredVectors(c, m) = Without(db.vec, db.vectors, Gone(m, c.to))
            BY <1>3 DEF StoredVectors, Changes
        <3>4. StoredRows(c, m) = Synced(Gone(m, c.to), PutBy(c, m))
            BY <1>3 DEF StoredRows, Changes
        <3>5. Applied(m, c.to) =
                [db EXCEPT !.rec = {r \in @ : Key(r) \notin Keys(Gone(m, c.to) \cup PutBy(c, m))}
                                        \cup PutBy(c, m),
                           !.vectors = Without(db.vec, @, Gone(m, c.to)),
                           !.rows = Synced(Gone(m, c.to), PutBy(c, m)),
                           !.next = c.to.next,
                           !.seq = @ + 1]
            BY DEF Applied, Gone, PutBy
        <3> QED
            BY <1>1, <3>1, <3>2, <3>3, <3>4, <3>5
    <2>2. d = [rec |-> StoredRec(c, m), text |-> db.text, vec |-> db.vec,
               vectors |-> StoredVectors(c, m), rows |-> StoredRows(c, m),
               next |-> c.to.next, seq |-> db.seq + 1]
        BY <1>3 DEF StoredText, StoredVec, StoredNext, StoredSeq, Changes
    <2> QED
        BY <1>1, <2>1, <2>2
<1>4. CASE c.op \in {"create_text", "drop_text"}
    <2>1. After(c, m) = Logs([db EXCEPT !.text = StoredText(c), !.rows = StoredRows(c, m)])
        BY <1>1, <1>4 DEF After, StoredText, StoredRows, Removed, Changes
    <2>2. d = [rec |-> db.rec, text |-> StoredText(c), vec |-> db.vec, vectors |-> db.vectors,
               rows |-> StoredRows(c, m), next |-> db.next, seq |-> db.seq + 1]
        BY <1>4 DEF StoredRec, StoredVec, StoredVectors, StoredNext, StoredSeq, Changes
    <2> QED
        BY <1>1, <2>1, <2>2 DEF Logs
<1>5. CASE c.op = "rebuild"
    <2>1. After(c, m) = [db EXCEPT !.rows = Rewritten(m.text, m.rec)]
        BY <1>5 DEF After, Changes
    <2>2. d = [rec |-> db.rec, text |-> db.text, vec |-> db.vec, vectors |-> db.vectors,
               rows |-> Rewritten(m.text, m.rec), next |-> db.next, seq |-> db.seq]
        BY <1>5 DEF StoredRec, StoredText, StoredVec, StoredVectors, StoredRows, StoredNext,
                    StoredSeq, Changes
    <2> QED
        BY <1>1, <2>1, <2>2
<1>6. CASE c.op \in {"create_vec", "drop_vec", "upsert", "delete"}
    <2>1. After(c, m) = Logs([db EXCEPT !.vec = StoredVec(c), !.vectors = StoredVectors(c, m)])
        BY <1>1, <1>6 DEF After, StoredVec, StoredVectors, Removed, Changes
    <2>2. d = [rec |-> db.rec, text |-> db.text, vec |-> StoredVec(c),
               vectors |-> StoredVectors(c, m), rows |-> db.rows, next |-> db.next,
               seq |-> db.seq + 1]
        BY <1>6 DEF StoredRec, StoredText, StoredRows, StoredNext, StoredSeq, Changes
    <2> QED
        BY <1>1, <2>1, <2>2 DEF Logs
<1> QED
    BY <1>2, <1>3, <1>4, <1>5, <1>6 DEF Ops

\* What a call makes of memory it makes of a database that is the same.
LEMMA PublishedSame ==
    ASSUME db \in Database, Stored(db), NEW m \in Handles, GraphOK(m), Same(m, db),
           NEW c, CallFits(c, m), c.op # "rebuild", c.op \in Changes => Follows(c.to, m)
    PROVE  Same(Published(c, m), After(c, m))
<1>1. c.op \in Ops \ {"rebuild"}
    BY DEF CallFits
<1>2. /\ m.rec = db.rec /\ m.text = db.text /\ m.vec = db.vec /\ m.vectors = db.vectors
    BY DEF Same
<1>3. RecIn(c, m) = StoredRec(c, m)
    <2>1. CASE c.op \in Changes
        <3> DEFINE n == c.to
        <3>1. Keyed(n.rec) /\ Keyed(m.rec)
            BY <2>1 DEF CallFits, GraphOK, Stored
        <3>2. ASSUME NEW r \in m.rec, r \in n.rec
              PROVE  Key(r) \notin Keys(Gone(m, n) \cup PutBy(c, m))
            BY <3>1, <3>2, KeyIs DEF Keys, Gone, PutBy, Keyed
        <3>3. ASSUME NEW r \in m.rec, r \notin n.rec
              PROVE  Key(r) \in Keys(Gone(m, n) \cup PutBy(c, m))
            <4>1. CASE Key(r) \notin Keys(n.rec)
                BY <4>1 DEF Gone, Keys
            <4>2. CASE Key(r) \in Keys(n.rec)
                <5>1. PICK s \in n.rec : Key(s) = Key(r)
                    BY <4>2 DEF Keys
                <5>2. s \notin m.rec
                    BY <3>1, <3>3, <5>1, KeyIs DEF Keyed
                <5> QED
                    BY <5>1, <5>2 DEF PutBy, Keys
            <4> QED
                BY <4>1, <4>2
        <3>4. {r \in m.rec : Key(r) \notin Keys(Gone(m, n) \cup PutBy(c, m))} = m.rec \cap n.rec
            BY <3>2, <3>3
        <3>5. (m.rec \cap n.rec) \cup PutBy(c, m) = n.rec
            BY DEF PutBy
        <3> QED
            BY <1>2, <2>1, <3>4, <3>5 DEF RecIn, StoredRec, Changes
    <2>2. CASE c.op \notin Changes
        BY <1>2, <2>2 DEF RecIn, StoredRec
    <2> QED
        BY <2>1, <2>2
<1>4. TextIn(c, m) = StoredText(c)
    <2>1. c.op = "drop_text" => Removed(m.text, c.row.name) = m.text \ {c.row}
        BY DEF CallFits, GraphOK, Stored, Named, Removed
    <2> QED
        BY <1>2, <2>1 DEF TextIn, StoredText
<1>5. VecIn(c, m) = StoredVec(c)
    <2>1. c.op = "drop_vec" => Removed(m.vec, c.row.name) = m.vec \ {c.row}
        BY DEF CallFits, GraphOK, Stored, Named, Removed
    <2> QED
        BY <1>2, <2>1 DEF VecIn, StoredVec
<1>6. VectorsIn(c, m) = StoredVectors(c, m)
    BY <1>2 DEF VectorsIn, StoredVectors, Follows
<1>7. /\ Published(c, m).rec = RecIn(c, m) /\ Published(c, m).text = TextIn(c, m)
      /\ Published(c, m).vec = VecIn(c, m) /\ Published(c, m).vectors = VectorsIn(c, m)
    BY <1>1, PublishedIs
<1>8. /\ After(c, m).rec = StoredRec(c, m) /\ After(c, m).text = StoredText(c)
      /\ After(c, m).vec = StoredVec(c) /\ After(c, m).vectors = StoredVectors(c, m)
    BY <1>1, AfterIs
<1> QED
    BY <1>3, <1>4, <1>5, <1>6, <1>7, <1>8 DEF Same

\* Rows of definitions and records.
LEMMA RowsOfType ==
    ASSUME NEW D \in SUBSET TextDefinition, NEW R \in SUBSET Record
    PROVE  RowsOf(D, R) \subseteq Row
BY DEF RowsOf, OfKind, TextDefinition, Record, Row

\* The database stays well-formed, whatever the graph in memory is.
LEMMA AfterOK ==
    ASSUME db \in Database, Stored(db), NEW m \in Handles, NEW c, CallFits(c, m), Accepts(c)
    PROVE  After(c, m) \in Database /\ Stored(After(c, m))
<1> DEFINE d == After(c, m)
<1>1. c.op \in Ops
    BY DEF CallFits
<1>2. d = [rec |-> StoredRec(c, m), text |-> StoredText(c), vec |-> StoredVec(c),
           vectors |-> StoredVectors(c, m), rows |-> StoredRows(c, m),
           next |-> StoredNext(c), seq |-> StoredSeq(c)]
    BY <1>1, AfterIs
<1>3. /\ db.rec \subseteq Record /\ db.text \subseteq TextDefinition /\ db.vec \subseteq VecDefinition
      /\ db.vectors \subseteq Vector /\ db.rows \subseteq Row /\ db.next \in [Kinds -> Nat]
      /\ db.seq \in Nat
    BY DEF Database
<1>4. /\ m.rec \subseteq Record /\ m.text \subseteq TextDefinition /\ m.vec \subseteq VecDefinition
    BY DEF Handles
<1>5. c.op \in Changes => /\ c.to.rec \subseteq Record /\ c.to.next \in [Kinds -> Nat]
                          /\ PutBy(c, m) \subseteq Record
    BY DEF CallFits, Handles, PutBy
<1>6. c.op = "insert" => c.row \in Record
    BY DEF CallFits
<1>7. c.op = "create_text" => c.row \in TextDefinition
    BY DEF CallFits
<1>8. c.op = "create_vec" => c.row \in VecDefinition
    BY DEF CallFits
<1>9. c.op = "upsert" => c.row \in Vector
    <2>1. Placeable(m) \subseteq Vector
        BY <1>4 DEF Placeable, OfKind, Vector, VecDefinition, Record
    <2> QED
        BY <2>1 DEF CallFits
<1>10. StoredRec(c, m) \subseteq Record
    BY <1>3, <1>5, <1>6 DEF StoredRec
<1>11. StoredText(c) \subseteq TextDefinition /\ StoredVec(c) \subseteq VecDefinition
    BY <1>3, <1>7, <1>8 DEF StoredText, StoredVec, Removed
<1>12. StoredVectors(c, m) \subseteq Vector
    BY <1>3, <1>9 DEF StoredVectors, Without
<1>13. StoredRows(c, m) \subseteq Row
    <2>1. ASSUME NEW D \in SUBSET TextDefinition, NEW R \in SUBSET Record
          PROVE  Rewritten(D, R) \subseteq Row
        BY <1>3, RowsOfType DEF Rewritten
    <2>2. ASSUME NEW G, NEW R \in SUBSET Record
          PROVE  Synced(G, R) \subseteq Row
        BY <1>3, RowsOfType DEF Synced
    <2>3. CASE c.op = "insert"
        <3>1. {c.row} \in SUBSET Record
            BY <1>6, <2>3
        <3> QED
            BY <2>2, <2>3, <3>1 DEF StoredRows
    <2>4. CASE c.op \in Changes
        BY <1>5, <2>2, <2>4 DEF StoredRows, Changes
    <2>5. CASE c.op = "create_text"
        BY <1>4, <1>7, <2>1, <2>5 DEF StoredRows, Changes
    <2>6. CASE c.op \notin {"insert", "create_text"} \cup Changes
        BY <1>3, <1>4, <2>1, <2>6 DEF StoredRows
    <2> QED
        BY <2>3, <2>4, <2>5, <2>6
<1>14. StoredNext(c) \in [Kinds -> Nat] /\ StoredSeq(c) \in Nat
    BY <1>3, <1>5 DEF StoredNext, StoredSeq
<1>15. d \in Database
    BY <1>2, <1>10, <1>11, <1>12, <1>13, <1>14 DEF Database
<1>16. IsFiniteSet(StoredRec(c, m))
    <2>1. CASE c.op = "insert"
        BY <2>1, FS_AddElement DEF StoredRec, Stored
    <2>2. CASE c.op \in Changes
        <3>1. IsFiniteSet(PutBy(c, m))
            BY <2>2, FS_Subset DEF PutBy, CallFits, GraphOK, Stored
        <3>2. IsFiniteSet({r \in db.rec : Key(r) \notin Keys(Gone(m, c.to) \cup PutBy(c, m))})
            BY FS_Subset DEF Stored
        <3> QED
            BY <2>2, <3>1, <3>2, FS_Union DEF StoredRec, Changes
    <2>3. CASE c.op \notin {"insert"} \cup Changes
        BY <2>3 DEF StoredRec, Stored
    <2> QED
        BY <2>1, <2>2, <2>3
<1>17. Keyed(StoredRec(c, m))
    <2>1. CASE c.op = "insert"
        <3>1. \A r \in db.rec : Key(r) # Key(c.row)
            BY <2>1 DEF Accepts, Keys
        <3> QED
            BY <2>1, <3>1, KeyIs DEF StoredRec, Stored, Keyed
    <2>2. CASE c.op \in Changes
        <3>1. Keyed(PutBy(c, m))
            BY <2>2 DEF PutBy, CallFits, GraphOK, Stored, Keyed
        <3>2. ASSUME NEW r \in db.rec, Key(r) \notin Keys(Gone(m, c.to) \cup PutBy(c, m)),
                     NEW s \in PutBy(c, m)
              PROVE  Key(r) # Key(s)
            BY <3>2 DEF Keys
        <3>3. StoredRec(c, m) =
                {r \in db.rec : Key(r) \notin Keys(Gone(m, c.to) \cup PutBy(c, m))} \cup PutBy(c, m)
            BY <2>2 DEF StoredRec, Changes
        <3> QED
            BY <3>1, <3>2, <3>3, KeyIs DEF Stored, Keyed
    <2>3. CASE c.op \notin {"insert"} \cup Changes
        BY <2>3 DEF StoredRec, Stored
    <2> QED
        BY <2>1, <2>2, <2>3
<1>18. Named(StoredText(c))
    <2>1. c.op = "create_text" => \A x \in db.text : x.name # c.row.name
        BY DEF Accepts, Names
    <2> QED
        BY <2>1 DEF StoredText, Removed, Stored, Named
<1>19. Named(StoredVec(c))
    <2>1. c.op = "create_vec" => \A x \in db.vec : x.name # c.row.name
        BY DEF Accepts, Names
    <2> QED
        BY <2>1 DEF StoredVec, Removed, Stored, Named
<1>20. d.rec = StoredRec(c, m) /\ d.text = StoredText(c) /\ d.vec = StoredVec(c)
    BY <1>2
<1> QED
    BY <1>15, <1>16, <1>17, <1>18, <1>19, <1>20 DEF Stored

\* An entity with the same key may hold the same vectors.
LEMMA PlaceableBy ==
    ASSUME NEW g \in Handles \cup Database, NEW v
    PROVE  v \in Placeable(g) <=>
            \E d \in g.vec, r \in g.rec :
                d.kind = r.kind /\ v = [index |-> d.name, id |-> r.id]
BY DEF Placeable, OfKind

\* What follows a consistent graph is consistent.
LEMMA FollowsPlaced ==
    ASSUME NEW g \in Handles, GraphOK(g), Placed(g), NEW t \in Handles, GraphOK(t), Follows(t, g),
           NEW h \in Handles, h.rec = t.rec, h.vec = g.vec, h.vectors = t.vectors
    PROVE  Placed(h) /\ h.vectors = g.vectors \cap Placeable(h)
<1>1. ASSUME NEW v \in t.vectors PROVE v \in g.vectors /\ v \in Placeable(h)
    <2>1. v \in g.vectors /\ \A r \in Gone(g, t) : v.id = r.id => ~About(g.vec, v.index, r)
        BY <1>1 DEF Follows, Without
    <2>2. PICK d \in g.vec, r \in g.rec : d.kind = r.kind /\ v = [index |-> d.name, id |-> r.id]
        BY <2>1, PlaceableBy DEF Placed
    <2>3. d = [name |-> d.name, kind |-> d.kind]
        BY <2>2 DEF Handles, VecDefinition
    <2>4. About(g.vec, v.index, r) /\ v.id = r.id
        BY <2>2, <2>3 DEF About
    <2>5. PICK s \in t.rec : s.kind = r.kind /\ s.id = r.id
        BY <2>1, <2>4, KeyIs DEF Gone, Keys
    <2> QED
        BY <2>1, <2>2, <2>5, PlaceableBy
<1>2. ASSUME NEW v \in g.vectors, v \in Placeable(h) PROVE v \in t.vectors
    <2>1. PICK d \in g.vec, s \in t.rec : d.kind = s.kind /\ v = [index |-> d.name, id |-> s.id]
        BY <1>2, PlaceableBy
    <2>2. ASSUME NEW r \in Gone(g, t), v.id = r.id PROVE ~About(g.vec, v.index, r)
        <3>1. SUFFICES ASSUME [name |-> v.index, kind |-> r.kind] \in g.vec PROVE FALSE
            BY DEF About
        <3>2. [name |-> v.index, kind |-> r.kind] = d
            BY <2>1, <3>1 DEF GraphOK, Stored, Named
        <3>3. r.kind = s.kind /\ r.id = s.id
            BY <2>1, <2>2, <3>2
        <3> QED
            BY <2>1, <3>3, KeyIs DEF Gone, Keys
    <2> QED
        BY <1>2, <2>2 DEF Follows, Without
<1> QED
    BY <1>1, <1>2 DEF Placed

\* What a call makes of a consistent graph is consistent.
LEMMA PublishedPlaced ==
    ASSUME NEW m \in Handles, GraphOK(m), Placed(m), NEW c, CallFits(c, m), c.op # "rebuild",
           c.op \in Changes => Follows(c.to, m)
    PROVE  Placed(Published(c, m))
<1> DEFINE P == Published(c, m)
<1>1. c.op \in Ops \ {"rebuild"}
    BY DEF CallFits
<1>2. P \in Handles
    BY PublishedOK
<1>3. P.rec = RecIn(c, m) /\ P.vec = VecIn(c, m) /\ P.vectors = VectorsIn(c, m)
    BY <1>1, PublishedIs
<1> HIDE DEF P
<1>4. CASE c.op \in Changes
    <2>1. c.to \in Handles /\ GraphOK(c.to) /\ Follows(c.to, m)
        BY <1>4 DEF CallFits
    <2>2. P.rec = c.to.rec /\ P.vec = m.vec /\ P.vectors = c.to.vectors
        BY <1>3, <1>4 DEF RecIn, VecIn, VectorsIn, Changes
    <2> QED
        BY <1>2, <2>1, <2>2, FollowsPlaced DEF P
<1>5. CASE c.op \notin Changes
    <2>1. m.rec \subseteq P.rec
        BY <1>3, <1>5 DEF RecIn
    <2>2. SUFFICES ASSUME NEW v \in P.vectors PROVE v \in Placeable(P)
        BY DEF Placed, P
    <2>3. v \in Placeable(m)
        BY <1>3, <1>5, <2>2 DEF VectorsIn, CallFits, Placed
    <2>4. PICK d \in m.vec, r \in m.rec : d.kind = r.kind /\ v = [index |-> d.name, id |-> r.id]
        BY <2>3, PlaceableBy
    <2>5. d \in P.vec
        <3>1. c.op = "drop_vec" => d # c.row
            <4>1. ASSUME c.op = "drop_vec" PROVE v.index # c.row.name
                <5>1. P.vectors = {x \in m.vectors : x.index # c.row.name}
                    BY <1>3, <4>1 DEF VectorsIn, Changes
                <5> QED
                    BY <2>2, <5>1
            <4>2. v.index = d.name
                BY <2>4
            <4> QED
                BY <4>1, <4>2
        <3> QED
            BY <1>3, <2>4, <3>1 DEF VecIn
    <2> QED
        BY <1>2, <2>1, <2>4, <2>5, PlaceableBy
<1> QED
    BY <1>4, <1>5

\* Its edges have their nodes.
LEMMA PublishedClosed ==
    ASSUME NEW m \in Handles, Closed(m.rec), NEW c, CallFits(c, m), c.op # "rebuild",
           c.op \in Changes => Follows(c.to, m)
    PROVE  Closed(Published(c, m).rec)
<1>1. c.op \in Ops \ {"rebuild"}
    BY DEF CallFits
<1>2. Published(c, m).rec = RecIn(c, m)
    BY <1>1, PublishedIs
<1>3. CASE c.op = "insert"
    BY <1>2, <1>3 DEF RecIn, Closed, CallFits, NodeIds, OfKind
<1>4. CASE c.op \in Changes
    BY <1>2, <1>4 DEF RecIn, Follows, Changes
<1>5. CASE c.op \notin {"insert"} \cup Changes
    BY <1>2, <1>5 DEF RecIn
<1> QED
    BY <1>3, <1>4, <1>5

---------------------------------------------------------------------------
(* Full-text rows *)

\* Rows of a set of definitions are those of each.
LEMMA RowsOfEach ==
    ASSUME NEW D, NEW R, NEW w
    PROVE  w \in RowsOf(D, R) <=>
            \E d \in D, r \in R :
                r.kind = d.kind /\ r.text /\ w = [index |-> d.name, id |-> r.id]
BY DEF RowsOf, OfKind

\* The rows of the index are those of the records.
RowsFit(d, rows, R) == {w \in rows : w.index = d.name} = RowsOf({d}, R)

\* Rows that are brought up to date fit the records, if those before did.
LEMMA SyncedFits ==
    ASSUME db \in Database, Named(db.text), NEW d \in db.text, RowsFit(d, db.rows, db.rec),
           NEW gone, NEW put \in SUBSET Record
    PROVE  RowsFit(d, Synced(gone, put),
                   {r \in db.rec : Key(r) \notin Keys(gone \cup put)} \cup put)
<1> DEFINE kept == {r \in db.rec : Key(r) \notin Keys(gone \cup put)}
           about(w) == \E r \in gone \cup put : w.id = r.id /\ About(db.text, w.index, r)
<1>1. d = [name |-> d.name, kind |-> d.kind] /\ db.text \subseteq TextDefinition
    BY DEF Database, TextDefinition
<1>2. \A r : About(db.text, d.name, r) <=> r.kind = d.kind
    BY <1>1 DEF About, Named
<1>3. ASSUME NEW w, w.index = d.name
      PROVE  w \in Synced(gone, put) <=> w \in RowsOf({d}, kept \cup put)
    <2>1. w \in Synced(gone, put) <=> (w \in db.rows /\ ~about(w)) \/ w \in RowsOf(db.text, put)
        BY DEF Synced
    <2>2. w \in RowsOf(db.text, put) <=> w \in RowsOf({d}, put)
        BY <1>3, RowsOfEach DEF Named
    <2>3. w \in RowsOf({d}, kept \cup put) <=> w \in RowsOf({d}, kept) \/ w \in RowsOf({d}, put)
        <3> HIDE DEF kept
        <3>1. ASSUME w \in RowsOf({d}, kept \cup put)
              PROVE  w \in RowsOf({d}, kept) \/ w \in RowsOf({d}, put)
            <4>1. PICK r \in kept \cup put :
                        r.kind = d.kind /\ r.text /\ w = [index |-> d.name, id |-> r.id]
                BY <3>1, RowsOfEach
            <4> QED
                BY <4>1, RowsOfEach
        <3>2. ASSUME w \in RowsOf({d}, kept) \/ w \in RowsOf({d}, put)
              PROVE  w \in RowsOf({d}, kept \cup put)
            <4>1. PICK r \in kept \cup put :
                        r.kind = d.kind /\ r.text /\ w = [index |-> d.name, id |-> r.id]
                BY <3>2, RowsOfEach
            <4> QED
                BY <4>1, RowsOfEach
        <3> QED
            BY <3>1, <3>2
    <2>4. w \in db.rows <=> w \in RowsOf({d}, db.rec)
        BY <1>3 DEF RowsFit
    <2>5. about(w) <=> \E r \in gone \cup put : w.id = r.id /\ r.kind = d.kind
        BY <1>2, <1>3
    <2>6. ASSUME w \in RowsOf({d}, db.rec), ~about(w) PROVE w \in RowsOf({d}, kept)
        <3>1. PICK r \in db.rec : r.kind = d.kind /\ r.text /\ w = [index |-> d.name, id |-> r.id]
            BY <2>6, RowsOfEach
        <3>2. Key(r) \notin Keys(gone \cup put)
            BY <2>5, <2>6, <3>1, KeyIs DEF Keys
        <3> QED
            BY <3>1, <3>2, RowsOfEach
    <2>7. ASSUME w \in RowsOf({d}, kept) PROVE w \in RowsOf({d}, db.rec) /\ ~about(w)
        <3>1. PICK r \in kept : r.kind = d.kind /\ r.text /\ w = [index |-> d.name, id |-> r.id]
            <4> HIDE DEF kept
            <4> QED
                BY <2>7, RowsOfEach
        <3>2. \A s \in gone \cup put : ~(s.kind = r.kind /\ s.id = r.id)
            BY KeyIs DEF Keys
        <3> QED
            BY <2>5, <3>1, <3>2, RowsOfEach
    <2> QED
        BY <2>1, <2>2, <2>3, <2>4, <2>6, <2>7
<1>4. \A w \in RowsOf({d}, kept \cup put) : w.index = d.name
    BY RowsOfEach
<1> QED
    BY <1>3, <1>4 DEF RowsFit

\* What a rebuild of all definitions in D leaves to be told of the others.
LEMMA RewrittenFits ==
    ASSUME RowsFollowRecords, NEW D, NEW R, NEW defined, db.text \subseteq defined, Named(defined),
           \A d \in defined : d \in db.text \/ d.name \in Names(D)
    PROVE  /\ \A d \in {x \in defined : x.name \notin BehindAfter(D, R, defined)} :
                RowsFit(d, Rewritten(D, R), db.rec)
           /\ {w.index : w \in Rewritten(D, R)} \subseteq
                Names(defined) \cup BehindAfter(D, R, defined)
<1> DEFINE late == BehindAfter(D, R, defined)
<1>1. ASSUME NEW d \in defined, d.name \notin late
      PROVE  RowsFit(d, Rewritten(D, R), db.rec)
    <2>1. CASE d.name \notin Names(D)
        <3>1. d \in db.text /\ d.name \notin behind
            BY <1>1, <2>1 DEF BehindAfter
        <3>2. \A w \in RowsOf(D, R) : w.index # d.name
            BY <2>1, RowsOfEach DEF Names
        <3>3. {w \in Rewritten(D, R) : w.index = d.name} = {w \in db.rows : w.index = d.name}
            BY <2>1, <3>2 DEF Rewritten
        <3> QED
            BY <3>1, <3>3 DEF RowsFollowRecords, RowsFit
    <2>2. CASE d.name \in Names(D)
        <3>1. ASSUME NEW x \in D, x.name = d.name PROVE x = d /\ RowsOf({d}, R) = RowsOf({d}, db.rec)
            <4>1. x \in defined /\ RowsOf({x}, R) = RowsOf({x}, db.rec)
                BY <1>1, <3>1 DEF BehindAfter
            <4> QED
                BY <3>1, <4>1 DEF Named
        <3>2. d \in D
            BY <2>2, <3>1 DEF Names
        <3>3. \A w : w.index = d.name => (w \in Rewritten(D, R) <=> w \in RowsOf(D, R))
            BY <2>2 DEF Rewritten
        <3>4. \A w : w.index = d.name => (w \in RowsOf(D, R) <=> w \in RowsOf({d}, R))
            BY <3>1, <3>2, RowsOfEach
        <3>5. \A w \in RowsOf({d}, R) : w.index = d.name
            BY RowsOfEach
        <3>6. {w \in Rewritten(D, R) : w.index = d.name} = RowsOf({d}, R)
            BY <3>3, <3>4, <3>5
        <3> QED
            BY <3>1, <3>2, <3>6 DEF RowsFit
    <2> QED
        BY <2>1, <2>2
<1>2. ASSUME NEW w \in Rewritten(D, R) PROVE w.index \in Names(defined) \cup late
    <2>1. CASE w \in db.rows /\ w.index \notin Names(D)
        BY <2>1 DEF RowsFollowRecords, BehindAfter, Names
    <2>2. CASE w \in RowsOf(D, R)
        <3>1. PICK d \in D : w.index = d.name
            BY <2>2, RowsOfEach
        <3> QED
            BY <3>1 DEF BehindAfter, Names
    <2> QED
        BY <1>2, <2>1, <2>2 DEF Rewritten
<1> QED
    BY <1>1, <1>2

---------------------------------------------------------------------------
(* What a step of one process leaves to the others *)

Aside(p) ==
    \A q \in Process \ {p} :
        /\ mem'[q] = mem[q] /\ load'[q] = load[q] /\ seen'[q] = seen[q]
        /\ phase'[q] = phase[q] /\ plan'[q] = plan[q] /\ tx'[q] = tx[q]

\* Nothing but rows was written,
Quiet(p) ==
    /\ Same(db', db) /\ db'.seq = db.seq
    /\ \A q \in Process \ {p} : raced'[q] = raced[q]

\* or the log has a new entry, and whoever was inside a call is raced.
Noted(p) ==
    /\ db'.seq = db.seq + 1
    /\ \A q \in Process \ {p} : ~raced'[q] => ~raced[q] /\ phase[q] = "idle"

Kept(p) ==
    /\ TypeOK' /\ Stored(db)' /\ Harmless' /\ Held(p)'
    /\ Aside(p) /\ (Quiet(p) \/ Noted(p))

\* It keeps the invariant if it does so for the process and the database.
LEMMA KeptSuffices ==
    ASSUME IInv, NEW p \in Process, Kept(p)
    PROVE  IInv'
<1> SUFFICES ASSUME NEW q \in Process, q # p PROVE Held(q)'
    BY DEF IInv, Kept
<1>1. Held(q) /\ seen[q] \in Int /\ db.seq \in Nat /\ db'.seq \in Nat /\ phase[q] \in Phases
    BY DEF IInv, TypeOK, Kept, Database
<1>2. /\ mem'[q] = mem[q] /\ load'[q] = load[q] /\ seen'[q] = seen[q]
      /\ phase'[q] = phase[q] /\ plan'[q] = plan[q] /\ tx'[q] = tx[q]
    BY DEF Kept, Aside
<1>3. /\ GraphOK(mem[q])' /\ (tx[q] # NoTx => GraphOK(tx[q]))' /\ LoadFits(q)'
    BY <1>1, <1>2 DEF Held, LoadFits
<1>4. CASE Quiet(p)
    <2>1. /\ db'.rec = db.rec /\ db'.text = db.text /\ db'.vec = db.vec
          /\ db'.vectors = db.vectors /\ db'.seq = db.seq /\ raced'[q] = raced[q]
        BY <1>4 DEF Quiet, Same
    <2>2. PlanFits(q)'
        BY <1>1, <1>2, <2>1 DEF Held, PlanFits, Calling
    <2>3. Knows(q)'
        BY <1>1, <1>2, <2>1 DEF Held, Knows, Same
    <2>4. Keeps(q)' /\ LoadKnows(q)'
        BY <1>1, <1>2, <2>1 DEF Held, Keeps, LoadKnows
    <2> QED
        BY <1>1, <1>2, <1>3, <2>1, <2>2, <2>3, <2>4 DEF Held
<1>5. CASE Noted(p)
    <2>1. db'.seq = db.seq + 1 /\ (~raced'[q] => ~raced[q] /\ phase[q] = "idle")
        BY <1>5 DEF Noted
    <2>2. (seen[q] <= db.seq)' /\ seen'[q] < db'.seq
        BY <1>1, <1>2, <2>1 DEF Held
    <2>3. PlanFits(q)'
        BY <1>1, <1>2, <2>1, <2>2 DEF Held, PlanFits, Calling
    <2>4. Knows(q)'
        BY <1>1, <1>2, <2>1, <2>2 DEF Knows
    <2>5. Keeps(q)'
        BY <1>1, <1>2, <2>1 DEF Held, Keeps
    <2>6. LoadKnows(q)'
        BY <1>2, <2>1 DEF LoadKnows, LoadPhases
    <2> QED
        BY <1>3, <2>2, <2>3, <2>4, <2>5, <2>6 DEF Held
<1> QED
    BY <1>4, <1>5 DEF Kept

\* A step that does not write keeps what the database is.
LEMMA UnwrittenKept ==
    ASSUME IInv, NEW p \in Process, db' = db, harmed' = harmed, TypeOK', Held(p)', Aside(p),
           \A q \in Process \ {p} : raced'[q] = raced[q]
    PROVE  Kept(p)
BY DEF Kept, IInv, Stored, Harmless, Closed, Placed, Quiet, Same

\* What is the same is as consistent.
LEMMA SoundSame ==
    ASSUME NEW g, NEW h, Same(g, h)
    PROVE  (Placed(g) <=> Placed(h)) /\ (Closed(g.rec) <=> Closed(h.rec))
BY DEF Same, Placed, Placeable

\* What follows a graph depends on its records, its vectors and their indexes.
LEMMA FollowsSame ==
    ASSUME NEW t, NEW g, NEW h, h.rec = g.rec, h.vec = g.vec, h.vectors = g.vectors
    PROVE  Follows(t, g) <=> Follows(t, h)
BY DEF Follows, Gone

\* A graph follows itself.
LEMMA FollowsSelf ==
    ASSUME NEW t, NEW g, t.rec = g.rec
    PROVE  Follows(t, g) <=> t.vectors = g.vectors
<1>1. Gone(g, t) = {}
    BY DEF Gone, Keys
<1> QED
    BY <1>1, WithoutNothing DEF Follows

\* A new handle.
LEMMA EmptyIs ==
    /\ Empty \in Handles /\ GraphOK(Empty) /\ Placed(Empty)
    /\ Empty = [rec |-> {}, text |-> {}, vec |-> {}, vectors |-> {},
                next |-> [kind \in Kinds |-> 0], version |-> 0]
<1>1. Empty = [rec |-> {}, text |-> {}, vec |-> {}, vectors |-> {},
               next |-> [kind \in Kinds |-> 0], version |-> 0]
    BY DEF Empty, Handle, Started
<1>2. Empty \in Handles
    BY <1>1 DEF Handles
<1>3. Empty.rec = {} /\ Empty.text = {} /\ Empty.vec = {} /\ Empty.vectors = {}
    BY <1>1
<1> QED
    BY <1>1, <1>2, <1>3, FS_EmptySet DEF GraphOK, Stored, Keyed, Named, Ahead, Placed

---------------------------------------------------------------------------
(* Calls *)

\* A call that is made fits the graph it is made on.
LEMMA CallsFit ==
    ASSUME NEW m \in Handles, GraphOK(m), NEW c \in Calls(m)
    PROVE  CallFits(c, m) /\ c.op # "commit"
<1>1. /\ m.rec \subseteq Record /\ m.text \subseteq TextDefinition /\ m.vec \subseteq VecDefinition
      /\ m.next \in [Kinds -> Nat]
    BY DEF Handles
<1>2. ASSUME NEW r \in NewRecords(m), c = [op |-> "insert", row |-> r]
      PROVE  CallFits(c, m) /\ c.op # "commit"
    <2>1. NodeIds(m.rec) \subseteq Nat
        BY <1>1 DEF NodeIds, OfKind, Record
    <2>2. /\ r \in Record /\ r.id = m.next[r.kind]
          /\ r.kind = "edge" => r.at \in NodeIds(m.rec)
        <3>1. CASE r = [kind |-> "node", id |-> m.next.node, at |-> NoNode, text |-> TRUE]
            BY <1>1, <3>1 DEF Record, Kinds, NoNode
        <3>2. ASSUME NEW n \in NodeIds(m.rec),
                     r = [kind |-> "edge", id |-> m.next.edge, at |-> n, text |-> TRUE]
              PROVE  /\ r \in Record /\ r.id = m.next[r.kind]
                     /\ r.kind = "edge" => r.at \in NodeIds(m.rec)
            BY <1>1, <2>1, <3>2 DEF Record, Kinds
        <3> QED
            BY <3>1, <3>2 DEF NewRecords
    <2>3. c.op = "insert" /\ c.row = r
        BY <1>2
    <2> QED
        BY <2>2, <2>3 DEF CallFits, Ops, Changes
<1>3. ASSUME NEW g \in Changed(m), c = [op |-> "change", to |-> g]
      PROVE  CallFits(c, m) /\ c.op # "commit"
    <2>1. g \in Handles /\ GraphOK(g) /\ Follows(g, m)
        BY ChangedFollows
    <2>2. c.op = "change" /\ c.to = g
        BY <1>3
    <2> QED
        BY <2>1, <2>2 DEF CallFits, Ops, Changes
<1>4. ASSUME NEW d \in [name : TextName \ Names(m.text), kind : Kinds],
             c = [op |-> "create_text", row |-> d]
      PROVE  CallFits(c, m) /\ c.op # "commit"
    BY <1>4 DEF CallFits, Ops, Changes, TextDefinition
<1>5. ASSUME NEW d \in m.text, c = [op |-> "drop_text", row |-> d]
      PROVE  CallFits(c, m) /\ c.op # "commit"
    BY <1>5 DEF CallFits, Ops, Changes
<1>6. ASSUME c = [op |-> "rebuild"]
      PROVE  CallFits(c, m) /\ c.op # "commit"
    BY <1>6 DEF CallFits, Ops, Changes
<1>7. ASSUME NEW d \in [name : VecName \ Names(m.vec), kind : Kinds],
             c = [op |-> "create_vec", row |-> d]
      PROVE  CallFits(c, m) /\ c.op # "commit"
    BY <1>7 DEF CallFits, Ops, Changes, VecDefinition
<1>8. ASSUME NEW d \in m.vec, c = [op |-> "drop_vec", row |-> d]
      PROVE  CallFits(c, m) /\ c.op # "commit"
    BY <1>8 DEF CallFits, Ops, Changes
<1>9. ASSUME NEW v \in Placeable(m), NEW op \in {"upsert", "delete"}, c = [op |-> op, row |-> v]
      PROVE  CallFits(c, m) /\ c.op # "commit"
    <2>1. c.op = op /\ c.row = v
        BY <1>9
    <2> QED
        BY <1>9, <2>1 DEF CallFits, Ops, Changes
<1> DEFINE A == {[op |-> "insert", row |-> r] : r \in NewRecords(m)}
           B == {[op |-> "change", to |-> g] : g \in Changed(m)}
           C == {[op |-> "create_text", row |-> d] :
                    d \in [name : TextName \ Names(m.text), kind : Kinds]}
           D == {[op |-> "drop_text", row |-> d] : d \in m.text}
           E == {[op |-> "rebuild"] : d \in m.text}
           F == {[op |-> "create_vec", row |-> d] :
                    d \in [name : VecName \ Names(m.vec), kind : Kinds]}
           G == {[op |-> "drop_vec", row |-> d] : d \in m.vec}
           H == {[op |-> "upsert", row |-> v] : v \in Placeable(m)}
           I == {[op |-> "delete", row |-> v] : v \in Placeable(m)}
<1>10. Calls(m) = A \cup B \cup C \cup D \cup E \cup F \cup G \cup H \cup I
    BY DEF Calls
<1>11. CASE c \in A \cup B
    BY <1>2, <1>3, <1>11
<1>12. CASE c \in C
    BY <1>4, <1>12
<1>13. CASE c \in D \cup E
    BY <1>5, <1>6, <1>13
<1>14. CASE c \in F
    BY <1>7, <1>14
<1>15. CASE c \in G
    BY <1>8, <1>15
<1>16. CASE c \in H \cup I
    BY <1>9, <1>16
<1> HIDE DEF A, B, C, D, E, F, G, H, I
<1> QED
    BY <1>10, <1>11, <1>12, <1>13, <1>14, <1>15, <1>16

\* ensure_store_current.
LEMMA CheckKept ==
    ASSUME IInv, NEW p \in Process, Check(p)
    PROVE  Kept(p)
<1>1. TypeOK /\ Held(p) /\ mem[p] \in Handles /\ phase[p] = "idle" /\ seen[p] = db.seq
    BY DEF IInv, TypeOK, Check, Current
<1>2. PICK c \in Calls(mem[p]) : plan' = [plan EXCEPT ![p] = c]
    BY DEF Check
<1>3. CallFits(c, mem[p]) /\ c.op # "commit"
    BY <1>1, CallsFit DEF Held
<1>4. /\ phase' = [phase EXCEPT ![p] = "write"]
      /\ db' = db /\ mem' = mem /\ load' = load /\ seen' = seen /\ tx' = tx /\ raced' = raced
      /\ harmed' = harmed
    BY DEF Check, Go
<1>5. TypeOK'
    <2>1. "write" \in Phases
        BY DEF Phases
    <2> QED
        BY <1>1, <1>2, <1>4, <2>1 DEF TypeOK
<1>6. Aside(p) /\ phase'[p] = "write" /\ plan'[p] = c
    BY <1>1, <1>2, <1>4 DEF TypeOK, Aside
<1>7. PlanFits(p)'
    BY <1>3, <1>4, <1>6 DEF PlanFits, Calling
<1>8. Knows(p)'
    BY <1>1, <1>4, <1>6 DEF Held, Knows
<1>9. Keeps(p)'
    BY <1>1, <1>4, <1>6 DEF Held, Keeps, LoadPhases
<1>10. LoadFits(p)' /\ LoadKnows(p)'
    BY <1>1, <1>4, <1>6 DEF Held, LoadFits, LoadKnows, LoadPhases
<1>11. Held(p)'
    BY <1>1, <1>4, <1>7, <1>8, <1>9, <1>10 DEF Held
<1> QED
    BY <1>4, <1>5, <1>6, <1>11, UnwrittenKept

---------------------------------------------------------------------------
(* Explicit transactions *)

\* A transaction is begun: it follows the graph it copies.
LEMMA BeginKept ==
    ASSUME IInv, NEW p \in Process, Begin(p)
    PROVE  Kept(p)
<1>1. TypeOK /\ Held(p) /\ mem[p] \in Handles /\ phase[p] = "idle"
    BY DEF IInv, TypeOK, Begin
<1>2. /\ tx' = [tx EXCEPT ![p] = mem[p]] /\ phase' = phase /\ plan' = plan
      /\ db' = db /\ mem' = mem /\ load' = load /\ seen' = seen /\ raced' = raced
      /\ harmed' = harmed
    BY DEF Begin
<1>3. TypeOK' /\ Aside(p) /\ tx'[p] = mem[p]
    BY <1>1, <1>2 DEF TypeOK, Aside
<1>4. PlanFits(p)' /\ Knows(p)' /\ LoadFits(p)' /\ LoadKnows(p)'
    BY <1>1, <1>2 DEF Held, PlanFits, Calling, Knows, LoadFits, LoadKnows
<1>5. Keeps(p)'
    <2>1. Follows(mem[p], mem[p]) /\ mem[p].version \in Nat
        BY <1>1, FollowsSelf DEF Handles
    <2> QED
        BY <1>1, <1>2, <1>3, <2>1 DEF Held, Keeps
<1>6. Held(p)'
    BY <1>1, <1>2, <1>3, <1>4, <1>5 DEF Held
<1> QED
    BY <1>2, <1>3, <1>6, UnwrittenKept

\* A statement of a transaction: the staged graph still follows.
LEMMA StageKept ==
    ASSUME IInv, NEW p \in Process, Stage(p)
    PROVE  Kept(p)
<1>1. TypeOK /\ Held(p) /\ mem[p] \in Handles /\ tx[p] \in Handles /\ phase[p] = "idle"
      /\ tx[p] # NoTx /\ tx[p].rec = mem[p].rec
    BY DEF IInv, TypeOK, Stage
<1>2. PICK g \in Changed(tx[p]) : tx' = [tx EXCEPT ![p] = g]
    BY DEF Stage
<1>3. /\ phase' = phase /\ plan' = plan
      /\ db' = db /\ mem' = mem /\ load' = load /\ seen' = seen /\ raced' = raced
      /\ harmed' = harmed
    BY DEF Stage
<1>4. g \in Handles /\ GraphOK(g) /\ Follows(g, tx[p]) /\ g.vec = tx[p].vec /\ g.version = tx[p].version
    BY <1>1, ChangedFollows DEF Held
<1>5. TypeOK' /\ Aside(p) /\ tx'[p] = g
    BY <1>1, <1>2, <1>3, <1>4 DEF TypeOK, Aside
<1>6. PlanFits(p)' /\ Knows(p)' /\ LoadFits(p)' /\ LoadKnows(p)'
    BY <1>1, <1>3 DEF Held, PlanFits, Calling, Knows, LoadFits, LoadKnows
<1>7. Keeps(p)'
    <2>1. SUFFICES ASSUME ~raced[p]
                   PROVE  /\ Placed(mem[p]) /\ g.version <= mem[p].version
                          /\ g.version = mem[p].version => Follows(g, mem[p]) /\ g.vec = mem[p].vec
        BY <1>3, <1>5 DEF Keeps
    <2>2. /\ Placed(mem[p]) /\ g.version <= mem[p].version
          /\ g.version = mem[p].version => Follows(tx[p], mem[p]) /\ tx[p].vec = mem[p].vec
        BY <1>1, <1>4, <2>1 DEF Held, Keeps, LoadPhases
    <2>3. ASSUME g.version = mem[p].version PROVE Follows(g, mem[p])
        BY <1>1, <1>4, <2>2, <2>3, FollowsSelf, FollowsSame
    <2> QED
        BY <1>4, <2>2, <2>3
<1>8. Held(p)'
    BY <1>1, <1>3, <1>4, <1>5, <1>6, <1>7 DEF Held
<1> QED
    BY <1>3, <1>5, <1>8, UnwrittenKept

\* A commit passes its check: what is planned follows the graph in memory.
LEMMA CommitKept ==
    ASSUME IInv, NEW p \in Process, Commit(p)
    PROVE  Kept(p)
<1> DEFINE c == [op |-> "commit", to |-> tx[p]]
<1>1. TypeOK /\ Held(p) /\ mem[p] \in Handles /\ tx[p] \in Handles /\ phase[p] = "idle"
      /\ tx[p] # NoTx /\ seen[p] = db.seq /\ tx[p].version = mem[p].version
    BY DEF IInv, TypeOK, Commit, Current
<1>2. /\ phase' = [phase EXCEPT ![p] = "write"] /\ plan' = [plan EXCEPT ![p] = c]
      /\ db' = db /\ mem' = mem /\ load' = load /\ seen' = seen /\ tx' = tx /\ raced' = raced
      /\ harmed' = harmed
    BY DEF Commit, Go
<1>3. c.op = "commit" /\ c.to = tx[p]
    OBVIOUS
<1> HIDE DEF c
<1>4. CallFits(c, mem[p])
    BY <1>1, <1>3 DEF CallFits, Ops, Changes, Held
<1>5. TypeOK'
    <2>1. "write" \in Phases
        BY DEF Phases
    <2> QED
        BY <1>1, <1>2, <2>1 DEF TypeOK
<1>6. Aside(p) /\ phase'[p] = "write" /\ plan'[p] = c
    BY <1>1, <1>2 DEF TypeOK, Aside
<1>7. PlanFits(p)'
    <2>1. ~raced[p] => Follows(c.to, mem[p])
        BY <1>1, <1>3 DEF Held, Keeps, LoadPhases
    <2> QED
        BY <1>2, <1>4, <1>6, <2>1 DEF PlanFits, Calling
<1>8. Knows(p)'
    BY <1>1, <1>2, <1>6 DEF Held, Knows
<1>9. Keeps(p)'
    BY <1>1, <1>2, <1>6 DEF Held, Keeps, LoadPhases
<1>10. LoadFits(p)' /\ LoadKnows(p)'
    BY <1>1, <1>2, <1>6 DEF Held, LoadFits, LoadKnows, LoadPhases
<1>11. Held(p)'
    BY <1>1, <1>2, <1>7, <1>8, <1>9, <1>10 DEF Held
<1> QED
    BY <1>2, <1>5, <1>6, <1>11, UnwrittenKept

\* A transaction ends without a commit.
LEMMA FinishKept ==
    ASSUME IInv, NEW p \in Process, Finish(p)
    PROVE  Kept(p)
<1>1. TypeOK /\ Held(p)
    BY DEF IInv
<1>2. /\ tx' = [tx EXCEPT ![p] = NoTx] /\ phase' = phase /\ plan' = plan
      /\ db' = db /\ mem' = mem /\ load' = load /\ seen' = seen /\ raced' = raced
      /\ harmed' = harmed
    BY DEF Finish
<1>3. TypeOK' /\ Aside(p) /\ tx'[p] = NoTx
    BY <1>1, <1>2 DEF TypeOK, Aside
<1>4. PlanFits(p)' /\ Knows(p)' /\ LoadFits(p)' /\ LoadKnows(p)'
    BY <1>1, <1>2 DEF Held, PlanFits, Calling, Knows, LoadFits, LoadKnows
<1>5. Keeps(p)'
    BY <1>1, <1>2, <1>3 DEF Held, Keeps
<1>6. Held(p)'
    BY <1>1, <1>2, <1>3, <1>4, <1>5 DEF Held
<1> QED
    BY <1>2, <1>3, <1>6, UnwrittenKept

---------------------------------------------------------------------------
(* The transaction of a call, and what it leaves in memory *)

\* What a call was checked against, and what it is to make of it.
CalledOn(p) ==
    /\ mem[p] \in Handles /\ GraphOK(mem[p]) /\ CallFits(plan[p], mem[p])
    /\ ~raced[p] => /\ Placed(mem[p])
                    /\ plan[p].op \in Changes => Follows(plan[p].to, mem[p])

\* The invariant says that of a call that is going on.
LEMMA CalledOnIs ==
    ASSUME IInv, NEW p \in Process, Calling(p)
    PROVE  CalledOn(p)
<1>1. Held(p) /\ mem[p] \in Handles
    BY DEF IInv, TypeOK
<1>2. CallFits(plan[p], mem[p]) /\ GraphOK(mem[p])
    BY <1>1 DEF Held, PlanFits
<1>3. ASSUME ~raced[p], plan[p].op \in Changes PROVE Follows(plan[p].to, mem[p])
    BY <1>1, <1>2, <1>3 DEF Held, PlanFits, CallFits, Changes
<1>4. ~raced[p] => Placed(mem[p])
    BY <1>1 DEF Held, Keeps, Calling, LoadPhases
<1> QED
    BY <1>1, <1>2, <1>3, <1>4 DEF CalledOn

\* It was refused.
LEMMA RefusedKept ==
    ASSUME IInv, NEW p \in Process, Write(p), ~Accepts(plan[p])
    PROVE  Kept(p)
<1>1. TypeOK /\ Held(p) /\ phase[p] = "write"
    BY DEF IInv, Write
<1>2. /\ phase' = [phase EXCEPT ![p] = "idle"] /\ plan' = [plan EXCEPT ![p] = NoPlan]
      /\ db' = db /\ mem' = mem /\ load' = load /\ seen' = seen /\ tx' = tx /\ raced' = raced
      /\ harmed' = harmed
    BY DEF Write, Return, Go
<1>3. TypeOK'
    <2>1. "idle" \in Phases
        BY DEF Phases
    <2> QED
        BY <1>1, <1>2, <2>1 DEF TypeOK
<1>4. Aside(p) /\ phase'[p] = "idle" /\ plan'[p] = NoPlan
    BY <1>1, <1>2 DEF TypeOK, Aside
<1>5. PlanFits(p)'
    BY <1>4 DEF PlanFits, Calling
<1>6. Knows(p)'
    BY <1>1, <1>2, <1>4 DEF Held, Knows
<1>7. Keeps(p)'
    BY <1>1, <1>2, <1>4 DEF Held, Keeps, LoadPhases
<1>8. LoadFits(p)' /\ LoadKnows(p)'
    BY <1>1, <1>2, <1>4 DEF Held, LoadFits, LoadKnows, LoadPhases
<1>9. Held(p)'
    BY <1>1, <1>2, <1>5, <1>6, <1>7, <1>8 DEF Held
<1> QED
    BY <1>2, <1>3, <1>4, <1>9, UnwrittenKept

\* It writes rows only.
LEMMA RebuildKept ==
    ASSUME IInv, NEW p \in Process, Write(p), Accepts(plan[p]), plan[p].op = "rebuild"
    PROVE  Kept(p)
<1> DEFINE c == plan[p]
<1>1. TypeOK /\ Held(p) /\ phase[p] = "write" /\ db \in Database /\ Stored(db)
    BY DEF IInv, TypeOK, Write
<1>2. /\ phase' = [phase EXCEPT ![p] = "idle"] /\ plan' = [plan EXCEPT ![p] = NoPlan]
      /\ db' = After(c, mem[p]) /\ mem' = mem /\ load' = load /\ seen' = seen /\ tx' = tx
      /\ raced' = [q \in Process |-> raced[q] \/ (q # p /\ phase[q] # "idle" /\ c.op # "rebuild")]
      /\ harmed' = (harmed \/ raced[p])
    BY DEF Write, Return, Go
<1>3. raced' = raced
    BY <1>1, <1>2 DEF TypeOK
<1>4. CalledOn(p)
    BY <1>1, CalledOnIs DEF Calling
<1>5. db' \in Database /\ Stored(db')
    BY <1>1, <1>2, <1>4, AfterOK DEF CalledOn
<1>6. Same(db', db) /\ db'.seq = db.seq
    <2>1. /\ db'.rec = StoredRec(c, mem[p]) /\ db'.text = StoredText(c) /\ db'.vec = StoredVec(c)
          /\ db'.vectors = StoredVectors(c, mem[p]) /\ db'.seq = StoredSeq(c)
        BY <1>1, <1>2, <1>4, AfterIs DEF CalledOn, CallFits
    <2> QED
        BY <2>1 DEF Same, StoredRec, StoredText, StoredVec, StoredVectors, StoredSeq, Changes
<1>7. Harmless'
    <2>1. ~harmed' => ~harmed
        BY <1>1, <1>2 DEF TypeOK
    <2> QED
        BY <1>6, <2>1, SoundSame DEF IInv, Harmless
<1>8. TypeOK'
    <2>1. "idle" \in Phases
        BY DEF Phases
    <2> QED
        BY <1>1, <1>2, <1>3, <1>5, <2>1 DEF TypeOK
<1>9. Aside(p) /\ phase'[p] = "idle" /\ plan'[p] = NoPlan
    BY <1>1, <1>2 DEF TypeOK, Aside
<1>10. PlanFits(p)'
    BY <1>9 DEF PlanFits, Calling
<1>11. Knows(p)'
    BY <1>1, <1>2, <1>3, <1>6, <1>9 DEF Held, Knows, Same
<1>12. Keeps(p)'
    BY <1>1, <1>2, <1>3, <1>9 DEF Held, Keeps, LoadPhases
<1>13. LoadFits(p)' /\ LoadKnows(p)'
    BY <1>1, <1>2, <1>9 DEF Held, LoadFits, LoadKnows, LoadPhases
<1>14. Held(p)'
    BY <1>1, <1>2, <1>6, <1>10, <1>11, <1>12, <1>13 DEF Held
<1>15. Quiet(p)
    BY <1>3, <1>6 DEF Quiet
<1> QED
    BY <1>5, <1>7, <1>8, <1>9, <1>14, <1>15 DEF Kept, Stored

\* It is logged.
LEMMA LoggedKept ==
    ASSUME IInv, NEW p \in Process, Write(p), Accepts(plan[p]), plan[p].op # "rebuild"
    PROVE  Kept(p)
<1> DEFINE c == plan[p]
<1>1. TypeOK /\ Held(p) /\ phase[p] = "write" /\ db \in Database /\ Stored(db)
    BY DEF IInv, TypeOK, Write
<1>2. /\ phase' = [phase EXCEPT ![p] = "publish"] /\ plan' = plan
      /\ db' = After(c, mem[p]) /\ mem' = mem /\ load' = load /\ seen' = seen /\ tx' = tx
      /\ raced' = [q \in Process |-> raced[q] \/ (q # p /\ phase[q] # "idle" /\ c.op # "rebuild")]
      /\ harmed' = (harmed \/ raced[p])
    BY DEF Write, Go
<1>3. /\ raced'[p] = raced[p]
      /\ \A q \in Process \ {p} : ~raced'[q] => ~raced[q] /\ phase[q] = "idle"
    BY <1>1, <1>2 DEF TypeOK
<1>4. CalledOn(p)
    BY <1>1, CalledOnIs DEF Calling
<1>5. db' \in Database /\ Stored(db')
    BY <1>1, <1>2, <1>4, AfterOK DEF CalledOn
<1>6. db'.seq = db.seq + 1 /\ db.seq \in Nat /\ seen[p] \in Int
    <2>1. db'.seq = StoredSeq(c)
        <3>1. c.op \in Ops
            BY <1>4 DEF CalledOn, CallFits
        <3> HIDE DEF c
        <3>2. After(c, mem[p]).seq = StoredSeq(c)
            BY <1>1, <3>1, AfterIs
        <3> QED
            BY <1>2, <3>2
    <2> QED
        BY <1>1, <2>1 DEF StoredSeq, Database, TypeOK
<1> HIDE DEF c
<1>7. ~raced[p] => Same(Published(c, mem[p]), db')
    <2>1. ~raced[p] => Same(mem[p], db)
        BY <1>1 DEF Held, Knows
    <2> QED
        BY <1>1, <1>2, <1>4, <2>1, PublishedSame DEF CalledOn, c
<1>8. Harmless'
    <2> SUFFICES ASSUME ~harmed'
                 PROVE  Closed(db'.rec) /\ Placed(db')
        BY DEF Harmless
    <2> DEFINE P == Published(c, mem[p])
    <2>1. ~harmed /\ ~raced[p]
        BY <1>1, <1>2 DEF TypeOK
    <2>2. Same(mem[p], db)
        BY <1>1, <2>1 DEF Held, Knows
    <2>3. Closed(mem[p].rec) /\ Placed(mem[p])
        BY <2>1, <2>2, SoundSame DEF IInv, Harmless
    <2>4. Closed(P.rec) /\ Placed(P)
        BY <1>4, <2>1, <2>3, PublishedPlaced, PublishedClosed DEF CalledOn, c
    <2>5. Same(P, db')
        BY <1>7, <2>1
    <2> HIDE DEF P
    <2> QED
        BY <2>4, <2>5, SoundSame
<1>9. TypeOK'
    <2>1. "publish" \in Phases
        BY DEF Phases
    <2> QED
        BY <1>1, <1>2, <1>5, <2>1 DEF TypeOK
<1>10. Aside(p) /\ phase'[p] = "publish" /\ plan'[p] = c
    BY <1>1, <1>2 DEF TypeOK, Aside, c
<1>11. PlanFits(p)'
    <2>1. seen[p] < db'.seq
        BY <1>1, <1>6 DEF Held
    <2>2. CallFits(c, mem[p]) /\ (~raced[p] /\ c.op = "commit" => Follows(c.to, mem[p]))
        BY <1>4 DEF CalledOn, Changes, c
    <2>3. c.op # "rebuild"
        BY DEF c
    <2> QED
        BY <1>2, <1>3, <1>10, <2>1, <2>2, <2>3 DEF PlanFits, Calling
<1>12. Knows(p)'
    BY <1>2, <1>3, <1>7, <1>10 DEF Knows
<1>13. Keeps(p)'
    BY <1>1, <1>2, <1>3, <1>10 DEF Held, Keeps, LoadPhases
<1>14. LoadFits(p)' /\ LoadKnows(p)'
    BY <1>1, <1>2, <1>10 DEF Held, LoadFits, LoadKnows, LoadPhases
<1>15. Held(p)'
    BY <1>1, <1>2, <1>6, <1>11, <1>12, <1>13, <1>14 DEF Held
<1>16. Noted(p)
    BY <1>3, <1>6 DEF Noted
<1> QED
    BY <1>5, <1>8, <1>9, <1>10, <1>15, <1>16 DEF Kept, Stored

\* A call writes, or is refused.
LEMMA WriteKept ==
    ASSUME IInv, NEW p \in Process, Write(p)
    PROVE  Kept(p)
BY RefusedKept, RebuildKept, LoggedKept

\* What was called in memory, by Publish or by a Stop in its place.
LEMMA PublishedKeeps ==
    ASSUME IInv, NEW p \in Process, phase[p] = "publish", ~raced[p]
    PROVE  LET P == Published(plan[p], mem[p]) IN
           /\ Placed(P)
           /\ tx[p] # NoTx =>
                /\ tx[p].version <= P.version
                /\ tx[p].version = P.version => Follows(tx[p], P) /\ tx[p].vec = P.vec
<1> DEFINE c == plan[p]
           P == Published(c, mem[p])
<1>1. CalledOn(p) /\ Held(p) /\ c.op # "rebuild" /\ tx[p] \in Handles \cup {NoTx}
    BY CalledOnIs DEF IInv, TypeOK, Held, PlanFits, Calling
<1>2. c.op \in Ops \ {"rebuild"} /\ mem[p] \in Handles
    BY <1>1 DEF CalledOn, CallFits
<1>3. Placed(P)
    BY <1>1, PublishedPlaced DEF CalledOn
<1>4. P.rec = RecIn(c, mem[p]) /\ P.vec = VecIn(c, mem[p]) /\ P.vectors = VectorsIn(c, mem[p])
    BY <1>2, PublishedIs
<1>5. /\ P \in Handles /\ P.version >= mem[p].version
      /\ c.op \notin {"create_text", "drop_text"} => P.version > mem[p].version
    BY <1>1, PublishedOK DEF CalledOn
<1> HIDE DEF P, c
<1>6. ASSUME tx[p] # NoTx
      PROVE  /\ tx[p].version <= P.version
             /\ tx[p].version = P.version => Follows(tx[p], P) /\ tx[p].vec = P.vec
    <2>1. /\ tx[p].version <= mem[p].version
          /\ tx[p].version = mem[p].version => Follows(tx[p], mem[p]) /\ tx[p].vec = mem[p].vec
        BY <1>1, <1>6 DEF Held, Keeps, LoadPhases
    <2>2. tx[p].version \in Nat /\ mem[p].version \in Nat /\ P.version \in Nat
        BY <1>1, <1>2, <1>5, <1>6 DEF Handles
    <2> DEFINE a == tx[p].version
               b == mem[p].version
               v == P.version
    <2>3. a \in Nat /\ b \in Nat /\ v \in Nat /\ a <= b /\ v >= b
        BY <1>5, <2>1, <2>2
    <2>4. c.op \notin {"create_text", "drop_text"} => v > b
        BY <1>5
    <2> HIDE DEF a, b, v
    <2>5. a <= v /\ (a = v => a = b /\ v = b)
        BY <2>3
    <2>6. tx[p].version <= P.version
        BY <2>5 DEF a, v
    <2>7. ASSUME tx[p].version = P.version PROVE Follows(tx[p], P) /\ tx[p].vec = P.vec
        <3>1. tx[p].version = mem[p].version /\ P.version = mem[p].version
            BY <2>7, <2>5 DEF a, b, v
        <3>2. ~(v > b)
            BY <2>7, <2>3, <2>5 DEF a, v
        <3>3. c.op \in {"create_text", "drop_text"}
            BY <2>4, <3>2
        <3>4. P.rec = mem[p].rec /\ P.vec = mem[p].vec /\ P.vectors = mem[p].vectors
            BY <1>4, <3>3 DEF RecIn, VecIn, VectorsIn, Changes
        <3> QED
            BY <2>1, <3>1, <3>4, FollowsSame
    <2> QED
        BY <2>6, <2>7
<1> QED
    BY <1>3, <1>6 DEF P, c

\* A call brings memory to what it wrote.
LEMMA PublishKept ==
    ASSUME IInv, NEW p \in Process, Publish(p)
    PROVE  Kept(p)
<1> DEFINE P == Published(plan[p], mem[p])
<1>1. TypeOK /\ Held(p) /\ phase[p] = "publish" /\ db.seq \in Nat
    BY DEF IInv, Publish, TypeOK, Database
<1>2. /\ mem' = [mem EXCEPT ![p] = P] /\ seen' = [seen EXCEPT ![p] = db.seq]
      /\ tx' = IF plan[p].op = "commit" THEN [tx EXCEPT ![p] = NoTx] ELSE tx
      /\ phase' = [phase EXCEPT ![p] = "idle"] /\ plan' = [plan EXCEPT ![p] = NoPlan]
      /\ db' = db /\ load' = load /\ raced' = raced /\ harmed' = harmed
    BY DEF Publish, Return, Go
<1>3. CalledOn(p) /\ plan[p].op # "rebuild"
    BY <1>1, CalledOnIs DEF Calling, Held, PlanFits
<1>4. P \in Handles /\ GraphOK(P)
    BY <1>3, PublishedOK DEF CalledOn
<1>5. ~raced[p] => Same(P, db)
    BY <1>1 DEF Held, Knows
<1>6. ~raced[p] =>
        /\ Placed(P)
        /\ tx[p] # NoTx =>
            /\ tx[p].version <= P.version
            /\ tx[p].version = P.version => Follows(tx[p], P) /\ tx[p].vec = P.vec
    BY <1>1, PublishedKeeps
<1> HIDE DEF P
<1>7. TypeOK'
    <2>1. "idle" \in Phases
        BY DEF Phases
    <2> QED
        BY <1>1, <1>2, <1>4, <2>1 DEF TypeOK
<1>8. /\ Aside(p) /\ phase'[p] = "idle" /\ plan'[p] = NoPlan /\ mem'[p] = P /\ seen'[p] = db.seq
      /\ tx'[p] = tx[p] \/ tx'[p] = NoTx
    BY <1>1, <1>2 DEF TypeOK, Aside
<1>9. PlanFits(p)'
    BY <1>8 DEF PlanFits, Calling
<1>10. Knows(p)'
    BY <1>2, <1>5, <1>8 DEF Knows
<1>11. Keeps(p)'
    BY <1>2, <1>6, <1>8 DEF Keeps
<1>12. LoadFits(p)' /\ LoadKnows(p)'
    BY <1>1, <1>2, <1>8 DEF Held, LoadFits, LoadKnows, LoadPhases
<1>13. Held(p)'
    BY <1>1, <1>2, <1>4, <1>8, <1>9, <1>10, <1>11, <1>12 DEF Held
<1> QED
    BY <1>2, <1>7, <1>8, <1>13, UnwrittenKept

---------------------------------------------------------------------------
(* Loads and failures *)

\* A load that is not to go on.
LEMMA StopKept ==
    ASSUME IInv, NEW p \in Process, Stop(p)
    PROVE  Kept(p)
<1> DEFINE P == Published(plan[p], mem[p])
           m == IF phase[p] = "publish" /\ plan[p].op # "insert" THEN P ELSE mem[p]
<1>1. TypeOK /\ Held(p) /\ mem[p] \in Handles /\ phase[p] # "idle"
    BY DEF IInv, TypeOK, Stop
<1>2. /\ mem' = [mem EXCEPT ![p] = m]
      /\ load' = [load EXCEPT ![p] = Empty]
      /\ raced' = [raced EXCEPT ![p] = @ \/ phase[p] \in LoadPhases]
      /\ phase' = [phase EXCEPT ![p] = "idle"] /\ plan' = [plan EXCEPT ![p] = NoPlan]
      /\ db' = db /\ seen' = seen /\ tx' = tx /\ harmed' = harmed
    <2>1. mem' = IF phase[p] = "publish" /\ plan[p].op # "insert" THEN [mem EXCEPT ![p] = P] ELSE mem
        BY DEF Stop
    <2>2. mem' = [mem EXCEPT ![p] = m]
        BY <1>1, <2>1 DEF TypeOK
    <2> QED
        BY <2>2, LoadOrderIs DEF Stop, Return, Go
<1>3. phase[p] = "publish" => P \in Handles /\ GraphOK(P)
    <2>1. ASSUME phase[p] = "publish" PROVE P \in Handles /\ GraphOK(P)
        <3>1. CalledOn(p) /\ plan[p].op # "rebuild"
            BY <1>1, <2>1, CalledOnIs DEF Calling, Held, PlanFits
        <3> QED
            BY <3>1, PublishedOK DEF CalledOn
    <2> QED
        BY <2>1
<1>4. m \in Handles /\ GraphOK(m)
    BY <1>1, <1>3 DEF Held
<1>5. phase[p] = "publish" /\ ~raced[p] =>
        /\ Placed(P)
        /\ tx[p] # NoTx =>
            /\ tx[p].version <= P.version
            /\ tx[p].version = P.version => Follows(tx[p], P) /\ tx[p].vec = P.vec
    BY <1>1, PublishedKeeps
<1>6. ~raced[p] /\ phase[p] \notin LoadPhases =>
        /\ Placed(m)
        /\ tx[p] # NoTx =>
            /\ tx[p].version <= m.version
            /\ tx[p].version = m.version => Follows(tx[p], m) /\ tx[p].vec = m.vec
    BY <1>1, <1>5 DEF Held, Keeps
<1>7. /\ Aside(p) /\ phase'[p] = "idle" /\ plan'[p] = NoPlan /\ mem'[p] = m /\ load'[p] = Empty
      /\ ~raced'[p] => ~raced[p] /\ phase[p] \notin LoadPhases
    BY <1>1, <1>2 DEF TypeOK, Aside
<1>8. ~raced'[p] /\ seen[p] = db.seq => Same(m, db)
    <2>1. phase[p] \in {"write", "publish"} \cup LoadPhases
        BY <1>1 DEF TypeOK, Phases
    <2>2. phase[p] = "publish" => seen[p] < db.seq
        BY <1>1 DEF Held, PlanFits
    <2>3. CASE phase[p] = "write"
        BY <1>1, <1>7, <2>3 DEF Held, Knows
    <2>4. CASE phase[p] = "publish"
        BY <1>1, <2>2, <2>4 DEF TypeOK, Database
    <2> QED
        BY <1>7, <2>1, <2>3, <2>4
<1> HIDE DEF m, P
<1>9. TypeOK'
    <2>1. "idle" \in Phases
        BY DEF Phases
    <2> QED
        BY <1>1, <1>2, <1>4, <2>1, EmptyIs DEF TypeOK
<1>10. PlanFits(p)'
    BY <1>7 DEF PlanFits, Calling
<1>11. Knows(p)'
    BY <1>2, <1>7, <1>8 DEF Knows
<1>12. Keeps(p)'
    BY <1>2, <1>6, <1>7 DEF Keeps
<1>13. LoadFits(p)' /\ LoadKnows(p)'
    BY <1>7, EmptyIs DEF LoadFits, LoadKnows, LoadPhases, GraphOK
<1>14. Held(p)'
    BY <1>1, <1>2, <1>4, <1>7, <1>10, <1>11, <1>12, <1>13 DEF Held
<1>15. \A q \in Process \ {p} : raced'[q] = raced[q]
    BY <1>1, <1>2 DEF TypeOK
<1> QED
    BY <1>2, <1>7, <1>9, <1>14, <1>15, UnwrittenKept

\* A process that died.
LEMMA DieKept ==
    ASSUME IInv, NEW p \in Process, Die(p)
    PROVE  Kept(p)
<1>1. TypeOK /\ Held(p) /\ db.seq \in Nat
    BY DEF IInv, TypeOK, Database
<1>2. /\ mem' = [mem EXCEPT ![p] = Empty] /\ load' = [load EXCEPT ![p] = Empty]
      /\ seen' = [seen EXCEPT ![p] = NotOpen] /\ tx' = [tx EXCEPT ![p] = NoTx]
      /\ raced' = [raced EXCEPT ![p] = FALSE]
      /\ phase' = [phase EXCEPT ![p] = "idle"] /\ plan' = [plan EXCEPT ![p] = NoPlan]
      /\ db' = db /\ harmed' = harmed
    BY DEF Die, Return, Go
<1>3. TypeOK'
    <2>1. "idle" \in Phases /\ NotOpen \in Int
        BY DEF Phases, NotOpen
    <2> QED
        BY <1>1, <1>2, <2>1, EmptyIs DEF TypeOK
<1>4. /\ Aside(p) /\ phase'[p] = "idle" /\ plan'[p] = NoPlan /\ mem'[p] = Empty /\ load'[p] = Empty
      /\ tx'[p] = NoTx /\ seen'[p] = -1
      /\ \A q \in Process \ {p} : raced'[q] = raced[q]
    BY <1>1, <1>2 DEF TypeOK, Aside, NotOpen
<1>5. seen'[p] < db'.seq
    BY <1>1, <1>2, <1>4
<1>6. PlanFits(p)'
    BY <1>4 DEF PlanFits, Calling
<1>7. Knows(p)'
    BY <1>1, <1>2, <1>4 DEF Knows
<1>8. Keeps(p)'
    BY <1>4, EmptyIs DEF Keeps
<1>9. LoadFits(p)' /\ LoadKnows(p)'
    BY <1>4, EmptyIs DEF LoadFits, LoadKnows, LoadPhases, GraphOK
<1>10. Held(p)'
    BY <1>1, <1>2, <1>4, <1>5, <1>6, <1>7, <1>8, <1>9, EmptyIs DEF Held
<1> QED
    BY <1>2, <1>3, <1>4, <1>10, UnwrittenKept

\* A load ends: what was read is the handle now.
LEMMA PositionKept ==
    ASSUME IInv, NEW p \in Process, ReadPosition(p)
    PROVE  Kept(p)
<1>1. TypeOK /\ Held(p) /\ db.seq \in Nat /\ load[p] \in Handles /\ phase[p] = "position"
    BY DEF IInv, TypeOK, Database, ReadPosition
<1>2. /\ mem' = [mem EXCEPT ![p] = load[p]] /\ load' = [load EXCEPT ![p] = Empty]
      /\ seen' = [seen EXCEPT ![p] = db.seq] /\ phase' = [phase EXCEPT ![p] = "idle"]
      /\ raced' = [raced EXCEPT ![p] = @ \/ tx[p] # NoTx]
      /\ db' = db /\ plan' = plan /\ tx' = tx /\ harmed' = harmed
    BY DEF ReadPosition, Go
<1>3. TypeOK'
    <2>1. "idle" \in Phases
        BY DEF Phases
    <2> QED
        BY <1>1, <1>2, <2>1, EmptyIs DEF TypeOK
<1>4. /\ Aside(p) /\ phase'[p] = "idle" /\ mem'[p] = load[p] /\ load'[p] = Empty
      /\ seen'[p] = db.seq
      /\ ~raced'[p] => ~raced[p] /\ tx[p] = NoTx
      /\ \A q \in Process \ {p} : raced'[q] = raced[q]
    BY <1>1, <1>2 DEF TypeOK, Aside
<1>5. plan[p] = NoPlan
    BY <1>1 DEF Held, PlanFits, Calling
<1>6. GraphOK(load[p]) /\ Placed(load[p])
    BY <1>1 DEF Held, LoadFits, GraphOK
<1>7. ~raced[p] => Same(load[p], db)
    BY <1>1 DEF Held, LoadKnows, Same, LoadPhases
<1>8. PlanFits(p)'
    BY <1>2, <1>4, <1>5 DEF PlanFits, Calling
<1>9. Knows(p)'
    BY <1>2, <1>4, <1>7 DEF Knows
<1>10. Keeps(p)'
    BY <1>2, <1>4, <1>6 DEF Keeps
<1>11. LoadFits(p)' /\ LoadKnows(p)'
    BY <1>4, EmptyIs DEF LoadFits, LoadKnows, LoadPhases, GraphOK
<1>12. Held(p)'
    BY <1>1, <1>2, <1>4, <1>6, <1>8, <1>9, <1>10, <1>11 DEF Held
<1> QED
    BY <1>2, <1>3, <1>4, <1>12, UnwrittenKept

---------------------------------------------------------------------------
(* The ids a load goes on from *)

\* The ids of finitely many records have a bound.
LEMMA IdsBounded ==
    ASSUME NEW R \in SUBSET Record, IsFiniteSet(R)
    PROVE  \E b \in Nat : \A r \in R : r.id <= b
<1>1. PICK n \in Nat : \E f \in [1..n -> R] : \A r \in R : \E i \in 1..n : f[i] = r
    <2>1. Cardinality(R) \in Nat /\ ExistsBijection(1..Cardinality(R), R)
        BY FS_CardinalityType
    <2> QED
        BY <2>1 DEF ExistsBijection, Bijection, Surjection
<1>2. PICK f \in [1..n -> R] : \A r \in R : \E i \in 1..n : f[i] = r
    BY <1>1
<1> DEFINE Bad == {i \in Nat : i <= n /\ ~\E b \in Nat : \A j \in 1..i : f[j].id <= b}
<1>3. ASSUME Bad # {} PROVE FALSE
    <2>1. PICK i \in Bad : \A j \in Bad : <<j, i>> \notin OpToRel(<, Nat)
        BY <1>3, NatLessThanWellFounded, WFMin
    <2>2. i \in Nat /\ i <= n
        OBVIOUS
    <2>3. CASE i = 0
        <3>1. \A j \in 1..i : f[j].id <= 0
            BY <2>3
        <3> QED
            BY <3>1
    <2>4. CASE i # 0
        <3>1. i - 1 \in Nat /\ i - 1 < i /\ i - 1 <= n /\ i \in 1..n
            BY <2>2, <2>4
        <3>2. i - 1 \notin Bad
            <4>1. <<i - 1, i>> \in OpToRel(<, Nat)
                BY <2>2, <3>1, Zenon DEF OpToRel
            <4> QED
                BY <2>1, <4>1, Zenon
        <3>3. PICK b \in Nat : \A j \in 1..(i - 1) : f[j].id <= b
            BY <3>1, <3>2
        <3>4. f[i].id \in Nat
            BY <3>1 DEF Record
        <3> DEFINE a == IF f[i].id <= b THEN b ELSE f[i].id
        <3>5. a \in Nat /\ b <= a /\ f[i].id <= a
            BY <3>4
        <3> HIDE DEF a
        <3>6. ASSUME NEW j \in 1..i PROVE f[j].id <= a
            <4>1. CASE j = i
                BY <3>5, <4>1
            <4>2. CASE j # i
                <5>1. j \in 1..(i - 1) /\ j \in 1..n
                    BY <2>2, <4>2
                <5>2. f[j].id <= b /\ f[j].id \in Nat
                    BY <3>3, <5>1 DEF Record
                <5> QED
                    BY <3>5, <5>2
            <4> QED
                BY <4>1, <4>2
        <3> QED
            BY <3>5, <3>6
    <2> QED
        BY <2>3, <2>4
<1>4. PICK b \in Nat : \A j \in 1..n : f[j].id <= b
    <2>1. n \notin Bad
        <3> HIDE DEF Bad
        <3> QED
            BY <1>3
    <2>2. n <= n
        OBVIOUS
    <2> QED
        BY <2>1, <2>2
<1> QED
    BY <1>4, <1>2

\* The greatest of a bounded set of numbers.
LEMMA GreatestIs ==
    ASSUME NEW S \in SUBSET Int, S # {}, NEW b \in Int, \A i \in S : i <= b
    PROVE  Max(S) \in S /\ \A i \in S : i <= Max(S)
<1> DEFINE T == {b - i : i \in S}
<1>1. T \subseteq Nat
    <2>1. \A i \in S : b - i \in Nat
        OBVIOUS
    <2> QED
        BY <2>1, Zenon
<1>2. T # {}
    OBVIOUS
<1>3. PICK k \in T : \A j \in T : k <= j
    <2>1. PICK k \in T : \A j \in T : <<j, k>> \notin OpToRel(<, Nat)
        BY <1>1, <1>2, NatLessThanWellFounded, WFMin
    <2>2. ASSUME NEW j \in T PROVE k <= j
        <3> HIDE DEF T
        <3>1. j \in Nat /\ k \in Nat
            BY <1>1
        <3>2. ~(j < k)
            BY <2>1, <3>1, Zenon DEF OpToRel
        <3> QED
            BY <3>1, <3>2
    <2> QED
        BY <2>2
<1>4. PICK m \in S : k = b - m
    OBVIOUS
<1>5. \A i \in S : i <= m
    <2>1. \A i \in S : k <= b - i
        BY <1>3
    <2> QED
        BY <1>4, <2>1
<1>6. \E x \in S : \A y \in S : x >= y
    BY <1>5
<1>7. Max(S) \in S /\ \A y \in S : Max(S) >= y
    BY <1>6 DEF Max
<1> QED
    BY <1>7

\* No record of the kind has a greater id.
LEMMA MaxIdIs ==
    ASSUME NEW R \in SUBSET Record, IsFiniteSet(R), NEW kind \in Kinds
    PROVE  /\ MaxId(R, kind) \in Int /\ MaxId(R, kind) >= -1
           /\ \A r \in R : r.kind = kind => r.id <= MaxId(R, kind)
<1> DEFINE S == {-1} \cup {r.id : r \in OfKind(R, kind)}
<1>1. PICK b \in Nat : \A r \in R : r.id <= b
    BY IdsBounded
<1>2. S \in SUBSET Int
    BY DEF OfKind, Record
<1>3. \A i \in S : i <= b
    BY <1>1 DEF OfKind
<1>4. -1 \in S /\ \A r \in R : r.kind = kind => r.id \in S
    BY DEF OfKind
<1>5. MaxId(R, kind) = Max(S)
    BY DEF MaxId
<1> HIDE DEF S
<1>6. Max(S) \in S /\ \A i \in S : i <= Max(S)
    BY <1>2, <1>3, <1>4, GreatestIs
<1>7. Max(S) \in Int
    BY <1>2, <1>6
<1> QED
    BY <1>4, <1>5, <1>6, <1>7

\* The greater of two numbers.
LEMMA GreaterOf ==
    ASSUME NEW a \in Int, NEW b \in Int
    PROVE  Max({a, b}) \in {a, b} /\ Max({a, b}) >= a /\ Max({a, b}) >= b
<1>1. CASE a <= b
    <2>1. \A i \in {a, b} : i <= b
        BY <1>1
    <2> QED
        BY <2>1, GreatestIs
<1>2. CASE b <= a
    <2>1. \A i \in {a, b} : i <= a
        BY <1>2
    <2> QED
        BY <2>1, GreatestIs
<1> QED
    BY <1>1, <1>2

---------------------------------------------------------------------------
(* A step of a load *)

\* What p has read so far is the database's, as far as it got before phase next.
ReadThrough(next, m, d) ==
    /\ next = "edges" => m.rec = OfKind(d.rec, "node")
    /\ next \in LoadPhases \ {"edges"} => m.rec = d.rec
    /\ next \in LoadPhases \ {"edges", "definitions"} => m.text = d.text
    /\ next \in {"vectors", "ids", "position"} => m.vec = d.vec
    /\ next \in {"ids", "position"} => m.vectors = d.vectors

\* It holds together.
FitsBefore(next, m) ==
    /\ m \in Handles /\ Stored(m)
    /\ next = "edges" => \A r \in m.rec : r.kind = "node"
    /\ next \in {"ids", "position"} => Placed(m)
    /\ next = "position" => Ahead(m)

\* The read does not fit: the load is given up.
GivesUp(p) ==
    /\ load' = [load EXCEPT ![p] = Empty] /\ phase' = [phase EXCEPT ![p] = "idle"]
    /\ raced' = [raced EXCEPT ![p] = TRUE]

\* It fits.
GoesOn(p, next, read, b) ==
    /\ load' = [load EXCEPT ![p] = read] /\ phase' = [phase EXCEPT ![p] = next]
    /\ raced' = [raced EXCEPT ![p] = b]

\* A step of a load keeps the invariant if what it read fits the phase it goes to.
LEMMA LoadStepKept ==
    ASSUME IInv, NEW p \in Process, phase[p] \in {"idle"} \cup LoadPhases, NEW read, NEW b \in BOOLEAN,
           NEW next \in LoadPhases,
           GivesUp(p) \/ (/\ GoesOn(p, next, read, b) /\ FitsBefore(next, read)
                          /\ ~b => ReadThrough(next, read, db)),
           db' \in Database, Same(db', db), db'.seq = db.seq,
           mem' = mem, seen' = seen, plan' = plan, tx' = tx, harmed' = harmed
    PROVE  Kept(p)
<1>1. TypeOK /\ Held(p)
    BY DEF IInv
<1>2. plan[p] = NoPlan
    BY <1>1 DEF Held, PlanFits, Calling, LoadPhases
<1>3. Stored(db') /\ Harmless'
    BY SoundSame DEF IInv, Stored, Same, Harmless
<1>4. CASE GivesUp(p)
    <2>1. TypeOK'
        <3>1. "idle" \in Phases
            BY DEF Phases
        <3> QED
            BY <1>1, <1>4, <3>1, EmptyIs DEF TypeOK, GivesUp
    <2>2. /\ Aside(p) /\ Quiet(p)
          /\ phase'[p] = "idle" /\ load'[p] = Empty /\ raced'[p]
        BY <1>1, <1>4 DEF TypeOK, GivesUp, Aside, Quiet
    <2>3. PlanFits(p)' /\ Knows(p)' /\ Keeps(p)' /\ LoadKnows(p)'
        BY <1>2, <2>2 DEF PlanFits, Calling, Knows, Keeps, LoadKnows
    <2>4. LoadFits(p)'
        BY <2>2, EmptyIs DEF LoadFits, GraphOK
    <2>5. Held(p)'
        BY <1>1, <2>3, <2>4 DEF Held
    <2> QED
        BY <1>3, <2>1, <2>2, <2>5 DEF Kept, Stored
<1>5. CASE /\ GoesOn(p, next, read, b) /\ FitsBefore(next, read)
           /\ ~b => ReadThrough(next, read, db)
    <2>1. TypeOK'
        <3>1. next \in Phases
            BY DEF Phases
        <3> QED
            BY <1>1, <1>5, <3>1 DEF TypeOK, GoesOn, FitsBefore
    <2>2. /\ Aside(p) /\ Quiet(p)
          /\ phase'[p] = next /\ load'[p] = read /\ raced'[p] = b
        BY <1>1, <1>5 DEF TypeOK, GoesOn, Aside, Quiet
    <2>3. next \notin {"idle", "write", "publish"}
        BY DEF LoadPhases
    <2>4. PlanFits(p)' /\ Knows(p)' /\ Keeps(p)'
        BY <1>2, <2>2, <2>3 DEF PlanFits, Calling, Knows, Keeps
    <2>5. LoadFits(p)'
        BY <1>5, <2>2 DEF LoadFits, FitsBefore
    <2>6. LoadKnows(p)'
        BY <1>5, <2>2 DEF LoadKnows, ReadThrough, Same
    <2>7. Held(p)'
        BY <1>1, <2>4, <2>5, <2>6 DEF Held
    <2> QED
        BY <1>3, <2>1, <2>2, <2>7 DEF Kept, Stored
<1> QED
    BY <1>4, <1>5

\* What each read is, and when it fits.
LEMMA ReadIs ==
    /\ \A g : ReadBy("nodes", g) = [Empty EXCEPT !.rec = OfKind(db.rec, "node")]
    /\ \A g : ReadBy("edges", g) = [g EXCEPT !.rec = @ \cup OfKind(db.rec, "edge")]
    /\ \A g : ReadBy("definitions", g) = [g EXCEPT !.text = db.text]
    /\ \A g : ReadBy("rows", g) = g
    /\ \A g : ReadBy("vector_indexes", g) = [g EXCEPT !.vec = db.vec]
    /\ \A g : ReadBy("vectors", g) = [g EXCEPT !.vectors = db.vectors]
    /\ \A g : ReadBy("ids", g) =
            [g EXCEPT !.next = [kind \in Kinds |-> Max({MaxId(g.rec, kind) + 1, db.next[kind]})]]
BY Zenon DEF ReadBy

\* Only edges and vectors can refer to what is not there.
LEMMA FitsIs ==
    /\ \A g : Fits("edges", g) <=> Closed(g.rec)
    /\ \A g : Fits("vectors", g) <=> Placed(g)
    /\ \A s, g : s \notin {"edges", "vectors"} => Fits(s, g)
BY Zenon DEF Fits, Closed, Placed

\* The phase after a read that fits.
NextPhase(k) == IF k = Len(LoadOrder) THEN "position" ELSE LoadOrder[k + 1]

\* The reads and the phases after them, one by one.
LEMMA StepsAre ==
    /\ LoadOrder[1] = "nodes" /\ NextPhase(1) = "edges"
    /\ LoadOrder[2] = "edges" /\ NextPhase(2) = "definitions"
    /\ LoadOrder[3] = "definitions" /\ NextPhase(3) = "rows"
    /\ LoadOrder[4] = "rows" /\ NextPhase(4) = "vector_indexes"
    /\ LoadOrder[5] = "vector_indexes" /\ NextPhase(5) = "vectors"
    /\ LoadOrder[6] = "vectors" /\ NextPhase(6) = "ids"
    /\ LoadOrder[7] = "ids" /\ NextPhase(7) = "position"
<1>1. /\ LoadOrder[1] = "nodes" /\ LoadOrder[2] = "edges" /\ LoadOrder[3] = "definitions"
      /\ LoadOrder[4] = "rows" /\ LoadOrder[5] = "vector_indexes" /\ LoadOrder[6] = "vectors"
      /\ LoadOrder[7] = "ids" /\ Len(LoadOrder) = 7
    BY LoadOrderIs
<1>2. \A k \in 1..6 : NextPhase(k) = LoadOrder[k + 1]
    BY <1>1 DEF NextPhase
<1>3. NextPhase(7) = "position"
    BY <1>1 DEF NextPhase
<1>4. /\ NextPhase(1) = LoadOrder[2] /\ NextPhase(2) = LoadOrder[3] /\ NextPhase(3) = LoadOrder[4]
      /\ NextPhase(4) = LoadOrder[5] /\ NextPhase(5) = LoadOrder[6] /\ NextPhase(6) = LoadOrder[7]
    BY <1>2
<1> QED
    BY <1>1, <1>3, <1>4

\* What every read adds to is in order, and so is what it makes of it.
LEMMA ReadFits ==
    ASSUME IInv, NEW p \in Process, NEW k \in 1..7,
           phase[p] = IF k = 1 THEN "idle" ELSE LoadOrder[k],
           Fits(LoadOrder[k], ReadBy(LoadOrder[k], load[p]))
    PROVE  /\ FitsBefore(NextPhase(k), ReadBy(LoadOrder[k], load[p]))
           /\ ~(k > 1 /\ raced[p]) => ReadThrough(NextPhase(k), ReadBy(LoadOrder[k], load[p]), db)
<1> DEFINE g == load[p]
           read == ReadBy(LoadOrder[k], g)
<1>1. g \in Handles /\ Held(p) /\ db \in Database /\ Stored(db)
    BY DEF IInv, TypeOK
<1>2. LoadFits(p) /\ LoadKnows(p) /\ Stored(g)
    BY <1>1 DEF Held, LoadFits
<1>3. /\ g.rec \subseteq Record /\ db.rec \subseteq Record /\ db.text \subseteq TextDefinition
      /\ db.vec \subseteq VecDefinition /\ db.vectors \subseteq Vector /\ db.next \in [Kinds -> Nat]
    BY <1>1 DEF Handles, Database
<1>4. /\ IsFiniteSet(OfKind(db.rec, "node")) /\ IsFiniteSet(OfKind(db.rec, "edge"))
    BY <1>1, FS_Subset DEF OfKind, Stored
<1>5. CASE k = 1
    <2>1. LoadOrder[k] = "nodes" /\ NextPhase(k) = "edges" /\ phase[p] = "idle"
        BY <1>5, StepsAre
    <2>2. read = [Empty EXCEPT !.rec = OfKind(db.rec, "node")]
        BY <2>1, ReadIs
    <2>3. /\ read.rec = OfKind(db.rec, "node") /\ read.text = {} /\ read.vec = {}
          /\ read.vectors = {} /\ read.next = [kind \in Kinds |-> 0] /\ read.version = 0
          /\ read \in Handles
        BY <1>3, <2>2, EmptyIs DEF Handles, OfKind
    <2> HIDE DEF read
    <2>4. FitsBefore("edges", read)
        BY <1>1, <1>4, <2>3 DEF FitsBefore, Stored, Keyed, Named, OfKind
    <2>5. ReadThrough("edges", read, db)
        BY <2>3 DEF ReadThrough
    <2> QED
        BY <1>5, <2>1, <2>4, <2>5 DEF read
<1>6. CASE k = 2
    <2>1. LoadOrder[k] = "edges" /\ NextPhase(k) = "definitions" /\ phase[p] = "edges"
        BY <1>6, StepsAre
    <2>2. read = [g EXCEPT !.rec = @ \cup OfKind(db.rec, "edge")]
        BY <2>1, ReadIs
    <2>3. /\ read.rec = g.rec \cup OfKind(db.rec, "edge") /\ read.text = g.text /\ read.vec = g.vec
          /\ read \in Handles
        BY <1>1, <1>3, <2>2 DEF Handles, OfKind
    <2> HIDE DEF read
    <2>4. IsFiniteSet(read.rec)
        BY <1>2, <1>4, <2>3, FS_Union DEF Stored
    <2>5. Keyed(read.rec)
        <3>1. \A r \in g.rec : r.kind = "node"
            BY <1>2, <2>1 DEF LoadFits
        <3> QED
            BY <1>1, <1>2, <2>3, <3>1 DEF Stored, Keyed, OfKind
    <2>6. FitsBefore("definitions", read)
        BY <1>2, <2>3, <2>4, <2>5 DEF FitsBefore, Stored
    <2>7. ~raced[p] => read.rec = db.rec
        <3>1. db.rec = OfKind(db.rec, "node") \cup OfKind(db.rec, "edge")
            BY <1>3 DEF OfKind, Record, Kinds
        <3> QED
            BY <1>2, <2>1, <2>3, <3>1 DEF LoadKnows
    <2>8. ~raced[p] => ReadThrough("definitions", read, db)
        BY <2>7 DEF ReadThrough, LoadPhases
    <2> QED
        BY <1>6, <2>1, <2>6, <2>8 DEF read
<1>7. CASE k = 3
    <2>1. LoadOrder[k] = "definitions" /\ NextPhase(k) = "rows" /\ phase[p] = "definitions"
        BY <1>7, StepsAre
    <2>2. read = [g EXCEPT !.text = db.text]
        BY <2>1, ReadIs
    <2>3. /\ read.rec = g.rec /\ read.text = db.text /\ read.vec = g.vec /\ read \in Handles
        BY <1>1, <1>3, <2>2 DEF Handles
    <2> HIDE DEF read
    <2>4. FitsBefore("rows", read)
        BY <1>1, <1>2, <2>3 DEF FitsBefore, Stored
    <2>5. ~raced[p] => ReadThrough("rows", read, db)
        BY <1>2, <2>1, <2>3 DEF LoadKnows, ReadThrough, LoadPhases
    <2> QED
        BY <1>7, <2>1, <2>4, <2>5 DEF read
<1>8. CASE k = 4
    <2>1. LoadOrder[k] = "rows" /\ NextPhase(k) = "vector_indexes" /\ phase[p] = "rows"
        BY <1>8, StepsAre
    <2>2. read = g
        BY <2>1, ReadIs
    <2> HIDE DEF read
    <2>3. FitsBefore("vector_indexes", read)
        BY <1>1, <1>2, <2>2 DEF FitsBefore
    <2>4. ~raced[p] => ReadThrough("vector_indexes", read, db)
        BY <1>2, <2>1, <2>2 DEF LoadKnows, ReadThrough, LoadPhases
    <2> QED
        BY <1>8, <2>1, <2>3, <2>4 DEF read
<1>9. CASE k = 5
    <2>1. LoadOrder[k] = "vector_indexes" /\ NextPhase(k) = "vectors" /\ phase[p] = "vector_indexes"
        BY <1>9, StepsAre
    <2>2. read = [g EXCEPT !.vec = db.vec]
        BY <2>1, ReadIs
    <2>3. /\ read.rec = g.rec /\ read.text = g.text /\ read.vec = db.vec /\ read \in Handles
        BY <1>1, <1>3, <2>2 DEF Handles
    <2> HIDE DEF read
    <2>4. FitsBefore("vectors", read)
        BY <1>1, <1>2, <2>3 DEF FitsBefore, Stored
    <2>5. ~raced[p] => ReadThrough("vectors", read, db)
        BY <1>2, <2>1, <2>3 DEF LoadKnows, ReadThrough, LoadPhases
    <2> QED
        BY <1>9, <2>1, <2>4, <2>5 DEF read
<1>10. CASE k = 6
    <2>1. LoadOrder[k] = "vectors" /\ NextPhase(k) = "ids" /\ phase[p] = "vectors"
        BY <1>10, StepsAre
    <2>2. read = [g EXCEPT !.vectors = db.vectors]
        BY <2>1, ReadIs
    <2>3. /\ read.rec = g.rec /\ read.text = g.text /\ read.vec = g.vec
          /\ read.vectors = db.vectors /\ read \in Handles
        BY <1>1, <1>3, <2>2 DEF Handles
    <2>4. Placed(read)
        BY <2>1, FitsIs
    <2> HIDE DEF read
    <2>5. FitsBefore("ids", read)
        BY <1>1, <1>2, <2>3, <2>4 DEF FitsBefore, Stored
    <2>6. ~raced[p] => ReadThrough("ids", read, db)
        BY <1>2, <2>1, <2>3 DEF LoadKnows, ReadThrough, LoadPhases
    <2> QED
        BY <1>10, <2>1, <2>5, <2>6 DEF read
<1>11. CASE k = 7
    <2> DEFINE n == [kind \in Kinds |-> Max({MaxId(g.rec, kind) + 1, db.next[kind]})]
    <2>1. LoadOrder[k] = "ids" /\ NextPhase(k) = "position" /\ phase[p] = "ids"
        BY <1>11, StepsAre
    <2>2. read = [g EXCEPT !.next = n]
        BY <2>1, ReadIs
    <2>3. ASSUME NEW kind \in Kinds
          PROVE  n[kind] \in Nat /\ \A r \in g.rec : r.kind = kind => r.id < n[kind]
        <3> DEFINE top == MaxId(g.rec, kind)
        <3>1. top \in Int /\ top >= -1 /\ \A r \in g.rec : r.kind = kind => r.id <= top
            BY <1>2, <1>3, MaxIdIs DEF Stored
        <3>2. db.next[kind] \in Nat
            BY <1>3
        <3>3. n[kind] = Max({top + 1, db.next[kind]})
            OBVIOUS
        <3> HIDE DEF n, top
        <3>4. /\ Max({top + 1, db.next[kind]}) \in {top + 1, db.next[kind]}
              /\ Max({top + 1, db.next[kind]}) >= top + 1
            <4>1. top + 1 \in Int /\ db.next[kind] \in Int
                BY <3>1, <3>2
            <4> QED
                BY <4>1, GreaterOf
        <3>5. \A r \in g.rec : r.id \in Nat
            BY <1>3 DEF Record
        <3> QED
            BY <3>1, <3>2, <3>3, <3>4, <3>5
    <2>4. n \in [Kinds -> Nat]
        BY <2>3
    <2> HIDE DEF n
    <2>5. /\ read.rec = g.rec /\ read.text = g.text /\ read.vec = g.vec
          /\ read.vectors = g.vectors /\ read.next = n /\ read \in Handles
        BY <1>1, <2>2, <2>4 DEF Handles
    <2> HIDE DEF read
    <2>6. Ahead(read)
        BY <1>3, <2>3, <2>5 DEF Ahead, Record
    <2>7. Placed(read)
        BY <1>2, <2>1, <2>5 DEF LoadFits, Placed, Placeable
    <2>8. FitsBefore("position", read)
        BY <1>2, <2>5, <2>6, <2>7 DEF FitsBefore, Stored
    <2>9. ~raced[p] => ReadThrough("position", read, db)
        BY <1>2, <2>1, <2>5 DEF LoadKnows, ReadThrough, LoadPhases
    <2> QED
        BY <1>11, <2>1, <2>8, <2>9 DEF read
<1> QED
    BY <1>5, <1>6, <1>7, <1>8, <1>9, <1>10, <1>11

\* So a read keeps the invariant.
LEMMA ReadKept ==
    ASSUME IInv, NEW p \in Process, NEW k \in 1..7, Read(p, k)
    PROVE  Kept(p)
<1> DEFINE read == ReadBy(LoadOrder[k], load[p])
           b == k > 1 /\ raced[p]
<1>1. db \in Database /\ TypeOK
    BY DEF IInv, TypeOK
<1>2. phase[p] = IF k = 1 THEN "idle" ELSE LoadOrder[k]
    BY DEF Read
<1>3. NextPhase(k) \in LoadPhases /\ phase[p] \in {"idle"} \cup LoadPhases
    <2>1. k \in {1, 2, 3, 4, 5, 6, 7}
        OBVIOUS
    <2> QED
        BY <1>2, <2>1, StepsAre DEF LoadPhases
<1>4. \/ GivesUp(p)
      \/ GoesOn(p, NextPhase(k), read, b) /\ Fits(LoadOrder[k], read)
    BY DEF Read, NextPhase, GivesUp, GoesOn, Go
<1>5. Fits(LoadOrder[k], read) =>
        FitsBefore(NextPhase(k), read) /\ (~b => ReadThrough(NextPhase(k), read, db))
    BY <1>2, ReadFits
<1>6. mem' = mem /\ seen' = seen /\ plan' = plan /\ tx' = tx /\ harmed' = harmed
    BY DEF Read
<1>7. db' \in Database /\ Same(db', db) /\ db'.seq = db.seq
    <2>1. db' = IF LoadOrder[k] = "rows"
                THEN [db EXCEPT !.rows = Rewritten(read.text, read.rec)] ELSE db
        BY DEF Read
    <2>2. CASE LoadOrder[k] = "rows"
        <3>1. read = load[p] /\ load[p] \in Handles
            BY <1>1, <2>2, ReadIs DEF TypeOK
        <3>2. Rewritten(load[p].text, load[p].rec) \subseteq Row
            BY <1>1, <3>1, RowsOfType DEF Rewritten, Handles, Database
        <3> QED
            BY <1>1, <2>1, <2>2, <3>1, <3>2 DEF Database, Same
    <2>3. CASE LoadOrder[k] # "rows"
        BY <1>1, <2>1, <2>3 DEF Same
    <2> QED
        BY <2>2, <2>3
<1>8. b \in BOOLEAN
    BY <1>1 DEF TypeOK
<1> HIDE DEF read, b
<1> QED
    BY <1>3, <1>4, <1>5, <1>6, <1>7, <1>8, LoadStepKept

---------------------------------------------------------------------------
(* The invariant *)

\* Every process starts with the graph in the database.
LEMMA InitHolds == Init => IInv
<1> SUFFICES ASSUME Init PROVE IInv
    OBVIOUS
<1> DEFINE g == Handle(Started)
<1>1. Started = [rec |-> {Node0}, text |-> {[name |-> n, kind |-> "node"] : n \in TextName},
                 vec |-> {[name |-> n, kind |-> "node"] : n \in VecName},
                 vectors |-> {[index |-> n, id |-> 0] : n \in VecName},
                 next |-> [kind \in Kinds |-> IF kind = "node" THEN 1 ELSE 0]]
    BY DEF Started
<1>2. /\ g.rec = {Node0} /\ g.text = {[name |-> n, kind |-> "node"] : n \in TextName}
      /\ g.vec = {[name |-> n, kind |-> "node"] : n \in VecName}
      /\ g.vectors = {[index |-> n, id |-> 0] : n \in VecName}
      /\ g.next = [kind \in Kinds |-> IF kind = "node" THEN 1 ELSE 0] /\ g.version = 0
      /\ g = [rec |-> g.rec, text |-> g.text, vec |-> g.vec, vectors |-> g.vectors,
              next |-> g.next, version |-> g.version]
    BY <1>1 DEF Handle
<1>3. Node0 \in Record /\ Node0.kind = "node" /\ Node0.id = 0
    BY DEF Node0, Record, Kinds, NoNode
<1>4. /\ g.text \subseteq TextDefinition /\ g.vec \subseteq VecDefinition /\ g.vectors \subseteq Vector
      /\ g.next \in [Kinds -> Nat] /\ g.rec \subseteq Record
    BY <1>2, <1>3 DEF TextDefinition, VecDefinition, Vector, Kinds
<1>5. /\ db.rec = g.rec /\ db.text = g.text /\ db.vec = g.vec /\ db.vectors = g.vectors
      /\ db.next = g.next /\ db.seq = 0 /\ db.rows = RowsOf(g.text, g.rec)
      /\ db = [rec |-> db.rec, text |-> db.text, vec |-> db.vec, vectors |-> db.vectors,
               rows |-> db.rows, next |-> db.next, seq |-> db.seq]
    BY <1>1, <1>2 DEF Init
<1>6. /\ mem = [p \in Process |-> g] /\ load = [p \in Process |-> Empty]
      /\ seen = [p \in Process |-> 0] /\ phase = [p \in Process |-> "idle"]
      /\ plan = [p \in Process |-> NoPlan] /\ tx = [p \in Process |-> NoTx]
      /\ raced = [p \in Process |-> FALSE] /\ harmed = FALSE
    BY DEF Init
<1> HIDE DEF g
<1>7. g \in Handles
    BY <1>2, <1>4 DEF Handles
<1>8. db \in Database
    BY <1>4, <1>5, RowsOfType DEF Database
<1>9. Stored(g) /\ Ahead(g)
    <2>1. IsFiniteSet(g.rec)
        BY <1>2, FS_Singleton
    <2>2. Ahead(g)
        BY <1>2, <1>3 DEF Ahead, Kinds
    <2>3. Keyed(g.rec) /\ Named(g.text) /\ Named(g.vec)
        BY <1>2 DEF Keyed, Named
    <2> QED
        BY <2>1, <2>2, <2>3 DEF Stored
<1>10. Closed(g.rec) /\ Placed(g)
    <2>1. Closed(g.rec)
        BY <1>2, <1>3 DEF Closed, OfKind
    <2>2. ASSUME NEW v \in g.vectors PROVE v \in Placeable(g)
        <3>1. PICK n \in VecName : v = [index |-> n, id |-> 0]
            BY <1>2
        <3>2. [name |-> n, kind |-> "node"] \in g.vec /\ Node0 \in g.rec
            BY <1>2
        <3> QED
            BY <1>3, <1>7, <3>1, <3>2, PlaceableBy
    <2> QED
        BY <2>1, <2>2 DEF Placed
<1>11. Same(g, db)
    BY <1>5 DEF Same
<1>12. Stored(db) /\ Harmless
    BY <1>5, <1>9, <1>10, <1>11, SoundSame DEF Stored, Harmless
<1>13. TypeOK
    <2>1. "idle" \in Phases /\ 0 \in Int /\ FALSE \in BOOLEAN
        BY DEF Phases
    <2> QED
        BY <1>6, <1>7, <1>8, <2>1, EmptyIs DEF TypeOK
<1>14. ASSUME NEW p \in Process PROVE Held(p)
    <2>1. /\ mem[p] = g /\ load[p] = Empty /\ seen[p] = 0 /\ phase[p] = "idle"
          /\ plan[p] = NoPlan /\ tx[p] = NoTx /\ raced[p] = FALSE
        BY <1>6
    <2>2. PlanFits(p) /\ Knows(p) /\ Keeps(p)
        BY <1>10, <1>11, <2>1 DEF PlanFits, Calling, Knows, Keeps
    <2>3. LoadFits(p) /\ LoadKnows(p)
        BY <2>1, EmptyIs DEF LoadFits, LoadKnows, LoadPhases, GraphOK
    <2> QED
        BY <1>5, <1>9, <2>1, <2>2, <2>3 DEF Held, GraphOK
<1> QED
    BY <1>12, <1>13, <1>14 DEF IInv

\* Every step keeps the invariant.
LEMMA NextHolds == IInv /\ [Next]_vars => IInv'
<1> SUFFICES ASSUME IInv, [Next]_vars PROVE IInv'
    OBVIOUS
<1>1. CASE UNCHANGED vars
    <2>1. /\ db' = db /\ mem' = mem /\ load' = load /\ seen' = seen /\ phase' = phase
          /\ plan' = plan /\ tx' = tx /\ raced' = raced /\ harmed' = harmed
        BY <1>1 DEF vars
    <2>2. TypeOK'
        BY <2>1 DEF IInv, TypeOK
    <2>3. Stored(db)' /\ Harmless'
        BY <2>1 DEF IInv, Harmless
    <2>4. ASSUME NEW p \in Process PROVE Held(p)'
        <3>1. Held(p)
            BY DEF IInv
        <3>2. PlanFits(p)' /\ Knows(p)' /\ Keeps(p)'
            BY <2>1, <3>1 DEF Held, PlanFits, Calling, Knows, Keeps
        <3>3. LoadFits(p)' /\ LoadKnows(p)'
            BY <2>1, <3>1 DEF Held, LoadFits, LoadKnows
        <3> QED
            BY <2>1, <3>1, <3>2, <3>3 DEF Held
    <2> QED
        BY <2>2, <2>3, <2>4 DEF IInv
<1>2. CASE Next
    <2>1. PICK p \in Process :
            \/ Check(p) \/ Write(p) \/ Publish(p)
            \/ Begin(p) \/ Stage(p) \/ Commit(p) \/ Finish(p)
            \/ Read(p, 1) \/ (\E k \in 2..Len(LoadOrder) : Read(p, k))
            \/ ReadPosition(p) \/ Stop(p) \/ Die(p)
        BY <1>2 DEF Next
    <2>2. \A k \in 2..Len(LoadOrder) : k \in 1..7
        <3>1. Len(LoadOrder) = 7
            BY LoadOrderIs
        <3> QED
            BY <3>1
    <2>3. Kept(p)
        BY <2>1, <2>2, CheckKept, WriteKept, PublishKept, BeginKept, StageKept, CommitKept,
           FinishKept, ReadKept, PositionKept, StopKept, DieKept
    <2> QED
        BY <2>3, KeptSuffices
<1> QED
    BY <1>1, <1>2

\* The inductive invariant holds in every state.
LEMMA Invariant == Spec => []IInv
BY InitHolds, NextHolds, PTL DEF Spec

---------------------------------------------------------------------------
(* Rows *)

\* Rows that are brought up to date with the records still follow them.
LEMMA SyncedRows ==
    ASSUME IInv, RowsFollowRecords, NEW gone, NEW put \in SUBSET Record,
           db'.rows = Synced(gone, put), db'.text = db.text, behind' = behind,
           db'.rec = {r \in db.rec : Key(r) \notin Keys(gone \cup put)} \cup put
    PROVE  RowsFollowRecords'
<1>1. db \in Database /\ Named(db.text)
    BY DEF IInv, TypeOK, Stored
<1>2. ASSUME NEW d \in db.text, d.name \notin behind
      PROVE  RowsFit(d, db'.rows, db'.rec)
    <2>1. RowsFit(d, db.rows, db.rec)
        BY <1>2 DEF RowsFollowRecords, RowsFit
    <2> QED
        BY <1>1, <2>1, SyncedFits
<1>3. ASSUME NEW w \in db'.rows PROVE w.index \in Names(db.text) \cup behind
    <2>1. w \in db.rows \/ w \in RowsOf(db.text, put)
        BY <1>3 DEF Synced
    <2>2. CASE w \in db.rows
        BY <2>2 DEF RowsFollowRecords
    <2>3. CASE w \in RowsOf(db.text, put)
        <3>1. PICK d \in db.text : w.index = d.name
            BY <2>3, RowsOfEach
        <3> QED
            BY <3>1 DEF Names
    <2> QED
        BY <2>1, <2>2, <2>3
<1> QED
    BY <1>2, <1>3 DEF RowsFollowRecords, RowsFit

\* So do those that are all written again.
LEMMA RewrittenRows ==
    ASSUME RowsFollowRecords, NEW D, NEW R, db.text \subseteq db'.text, Named(db'.text),
           \A d \in db'.text : d \in db.text \/ d.name \in Names(D),
           db'.rows = Rewritten(D, R), db'.rec = db.rec, behind' = BehindAfter(D, R, db'.text)
    PROVE  RowsFollowRecords'
<1> DEFINE defined == db'.text
           late == BehindAfter(D, R, defined)
           rows == Rewritten(D, R)
<1> HIDE DEF defined
<1>1. /\ \A d \in {x \in defined : x.name \notin late} : RowsFit(d, rows, db.rec)
      /\ {w.index : w \in rows} \subseteq Names(defined) \cup late
    BY RewrittenFits DEF defined
<1> HIDE DEF late, rows
<1>2. db'.rows = rows /\ db'.text = defined /\ behind' = late
    BY DEF defined, late, rows
<1> QED
    BY <1>1, <1>2 DEF RowsFollowRecords, RowsFit

\* Nothing that they depend on changed.
LEMMA RowsStay ==
    ASSUME RowsFollowRecords, db'.rec = db.rec, db'.text = db.text, db'.rows = db.rows,
           behind' = behind
    PROVE  RowsFollowRecords'
BY DEF RowsFollowRecords

\* What a call writes.
LEMMA WriteRows ==
    ASSUME IInv, RowsFollowRecords, NEW p \in Process, Write(p)
    PROVE  RowsFollowRecords'
<1> DEFINE c == plan[p]
           m == mem[p]
<1>1. CASE ~Accepts(c)
    BY <1>1, RowsStay DEF Write
<1>2. CASE Accepts(c)
    <2>1. /\ db \in Database /\ Stored(db) /\ phase[p] = "write"
          /\ m \in Handles /\ CallFits(c, m) /\ c.op \in Ops
        BY CalledOnIs DEF IInv, TypeOK, Write, Calling, CalledOn, CallFits
    <2>2. /\ db'.rec = StoredRec(c, m) /\ db'.text = StoredText(c) /\ db'.rows = StoredRows(c, m)
        <3>1. db' = After(c, m)
            BY <1>2 DEF Write
        <3> QED
            BY <2>1, <3>1, AfterIs
    <2>3. behind' = CASE c.op = "create_text" -> BehindAfter({c.row}, m.rec, db'.text)
                      [] c.op = "rebuild"     -> BehindAfter(m.text, m.rec, db'.text)
                      [] c.op = "drop_text"   -> behind \ {c.row.name}
                      [] OTHER                -> behind
        BY <1>2 DEF Write
    <2>4. /\ c.op = "create_text" => behind' = BehindAfter({c.row}, m.rec, db'.text)
          /\ c.op = "rebuild" => behind' = BehindAfter(m.text, m.rec, db'.text)
          /\ c.op = "drop_text" => behind' = behind \ {c.row.name}
          /\ c.op \notin {"create_text", "rebuild", "drop_text"} => behind' = behind
        BY <2>3
    <2> HIDE DEF c, m
    <2>5. CASE c.op = "insert"
        <3>1. /\ db'.rec = db.rec \cup {c.row} /\ db'.text = db.text
              /\ db'.rows = Synced({}, {c.row}) /\ behind' = behind /\ c.row \in Record
            BY <2>1, <2>2, <2>4, <2>5 DEF StoredRec, StoredText, StoredRows, CallFits
        <3>2. Key(c.row) \notin Keys(db.rec)
            BY <1>2, <2>5 DEF Accepts
        <3>3. {r \in db.rec : Key(r) \notin Keys({} \cup {c.row})} = db.rec
            BY <3>2 DEF Keys
        <3> QED
            BY <3>1, <3>3, SyncedRows
    <2>6. CASE c.op \in Changes
        <3> DEFINE gone == Gone(m, c.to)
                   put == PutBy(c, m)
        <3>1. /\ db'.rec = {r \in db.rec : Key(r) \notin Keys(gone \cup put)} \cup put
              /\ db'.text = db.text /\ db'.rows = Synced(gone, put) /\ behind' = behind
            BY <2>1, <2>2, <2>4, <2>6 DEF StoredRec, StoredText, StoredRows, Changes
        <3>2. put \in SUBSET Record
            BY <2>1, <2>6 DEF CallFits, Handles, PutBy
        <3> HIDE DEF gone, put
        <3> QED
            BY <3>1, <3>2, SyncedRows
    <2>7. CASE c.op = "create_text"
        <3>1. /\ db'.rec = db.rec /\ db'.text = db.text \cup {c.row}
              /\ db'.rows = Rewritten({c.row}, m.rec)
              /\ behind' = BehindAfter({c.row}, m.rec, db'.text)
            BY <2>2, <2>4, <2>7 DEF StoredRec, StoredText, StoredRows, Changes
        <3>2. \A d \in db.text : d.name # c.row.name
            BY <1>2, <2>7 DEF Accepts, Names
        <3>3. Named(db'.text)
            BY <2>1, <3>1, <3>2 DEF Stored, Named
        <3>4. \A d \in db'.text : d \in db.text \/ d.name \in Names({c.row})
            BY <3>1 DEF Names
        <3> QED
            BY <3>1, <3>3, <3>4, RewrittenRows
    <2>8. CASE c.op = "rebuild"
        <3>1. /\ db'.rec = db.rec /\ db'.text = db.text /\ db'.rows = Rewritten(m.text, m.rec)
              /\ behind' = BehindAfter(m.text, m.rec, db'.text)
            BY <2>2, <2>4, <2>8 DEF StoredRec, StoredText, StoredRows, Changes
        <3> QED
            BY <2>1, <3>1, RewrittenRows DEF Stored
    <2>9. CASE c.op = "drop_text"
        <3> DEFINE n == c.row.name
        <3>1. /\ db'.rec = db.rec /\ db'.text = {d \in db.text : d.name # n}
              /\ db'.rows = {w \in db.rows : w.index # n} /\ behind' = behind \ {n}
            BY <2>2, <2>4, <2>9 DEF StoredRec, StoredText, StoredRows, Removed, Changes
        <3> HIDE DEF n
        <3>2. ASSUME NEW d \in db'.text, d.name \notin behind'
              PROVE  RowsFit(d, db'.rows, db'.rec)
            <4>1. d \in db.text /\ d.name \notin behind /\ d.name # n
                BY <3>1, <3>2
            <4>2. RowsFit(d, db.rows, db.rec)
                BY <4>1 DEF RowsFollowRecords, RowsFit
            <4>3. {w \in db'.rows : w.index = d.name} = {w \in db.rows : w.index = d.name}
                BY <3>1, <4>1
            <4> QED
                BY <3>1, <4>2, <4>3 DEF RowsFit
        <3>3. ASSUME NEW w \in db'.rows PROVE w.index \in Names(db'.text) \cup behind'
            <4>1. w \in db.rows /\ w.index # n
                BY <3>1
            <4>2. w.index \in Names(db.text) \cup behind
                BY <4>1 DEF RowsFollowRecords
            <4> QED
                BY <3>1, <4>1, <4>2 DEF Names
        <3> QED
            BY <3>2, <3>3 DEF RowsFollowRecords, RowsFit
    <2>10. CASE c.op \in {"create_vec", "drop_vec", "upsert", "delete"}
        <3>1. db'.rec = db.rec /\ db'.text = db.text /\ db'.rows = db.rows /\ behind' = behind
            BY <2>2, <2>4, <2>10 DEF StoredRec, StoredText, StoredRows, Changes
        <3> QED
            BY <3>1, RowsStay
    <2> QED
        BY <2>1, <2>5, <2>6, <2>7, <2>8, <2>9, <2>10 DEF Ops
<1> QED
    BY <1>1, <1>2

\* What an open writes again, from what it has read.
LEMMA ReadRows ==
    ASSUME IInv, RowsFollowRecords, NEW p \in Process, NEW k \in 1..7, Read(p, k)
    PROVE  RowsFollowRecords'
<1> DEFINE g == load[p]
<1>1. db \in Database /\ Stored(db)
    BY DEF IInv, TypeOK
<1>2. CASE LoadOrder[k] # "rows"
    BY <1>2, RowsStay DEF Read
<1>3. CASE LoadOrder[k] = "rows"
    <2>1. ReadBy(LoadOrder[k], g) = g
        BY <1>3, ReadIs
    <2>2. /\ db' = [db EXCEPT !.rows = Rewritten(g.text, g.rec)]
          /\ behind' = BehindAfter(g.text, g.rec, db.text)
        BY <1>3, <2>1 DEF Read
    <2> HIDE DEF g
    <2>3. /\ db'.rec = db.rec /\ db'.text = db.text /\ db'.rows = Rewritten(g.text, g.rec)
          /\ behind' = BehindAfter(g.text, g.rec, db'.text)
        BY <1>1, <2>2 DEF Database
    <2> QED
        BY <1>1, <2>3, RewrittenRows DEF Stored
<1> QED
    BY <1>2, <1>3

\* Every step leaves rows that follow the records.
LEMMA RowsHold == IInv /\ RowsFollowRecords /\ [Next]_vars => RowsFollowRecords'
<1> SUFFICES ASSUME IInv, RowsFollowRecords, [Next]_vars PROVE RowsFollowRecords'
    OBVIOUS
<1>1. CASE db' = db /\ behind' = behind
    BY <1>1, RowsStay
<1>2. ASSUME NEW p \in Process, Write(p) \/ (\E k \in 2..Len(LoadOrder) : Read(p, k)) \/ Read(p, 1)
      PROVE  RowsFollowRecords'
    <2>1. 1 \in 1..7 /\ \A k \in 2..Len(LoadOrder) : k \in 1..7
        <3>1. Len(LoadOrder) = 7
            BY LoadOrderIs
        <3> QED
            BY <3>1
    <2> QED
        BY <1>2, <2>1, WriteRows, ReadRows
<1>3. ASSUME NEW p \in Process,
             \/ Check(p) \/ Publish(p) \/ Begin(p) \/ Stage(p) \/ Commit(p) \/ Finish(p)
             \/ ReadPosition(p) \/ Stop(p) \/ Die(p)
      PROVE  db' = db /\ behind' = behind
    BY <1>3 DEF Check, Publish, Begin, Stage, Commit, Finish, ReadPosition, Stop, Die
<1> QED
    BY <1>1, <1>2, <1>3 DEF Next, vars

\* Full-text rows are those of the records and the definitions, whatever processes
\* write, refresh, fail or die in what order, except of an index that was written
\* from records out of date.
THEOREM RowsFollow == Spec => []RowsFollowRecords
<1>1. Init => RowsFollowRecords
    <2> SUFFICES ASSUME Init PROVE RowsFollowRecords
        OBVIOUS
    <2>1. IInv
        BY InitHolds
    <2>2. db.rows = RowsOf(db.text, db.rec) /\ Named(db.text)
        BY <2>1 DEF Init, IInv, Stored
    <2>3. ASSUME NEW d \in db.text
          PROVE  {w \in db.rows : w.index = d.name} = RowsOf({d}, db.rec)
        <3>1. \A w : w.index = d.name => (w \in db.rows <=> w \in RowsOf({d}, db.rec))
            BY <2>2, RowsOfEach DEF Named
        <3>2. \A w \in RowsOf({d}, db.rec) : w.index = d.name
            BY RowsOfEach
        <3> QED
            BY <3>1, <3>2
    <2>4. \A w \in db.rows : w.index \in Names(db.text)
        BY <2>2, RowsOfEach DEF Names
    <2> QED
        BY <2>3, <2>4 DEF RowsFollowRecords
<1> QED
    BY <1>1, Invariant, RowsHold, PTL DEF Spec

---------------------------------------------------------------------------
(* What a handle has, and what opens and commits do *)

\* A handle that passes for current has the records, the indexes and the vectors
\* of the database, unless it was raced.
THEOREM CurrentMatches == Spec => []CurrentIndexesMatch
<1>1. IInv => CurrentIndexesMatch
    BY DEF IInv, Held, Knows, Same, Current, CurrentIndexesMatch
<1> QED
    BY <1>1, Invariant, PTL

CountsOK == counts \in [tx : Nat, faults : Nat, loads : Nat]

\* Nothing has failed yet.
LEMMA CountsInit == Init => CountsOK
BY DEF Init, CountsOK

\* Failures are counted.
LEMMA CountsKept == CountsOK /\ [Next]_vars => CountsOK'
<1> SUFFICES ASSUME CountsOK, [Next]_vars PROVE CountsOK'
    OBVIOUS
<1>1. counts' = counts \/ \E f \in {"tx", "faults", "loads"} : counts' = [counts EXCEPT ![f] = @ + 1]
    BY DEF Next, vars, Check, Write, Publish, Begin, Stage, Commit, Finish, ReadPosition
<1> QED
    BY <1>1 DEF CountsOK

\* A load that nobody raced fits, in a database nobody who was raced wrote.
LEMMA UnracedFits ==
    ASSUME IInv, NEW p \in Process, NEW k \in 2..7, phase[p] = LoadOrder[k], ~raced[p], ~harmed
    PROVE  Fits(LoadOrder[k], ReadBy(LoadOrder[k], load[p]))
<1> DEFINE g == load[p]
           read == ReadBy(LoadOrder[k], g)
<1>1. g \in Handles /\ db \in Database /\ LoadKnows(p) /\ Closed(db.rec) /\ Placed(db)
    BY DEF IInv, TypeOK, Held, Harmless
<1>2. CASE LoadOrder[k] = "edges"
    <2>1. read = [g EXCEPT !.rec = @ \cup OfKind(db.rec, "edge")]
        BY <1>2, ReadIs
    <2>2. read.rec = g.rec \cup OfKind(db.rec, "edge")
        BY <1>1, <2>1 DEF Handles
    <2>3. db.rec = OfKind(db.rec, "node") \cup OfKind(db.rec, "edge")
        BY <1>1 DEF OfKind, Database, Record, Kinds
    <2>4. g.rec = OfKind(db.rec, "node")
        BY <1>1, <1>2 DEF LoadKnows
    <2> HIDE DEF read, g
    <2>5. Closed(read.rec)
        BY <1>1, <2>2, <2>3, <2>4
    <2> QED
        BY <1>2, <2>5, FitsIs DEF read, g
<1>3. CASE LoadOrder[k] = "vectors"
    <2>1. read = [g EXCEPT !.vectors = db.vectors]
        BY <1>3, ReadIs
    <2>2. read.rec = g.rec /\ read.vec = g.vec /\ read.vectors = db.vectors
        BY <1>1, <2>1 DEF Handles
    <2>3. g.rec = db.rec /\ g.vec = db.vec
        BY <1>1, <1>3 DEF LoadKnows, LoadPhases
    <2> HIDE DEF read, g
    <2>4. Placed(read)
        BY <1>1, <2>2, <2>3 DEF Placed, Placeable
    <2> QED
        BY <1>3, <2>4, FitsIs DEF read, g
<1>4. CASE LoadOrder[k] \notin {"edges", "vectors"}
    BY <1>4, FitsIs
<1> QED
    BY <1>2, <1>3, <1>4

\* An open or a refresh that nobody wrote into succeeds, unless a process that was
\* itself raced wrote before.
THEOREM OpensFit == Spec => OpensUnlessRaced
<1> DEFINE Opens ==
        \A p \in Process, k \in 2..Len(LoadOrder) :
            phase[p] = LoadOrder[k] /\ phase'[p] = "idle" /\ counts'.faults = counts.faults
                => raced[p] \/ harmed
<1>1. IInv /\ CountsOK /\ [Next]_vars => [Opens]_vars
    <2> SUFFICES ASSUME IInv, CountsOK, Next, NEW p \in Process, NEW k \in 2..Len(LoadOrder),
                        phase[p] = LoadOrder[k], phase'[p] = "idle", counts'.faults = counts.faults,
                        ~raced[p], ~harmed
                 PROVE  FALSE
        OBVIOUS
    <2>1. phase[p] \in LoadPhases \ {"position"} /\ phase[p] \notin {"idle", "write", "publish"}
        <3>1. LoadOrder[k] \in Loading
            BY DEF Loading
        <3>2. LoadOrder[k] # "position"
            BY LoadOrderIs
        <3> QED
            BY <3>1, <3>2, LoadOrderIs DEF LoadPhases
    <2>2. phase \in [Process -> Phases]
        BY DEF IInv, TypeOK
    <2>3. PICK q \in Process :
            \/ Check(q) \/ Write(q) \/ Publish(q)
            \/ Begin(q) \/ Stage(q) \/ Commit(q) \/ Finish(q)
            \/ Read(q, 1) \/ (\E j \in 2..Len(LoadOrder) : Read(q, j))
            \/ ReadPosition(q)
        <3>1. counts' # [counts EXCEPT !.faults = @ + 1]
            BY DEF CountsOK
        <3> QED
            BY <3>1 DEF Next
    <2>4. q = p
        <3>1. \E x : phase' = [phase EXCEPT ![q] = x] \/ phase' = phase
            BY <2>3 DEF Check, Write, Publish, Begin, Stage, Commit, Finish, Read,
               ReadPosition, Return, Go
        <3> QED
            BY <2>1, <2>2, <3>1
    <2>5. PICK j \in 2..Len(LoadOrder) : Read(p, j)
        <3>1. phase[p] # "position"
            BY <2>1
        <3> QED
            BY <2>1, <2>3, <2>4, <3>1 DEF Check, Write, Publish, Begin, Stage, Commit, Finish,
               Read, ReadPosition
    <2>6. j \in 2..7
        <3>1. Len(LoadOrder) = 7
            BY LoadOrderIs
        <3> QED
            BY <3>1
    <2>7. phase[p] = LoadOrder[j] /\ j # 1
        BY <2>5, <2>6 DEF Read
    <2>8. Fits(LoadOrder[j], ReadBy(LoadOrder[j], load[p]))
        BY <2>6, <2>7, UnracedFits
    <2>9. phase' = [phase EXCEPT ![p] = NextPhase(j)]
        BY <2>5, <2>8 DEF Read, Go, NextPhase
    <2>10. NextPhase(j) # "idle"
        <3>1. j \in {2, 3, 4, 5, 6, 7}
            BY <2>6
        <3> QED
            BY <3>1, StepsAre
    <2> QED
        BY <2>2, <2>9, <2>10
<1> QED
    BY <1>1, Invariant, CountsKept, CountsInit, PTL DEF Spec, OpensUnlessRaced

\* A commit leaves the vectors in memory that can still belong to something, and
\* only those, unless its process was raced.
THEOREM CommitKeeps == Spec => CommitKeepsVectors
<1> DEFINE Commits ==
        \A p \in Process :
            plan[p].op \in Changes /\ mem'[p] # mem[p] /\ seen'[p] # NotOpen /\ ~raced[p] =>
                mem'[p].vectors = mem[p].vectors \cap Placeable(mem'[p])
<1>1. IInv /\ [Next]_vars => [Commits]_vars
    <2> SUFFICES ASSUME IInv, Next, NEW p \in Process, plan[p].op \in Changes, mem'[p] # mem[p],
                        seen'[p] # NotOpen, ~raced[p]
                 PROVE  mem'[p].vectors = mem[p].vectors \cap Placeable(mem'[p])
        OBVIOUS
    <2> DEFINE P == Published(plan[p], mem[p])
    <2>1. TypeOK /\ Held(p)
        BY DEF IInv
    <2>2. Calling(p)
        BY <2>1 DEF Held, PlanFits, NoPlan, Changes
    <2>3. CalledOn(p)
        BY <2>2, CalledOnIs
    <2>4. PICK q \in Process :
            \/ Check(q) \/ Write(q) \/ Publish(q)
            \/ Begin(q) \/ Stage(q) \/ Commit(q) \/ Finish(q)
            \/ Read(q, 1) \/ (\E j \in 2..Len(LoadOrder) : Read(q, j))
            \/ ReadPosition(q) \/ Stop(q) \/ Die(q)
        BY DEF Next
    <2>5. ASSUME Publish(q) \/ Stop(q) PROVE mem'[p] = P
        <3>1. mem' = [mem EXCEPT ![q] = Published(plan[q], mem[q])] \/ mem' = mem
            BY <2>5 DEF Publish, Stop
        <3> QED
            BY <2>1, <3>1 DEF TypeOK
    <2>6. ASSUME ReadPosition(q) \/ Die(q) PROVE FALSE
        <3>1. q # p
            <4>1. Die(q) => seen' = [seen EXCEPT ![q] = NotOpen]
                BY DEF Die
            <4>2. ReadPosition(q) => phase[q] = "position"
                BY DEF ReadPosition
            <4> QED
                BY <2>1, <2>2, <2>6, <4>1, <4>2 DEF TypeOK, Calling
        <3>2. \E x : mem' = [mem EXCEPT ![q] = x]
            BY <2>6 DEF ReadPosition, Die
        <3> QED
            BY <2>1, <3>1, <3>2 DEF TypeOK
    <2>7. ASSUME \/ Check(q) \/ Write(q) \/ Begin(q) \/ Stage(q) \/ Commit(q) \/ Finish(q)
                 \/ Read(q, 1) \/ (\E j \in 2..Len(LoadOrder) : Read(q, j))
          PROVE  FALSE
        BY <2>7 DEF Check, Write, Begin, Stage, Commit, Finish, Read
    <2>8. mem'[p] = P
        BY <2>4, <2>5, <2>6, <2>7
    <2>9. P.rec = plan[p].to.rec /\ P.vec = mem[p].vec /\ P.vectors = plan[p].to.vectors
        <3>1. P = [rec |-> RecIn(plan[p], mem[p]), text |-> TextIn(plan[p], mem[p]),
                   vec |-> VecIn(plan[p], mem[p]), vectors |-> VectorsIn(plan[p], mem[p]),
                   next |-> NextIn(plan[p], mem[p]), version |-> Version(plan[p], mem[p])]
            BY <2>3, PublishedIs DEF CalledOn, Ops, Changes
        <3> QED
            BY <3>1 DEF RecIn, VecIn, VectorsIn, Changes
    <2>10. P \in Handles
        BY <2>3, PublishedOK DEF CalledOn, Changes
    <2> HIDE DEF P
    <2>11. /\ GraphOK(mem[p]) /\ Placed(mem[p]) /\ mem[p] \in Handles
           /\ plan[p].to \in Handles /\ GraphOK(plan[p].to) /\ Follows(plan[p].to, mem[p])
        BY <2>3 DEF CalledOn, CallFits
    <2> QED
        BY <2>8, <2>9, <2>10, <2>11, FollowsPlaced
<1> QED
    BY <1>1, Invariant, PTL DEF Spec, CommitKeepsVectors
=============================================================================
