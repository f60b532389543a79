------------------------ MODULE GraphProcessesProofs ------------------------
(***************************************************************************)
(* The comparison with the operation log, for every set of processes and   *)
(* every value of the bounds: what it misses, and what comes of it.        *)
(*                                                                         *)
(* What a process has in memory is a graph in order whatever it missed.  A *)
(* load or a write holds what it read over steps of the others; as long as *)
(* it was not raced, that is still so, and a commit of another process     *)
(* either races it or leaves its log position behind.                      *)
(***************************************************************************)
EXTENDS GraphProcesses, GraphStateProofs

---------------------------------------------------------------------------
(* The inductive invariant *)

Reading == {"read edges", "read next node", "read next edge", "read seq"}
Phases == Reading \cup {"idle", "write", "publish"}

Shape ==
    /\ db \in Database
    /\ phase \in [Process -> Phases]
    /\ core \in [Process -> Graph]
    /\ load \in [Process -> Graph]
    /\ seen \in [Process -> Nat \cup {NotOpen}]
    /\ plan = [p \in Process |-> plan[p]]
    /\ raced \in [Process -> BOOLEAN]
    /\ harmed \in BOOLEAN

\* What the constraints of the tables keep, whoever writes; there are no owners.
KeysOK(d) ==
    /\ IdsUnique(d.nodes) /\ IdsUnique(d.edges) /\ NamesUnique(d.nodes)
    /\ IdsBelow(d.nodes, MaxNodes) /\ d.nextNode <= MaxNodes
    /\ IdsBelow(d.edges, MaxEdges) /\ d.nextEdge <= MaxEdges
    /\ IsFiniteSet(d.edges) /\ d.owned = {}

\* What a load has read makes a graph, whatever fell between its reads.
LoadOK(p) ==
    LET m == load[p] IN
    phase[p] \in Reading =>
        /\ m.owned = {}
        /\ IdsUnique(m.nodes) /\ NamesUnique(m.nodes) /\ IdsBelow(m.nodes, MaxNodes)
        /\ m.slots = NextAfter(IdsOf(m.nodes))
        /\ phase[p] # "read edges" =>
            /\ IdsUnique(m.edges) /\ EndpointsExist(m) /\ IdsBelow(m.edges, MaxEdges)
            /\ IsFiniteSet(m.edges)
        /\ phase[p] \in {"read next edge", "read seq"} =>
            IdsBelow(m.nodes, m.nextNode) /\ m.nextNode <= MaxNodes
        /\ phase[p] = "read seq" =>
            IdsBelow(m.edges, m.nextEdge) /\ m.nextEdge <= MaxEdges

\* And unless it was raced it is what the database has.
LoadMatches(p) ==
    ~raced[p] =>
        /\ phase[p] \in Reading => load[p].nodes = db.nodes
        /\ phase[p] \in Reading \ {"read edges"} => load[p].edges = db.edges
        /\ phase[p] \in {"read next edge", "read seq"} => load[p].nextNode = LoadedNextNode(db)
        /\ phase[p] = "read seq" => load[p].nextEdge = LoadedNextEdge(db)

\* So is the memory of a process that passes for current, and, once the rows are
\* written, the graph it is about to publish.
CoreMatches(p) ==
    ~raced[p] =>
        /\ phase[p] \in {"idle", "write"} /\ seen[p] = db.seq => Matches(core[p], db)
        /\ phase[p] = "write" => seen[p] = db.seq
        /\ phase[p] = "publish" => Matches(plan[p].result, db)

Good(p) ==
    /\ GraphOK(core[p]) /\ core[p].owned = {}
    /\ seen[p] <= db.seq
    /\ LoadOK(p) /\ LoadMatches(p)
    /\ phase[p] \in {"write", "publish"} => plan[p] \in Plans(core[p])
    /\ CoreMatches(p)

IInv ==
    /\ Shape
    /\ KeysOK(db)
    /\ ~harmed => EndpointsExist(db)
    /\ \A p \in Process : Good(p)

---------------------------------------------------------------------------
(* What a plan is *)

\* The three kinds of plans.
NodesPlan(g, w) ==
    \E b \in NodeBatches :
        /\ NamesFree(g, NewNodes(g, b)) /\ g.nextNode + Len(b) <= MaxNodes
        /\ w = [kind |-> "insert", nodes |-> NewNodes(g, b), edges |-> {},
                result |-> WithNodes(g, b)]

EdgesPlan(g, w) ==
    \E b \in EdgeBatches(g) :
        /\ g.nextEdge + Len(b) <= MaxEdges
        /\ w = [kind |-> "insert", nodes |-> {}, edges |-> NewEdges(g, b),
                result |-> WithEdges(g, b)]

ChangesPlan(g, w) ==
    \E s \in InPlaceChanges(g) \cup StagedAppends(g) :
        /\ ~NoChanges(GraphChanges(g, s))
        /\ w = [kind |-> "changes", changes |-> GraphChanges(g, s), result |-> Rebuilt(s)]

\* The counters of a graph to which a batch was appended.
LEMMA AppendedCounters ==
    ASSUME NEW g \in Graph
    PROVE  /\ \A b : WithNodes(g, b).nextNode = g.nextNode + Len(b)
           /\ \A b : WithEdges(g, b).nextEdge = g.nextEdge + Len(b)
BY DEF WithNodes, WithEdges, Graph

\* An insertion within the bounds is one of a batch of nodes or of edges.
LEMMA InsertKinds ==
    ASSUME NEW g \in Graph, NEW w \in Inserts(g),
           w.result.nextNode <= MaxNodes, w.result.nextEdge <= MaxEdges
    PROVE  /\ NodesPlan(g, w) \/ EdgesPlan(g, w)
           /\ w.result \in StagedAppends(g)
<1>1. CASE \E b \in NodeBatches : /\ NamesFree(g, NewNodes(g, b))
                                  /\ w = [kind |-> "insert", nodes |-> NewNodes(g, b),
                                          edges |-> {}, result |-> WithNodes(g, b)]
    <2>1. PICK b \in NodeBatches : /\ NamesFree(g, NewNodes(g, b))
                                   /\ w = [kind |-> "insert", nodes |-> NewNodes(g, b),
                                           edges |-> {}, result |-> WithNodes(g, b)]
        BY <1>1
    <2>2. w.result = WithNodes(g, b)
        BY <2>1
    <2>3. g.nextNode + Len(b) <= MaxNodes
        BY <2>2, AppendedCounters
    <2> QED
        BY <2>1, <2>2, <2>3 DEF NodesPlan, StagedAppends
<1>2. CASE \E b \in EdgeBatches(g) : w = [kind |-> "insert", nodes |-> {},
                                          edges |-> NewEdges(g, b), result |-> WithEdges(g, b)]
    <2>1. PICK b \in EdgeBatches(g) : w = [kind |-> "insert", nodes |-> {},
                                           edges |-> NewEdges(g, b), result |-> WithEdges(g, b)]
        BY <1>2
    <2>2. w.result = WithEdges(g, b)
        BY <2>1
    <2>3. g.nextEdge + Len(b) <= MaxEdges
        BY <2>2, AppendedCounters
    <2>4. EndpointsLive(g, b)
        <3>1. \A i \in DOMAIN b : b[i] \in [src : IdsOf(g.nodes), dst : IdsOf(g.nodes), prop : Prop]
            BY BatchFacts DEF EdgeBatches
        <3> QED
            BY <3>1 DEF EndpointsLive
    <2> QED
        BY <2>1, <2>2, <2>3, <2>4 DEF EdgesPlan, StagedAppends
<1> QED
    BY <1>1, <1>2 DEF Inserts

\* A plan is of one of the three kinds, and its result is a graph in order.
LEMMA PlanKinds ==
    ASSUME NEW g \in Graph, GraphOK(g), NEW w \in Plans(g)
    PROVE  /\ NodesPlan(g, w) \/ EdgesPlan(g, w) \/ ChangesPlan(g, w)
           /\ w.result \in Graph /\ GraphOK(w.result) /\ w.result.owned = g.owned
           /\ Grown(g, w.result)
<1>1. w.result.nextNode <= MaxNodes /\ w.result.nextEdge <= MaxEdges
    BY DEF Plans
<1>2. CASE w \in Inserts(g)
    <2>1. NodesPlan(g, w) \/ EdgesPlan(g, w)
        BY <1>1, <1>2, InsertKinds
    <2>2. w.result \in StagedAppends(g)
        BY <1>1, <1>2, InsertKinds
    <2>3. w.result \in Graph /\ GraphOK(w.result)
        BY <2>2, StagedAppendsOK
    <2>4. w.result.owned = g.owned
        BY <2>2, OwnedKept
    <2>5. Grown(g, w.result)
        BY <2>2, StatementGrown
    <2> QED
        BY <2>1, <2>3, <2>4, <2>5
<1>3. CASE w \in ChangeSets(g)
    <2>1. PICK s \in Staged(g) :
                /\ ~NoChanges(GraphChanges(g, s))
                /\ w = [kind |-> "changes", changes |-> GraphChanges(g, s),
                        result |-> Rebuilt(s)]
        BY <1>3 DEF ChangeSets
    <2>2. w.result = Rebuilt(s)
        BY <2>1
    <2>3. s \in InPlaceChanges(g) \cup StagedAppends(g)
        <3>1. CASE s \in InPlaceChanges(g)
            BY <3>1
        <3>2. CASE s \in {i.result : i \in Inserts(g)}
            <4>1. PICK i \in Inserts(g) : s = i.result
                BY <3>2
            <4>2. s \in Graph => SameGraph(s, Rebuilt(s))
                BY RebuiltFacts
            <4>3. \/ \E b : i.result = WithNodes(g, b)
                  \/ \E b : i.result = WithEdges(g, b)
                BY <4>1 DEF Inserts
            <4>4. Rebuilt(s).nextNode = s.nextNode /\ Rebuilt(s).nextEdge = s.nextEdge
                BY <4>1, <4>3 DEF Rebuilt, Compacted, WithNodes, WithEdges, Graph
            <4> QED
                BY <1>1, <2>2, <4>1, <4>4, InsertKinds
        <3> QED
            BY <3>1, <3>2 DEF Staged
    <2>4. s \in Graph /\ GraphOK(s) /\ s.owned = g.owned /\ Grown(g, s)
        BY <2>3, InPlaceOK, StagedAppendsOK, OwnedKept, StatementGrown
    <2>5. Rebuilt(s) \in Graph /\ GraphOK(Rebuilt(s)) /\ SameGraph(s, Rebuilt(s))
        BY <2>4, RebuiltFacts, RebuiltOK DEF GraphOK
    <2>6. Grown(g, Rebuilt(s)) /\ Rebuilt(s).owned = g.owned
        BY <2>4, <2>5 DEF SameGraph, Grown
    <2>7. ChangesPlan(g, w)
        BY <2>1, <2>3 DEF ChangesPlan
    <2> QED
        BY <2>2, <2>5, <2>6, <2>7
<1> QED
    BY <1>2, <1>3 DEF Plans

---------------------------------------------------------------------------
(* What a write leaves in the database *)

\* The rows after a plan is written.
Written(d, w) ==
    IF w.kind = "changes" THEN ApplyChanges(d, w.changes)
    ELSE IF w.edges = {} THEN InsertNodeRows(d, w.nodes)
    ELSE InsertEdgeRows(d, w.edges)

\* The keys and the endpoints together are what DatabaseOK asks.
LEMMA DatabaseInOrder ==
    ASSUME NEW d
    PROVE  KeysOK(d) /\ EndpointsExist(d) => DatabaseOK(d)
<1>1. d.owned = {} => IsFiniteSet(d.owned)
    BY FS_EmptySet
<1> QED
    BY <1>1 DEF KeysOK, DatabaseOK, Consistent

\* Conversely, without owners.
LEMMA KeysInOrder ==
    ASSUME NEW d, DatabaseOK(d), d.owned = {}
    PROVE  KeysOK(d) /\ EndpointsExist(d)
BY DEF KeysOK, DatabaseOK, Consistent

\* Inserting rows changes the rows and the log position.
LEMMA RowsInserted ==
    ASSUME NEW d \in Database
    PROVE  /\ \A new \in SUBSET NodeRecord :
                LET e == InsertNodeRows(d, new) IN
                /\ e \in Database /\ e.nodes = d.nodes \cup new
                /\ e.edges = d.edges /\ e.owned = d.owned
                /\ e.nextNode = d.nextNode /\ e.nextEdge = d.nextEdge /\ e.seq = d.seq + 1
           /\ \A new \in SUBSET EdgeRecord :
                LET e == InsertEdgeRows(d, new) IN
                /\ e \in Database /\ e.edges = d.edges \cup new
                /\ e.nodes = d.nodes /\ e.owned = d.owned
                /\ e.nextNode = d.nextNode /\ e.nextEdge = d.nextEdge /\ e.seq = d.seq + 1
<1>1. /\ d.seq + 1 \in Nat
      /\ \A new \in SUBSET NodeRecord : d.nodes \cup new \in SUBSET NodeRecord
      /\ \A new \in SUBSET EdgeRecord : d.edges \cup new \in SUBSET EdgeRecord
    BY DEF Database
<1>2. ASSUME NEW new \in SUBSET NodeRecord, NEW e, e = InsertNodeRows(d, new)
      PROVE  /\ e \in Database /\ e.nodes = d.nodes \cup new
             /\ e.edges = d.edges /\ e.owned = d.owned
             /\ e.nextNode = d.nextNode /\ e.nextEdge = d.nextEdge /\ e.seq = d.seq + 1
    <2>1. e = [d EXCEPT !.nodes = d.nodes \cup new, !.seq = d.seq + 1]
        BY <1>2 DEF InsertNodeRows
    <2> QED
        BY <1>1, <2>1 DEF Database
<1>3. ASSUME NEW new \in SUBSET EdgeRecord, NEW e, e = InsertEdgeRows(d, new)
      PROVE  /\ e \in Database /\ e.edges = d.edges \cup new
             /\ e.nodes = d.nodes /\ e.owned = d.owned
             /\ e.nextNode = d.nextNode /\ e.nextEdge = d.nextEdge /\ e.seq = d.seq + 1
    <2>1. e = [d EXCEPT !.edges = d.edges \cup new, !.seq = d.seq + 1]
        BY <1>3 DEF InsertEdgeRows
    <2> QED
        BY <1>1, <2>1 DEF Database
<1> QED
    BY <1>2, <1>3

\* Node rows that do not clash keep the keys.
LEMMA NodeRowsKeys ==
    ASSUME NEW d \in Database, KeysOK(d), NEW g \in Graph, GraphOK(g),
           NEW b \in NodeBatches, NamesFree(g, NewNodes(g, b)), g.nextNode + Len(b) <= MaxNodes,
           ~NodeRowsClash(d, NewNodes(g, b))
    PROVE  LET e == InsertNodeRows(d, NewNodes(g, b)) IN
           e \in Database /\ KeysOK(e) /\ e.seq = d.seq + 1
<1> DEFINE new == NewNodes(g, b)
           e == InsertNodeRows(d, new)
<1>1. /\ new \subseteq NodeRecord /\ IdsUnique(new)
      /\ \A n \in new : n.id < g.nextNode + Len(b)
    BY NewNodesFacts
<1>2. Len(b) \in Nat
    BY BatchFacts DEF NodeBatches
<1>3. IdsBelow(new, MaxNodes)
    <2>1. \A n \in new : n.id \in Nat
        BY <1>1 DEF NodeRecord
    <2>2. g.nextNode \in Nat /\ MaxNodes \in Nat
        BY SizeAssumption DEF Graph
    <2> HIDE DEF new
    <2> QED
        BY <1>1, <1>2, <2>1, <2>2 DEF IdsBelow
<1>4. NamesUnique(new)
    BY DEF NamesFree, NamesUnique
<1> HIDE DEF new
<1>5. /\ e \in Database /\ e.nodes = d.nodes \cup new /\ e.edges = d.edges /\ e.owned = d.owned
      /\ e.nextNode = d.nextNode /\ e.nextEdge = d.nextEdge /\ e.seq = d.seq + 1
    BY <1>1, RowsInserted DEF new
<1>6. \A n \in new, m \in d.nodes : m.id # n.id /\ m.ext # n.ext
    BY DEF NodeRowsClash, new
<1> HIDE DEF e
<1>7. IdsUnique(e.nodes) /\ NamesUnique(e.nodes) /\ IdsBelow(e.nodes, MaxNodes)
    BY <1>1, <1>3, <1>4, <1>5, <1>6 DEF KeysOK, IdsUnique, NamesUnique, IdsBelow
<1> QED
    BY <1>5, <1>7 DEF KeysOK, e, new

\* So do edge rows.
LEMMA EdgeRowsKeys ==
    ASSUME NEW d \in Database, KeysOK(d), NEW g \in Graph, GraphOK(g),
           NEW b \in EdgeBatches(g), g.nextEdge + Len(b) <= MaxEdges,
           ~EdgeRowsClash(d, NewEdges(g, b))
    PROVE  LET e == InsertEdgeRows(d, NewEdges(g, b)) IN
           e \in Database /\ KeysOK(e) /\ e.seq = d.seq + 1
<1> DEFINE new == NewEdges(g, b)
           e == InsertEdgeRows(d, new)
<1>1. /\ new \subseteq EdgeRecord /\ IdsUnique(new) /\ IsFiniteSet(new)
      /\ \A n \in new : n.id < g.nextEdge + Len(b)
    BY NewEdgesFacts
<1>2. Len(b) \in Nat
    BY BatchFacts DEF EdgeBatches
<1>3. IdsBelow(new, MaxEdges)
    <2>1. \A n \in new : n.id \in Nat
        BY <1>1 DEF EdgeRecord
    <2>2. g.nextEdge \in Nat /\ MaxEdges \in Nat
        BY SizeAssumption DEF Graph
    <2> HIDE DEF new
    <2> QED
        BY <1>1, <1>2, <2>1, <2>2 DEF IdsBelow
<1>4. IdsOf(d.edges) \cap IdsOf(new) = {}
    BY DEF EdgeRowsClash
<1> HIDE DEF new
<1>5. /\ e \in Database /\ e.edges = d.edges \cup new /\ e.nodes = d.nodes /\ e.owned = d.owned
      /\ e.nextNode = d.nextNode /\ e.nextEdge = d.nextEdge /\ e.seq = d.seq + 1
    BY <1>1, RowsInserted DEF new
<1>6. \A n \in new, m \in d.edges : m.id # n.id
    BY <1>4 DEF IdsOf
<1> HIDE DEF e
<1>7. IdsUnique(e.edges) /\ IdsBelow(e.edges, MaxEdges)
    BY <1>1, <1>3, <1>5, <1>6 DEF KeysOK, IdsUnique, IdsBelow
<1>8. IsFiniteSet(e.edges)
    <2>1. IsFiniteSet(d.edges)
        BY DEF KeysOK
    <2>2. IsFiniteSet(d.edges \cup new)
        BY <1>1, <2>1, FS_Union, Zenon
    <2> QED
        BY <1>5, <2>2
<1> QED
    BY <1>5, <1>7, <1>8 DEF KeysOK, e, new

\* So do the rows of a change set, whatever graph it was computed from.
LEMMA ChangesKeys ==
    ASSUME NEW d \in Database, KeysOK(d), NEW g \in Graph, NEW s \in Graph, GraphOK(s),
           ~NoChanges(GraphChanges(g, s)), ~UpsertClash(d, GraphChanges(g, s))
    PROVE  LET e == ApplyChanges(d, GraphChanges(g, s)) IN
           e \in Database /\ KeysOK(e) /\ e.seq = d.seq + 1
<1> DEFINE c == GraphChanges(g, s)
           e == ApplyChanges(d, c)
           keptNodes == {n \in d.nodes : n.id \notin c.deleteNodes \cup IdsOf(c.upsertNodes)}
           keptEdges == {x \in d.edges : x.id \notin c.deleteEdges \cup IdsOf(c.upsertEdges)}
<1>1. /\ c.upsertNodes \subseteq s.nodes /\ c.upsertEdges \subseteq s.edges
      /\ c.nextNode = s.nextNode /\ c.nextEdge = s.nextEdge
    BY DEF GraphChanges
<1>2. AppendsOp(c)
    BY DEF NoChanges, AppendsOp
<1>3. ~UpsertClash(d, c)
    OBVIOUS
<1> HIDE DEF c
<1>4. /\ s.nodes \subseteq NodeRecord /\ s.edges \subseteq EdgeRecord
      /\ s.nextNode \in Nat /\ s.nextEdge \in Nat
      /\ s.nextNode <= MaxNodes /\ s.nextEdge <= MaxEdges
      /\ IdsUnique(s.nodes) /\ IdsUnique(s.edges) /\ NamesUnique(s.nodes)
      /\ IdsBelow(s.nodes, s.nextNode) /\ IdsBelow(s.edges, s.nextEdge) /\ IsFiniteSet(s.edges)
    BY DEF Graph, GraphOK, Consistent
<1>5. /\ e.nodes = keptNodes \cup c.upsertNodes /\ e.edges = keptEdges \cup c.upsertEdges
      /\ e.owned = d.owned /\ e.nextNode = s.nextNode /\ e.nextEdge = s.nextEdge
      /\ e.seq = d.seq + 1
    BY <1>1, <1>2 DEF ApplyChanges, Database
<1>6. e \in Database
    <2>1. /\ e.nodes \in SUBSET NodeRecord /\ e.edges \in SUBSET EdgeRecord
          /\ e.nextNode \in Nat /\ e.nextEdge \in Nat /\ e.seq \in Nat
        BY <1>1, <1>4, <1>5 DEF Database
    <2>2. e = [d EXCEPT !.nodes = e.nodes, !.edges = e.edges, !.nextNode = e.nextNode,
                        !.nextEdge = e.nextEdge, !.seq = e.seq]
        BY <1>1, <1>2, <1>5 DEF ApplyChanges, Database
    <2> HIDE DEF e
    <2> QED
        BY <2>1, <2>2 DEF Database
<1>7. /\ keptNodes \subseteq d.nodes /\ keptEdges \subseteq d.edges
      /\ \A n \in keptNodes, m \in c.upsertNodes : n.id # m.id
      /\ \A n \in keptEdges, m \in c.upsertEdges : n.id # m.id
    BY DEF IdsOf
<1>8. \A m \in keptNodes, n \in c.upsertNodes : m.ext # n.ext
    <2> SUFFICES ASSUME NEW m \in keptNodes, NEW n \in c.upsertNodes, m.ext = n.ext
                 PROVE  FALSE
        OBVIOUS
    <2>1. m \in d.nodes /\ m.id \notin c.deleteNodes /\ m.id \notin IdsOf(c.upsertNodes)
        OBVIOUS
    <2>2. m.id \in Nat /\ n.id \in Nat /\ m.id # n.id
        BY <1>1, <1>4, <1>7, <2>1 DEF Database, NodeRecord
    <2>3. m.id > n.id \/ m.id < n.id
        BY <2>2
    <2> QED
        BY <1>3, <2>1, <2>3 DEF UpsertClash
<1> HIDE DEF e, keptNodes, keptEdges
<1>9. /\ IdsUnique(c.upsertNodes) /\ IdsUnique(c.upsertEdges) /\ NamesUnique(c.upsertNodes)
      /\ IdsUnique(keptNodes) /\ IdsUnique(keptEdges) /\ NamesUnique(keptNodes)
    BY <1>1, <1>4, <1>7 DEF KeysOK, IdsUnique, NamesUnique
<1>10. IdsUnique(e.nodes) /\ IdsUnique(e.edges) /\ NamesUnique(e.nodes)
    BY <1>5, <1>7, <1>8, <1>9 DEF IdsUnique, NamesUnique
<1>11. IdsBelow(e.nodes, MaxNodes) /\ IdsBelow(e.edges, MaxEdges)
    <2>1. /\ \A n \in s.nodes : n.id \in Nat /\ n.id < s.nextNode
          /\ \A n \in s.edges : n.id \in Nat /\ n.id < s.nextEdge
          /\ MaxNodes \in Nat /\ MaxEdges \in Nat
        BY <1>4, SizeAssumption DEF IdsBelow, NodeRecord, EdgeRecord
    <2>2. /\ \A n \in c.upsertNodes : n.id < MaxNodes
          /\ \A n \in c.upsertEdges : n.id < MaxEdges
        BY <1>1, <1>4, <2>1
    <2> QED
        BY <1>5, <1>7, <2>2 DEF IdsBelow, KeysOK
<1>12. IsFiniteSet(e.edges)
    <2>1. IsFiniteSet(keptEdges) /\ IsFiniteSet(c.upsertEdges)
        BY <1>1, <1>4, <1>7, FS_Subset DEF KeysOK
    <2> QED
        BY <1>5, <2>1, FS_Union
<1> QED
    BY <1>4, <1>5, <1>6, <1>10, <1>11, <1>12 DEF KeysOK, e, c

\* Whatever a plan was made from, writing it keeps the keys and moves the log.
LEMMA WrittenKeys ==
    ASSUME db \in Database, KeysOK(db), NEW g \in Graph, GraphOK(g), NEW w \in Plans(g),
           ~Rejected(w)
    PROVE  Written(db, w) \in Database /\ KeysOK(Written(db, w)) /\ Written(db, w).seq = db.seq + 1
<1>1. CASE NodesPlan(g, w)
    <2>1. PICK b \in NodeBatches :
                /\ NamesFree(g, NewNodes(g, b)) /\ g.nextNode + Len(b) <= MaxNodes
                /\ w = [kind |-> "insert", nodes |-> NewNodes(g, b), edges |-> {},
                        result |-> WithNodes(g, b)]
        BY <1>1 DEF NodesPlan
    <2>2. Written(db, w) = InsertNodeRows(db, NewNodes(g, b)) /\ ~NodeRowsClash(db, NewNodes(g, b))
        BY <2>1 DEF Written, Rejected
    <2> QED
        BY <2>1, <2>2, NodeRowsKeys
<1>2. CASE EdgesPlan(g, w)
    <2>1. PICK b \in EdgeBatches(g) :
                /\ g.nextEdge + Len(b) <= MaxEdges
                /\ w = [kind |-> "insert", nodes |-> {}, edges |-> NewEdges(g, b),
                        result |-> WithEdges(g, b)]
        BY <1>2 DEF EdgesPlan
    <2>2. NewEdges(g, b) # {}
        BY NewEdgesFacts
    <2>3. Written(db, w) = InsertEdgeRows(db, NewEdges(g, b)) /\ ~EdgeRowsClash(db, NewEdges(g, b))
        BY <2>1, <2>2 DEF Written, Rejected
    <2> QED
        BY <2>1, <2>3, EdgeRowsKeys
<1>3. CASE ChangesPlan(g, w)
    <2>1. PICK s \in InPlaceChanges(g) \cup StagedAppends(g) :
                /\ ~NoChanges(GraphChanges(g, s))
                /\ w = [kind |-> "changes", changes |-> GraphChanges(g, s),
                        result |-> Rebuilt(s)]
        BY <1>3 DEF ChangesPlan
    <2>2. /\ Written(db, w) = ApplyChanges(db, GraphChanges(g, s))
          /\ ~UpsertClash(db, GraphChanges(g, s))
        BY <2>1 DEF Written, Rejected
    <2>3. s \in Graph /\ GraphOK(s)
        BY <2>1, InPlaceOK, StagedAppendsOK
    <2> QED
        BY <2>1, <2>2, <2>3, ChangesKeys
<1> QED
    BY <1>1, <1>2, <1>3, PlanKinds

\* Written over the records it was made from, a plan leaves rows in order that
\* its result matches.
LEMMA WrittenOver ==
    ASSUME db \in Database, KeysOK(db), NEW g \in Graph, GraphOK(g), Matches(g, db),
           NEW w \in Plans(g)
    PROVE  EndpointsExist(Written(db, w)) /\ Matches(w.result, Written(db, w))
<1>1. DatabaseOK(db)
    <2>1. EndpointsExist(db)
        BY DEF GraphOK, Consistent, EndpointsExist, Matches, RecordsOf
    <2> QED
        BY <2>1, DatabaseInOrder
<1>2. g.owned = {}
    BY DEF Matches, KeysOK
<1>3. CASE NodesPlan(g, w)
    <2>1. PICK b \in NodeBatches :
                /\ NamesFree(g, NewNodes(g, b)) /\ g.nextNode + Len(b) <= MaxNodes
                /\ w = [kind |-> "insert", nodes |-> NewNodes(g, b), edges |-> {},
                        result |-> WithNodes(g, b)]
        BY <1>3 DEF NodesPlan
    <2>2. Written(db, w) = InsertNodeRows(db, NewNodes(g, b)) /\ w.result = WithNodes(g, b)
        BY <2>1 DEF Written
    <2> QED
        BY <1>1, <2>1, <2>2, NodesWritten DEF DatabaseOK, Consistent
<1>4. CASE EdgesPlan(g, w)
    <2>1. PICK b \in EdgeBatches(g) :
                /\ g.nextEdge + Len(b) <= MaxEdges
                /\ w = [kind |-> "insert", nodes |-> {}, edges |-> NewEdges(g, b),
                        result |-> WithEdges(g, b)]
        BY <1>4 DEF EdgesPlan
    <2>2. NewEdges(g, b) # {}
        BY NewEdgesFacts
    <2>3. Written(db, w) = InsertEdgeRows(db, NewEdges(g, b)) /\ w.result = WithEdges(g, b)
        BY <2>1, <2>2 DEF Written
    <2> QED
        BY <1>1, <2>1, <2>3, EdgesWritten DEF DatabaseOK, Consistent
<1>5. CASE ChangesPlan(g, w)
    <2>1. PICK s \in InPlaceChanges(g) \cup StagedAppends(g) :
                /\ ~NoChanges(GraphChanges(g, s))
                /\ w = [kind |-> "changes", changes |-> GraphChanges(g, s),
                        result |-> Rebuilt(s)]
        BY <1>5 DEF ChangesPlan
    <2>2. Written(db, w) = ApplyChanges(db, GraphChanges(g, s)) /\ w.result = Rebuilt(s)
        BY <2>1 DEF Written
    <2>3. s \in Graph /\ GraphOK(s)
        BY <2>1, InPlaceOK, StagedAppendsOK
    <2>4. Rebuilt(s).owned = g.owned /\ Rebuilt(s) \in Graph
        BY <2>1, <2>3, OwnedKept, RebuiltFacts DEF SameGraph
    <2>5. DatabaseOK(Written(db, w)) /\ Matches(Published(g, s), Written(db, w))
        BY <1>1, <2>1, <2>2, <2>3, StagedWritten
    <2>6. Published(g, s) = Rebuilt(s)
        BY <2>4 DEF Published, Graph
    <2> QED
        BY <2>2, <2>5, <2>6 DEF DatabaseOK, Consistent
<1> QED
    BY <1>3, <1>4, <1>5, PlanKinds

---------------------------------------------------------------------------
(* Steps *)

\* What a step of another process leaves alone.
Untouched(q) ==
    /\ core'[q] = core[q] /\ load'[q] = load[q] /\ seen'[q] = seen[q]
    /\ plan'[q] = plan[q] /\ phase'[q] = phase[q]

\* A process is as good as before after a step of another one that writes nothing,
\* or that moves the log and races it in the middle of an operation.
LEMMA OtherKept ==
    ASSUME IInv, NEW q \in Process, Untouched(q),
           \/ db' = db /\ raced'[q] = raced[q]
           \/ /\ db' \in Database /\ db'.seq = db.seq + 1
              /\ raced'[q] <=> raced[q] \/ phase[q] # "idle"
    PROVE  Good(q)'
<1> USE DEF Untouched
<1>1. Good(q) /\ db.seq \in Nat /\ seen[q] \in Nat \cup {NotOpen}
    BY DEF IInv, Shape, Database
<1>2. LoadOK(q)'
    BY <1>1 DEF Good, LoadOK
<1>3. CASE db' = db /\ raced'[q] = raced[q]
    <2>1. LoadMatches(q)'
        BY <1>1, <1>3 DEF Good, LoadMatches
    <2>2. CoreMatches(q)'
        BY <1>1, <1>3 DEF Good, CoreMatches
    <2> QED
        BY <1>1, <1>2, <1>3, <2>1, <2>2 DEF Good
<1>4. CASE db'.seq = db.seq + 1 /\ (raced'[q] <=> raced[q] \/ phase[q] # "idle")
    <2>1. seen'[q] <= db.seq /\ seen'[q] # db'.seq /\ seen'[q] <= db'.seq
        BY <1>1, <1>4 DEF Good, NotOpen
    <2>2. LoadMatches(q)'
        BY <1>4 DEF LoadMatches, Reading
    <2>3. CoreMatches(q)'
        BY <1>4, <2>1 DEF CoreMatches
    <2> QED
        BY <1>1, <1>2, <2>1, <2>2, <2>3 DEF Good
<1> QED
    BY <1>3, <1>4

\* A step of p that writes nothing has only p to answer for.
LEMMA QuietStep ==
    ASSUME IInv, NEW p \in Process, Shape', db' = db, harmed' = harmed,
           \A q \in Process \ {p} : Untouched(q) /\ raced'[q] = raced[q],
           Good(p)'
    PROVE  IInv'
<1>1. KeysOK(db') /\ (~harmed' => EndpointsExist(db'))
    BY DEF IInv
<1>2. \A q \in Process : Good(q)'
    BY OtherKept
<1> QED
    BY <1>1, <1>2 DEF IInv

\* The ids of records below a bound.
LEMMA BoundedIds ==
    ASSUME NEW R, NEW limit, \A x \in R : x.id \in Nat, IdsBelow(R, limit)
    PROVE  IdsOf(R) \in SUBSET Nat /\ \A i \in IdsOf(R) : i < limit
BY DEF IdsOf, IdsBelow

\* The beginning of a load.
LEMMA ReadNodesInv == ASSUME IInv, NEW p \in Process, ReadNodes(p) PROVE IInv'
<1> DEFINE m == [EmptyGraph EXCEPT !.nodes = db.nodes, !.slots = NextAfter(IdsOf(db.nodes))]
<1>1. Shape /\ KeysOK(db) /\ Good(p)
    BY DEF IInv
<1>2. NextAfter(IdsOf(db.nodes)) \in Nat
    <2>1. IdsOf(db.nodes) \in SUBSET Nat /\ (\A i \in IdsOf(db.nodes) : i < MaxNodes)
        <3>1. \A n \in db.nodes : n.id \in Nat
            BY <1>1 DEF Shape, Database, NodeRecord
        <3> QED
            BY <1>1, <3>1, BoundedIds DEF KeysOK
    <2> QED
        BY <2>1, NextAfterBounds, SizeAssumption
<1>3. /\ m \in Graph /\ m.nodes = db.nodes /\ m.slots = NextAfter(IdsOf(db.nodes))
      /\ m.owned = {}
    <2>1. db.nodes \in SUBSET NodeRecord /\ EmptyGraph \in Graph /\ EmptyGraph.owned = {}
        BY <1>1, EmptyGraphFacts DEF Shape, Database, EmptyGraph
    <2> QED
        BY <1>2, <2>1 DEF Graph
<1> HIDE DEF m
<1>4. /\ load' = [load EXCEPT ![p] = m] /\ raced' = [raced EXCEPT ![p] = FALSE]
      /\ phase' = [phase EXCEPT ![p] = "read edges"]
      /\ UNCHANGED <<db, core, seen, plan, harmed>>
    BY DEF ReadNodes, Go, m
<1>5. Shape'
    BY <1>1, <1>3, <1>4 DEF Shape, Phases, Reading
<1>6. load'[p] = m /\ phase'[p] = "read edges"
    BY <1>1, <1>4 DEF Shape
<1>7. LoadOK(p)' /\ LoadMatches(p)'
    BY <1>1, <1>3, <1>4, <1>6 DEF LoadOK, LoadMatches, KeysOK
<1>8. Good(p)'
    BY <1>1, <1>4, <1>6, <1>7 DEF Good, CoreMatches
<1>9. \A q \in Process \ {p} : Untouched(q) /\ raced'[q] = raced[q]
    BY <1>1, <1>4 DEF Shape, Untouched
<1> QED
    BY <1>4, <1>5, <1>8, <1>9, QuietStep

\* The edges it reads next, or its end.
LEMMA ReadEdgesInv == ASSUME IInv, NEW p \in Process, ReadEdges(p) PROVE IInv'
<1> USE DEF ReadEdges, Go
<1>1. Shape /\ KeysOK(db) /\ Good(p)
    BY DEF IInv
<1>2. \A q \in Process \ {p} : Untouched(q) /\ raced'[q] = raced[q]
    BY <1>1 DEF Shape, Untouched
<1>3. CASE EdgesLoadable([db EXCEPT !.nodes = load[p].nodes])
    <2> DEFINE m == [load[p] EXCEPT !.edges = db.edges]
    <2>1. /\ m \in Graph /\ m.nodes = load[p].nodes /\ m.edges = db.edges
          /\ m.slots = load[p].slots /\ m.owned = load[p].owned
        <3>1. load[p] \in Graph /\ db.edges \in SUBSET EdgeRecord
            BY <1>1 DEF Shape, Database
        <3> QED
            BY <3>1 DEF Graph
    <2>2. EndpointsExist(m)
        <3>1. \A e \in db.edges : {e.src, e.dst} \subseteq IdsOf(load[p].nodes)
            BY <1>1, <1>3 DEF EdgesLoadable, Shape, Database
        <3> QED
            BY <2>1, <3>1 DEF EndpointsExist
    <2> HIDE DEF m
    <2>3. /\ load' = [load EXCEPT ![p] = m] /\ phase' = [phase EXCEPT ![p] = "read next node"]
          /\ raced' = raced
        BY <1>1, <1>3 DEF Shape, m
    <2>4. Shape'
        BY <1>1, <2>1, <2>3 DEF Shape, Phases, Reading
    <2>5. load'[p] = m /\ phase'[p] = "read next node"
        BY <1>1, <2>3 DEF Shape
    <2>6. LoadOK(p)'
        BY <1>1, <2>1, <2>2, <2>5 DEF LoadOK, Good, KeysOK, Reading
    <2>7. LoadMatches(p)'
        BY <1>1, <2>1, <2>3, <2>5 DEF LoadMatches, Good, Reading
    <2>8. Good(p)'
        BY <1>1, <2>5, <2>6, <2>7 DEF Good, CoreMatches
    <2> QED
        BY <1>2, <2>4, <2>8, QuietStep
<1>4. CASE ~EdgesLoadable([db EXCEPT !.nodes = load[p].nodes])
    <2>1. Shape'
        BY <1>1, <1>4, EmptyGraphFacts DEF Shape, Phases
    <2>2. phase'[p] = "idle" /\ raced'[p]
        BY <1>1, <1>4 DEF Shape
    <2>3. Good(p)'
        BY <1>1, <2>2 DEF Good, LoadOK, LoadMatches, CoreMatches, Reading
    <2> QED
        BY <1>2, <2>1, <2>3, QuietStep
<1> QED
    BY <1>3, <1>4

\* The counter of a load is a bounded number above the ids it has read.
LEMMA CounterRead ==
    ASSUME NEW S \in SUBSET Nat, NEW limit \in Nat, NEW stored \in Nat,
           \A i \in S : i < limit, stored <= limit
    PROVE  /\ MaxOf(NextAfter(S), stored) \in Nat /\ MaxOf(NextAfter(S), stored) <= limit
           /\ \A i \in S : i < MaxOf(NextAfter(S), stored)
<1>1. /\ NextAfter(S) \in Nat /\ NextAfter(S) <= limit
      /\ \A i \in S : i < NextAfter(S)
    BY NextAfterBounds
<1> QED
    BY <1>1 DEF MaxOf

\* The counter of the nodes, which the load computes from what it has read.
LEMMA ReadNextNodeInv == ASSUME IInv, NEW p \in Process, ReadNextNode(p) PROVE IInv'
<1> USE DEF ReadNextNode, Go
<1> DEFINE next == MaxOf(load[p].slots, db.nextNode)
           m == [load[p] EXCEPT !.nextNode = next]
<1>1. Shape /\ KeysOK(db) /\ Good(p)
    BY DEF IInv
<1>2. load[p] \in Graph /\ LoadOK(p) /\ phase[p] = "read next node"
    BY <1>1 DEF Shape, Good
<1>3. next \in Nat /\ next <= MaxNodes /\ IdsBelow(load[p].nodes, next)
    <2>1. /\ IdsOf(load[p].nodes) \in SUBSET Nat /\ (\A i \in IdsOf(load[p].nodes) : i < MaxNodes)
          /\ load[p].slots = NextAfter(IdsOf(load[p].nodes))
        <3>1. \A n \in load[p].nodes : n.id \in Nat
            BY <1>2 DEF Graph, NodeRecord
        <3>2. IdsBelow(load[p].nodes, MaxNodes) /\ load[p].slots = NextAfter(IdsOf(load[p].nodes))
            BY <1>2 DEF LoadOK, Reading
        <3> QED
            BY <3>1, <3>2, BoundedIds
    <2>2. db.nextNode \in Nat /\ db.nextNode <= MaxNodes /\ MaxNodes \in Nat
        BY <1>1, SizeAssumption DEF Shape, Database, KeysOK
    <2>3. /\ next \in Nat /\ next <= MaxNodes
          /\ \A i \in IdsOf(load[p].nodes) : i < next
        BY <2>1, <2>2, CounterRead
    <2> QED
        BY <2>3 DEF IdsBelow, IdsOf
<1>4. ~raced[p] => next = LoadedNextNode(db)
    BY <1>1, <1>2 DEF LoadedNextNode, LoadOK, LoadMatches, Good, Reading
<1> HIDE DEF next
<1>5. /\ m \in Graph /\ m.nodes = load[p].nodes /\ m.edges = load[p].edges
      /\ m.slots = load[p].slots /\ m.owned = load[p].owned /\ m.nextNode = next
    BY <1>2, <1>3 DEF Graph
<1> HIDE DEF m
<1>6. /\ load' = [load EXCEPT ![p] = m] /\ phase' = [phase EXCEPT ![p] = "read next edge"]
    BY <1>1 DEF Shape, m, next
<1>7. Shape'
    BY <1>1, <1>5, <1>6 DEF Shape, Phases, Reading
<1>8. load'[p] = m /\ phase'[p] = "read next edge"
    BY <1>1, <1>6 DEF Shape
<1>9. LoadOK(p)'
    BY <1>2, <1>3, <1>5, <1>8 DEF LoadOK, Reading, EndpointsExist
<1>10. LoadMatches(p)'
    BY <1>1, <1>2, <1>4, <1>5, <1>8 DEF LoadMatches, Good, Reading
<1>11. Good(p)'
    BY <1>1, <1>8, <1>9, <1>10 DEF Good, CoreMatches
<1>12. \A q \in Process \ {p} : Untouched(q) /\ raced'[q] = raced[q]
    BY <1>1, <1>6 DEF Shape, Untouched
<1> QED
    BY <1>7, <1>11, <1>12, QuietStep

\* The counter of the edges.
LEMMA ReadNextEdgeInv == ASSUME IInv, NEW p \in Process, ReadNextEdge(p) PROVE IInv'
<1> USE DEF ReadNextEdge, Go
<1> DEFINE next == MaxOf(NextAfter(IdsOf(load[p].edges)), db.nextEdge)
           m == [load[p] EXCEPT !.nextEdge = next]
<1>1. Shape /\ KeysOK(db) /\ Good(p)
    BY DEF IInv
<1>2. load[p] \in Graph /\ LoadOK(p) /\ phase[p] = "read next edge"
    BY <1>1 DEF Shape, Good
<1>3. next \in Nat /\ next <= MaxEdges /\ IdsBelow(load[p].edges, next)
    <2>1. IdsOf(load[p].edges) \in SUBSET Nat /\ (\A i \in IdsOf(load[p].edges) : i < MaxEdges)
        <3>1. \A n \in load[p].edges : n.id \in Nat
            BY <1>2 DEF Graph, EdgeRecord
        <3>2. IdsBelow(load[p].edges, MaxEdges)
            BY <1>2 DEF LoadOK, Reading
        <3> QED
            BY <3>1, <3>2, BoundedIds
    <2>2. db.nextEdge \in Nat /\ db.nextEdge <= MaxEdges /\ MaxEdges \in Nat
        BY <1>1, SizeAssumption DEF Shape, Database, KeysOK
    <2>3. /\ next \in Nat /\ next <= MaxEdges
          /\ \A i \in IdsOf(load[p].edges) : i < next
        BY <2>1, <2>2, CounterRead
    <2> QED
        BY <2>3 DEF IdsBelow, IdsOf
<1>4. ~raced[p] => next = LoadedNextEdge(db)
    BY <1>1, <1>2 DEF LoadedNextEdge, LoadMatches, Good, Reading
<1> HIDE DEF next
<1>5. /\ m \in Graph /\ m.nodes = load[p].nodes /\ m.edges = load[p].edges
      /\ m.slots = load[p].slots /\ m.owned = load[p].owned /\ m.nextEdge = next
      /\ m.nextNode = load[p].nextNode
    BY <1>2, <1>3 DEF Graph
<1> HIDE DEF m
<1>6. /\ load' = [load EXCEPT ![p] = m] /\ phase' = [phase EXCEPT ![p] = "read seq"]
    BY <1>1 DEF Shape, m, next
<1>7. Shape'
    BY <1>1, <1>5, <1>6 DEF Shape, Phases, Reading
<1>8. load'[p] = m /\ phase'[p] = "read seq"
    BY <1>1, <1>6 DEF Shape
<1>9. LoadOK(p)'
    BY <1>2, <1>3, <1>5, <1>8 DEF LoadOK, Reading, EndpointsExist
<1>10. LoadMatches(p)'
    BY <1>1, <1>2, <1>4, <1>5, <1>8 DEF LoadMatches, Good, Reading
<1>11. Good(p)'
    BY <1>1, <1>8, <1>9, <1>10 DEF Good, CoreMatches
<1>12. \A q \in Process \ {p} : Untouched(q) /\ raced'[q] = raced[q]
    BY <1>1, <1>6 DEF Shape, Untouched
<1> QED
    BY <1>7, <1>11, <1>12, QuietStep

\* The log position, and the end of the load.
LEMMA ReadSeqInv == ASSUME IInv, NEW p \in Process, ReadSeq(p) PROVE IInv'
<1> DEFINE g == Rebuilt(load[p])
<1>1. Shape /\ KeysOK(db) /\ Good(p)
    BY DEF IInv
<1>2. load[p] \in Graph /\ LoadOK(p) /\ phase[p] = "read seq"
    BY <1>1 DEF Shape, Good, ReadSeq
<1>3. db.seq \in Nat
    BY <1>1 DEF Shape, Database
<1>4. /\ Consistent(load[p]) /\ load[p].owned = {} /\ IsFiniteSet(load[p].owned)
      /\ IdsBelow(load[p].nodes, load[p].nextNode) /\ IdsBelow(load[p].edges, load[p].nextEdge)
      /\ load[p].nextNode <= MaxNodes /\ load[p].nextEdge <= MaxEdges
      /\ IsFiniteSet(load[p].edges)
    BY <1>2, FS_EmptySet DEF LoadOK, Consistent, Reading
<1>5. g \in Graph /\ GraphOK(g) /\ SameGraph(load[p], g)
    BY <1>2, <1>4, RebuiltOK, RebuiltFacts
<1> HIDE DEF g
<1>6. /\ core' = [core EXCEPT ![p] = g] /\ seen' = [seen EXCEPT ![p] = db.seq]
      /\ load' = [load EXCEPT ![p] = EmptyGraph] /\ phase' = [phase EXCEPT ![p] = "idle"]
      /\ UNCHANGED <<db, plan, raced, harmed>>
    BY DEF ReadSeq, Go, g
<1>7. Shape'
    BY <1>3, <1>1, <1>5, <1>6, EmptyGraphFacts DEF Shape, Phases
<1>8. core'[p] = g /\ seen'[p] = db.seq /\ phase'[p] = "idle"
    BY <1>1, <1>6 DEF Shape
<1>9. ~raced[p] => Matches(g, db)
    BY <1>1, <1>2, <1>4, <1>5 DEF Good, LoadMatches, KeysOK, Matches, SameGraph, RecordsOf, Reading
<1>10. Good(p)'
    <2>1. LoadOK(p)' /\ LoadMatches(p)'
        BY <1>8 DEF LoadOK, LoadMatches, Reading
    <2>2. CoreMatches(p)'
        BY <1>6, <1>8, <1>9 DEF CoreMatches
    <2>3. seen'[p] <= db'.seq
        <3>1. db' = db
            BY <1>6
        <3> QED
            BY <1>3, <1>8, <3>1
    <2>4. core'[p].owned = {}
        BY <1>4, <1>5, <1>8 DEF SameGraph
    <2> QED
        BY <1>5, <1>8, <2>1, <2>2, <2>3, <2>4 DEF Good
<1>11. \A q \in Process \ {p} : Untouched(q) /\ raced'[q] = raced[q]
    BY <1>1, <1>6 DEF Shape, Untouched
<1> QED
    BY <1>6, <1>7, <1>10, <1>11, QuietStep

\* The check of a write, and what the process will write.
LEMMA CheckInv == ASSUME IInv, NEW p \in Process, Check(p) PROVE IInv'
<1>1. Shape /\ Good(p)
    BY DEF IInv
<1>2. PICK w \in Plans(core[p]) : plan' = [plan EXCEPT ![p] = w]
    BY DEF Check
<1>3. /\ phase[p] = "idle" /\ seen[p] = db.seq /\ phase' = [phase EXCEPT ![p] = "write"]
      /\ UNCHANGED <<db, core, load, seen, raced, harmed>>
    BY DEF Check, CurrentHandle, Go
<1>4. Shape'
    BY <1>1, <1>2, <1>3 DEF Shape, Phases
<1>5. plan'[p] = w /\ phase'[p] = "write"
    BY <1>1, <1>2, <1>3 DEF Shape
<1>6. LoadOK(p)' /\ LoadMatches(p)'
    BY <1>5 DEF LoadOK, LoadMatches, Reading
<1>7. CoreMatches(p)'
    BY <1>1, <1>3, <1>5 DEF Good, CoreMatches
<1>8. Good(p)'
    BY <1>1, <1>2, <1>3, <1>5, <1>6, <1>7 DEF Good
<1>9. \A q \in Process \ {p} : Untouched(q) /\ raced'[q] = raced[q]
    BY <1>1, <1>2, <1>3 DEF Shape, Untouched
<1> QED
    BY <1>3, <1>4, <1>8, <1>9, QuietStep

\* The rows go in: the one step that the others have to answer for as well.
LEMMA WriteRowsInv == ASSUME IInv, NEW p \in Process, WriteRows(p) PROVE IInv'
<1>1. Shape /\ KeysOK(db) /\ Good(p) /\ (~harmed => EndpointsExist(db))
    BY DEF IInv
<1>2. /\ phase[p] = "write" /\ ~Rejected(plan[p])
      /\ db' = Written(db, plan[p])
      /\ raced' = [q \in Process |-> raced[q] \/ (q # p /\ phase[q] # "idle")]
      /\ harmed' = (harmed \/ raced[p])
      /\ phase' = [phase EXCEPT ![p] = "publish"]
      /\ UNCHANGED <<core, load, seen, plan>>
    BY DEF WriteRows, Written, RacedBy, Go
<1>3. /\ plan[p] \in Plans(core[p]) /\ core[p] \in Graph /\ GraphOK(core[p])
      /\ db \in Database
    BY <1>1, <1>2 DEF Shape, Good
<1>4. db' \in Database /\ KeysOK(db') /\ db'.seq = db.seq + 1
    BY <1>1, <1>2, <1>3, WrittenKeys
<1>5. ~raced[p] => EndpointsExist(db') /\ Matches(plan[p].result, db')
    <2> SUFFICES ASSUME ~raced[p] PROVE EndpointsExist(db') /\ Matches(plan[p].result, db')
        OBVIOUS
    <2>1. Matches(core[p], db)
        BY <1>1, <1>2 DEF Good, CoreMatches
    <2> QED
        BY <1>1, <1>2, <1>3, <2>1, WrittenOver
<1>6. raced' \in [Process -> BOOLEAN]
    BY <1>2
<1>7. Shape'
    <2>1. phase' \in [Process -> Phases]
        BY <1>1, <1>2 DEF Shape, Phases
    <2>2. harmed' \in BOOLEAN
        BY <1>2
    <2> QED
        BY <1>1, <1>2, <1>4, <1>6, <2>1, <2>2 DEF Shape
<1>8. ~harmed' => EndpointsExist(db')
    BY <1>2, <1>5
<1>9. phase'[p] = "publish" /\ (raced'[p] <=> raced[p])
    BY <1>1, <1>2 DEF Shape
<1>10. Good(p)'
    <2>1. LoadOK(p)' /\ LoadMatches(p)'
        BY <1>9 DEF LoadOK, LoadMatches, Reading
    <2>2. CoreMatches(p)'
        BY <1>2, <1>5, <1>9 DEF CoreMatches
    <2>3. seen'[p] <= db'.seq
        <3>1. seen[p] \in Nat \cup {NotOpen} /\ db.seq \in Nat /\ seen[p] <= db.seq
            BY <1>1 DEF Shape, Good, Database
        <3>2. seen'[p] = seen[p]
            BY <1>2
        <3> QED
            BY <1>4, <3>1, <3>2 DEF NotOpen
    <2> QED
        BY <1>1, <1>2, <1>3, <2>1, <2>2, <2>3 DEF Good
<1>11. ASSUME NEW q \in Process \ {p} PROVE Good(q)'
    <2>1. Untouched(q)
        BY <1>1, <1>2 DEF Shape, Untouched
    <2>2. raced'[q] <=> raced[q] \/ phase[q] # "idle"
        BY <1>2
    <2> QED
        BY <1>4, <2>1, <2>2, OtherKept
<1> QED
    BY <1>4, <1>7, <1>8, <1>10, <1>11 DEF IInv

\* The database refuses the rows: the process has what it had.
LEMMA WriteFailsInv == ASSUME IInv, NEW p \in Process, WriteFails(p) PROVE IInv'
<1>1. Shape /\ Good(p)
    BY DEF IInv
<1>2. /\ phase[p] = "write" /\ plan' = [plan EXCEPT ![p] = NoPlan]
      /\ phase' = [phase EXCEPT ![p] = "idle"]
      /\ UNCHANGED <<db, core, load, seen, raced, harmed>>
    BY DEF WriteFails, Go
<1>3. Shape'
    BY <1>1, <1>2 DEF Shape, Phases
<1>4. phase'[p] = "idle"
    BY <1>1, <1>2 DEF Shape
<1>5. LoadOK(p)' /\ LoadMatches(p)'
    BY <1>4 DEF LoadOK, LoadMatches, Reading
<1>6. CoreMatches(p)'
    BY <1>1, <1>2, <1>4 DEF Good, CoreMatches
<1>7. Good(p)'
    BY <1>1, <1>2, <1>4, <1>5, <1>6 DEF Good
<1>8. \A q \in Process \ {p} : Untouched(q) /\ raced'[q] = raced[q]
    BY <1>1, <1>2 DEF Shape, Untouched
<1> QED
    BY <1>2, <1>3, <1>7, <1>8, QuietStep

\* What was written enters memory.
LEMMA PublishInv == ASSUME IInv, NEW p \in Process, Publish(p) PROVE IInv'
<1> DEFINE g == plan[p].result
<1>1. Shape /\ Good(p) /\ db.seq \in Nat
    BY DEF IInv, Shape, Database
<1>2. /\ phase[p] = "publish" /\ core' = [core EXCEPT ![p] = g]
      /\ seen' = [seen EXCEPT ![p] = db.seq] /\ plan' = [plan EXCEPT ![p] = NoPlan]
      /\ phase' = [phase EXCEPT ![p] = "idle"]
      /\ UNCHANGED <<db, load, raced, harmed>>
    BY DEF Publish, Go
<1>3. g \in Graph /\ GraphOK(g) /\ g.owned = {}
    BY <1>1, <1>2, PlanKinds DEF Shape, Good
<1>4. ~raced[p] => Matches(g, db)
    BY <1>1, <1>2 DEF Good, CoreMatches
<1> HIDE DEF g
<1>5. Shape'
    BY <1>1, <1>2, <1>3 DEF Shape, Phases
<1>6. core'[p] = g /\ seen'[p] = db.seq /\ phase'[p] = "idle"
    BY <1>1, <1>2 DEF Shape
<1>7. LoadOK(p)' /\ LoadMatches(p)'
    BY <1>6 DEF LoadOK, LoadMatches, Reading
<1>8. CoreMatches(p)'
    BY <1>2, <1>4, <1>6 DEF CoreMatches
<1>9. seen'[p] <= db'.seq
    <2>1. db' = db
        BY <1>2
    <2>2. db.seq <= db.seq
        BY <1>1
    <2> QED
        BY <1>6, <2>1, <2>2
<1>10. Good(p)'
    BY <1>3, <1>6, <1>7, <1>8, <1>9 DEF Good
<1>11. \A q \in Process \ {p} : Untouched(q) /\ raced'[q] = raced[q]
    BY <1>1, <1>2 DEF Shape, Untouched
<1> QED
    BY <1>2, <1>5, <1>10, <1>11, QuietStep

\* The end of a process.
LEMMA DieInv == ASSUME IInv, NEW p \in Process, Die(p) PROVE IInv'
<1>1. Shape /\ db.seq \in Nat
    BY DEF IInv, Shape, Database
<1>2. /\ core' = [core EXCEPT ![p] = EmptyGraph] /\ load' = [load EXCEPT ![p] = EmptyGraph]
      /\ seen' = [seen EXCEPT ![p] = NotOpen] /\ plan' = [plan EXCEPT ![p] = NoPlan]
      /\ raced' = [raced EXCEPT ![p] = FALSE] /\ phase' = [phase EXCEPT ![p] = "idle"]
      /\ UNCHANGED <<db, harmed>>
    BY DEF Die, Go
<1>3. Shape'
    BY <1>1, <1>2, EmptyGraphFacts DEF Shape, Phases
<1>4. core'[p] = EmptyGraph /\ seen'[p] = NotOpen /\ phase'[p] = "idle"
    BY <1>1, <1>2 DEF Shape
<1>5. seen'[p] <= db'.seq /\ seen'[p] # db'.seq
    <2>1. db' = db
        BY <1>2
    <2> QED
        BY <1>1, <1>4, <2>1 DEF NotOpen
<1>6. LoadOK(p)' /\ LoadMatches(p)' /\ CoreMatches(p)'
    BY <1>4, <1>5 DEF LoadOK, LoadMatches, CoreMatches, Reading
<1>7. Good(p)'
    BY <1>4, <1>5, <1>6, EmptyGraphFacts DEF Good, EmptyGraph
<1>8. \A q \in Process \ {p} : Untouched(q) /\ raced'[q] = raced[q]
    BY <1>1, <1>2 DEF Shape, Untouched
<1> QED
    BY <1>2, <1>3, <1>7, <1>8, QuietStep

---------------------------------------------------------------------------
(* The theorems *)

\* An empty database, and nobody has opened it.
LEMMA InitInv == Init => IInv
<1> SUFFICES ASSUME Init PROVE IInv
    OBVIOUS
<1> USE DEF Init
<1>1. Shape
    BY EmptyGraphFacts DEF Shape, Phases, EmptyDatabase, Database
<1>2. KeysOK(db) /\ EndpointsExist(db)
    BY FS_EmptySet, SizeAssumption DEF KeysOK, EmptyDatabase, IdsUnique, NamesUnique, IdsBelow,
       EndpointsExist
<1>3. ASSUME NEW p \in Process PROVE Good(p)
    <2>1. /\ core[p] = EmptyGraph /\ phase[p] = "idle" /\ seen[p] = NotOpen /\ db.seq = 0
        BY DEF EmptyDatabase
    <2>2. seen[p] <= db.seq /\ seen[p] # db.seq
        BY <2>1 DEF NotOpen
    <2>3. LoadOK(p) /\ LoadMatches(p) /\ CoreMatches(p)
        BY <2>1, <2>2 DEF LoadOK, LoadMatches, CoreMatches, Reading
    <2> QED
        BY <2>1, <2>2, <2>3, EmptyGraphFacts DEF Good, EmptyGraph
<1> QED
    BY <1>1, <1>2, <1>3 DEF IInv

\* Every step keeps the invariant.
LEMMA NextInv == IInv /\ [Next]_vars => IInv'
<1> SUFFICES ASSUME IInv, [Next]_vars PROVE IInv'
    OBVIOUS
<1>1. CASE Next
    BY <1>1, ReadNodesInv, ReadEdgesInv, ReadNextNodeInv, ReadNextEdgeInv, ReadSeqInv,
       CheckInv, WriteRowsInv, WriteFailsInv, PublishInv, DieInv DEF Next
<1>2. CASE UNCHANGED vars
    BY <1>2 DEF vars, IInv, Shape, Good, LoadOK, LoadMatches, CoreMatches
<1> QED
    BY <1>1, <1>2

\* It holds in every behaviour.
LEMMA Invariant == Spec => []IInv
BY InitInv, NextInv, PTL DEF Spec

\* The comparison with the operation log misses a commit of another process only
\* if that commit fell inside an operation of this one (lifecycle.rs:41-96,
\* 233-253).
THEOREM MissesOnlyRaces == Spec => []CheckMissesOnlyRaces
<1>1. IInv => CheckMissesOnlyRaces
    BY DEF IInv, Good, CoreMatches, Matches, CheckMissesOnlyRaces, CurrentHandle, InMemory
<1> QED
    BY <1>1, Invariant, PTL

\* Until a process that missed a commit commits itself, the database is a graph
\* every process can open (entities.rs:115-163).
THEOREM HarmNeedsRace == Spec => []OnlyRacesHarm
<1>1. IInv => OnlyRacesHarm
    BY DEF IInv, OnlyRacesHarm, KeysOK, Consistent
<1> QED
    BY <1>1, Invariant, PTL

\* The allocators of rows under their keys are numbers.
LEMMA Allocators ==
    ASSUME NEW d \in Database, KeysOK(d)
    PROVE  LoadedNextNode(d) \in Nat /\ LoadedNextEdge(d) \in Nat
<1>1. /\ IdsOf(d.nodes) \in SUBSET Nat /\ (\A i \in IdsOf(d.nodes) : i < MaxNodes)
      /\ IdsOf(d.edges) \in SUBSET Nat /\ (\A i \in IdsOf(d.edges) : i < MaxEdges)
    <2>1. (\A n \in d.nodes : n.id \in Nat) /\ (\A e \in d.edges : e.id \in Nat)
        BY DEF Database, NodeRecord, EdgeRecord
    <2> QED
        BY <2>1, BoundedIds DEF KeysOK
<1>2. NextAfter(IdsOf(d.nodes)) \in Nat /\ NextAfter(IdsOf(d.edges)) \in Nat
    BY <1>1, NextAfterBounds, SizeAssumption
<1> QED
    BY <1>2 DEF LoadedNextNode, LoadedNextEdge, MaxOf, Database

\* The allocators never go back and ids are handed out once, as long as no raced
\* process has committed (persistence.md:81).
THEOREM ReuseNeedsRace == Spec => IdsReusedOnlyInRaces
<1> DEFINE Kept == /\ LoadedNextNode(db') >= LoadedNextNode(db)
                   /\ LoadedNextEdge(db') >= LoadedNextEdge(db)
                   /\ \A i \in IdsOf(db'.nodes) \ IdsOf(db.nodes) : i >= LoadedNextNode(db)
                   /\ \A i \in IdsOf(db'.edges) \ IdsOf(db.edges) : i >= LoadedNextEdge(db)
<1>1. ASSUME IInv, db' = db PROVE Kept
    <2>1. LoadedNextNode(db) \in Nat /\ LoadedNextEdge(db) \in Nat
        BY <1>1, Allocators DEF IInv, Shape
    <2> QED
        BY <1>1, <2>1
<1>2. ASSUME IInv, NEW p \in Process, WriteRows(p), ~harmed' PROVE Kept
    <2>1. Shape /\ KeysOK(db) /\ Good(p)
        BY <1>2 DEF IInv
    <2>2. phase[p] = "write" /\ db' = Written(db, plan[p]) /\ ~raced[p]
        BY <1>2 DEF WriteRows, Written
    <2>3. /\ plan[p] \in Plans(core[p]) /\ core[p] \in Graph /\ GraphOK(core[p])
          /\ Matches(core[p], db)
        BY <2>1, <2>2 DEF Shape, Good, CoreMatches
    <2>4. Matches(plan[p].result, db') /\ Grown(core[p], plan[p].result)
        BY <2>1, <2>2, <2>3, WrittenOver, PlanKinds DEF Shape
    <2>5. /\ core[p].nodes = db.nodes /\ core[p].edges = db.edges
          /\ plan[p].result.nodes = db'.nodes /\ plan[p].result.edges = db'.edges
          /\ core[p].nextNode = LoadedNextNode(db) /\ core[p].nextEdge = LoadedNextEdge(db)
          /\ plan[p].result.nextNode = LoadedNextNode(db')
          /\ plan[p].result.nextEdge = LoadedNextEdge(db')
        BY <2>3, <2>4 DEF Matches, RecordsOf
    <2> QED
        BY <2>4, <2>5 DEF Grown
<1>3. ASSUME IInv, [Next]_vars, ~harmed' PROVE Kept
    <2>1. db' = db \/ \E p \in Process : WriteRows(p)
        BY <1>3 DEF Next, vars, ReadNodes, ReadEdges, ReadNextNode, ReadNextEdge, ReadSeq, Check,
           WriteFails, Publish, Die
    <2> QED
        BY <1>1, <1>2, <1>3, <2>1
<1>4. IInv /\ [Next]_vars => [~harmed' => Kept]_vars
    BY <1>3
<1> QED
    BY <1>4, Invariant, PTL DEF Spec, IdsReusedOnlyInRaces
=============================================================================
