-------------------------- MODULE CypherStatements --------------------------
(***************************************************************************)
(* Cypher statements over one graph: autocommit, and one explicit          *)
(* transaction beside it.  Executing a statement gives a record            *)
(* [ok, graph, keys, records, counts]; a statement that fails has changed  *)
(* its copy of the graph up to the point of failure.                       *)
(*                                                                         *)
(* A statement is [kind, ...]: "return" (projection), "match" (optional,   *)
(* patterns, where, action), "create" and "merge" (pattern, projection),   *)
(* "union" (branches).  An action has the set, the remove and the delete   *)
(* items of its clauses, and a projection.                                 *)
(***************************************************************************)
EXTENDS CypherMatching

CONSTANTS
    NoProjection,  \* a write statement without RETURN
    Statement,     \* the statements clients run
    MaxNodes,      \* bound: node ids handed out
    MaxEdges,      \* bound: edge ids handed out
    MaxOwned,      \* bound: variables with an owner
    MaxRuns        \* bound: statements of a transaction

ASSUME CypherBoundAssumption == {MaxNodes, MaxEdges, MaxOwned, MaxRuns} \subseteq Nat

Writes(s) == \/ s.kind \in {"create", "merge"}
             \/ s.kind = "match" /\ s.action.kind # "return"

IsWrite(s) == IF s.kind = "union" THEN \E b \in ToSet(s.branches) : Writes(b) ELSE Writes(s)

IsList(s) == s \in Seq(ToSet(s))

\* Nodes and relationships alternate.
PathParsed(p) ==
    /\ IsList(p.nodes) /\ IsList(p.rels)
    /\ Len(p.nodes) = Len(p.rels) + 1
    /\ \A x \in ToSet(p.nodes) \cup ToSet(p.rels) : IsList(x.props)
    /\ \A n \in ToSet(p.nodes) : IsFiniteSet(n.labels)
    /\ \A r \in ToSet(p.rels) : r.direction \in {"out", "in", "both"}

ItemParsed(item) ==
    CASE item.kind = "property" -> TRUE
      [] item.kind = "map" -> IsList(item.entries)
      [] item.kind = "labels" -> IsFiniteSet(item.labels)
      [] OTHER -> FALSE

\* parse_match_query
MatchParsed(s) ==
    /\ s.patterns # <<>> /\ IsList(s.patterns)
    /\ \A p \in ToSet(s.patterns) : PathParsed(p)
    /\ IsList(s.where)
    /\ s.action.kind \in {"return", "update", "delete"}
    /\ s.optional => s.action.kind = "return"
    /\ s.action.kind = "delete" =>
            s.action.vars # <<>> /\ IsList(s.action.vars) /\ s.action.detach \in BOOLEAN
    /\ s.action.kind = "update" =>
            /\ s.action.set \o s.action.remove # <<>>
            /\ IsList(s.action.set) /\ IsList(s.action.remove)
            /\ \A item \in ToSet(s.action.set) : ItemParsed(item)
            /\ \A item \in ToSet(s.action.remove) : ItemParsed(item) /\ item.kind # "map"

\* The statements of a union, or the one there is.
Parts(s) == IF s.kind = "union" THEN ToSet(s.branches) ELSE {s}

\* What parse_query gives: a union has read statements only.
Parses(s) ==
    /\ s.kind = "union" => IsList(s.branches) /\ Len(s.branches) > 1 /\ ~IsWrite(s)
    /\ \A part \in Parts(s) :
            \/ part.kind = "return"
            \/ part.kind = "match" /\ MatchParsed(part)
            \/ part.kind \in {"create", "merge"} /\ PathParsed(part.pattern)

ASSUME StatementAssumption == \A s \in Statement : Parses(s)

VARIABLES
    core,   \* the graph of the handle
    tx      \* the explicit transaction: [active, write, staged, current, ran];
            \* current while mutation_version is the one it began at

vars == <<core, tx>>

NoGraph == [nodes |-> {}, edges |-> {}, owned |-> {}, nextNode |-> 0, nextEdge |-> 0]
IdleTx == [active |-> FALSE, write |-> FALSE, staged |-> NoGraph, current |-> FALSE, ran |-> 0]

NoCounts == [nodesCreated |-> 0, relsCreated |-> 0, propsSet |-> 0, propsRemoved |-> 0,
             labelsAdded |-> 0, labelsRemoved |-> 0, nodesDeleted |-> 0, relsDeleted |-> 0]

---------------------------------------------------------------------------
(* Updates: a state is [ok, graph, counts]; a failed one is not continued  *)

Start(g) == [ok |-> TRUE, graph |-> g, counts |-> NoCounts]
Fail(st) == [st EXCEPT !.ok = FALSE]

WithNode(st, n, new) == [st EXCEPT !.graph.nodes = Replace(@, n, new)]
WithEdge(st, e, new) == [st EXCEPT !.graph.edges = Replace(@, e, new)]
Counted(st, counter, amount) == [st EXCEPT !.counts[counter] = @ + amount]

\* The value of "v": null removes it, an equal one is not set again.
SetNodeValue(st, n, value) ==
    IF value = Null
    THEN IF n.val = Null THEN st
         ELSE Counted(WithNode(st, n, [n EXCEPT !.val = Null]), "propsRemoved", 1)
    ELSE IF ~Storable(value) THEN Fail(st)
    ELSE IF n.val = value THEN st
    ELSE Counted(WithNode(st, n, [n EXCEPT !.val = value]), "propsSet", 1)

SetRelValue(st, e, value) ==
    IF value = Null
    THEN IF e.val = Null THEN st
         ELSE Counted(WithEdge(st, e, [e EXCEPT !.val = Null]), "propsRemoved", 1)
    ELSE IF ~Storable(value) THEN Fail(st)
    ELSE IF e.val = value THEN st
    ELSE Counted(WithEdge(st, e, [e EXCEPT !.val = value]), "propsSet", 1)

\* Wrong variant: the new external id is not looked up.
NeverTaken(g, n, name) == FALSE

\* update_node_in_place refuses the external id of another node.
Taken(g, n, name) == \E m \in g.nodes : m.id # n.id /\ m.ext = name

Rename(st, n, value) ==
    IF value[1] # "str" THEN Fail(st)
    ELSE IF n.ext = value[2] THEN st
    ELSE IF Taken(st.graph, n, value[2]) THEN Fail(st)
    ELSE Counted(WithNode(st, n, [n EXCEPT !.ext = value[2]]), "propsSet", 1)

\* apply_property_value
SetProperty(st, row, var, key, value) ==
    IF ~st.ok THEN st
    ELSE IF value = Error \/ var \notin DOMAIN row THEN Fail(st)
    ELSE IF row[var][1] = "node"
    THEN LET n == RecordWith(st.graph.nodes, row[var][2]) IN
         IF key = "external_id" THEN Rename(st, n, value) ELSE SetNodeValue(st, n, value)
    ELSE IF key = "external_id" THEN Fail(st)
    ELSE SetRelValue(st, RecordWith(st.graph.edges, row[var][2]), value)

\* Wrong variant: labels the node already has are counted again.
SetLabelsRecounted(st, row, var, labels) ==
    IF var \notin DOMAIN row \/ row[var][1] # "node" THEN Fail(st)
    ELSE LET n == RecordWith(st.graph.nodes, row[var][2]) IN
         Counted(WithNode(st, n, [n EXCEPT !.labels = @ \cup labels]),
                 "labelsAdded", Cardinality(labels))

SetLabels(st, row, var, labels) ==
    IF var \notin DOMAIN row \/ row[var][1] # "node" THEN Fail(st)
    ELSE LET n == RecordWith(st.graph.nodes, row[var][2]) IN
         Counted(WithNode(st, n, [n EXCEPT !.labels = @ \cup labels]),
                 "labelsAdded", Cardinality(labels \ n.labels))

KeyOrder == <<"external_id", "v">>

SetKey(st, row, var, key, entries, values) ==
    LET given == {k \in DOMAIN entries : entries[k][1] = key} IN
    IF given = {} THEN st ELSE SetProperty(st, row, var, key, values[Max(given)])

\* A map is evaluated as a whole before its first property is set; its keys come in
\* order, each once, with the value written last.
SetMap(st, row, var, entries) ==
    LET values == [k \in DOMAIN entries |-> Eval(st.graph, row, entries[k][2])] IN
    IF Error \in ToSet(values) THEN Fail(st)
    ELSE FoldLeft(LAMBDA s, key : SetKey(s, row, var, key, entries, values), st, KeyOrder)

SetItem(st, row, item) ==
    CASE ~st.ok -> st
      [] st.ok /\ item.kind = "property" ->
            SetProperty(st, row, item.var, item.key, Eval(st.graph, row, item.value))
      [] st.ok /\ item.kind = "map" -> SetMap(st, row, item.var, item.entries)
      [] st.ok /\ item.kind = "labels" -> SetLabels(st, row, item.var, item.labels)

RemoveItem(st, row, item) ==
    IF ~st.ok THEN st
    ELSE IF item.var \notin DOMAIN row THEN Fail(st)
    ELSE IF item.kind = "property"
    THEN IF item.key = "external_id" THEN Fail(st)
         ELSE SetProperty(st, row, item.var, item.key, Null)
    ELSE IF row[item.var][1] # "node" THEN Fail(st)
    ELSE LET n == RecordWith(st.graph.nodes, row[item.var][2]) IN
         Counted(WithNode(st, n, [n EXCEPT !.labels = @ \ item.labels]),
                 "labelsRemoved", Cardinality(item.labels \cap n.labels))

\* execute_update: row by row, each row seeing what the rows before it did.
Updated(g, rows, action) ==
    FoldLeft(LAMBDA st, row :
                FoldLeft(LAMBDA s, item : RemoveItem(s, row, item),
                         FoldLeft(LAMBDA s, item : SetItem(s, row, item), st, action.set),
                         action.remove),
             Start(g), rows)

---------------------------------------------------------------------------
(* Deletions *)

DeleteEdge(st, id) == [st EXCEPT !.graph.edges = {e \in @ : e.id # id}]

\* delete_node_in_place: a node that owns a variable is an error, with DETACH too,
\* and without it an incident edge.
DeleteNode(st, id, detach) ==
    LET incident == Incident(st.graph, id) IN
    IF ~st.ok THEN st
    ELSE IF OwnsVariable(st.graph, id) THEN Fail(st)
    ELSE IF ~detach /\ incident # {} THEN Fail(st)
    ELSE [st EXCEPT !.graph.nodes = {n \in @ : n.id # id}, !.graph.edges = @ \ incident]

BoundIds(rows, vars_, kind) ==
    UNION {{row[v][2] : v \in {x \in ToSet(vars_) : row[x][1] = kind}} : row \in ToSet(rows)}

\* Wrong variant: nodes go before the edges.
DeletedNodesFirst(g, rows, action) ==
    LET unbound == \E row \in ToSet(rows), v \in ToSet(action.vars) : v \notin DOMAIN row
        nodes == FoldLeft(LAMBDA s, id : DeleteNode(s, id, action.detach), Start(g),
                          Ascending(BoundIds(rows, action.vars, "node")))
        edges == FoldLeft(DeleteEdge, nodes, Ascending(BoundIds(rows, action.vars, "rel")))
    IN  IF unbound THEN Fail(Start(g))
        ELSE [edges EXCEPT !.counts = [NoCounts EXCEPT
                !.nodesDeleted = Cardinality(g.nodes) - Cardinality(edges.graph.nodes),
                !.relsDeleted = Cardinality(g.edges) - Cardinality(edges.graph.edges)]]

\* execute_delete: all rows are collected, then edges go before nodes.
Deleted(g, rows, action) ==
    LET unbound == \E row \in ToSet(rows), v \in ToSet(action.vars) : v \notin DOMAIN row
        edges == FoldLeft(DeleteEdge, Start(g), Ascending(BoundIds(rows, action.vars, "rel")))
        nodes == FoldLeft(LAMBDA s, id : DeleteNode(s, id, action.detach), edges,
                          Ascending(BoundIds(rows, action.vars, "node")))
    IN  IF unbound THEN Fail(Start(g))
        ELSE [nodes EXCEPT !.counts = [NoCounts EXCEPT
                !.nodesDeleted = Cardinality(g.nodes) - Cardinality(nodes.graph.nodes),
                !.relsDeleted = Cardinality(g.edges) - Cardinality(nodes.graph.edges)]]

---------------------------------------------------------------------------
(* Creation: the state also has the row and the ids of the path so far *)

\* eval_property_map: null and what is not storable are errors, too.
PropValue(g, row, props, key, absent) ==
    LET ks == {k \in DOMAIN props : props[k][1] = key} IN
    IF ks = {} THEN absent ELSE Eval(g, row, props[Max(ks)][2])

PropsStorable(g, row, props) ==
    \A k \in DOMAIN props : Storable(Eval(g, row, props[k][2]))

CreateNode(st, pattern) ==
    LET g     == st.graph
        named == PropValue(g, st.row, pattern.props, "external_id", Null)
        ext   == IF named = Null THEN DefaultName(g.nextNode) ELSE named[2]
        node  == [id |-> g.nextNode, ext |-> ext, labels |-> pattern.labels,
                  val |-> PropValue(g, st.row, pattern.props, "v", Null)]
        made  == [st EXCEPT !.graph.nodes = @ \cup {node}, !.graph.nextNode = @ + 1,
                            !.row = Bound(@, pattern.var, NodeRef(node.id)),
                            !.path = Append(@, node.id)]
    IN  IF ~st.ok THEN st
        ELSE IF pattern.var \in DOMAIN st.row
        THEN [st EXCEPT !.path = Append(@, st.row[pattern.var][2])]
        ELSE IF ~PropsStorable(g, st.row, pattern.props) THEN Fail(st)
        ELSE IF named # Null /\ named[1] # "str" THEN Fail(st)
        ELSE IF \E n \in g.nodes : n.ext = ext THEN Fail(st)
        ELSE Counted(Counted(made, "nodesCreated", 1), "propsSet", Len(pattern.props))

\* Wrong variant: the direction of the pattern is not looked at.
RelEndsOutward(pattern, path, k) == <<path[k], path[k + 1]>>

RelEnds(pattern, path, k) ==
    IF pattern.direction = "out" THEN <<path[k], path[k + 1]>> ELSE <<path[k + 1], path[k]>>

CreateRel(st, pattern, k) ==
    LET g    == st.graph
        ends == RelEnds(pattern, st.path, k)
        edge == [id |-> g.nextEdge, src |-> ends[1], dst |-> ends[2], type |-> pattern.type,
                 val |-> PropValue(g, st.row, pattern.props, "v", Null)]
        made == [st EXCEPT !.graph.edges = @ \cup {edge}, !.graph.nextEdge = @ + 1,
                           !.row = Bound(@, pattern.var, RelRef(edge.id))]
    IN  IF ~st.ok THEN st
        ELSE IF \/ pattern.direction = "both"
                \/ pattern.var \in DOMAIN st.row
                \/ pattern.type = NoType
                \/ ~PropsStorable(g, st.row, pattern.props)
        THEN Fail(st)
        ELSE Counted(Counted(made, "relsCreated", 1), "propsSet", Len(pattern.props))

\* create_pattern: all its nodes, then its relationships.
Created(g, pattern) ==
    LET nodes == FoldLeft(CreateNode,
                          [ok |-> TRUE, graph |-> g, counts |-> NoCounts,
                           row |-> NoRow, path |-> <<>>],
                          pattern.nodes)
    IN  FoldLeft(LAMBDA st, k : CreateRel(st, pattern.rels[k], k), nodes,
                 [k \in DOMAIN pattern.rels |-> k])

---------------------------------------------------------------------------
(* Execution *)

Outcome(st, keys, records) ==
    [ok |-> st.ok, graph |-> st.graph, keys |-> keys, records |-> records, counts |-> st.counts]

\* A projection that fails makes the statement fail after its effects.
Returned(st, rows, projection) ==
    IF ~st.ok \/ projection = NoProjection THEN Outcome(st, <<>>, <<>>)
    ELSE LET p == Projected(st.graph, rows, projection) IN
         Outcome([st EXCEPT !.ok = p.ok], Keys(projection), p.records)

NodeVars(patterns) ==
    (UNION {{p.nodes[k].var : k \in DOMAIN p.nodes} : p \in ToSet(patterns)}) \ {NoVar}
RelVars(patterns) ==
    (UNION {{p.rels[k].var : k \in DOMAIN p.rels} : p \in ToSet(patterns)}) \ {NoVar}

\* validate_match_action: labels belong to nodes, and variables to the pattern.
ActionValid(s) ==
    LET vars_ == NodeVars(s.patterns) \cup RelVars(s.patterns)
        items == ToSet(s.action.set) \cup ToSet(s.action.remove)
    IN  CASE s.action.kind = "return" -> TRUE
          [] s.action.kind = "update" ->
                \A i \in items : i.var \in IF i.kind = "labels" THEN NodeVars(s.patterns)
                                          ELSE vars_
          [] s.action.kind = "delete" -> ToSet(s.action.vars) \subseteq vars_

OrNoRow(rows, optional) == IF optional /\ rows = <<>> THEN <<NoRow>> ELSE rows

KeptRows(g, s, found) ==
    [ok |-> found.ok, rows |-> OrNoRow(Filtered(g, found.rows, s.where), s.optional)]

MatchedRows(g, s) == KeptRows(g, s, MatchPatterns(g, s.patterns))

Acted(g, rows, action) ==
    CASE action.kind = "return" -> Returned(Start(g), rows, action.projection)
      [] action.kind = "update" -> Returned(Updated(g, rows, action), rows, action.projection)
      [] action.kind = "delete" -> Outcome(Deleted(g, rows, action), <<>>, <<>>)

ActedOn(g, s, matched) ==
    IF ~ActionValid(s) \/ ~matched.ok THEN Outcome(Fail(Start(g)), <<>>, <<>>)
    ELSE Acted(g, matched.rows, s.action)

ExecuteMatch(g, s) == ActedOn(g, s, MatchedRows(g, s))

ReturnRow(made, projection) == Returned(made, <<made.row>>, projection)

ExecuteCreate(g, s) == ReturnRow(Created(g, s.pattern), s.projection)

FoundOrCreated(g, s, found) ==
    IF ~found.ok THEN Outcome(Fail(Start(g)), <<>>, <<>>)
    ELSE IF found.rows # <<>> THEN Returned(Start(g), <<found.rows[1]>>, s.projection)
    ELSE ExecuteCreate(g, s)

\* The first match is returned; without one the whole pattern is created.
ExecuteMerge(g, s) == FoundOrCreated(g, s, MatchPattern(g, s.pattern))

ExecuteOne(g, s, writable) ==
    CASE Writes(s) /\ ~writable -> Outcome(Fail(Start(g)), <<>>, <<>>)
      [] s.kind = "return" -> Returned(Start(g), <<NoRow>>, s.projection)
      [] s.kind = "match" /\ (writable \/ ~Writes(s)) -> ExecuteMatch(g, s)
      [] s.kind = "create" /\ writable -> ExecuteCreate(g, s)
      [] s.kind = "merge" /\ writable -> ExecuteMerge(g, s)

\* A branch after those before it: columns are compared once it has run, and
\* nothing is counted.
AndThen(all, first, branch) ==
    IF ~all.ok THEN all
    ELSE [all EXCEPT !.graph = branch.graph,
                     !.ok = branch.ok /\ (first \/ branch.keys = all.keys),
                     !.keys = IF first THEN branch.keys ELSE @,
                     !.records = @ \o branch.records]

NextBranch(all, first, s, writable) ==
    AndThen(all, first, ExecuteOne(all.graph, s, writable))

ExecuteUnion(g, branches, writable) ==
    FoldLeft(LAMBDA all, k : NextBranch(all, k = 1, branches[k], writable),
             Outcome(Start(g), <<>>, <<>>), [k \in DOMAIN branches |-> k])

Execute(g, s, writable) ==
    IF s.kind = "union" THEN ExecuteUnion(g, s.branches, writable)
    ELSE ExecuteOne(g, s, writable)

---------------------------------------------------------------------------
(* Sessions: what the handle's graph and the transaction go through *)

InBounds(g) == g.nextNode <= MaxNodes /\ g.nextEdge <= MaxEdges

Init == core = NoGraph /\ tx = IdleTx

\* A copy that is no different is not published, and a read statement's copy is
\* dropped.
Publish(r, write) ==
    /\ InBounds(r.graph)
    /\ core' = IF write /\ r.ok THEN r.graph ELSE core
    /\ tx' = IF tx.active /\ core' # core THEN [tx EXCEPT !.current = FALSE] ELSE tx

\* A write statement runs on a copy, published only if it succeeds.
Autocommit(s) == Publish(Execute(core, s, IsWrite(s)), IsWrite(s))

Begin ==
    /\ ~tx.active
    /\ \E write \in BOOLEAN :
        tx' = [active |-> TRUE, write |-> write, staged |-> core, current |-> TRUE, ran |-> 0]
    /\ UNCHANGED core

Stage(r) ==
    /\ InBounds(r.graph)
    /\ tx' = [tx EXCEPT !.staged = IF r.ok THEN r.graph ELSE @, !.ran = @ + 1]
    /\ UNCHANGED core

\* A statement of a transaction runs on a copy, too, which replaces the staged
\* graph if it succeeds.
Run(s) ==
    /\ tx.active /\ tx.ran < MaxRuns
    /\ Stage(Execute(tx.staged, s, tx.write))

\* The commit of a graph that is not current fails and ends nothing; a read
\* transaction has nothing to commit.  publish_staged leaves the variables alone.
Commit ==
    /\ tx.active
    /\ tx.write => tx.current
    /\ core' = IF tx.write THEN [tx.staged EXCEPT !.owned = core.owned] ELSE core
    /\ tx' = IdleTx

Rollback ==
    /\ tx.active
    /\ tx' = IdleTx
    /\ UNCHANGED core

\* add_variable with an owner, between statements: mutation_version does not move.
AddVariable(owner) ==
    /\ Cardinality(core.owned) < MaxOwned
    /\ owner \in IdsOf(core.nodes)
    /\ core' = [core EXCEPT !.owned = @ \cup {[id |-> Cardinality(@), owner |-> owner]}]
    /\ UNCHANGED tx

Next ==
    \/ \E s \in Statement : Autocommit(s) \/ Run(s)
    \/ Begin \/ Commit \/ Rollback
    \/ \E owner \in IdsOf(core.nodes) : AddVariable(owner)

Spec == Init /\ [][Next]_vars

---------------------------------------------------------------------------
(* The reference: a pattern is laid over the graph as a whole *)

\* The graph that statements see.
Here == IF tx.active THEN tx.staged ELSE core

\* What each variable of a laid pattern stands for; a set of pairs, since it
\* may stand for two things.
Pairs(p, ns, es) ==
    {<<p.nodes[k].var, NodeRef(ns[k])>> : k \in DOMAIN p.nodes}
        \cup {<<p.rels[k].var, RelRef(es[k])>> : k \in DOMAIN p.rels}
Named(pairs) == {q \in pairs : q[1] # NoVar}
Unambiguous(pairs) == \A q, r \in pairs : q[1] = r[1] => q[2] = r[2]
RowOf(pairs) == [v \in {q[1] : q \in pairs} |-> (CHOOSE q \in pairs : q[1] = v)[2]]

Lies(g, p, ns, es) ==
    LET pairs == Named(Pairs(p, ns, es))
        row   == RowOf(pairs)
    IN  /\ \A k \in DOMAIN p.rels :
            LET e == RecordWith(g.edges, es[k]) IN
            \/ p.rels[k].direction # "in" /\ <<e.src, e.dst>> = <<ns[k], ns[k + 1]>>
            \/ p.rels[k].direction # "out" /\ <<e.dst, e.src>> = <<ns[k], ns[k + 1]>>
        /\ Unambiguous(pairs)
        /\ \A k \in DOMAIN p.nodes :
                NodeVerdict(g, row, p.nodes[k], RecordWith(g.nodes, ns[k])) = "match"
        /\ \A k \in DOMAIN p.rels :
                RelVerdict(g, row, p.rels[k], RecordWith(g.edges, es[k])) = "match"

Layings(g, p) ==
    {l \in [DOMAIN p.nodes -> IdsOf(g.nodes)] \X [DOMAIN p.rels -> IdsOf(g.edges)] :
        Lies(g, p, l[1], l[2])}

\* The variables an expression asks about, and a property list.
VarsOf(expr) == IF expr[1] \in {"property", "id", "variable"} THEN {expr[2]} ELSE {}
Uses(props) == UNION {VarsOf(props[k][2]) : k \in DOMAIN props}

\* A property of a pattern only asks about variables bound before it is tested.
LeftToRightIn(p) ==
    LET nodesTo(k) == {p.nodes[j].var : j \in 1..k}
        relsTo(k)  == {p.rels[j].var : j \in 1..k}
    IN  /\ \A k \in DOMAIN p.nodes : Uses(p.nodes[k].props) \subseteq nodesTo(k) \cup relsTo(k - 1)
        /\ \A k \in DOMAIN p.rels : Uses(p.rels[k].props) \subseteq nodesTo(k) \cup relsTo(k)
LeftToRight(patterns) == \A p \in ToSet(patterns) : LeftToRightIn(p)

\* A node that occurs again is bare where it does, and no key is given twice.
Repeatable(p) ==
    LET KeysDiffer(props) == \A i, j \in DOMAIN props : props[i][1] = props[j][1] => i = j IN
    /\ LeftToRightIn(p)
    /\ \A j, k \in DOMAIN p.nodes :
            j < k /\ p.nodes[j].var = p.nodes[k].var /\ p.nodes[j].var # NoVar =>
                p.nodes[k].labels = {} /\ p.nodes[k].props = <<>>
    /\ \A k \in DOMAIN p.nodes : KeysDiffer(p.nodes[k].props)
    /\ \A k \in DOMAIN p.rels : KeysDiffer(p.rels[k].props)

\* What the variables of several laid patterns stand for.
AllPairs(patterns, c) == UNION {Named(Pairs(patterns[k], c[k][1], c[k][2])) : k \in DOMAIN patterns}

\* One laying of each pattern, the variables they share standing for the same.
Combinations(g, patterns) ==
    LET layings == [k \in DOMAIN patterns |-> Layings(g, patterns[k])] IN
    {c \in [DOMAIN patterns -> UNION {layings[k] : k \in DOMAIN patterns}] :
        (\A k \in DOMAIN patterns : c[k] \in layings[k]) /\ Unambiguous(AllPairs(patterns, c))}

RowFrom(patterns, c) == RowOf(AllPairs(patterns, c))

---------------------------------------------------------------------------
(* What statements promise *)

\* No sequence of statements, failed ones included, leaves a graph with two nodes
\* of one name, an edge without its ends, or an id the next record would reuse:
\* whatever a transaction commits is a graph (mod.rs:216-256, 580-1009).
GraphsSound ==
    \A g \in {core, Here} :
        /\ Consistent(g)
        /\ NextAfter(IdsOf(g.nodes)) <= g.nextNode
        /\ NextAfter(IdsOf(g.edges)) <= g.nextEdge

FoundOnce(found, patterns, all) ==
    found.ok =>
        /\ Len(found.rows) = Cardinality(all)
        /\ \A row \in ToSet(found.rows) \cup {RowFrom(patterns, c) : c \in all} :
                Cardinality({k \in DOMAIN found.rows : found.rows[k] = row})
                    = Cardinality({c \in all : RowFrom(patterns, c) = row})

\* Matching finds every way to lay the patterns over the graph, once each: edges
\* may repeat, undirected patterns meet a self-loop once, and repeated or shared
\* variables stand for one thing (mod.rs:1011-1202).
RowsExact ==
    \A s \in {x \in Statement : x.kind = "match" /\ LeftToRight(x.patterns)} :
        FoundOnce(MatchPatterns(Here, s.patterns), s.patterns, Combinations(Here, s.patterns))

NothingNew(again, g) == again.ok /\ again.graph = g /\ again.counts = NoCounts

MergedOnce(s, r) ==
    r.ok => /\ r.graph = Here <=> Layings(Here, s.pattern) # {}
            /\ NothingNew(ExecuteMerge(r.graph, s), r.graph)

\* MERGE creates exactly when its pattern lies nowhere, and then once: a retry
\* finds what was created.  So for patterns that say everything about a variable
\* where it first occurs ("Exact-pattern match-or-create",
\* docs/design/cypher-compatibility.md; mod.rs:905-924).
MergeExact ==
    \A s \in {x \in Statement : x.kind = "merge" /\ Repeatable(x.pattern)} :
        MergedOnce(s, ExecuteMerge(Here, s))

Present(R) == Cardinality({r \in R : r.val # Null})
LabelsOf(R) == MapThenSumSet(LAMBDA n : Cardinality(n.labels), R)
Survivors(R, S) == {r \in R : r.id \in IdsOf(S)}

Accounted(c, g, h) ==
    /\ c.nodesCreated = Cardinality(IdsOf(h.nodes) \ IdsOf(g.nodes))
    /\ c.relsCreated = Cardinality(IdsOf(h.edges) \ IdsOf(g.edges))
    /\ c.nodesDeleted = Cardinality(IdsOf(g.nodes) \ IdsOf(h.nodes))
    /\ c.relsDeleted = Cardinality(IdsOf(g.edges) \ IdsOf(h.edges))
    /\ c.labelsAdded - c.labelsRemoved
            = LabelsOf(Survivors(h.nodes, g.nodes)) - LabelsOf(Survivors(g.nodes, h.nodes))
    /\ Present(Survivors(h.nodes, g.nodes)) + Present(Survivors(h.edges, g.edges))
            <= Present(Survivors(g.nodes, h.nodes)) + Present(Survivors(g.edges, h.edges))
                + c.propsSet - c.propsRemoved
    /\ c = NoCounts => h = g

CountsAccountFor(r) == r.ok => Accounted(r.counts, Here, r.graph)

\* The counters of a statement account for the difference it made, over all its
\* rows, some of which undo what others did (mod.rs:580-1009).
CountsTrue ==
    \A s \in Statement :
        CountsAccountFor(Execute(Here, s, TRUE))

Gone(g, nodes, edges, at, detach, r) ==
    /\ r.ok <=> /\ nodes \cap {v.owner : v \in g.owned} = {}
                /\ detach \/ at \subseteq edges
    /\ r.ok => /\ IdsOf(r.graph.nodes) = IdsOf(g.nodes) \ nodes
               /\ IdsOf(r.graph.edges) = IdsOf(g.edges) \ (edges \cup at)

DeletedFrom(g, rows, action, r) ==
    LET nodes == BoundIds(rows, action.vars, "node") IN
    Gone(g, nodes, BoundIds(rows, action.vars, "rel"),
         IdsOf(UNION {Incident(g, id) : id \in nodes}), action.detach, r)

\* DELETE depends on the set of what its rows bind, not on their order: it fails
\* if and only if a bound node owns a variable or, without DETACH, an edge would be
\* left without its end; otherwise it removes what was bound and, with DETACH, the
\* edges at it ("Multiple bindings are deduplicated", "Nodes that own probabilistic
\* variables are protected", docs/design/cypher-compatibility.md:47-48;
\* mod.rs:834-879, mutations.rs:136-173).
DeletesExact ==
    \A s \in {x \in Statement : x.kind = "match" /\ x.action.kind = "delete"} :
        ActionValid(s) /\ MatchedRows(Here, s).ok =>
            DeletedFrom(Here, MatchedRows(Here, s).rows, s.action, ExecuteMatch(Here, s))
=============================================================================
