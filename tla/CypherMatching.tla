--------------------------- MODULE CypherMatching ---------------------------
(***************************************************************************)
(* What a parsed Cypher query reads from a graph: expressions, patterns,   *)
(* predicates and projections.                                             *)
(*                                                                         *)
(* A node has its external id, its labels and one property "v", an edge    *)
(* its type and one property "v".  Values are tuples that start with their *)
(* kind; property expressions, patterns, items and projections are those   *)
(* of the parser's syntax tree.                                            *)
(***************************************************************************)
EXTENDS GraphState, SequencesExt

CONSTANTS
    NoVar,        \* a pattern without a variable
    NoType,       \* a relationship pattern without a type
    NoBound       \* a projection without SKIP or LIMIT

Null == <<"null">>
Error == <<"error">>
Number(i) == <<"int", i>>
Text(s) == <<"str", s>>
NodeRef(id) == <<"node", id>>
RelRef(id) == <<"rel", id>>

RecordWith(R, id) == CHOOSE r \in R : r.id = id
Replace(R, r, new) == (R \ {r}) \cup {new}
MinOf(a, b) == IF a < b THEN a ELSE b

\* The elements of a list that are in S, in order.
Kept(s, S) == FoldLeft(LAMBDA kept, x : IF x \in S THEN Append(kept, x) ELSE kept, <<>>, s)

Ascending(S) == [k \in 1..Cardinality(S) |->
                    CHOOSE i \in S : Cardinality({j \in S : j <= i}) = k]

InIdOrder(R) == LET ids == Ascending(IdsOf(R)) IN [k \in DOMAIN ids |-> RecordWith(R, ids[k])]

---------------------------------------------------------------------------
(* Values and expressions: rows are functions from variables to references *)

NoRow == [v \in {} |-> Null]

\* as_property_value
Storable(value) == value[1] \in {"int", "str"}

\* values_equal: null, a list and a map equal nothing, themselves included.
ValuesEqual(a, b) == a[1] \notin {"null", "list", "map"} /\ a = b

\* compare_values: what is not comparable is not less.
LessThan(a, b) == a[1] = "int" /\ b[1] = "int" /\ a[2] < b[2]

\* compare_for_sort: null last; what is not comparable counts as equal.
SortsBefore(a, b) == a # Null /\ (b = Null \/ LessThan(a, b))

NodeValue(n, key) == CASE key = "v" -> n.val
                       [] key = "external_id" -> Text(n.ext)
                       [] OTHER -> Null
RelValue(e, key) == IF key = "v" THEN e.val ELSE Null

Live(g, ref) == ref[2] \in IdsOf(IF ref[1] = "node" THEN g.nodes ELSE g.edges)

\* A property of what a variable stands for; null when it stands for nothing.
PropertyOf(g, row, var, key) ==
    IF var \notin DOMAIN row THEN Null
    ELSE IF ~Live(g, row[var]) THEN Null
    ELSE IF row[var][1] = "node" THEN NodeValue(RecordWith(g.nodes, row[var][2]), key)
    ELSE RelValue(RecordWith(g.edges, row[var][2]), key)

\* eval_expr; a missing parameter and a misplaced aggregate are errors.
Eval(g, row, expr) ==
    CASE expr[1] = "literal" -> expr[2]
      [] expr[1] = "property" -> PropertyOf(g, row, expr[2], expr[3])
      [] expr[1] = "id" -> IF expr[2] \in DOMAIN row THEN Number(row[expr[2]][2]) ELSE Null
      [] expr[1] = "variable" ->
            IF expr[2] \in DOMAIN row /\ Live(g, row[expr[2]]) THEN row[expr[2]] ELSE Null
      [] OTHER -> Error

---------------------------------------------------------------------------
(* Matching: a pattern is [nodes, rels], with one rel less than nodes *)

Bindable(row, var, ref) == var = NoVar \/ var \notin DOMAIN row \/ row[var] = ref

Bound(row, var, ref) ==
    IF var = NoVar THEN row
    ELSE [v \in DOMAIN row \cup {var} |-> IF v = var THEN ref ELSE row[v]]

Compared(actual, expected) ==
    IF expected = Error THEN "error"
    ELSE IF ValuesEqual(actual, expected) THEN "match" ELSE "differ"

\* The properties of a pattern, in order, up to the first that decides.
FirstDecided(verdicts) ==
    LET decided == {k \in DOMAIN verdicts : verdicts[k] # "match"} IN
    IF decided = {} THEN "match"
    ELSE verdicts[CHOOSE k \in decided : \A j \in decided : k <= j]

NodeVerdict(g, row, pattern, n) ==
    IF ~(pattern.labels \subseteq n.labels) THEN "differ"
    ELSE FirstDecided([k \in DOMAIN pattern.props |->
            Compared(NodeValue(n, pattern.props[k][1]), Eval(g, row, pattern.props[k][2]))])

RelVerdict(g, row, pattern, e) ==
    IF pattern.type \notin {NoType, e.type} THEN "differ"
    ELSE FirstDecided([k \in DOMAIN pattern.props |->
            Compared(RelValue(e, pattern.props[k][1]), Eval(g, row, pattern.props[k][2]))])

\* Wrong variant: an undirected pattern meets a self-loop from both ends.
FarEndsTwice(e, direction, id) ==
    (IF direction \in {"out", "both"} /\ e.src = id THEN <<e.dst>> ELSE <<>>)
        \o (IF direction \in {"in", "both"} /\ e.dst = id THEN <<e.src>> ELSE <<>>)

\* Where an edge leads from a node, in the direction of the pattern.
FarEnds(e, direction, id) ==
    IF direction \in {"out", "both"} /\ e.src = id THEN <<e.dst>>
    ELSE IF direction \in {"in", "both"} /\ e.dst = id THEN <<e.src>>
    ELSE <<>>

\* A way to match a pattern up to some node: whether that last step fits, the
\* row bound so far, and the node.
Way(verdict, row, id) == [fits |-> verdict, row |-> row, at |-> id]

\* One edge: bound, tested, then its far node bound and tested.
ThroughEdge(g, pattern, k, e, far, row) ==
    LET rel      == pattern.rels[k]
        node     == pattern.nodes[k + 1]
        withRel  == Bound(row, rel.var, RelRef(e.id))
        withNode == Bound(withRel, node.var, NodeRef(far))
        relFits  == RelVerdict(g, withRel, rel, e)
    IN  Way(IF ~Bindable(row, rel.var, RelRef(e.id)) THEN "differ"
            ELSE IF relFits # "match" THEN relFits
            ELSE IF ~Bindable(withRel, node.var, NodeRef(far)) THEN "differ"
            ELSE NodeVerdict(g, withNode, node, RecordWith(g.nodes, far)),
            withNode, far)

\* Every edge of the graph is tried, again for every relationship pattern.
Steps(g, direction, id) ==
    LET ends(e) == FarEnds(e, direction, id)
        edges   == InIdOrder(g.edges)
    IN  FlattenSeq([i \in DOMAIN edges |->
            [j \in DOMAIN ends(edges[i]) |-> <<edges[i], ends(edges[i])[j]>>]])

Tried(g, pattern, k, way) ==
    LET steps == Steps(g, pattern.rels[k].direction, way.at) IN
    [j \in DOMAIN steps |-> ThroughEdge(g, pattern, k, steps[j][1], steps[j][2], way.row)]

\* An error fails the match as a whole, whichever way it is met on.
Fitting(ok, ways) ==
    [ok |-> ok /\ \A i \in DOMAIN ways : ways[i].fits # "error",
     ways |-> Kept(ways, {way \in ToSet(ways) : way.fits = "match"})]

\* expand_match, for the k-th relationship of all the ways found before: what its
\* depth-first search meets is met in the same order.
ExpandMatch(g, pattern, found, k) ==
    Fitting(found.ok, FlattenSeq([i \in DOMAIN found.ways |-> Tried(g, pattern, k, found.ways[i])]))

StartMatch(g, pattern) ==
    LET nodes  == InIdOrder(g.nodes)
        row(n) == Bound(NoRow, pattern.nodes[1].var, NodeRef(n.id))
    IN  Fitting(TRUE, [i \in DOMAIN nodes |->
            Way(NodeVerdict(g, row(nodes[i]), pattern.nodes[1], nodes[i]),
                row(nodes[i]), nodes[i].id)])

RowsOf(found) == [ok |-> found.ok, rows |-> [i \in DOMAIN found.ways |-> found.ways[i].row]]

MatchPattern(g, pattern) ==
    RowsOf(FoldLeft(LAMBDA found, k : ExpandMatch(g, pattern, found, k), StartMatch(g, pattern),
                    [k \in DOMAIN pattern.rels |-> k]))

\* merge_bindings
Agree(a, b) == \A v \in DOMAIN a \cap DOMAIN b : a[v] = b[v]
Merged(a, b) == [v \in DOMAIN a \cup DOMAIN b |-> IF v \in DOMAIN a THEN a[v] ELSE b[v]]

Joined(left, right) ==
    FlattenSeq([i \in DOMAIN left |->
        LET fitting == Kept(right, {r \in ToSet(right) : Agree(left[i], r)}) IN
        [j \in DOMAIN fitting |-> Merged(left[i], fitting[j])]])

\* A pattern that is not reached cannot fail.
WithPattern(found, own) ==
    IF ~found.ok \/ found.rows = <<>> THEN found
    ELSE IF ~own.ok THEN [found EXCEPT !.ok = FALSE]
    ELSE [found EXCEPT !.rows = Joined(@, own.rows)]

MatchPatterns(g, patterns) ==
    FoldLeft(LAMBDA found, p : WithPattern(found, MatchPattern(g, p)),
             [ok |-> TRUE, rows |-> <<NoRow>>], patterns)

\* predicate_matches: an error makes a predicate false.  Strings are compared
\* for equality only.
Holds(g, row, predicate) ==
    LET left  == Eval(g, row, predicate.left)
        right == Eval(g, row, predicate.right)
    IN  /\ left # Error /\ right # Error
        /\ \/ predicate.op = "=" /\ ValuesEqual(left, right)
           \/ predicate.op = "<>" /\ ~ValuesEqual(left, right)
           \/ predicate.op = "<" /\ LessThan(left, right)
           \/ /\ predicate.op = "IN" /\ right[1] = "list"
              /\ \E k \in DOMAIN right[2] : ValuesEqual(left, right[2][k])

Filtered(g, rows, where) ==
    Kept(rows, {row \in ToSet(rows) : \A k \in DOMAIN where : Holds(g, row, where[k])})
---------------------------------------------------------------------------
(* Projection: [items, orderBy, descending, skip, limit], an item being    *)
(* [alias, expr]; orderBy is an expression or an alias.                    *)

Keys(projection) == [k \in DOMAIN projection.items |-> projection.items[k].alias]

IsCount(expr) == expr[1] \in {"count", "countAll"}

\* Rows in which the variable is bound; what it stands for is not looked at.
Count(rows, expr) ==
    IF expr[1] = "countAll" THEN Len(rows)
    ELSE Len(SelectSeq(rows, LAMBDA row : expr[2] \in DOMAIN row))

RecordOf(g, row, items) == [k \in DOMAIN items |-> Eval(g, row, items[k].expr)]

\* An ORDER BY that names a returned column takes its value.
SortKey(g, row, projection) ==
    LET e       == projection.orderBy
        columns == {k \in DOMAIN projection.items :
                        e[1] = "variable" /\ projection.items[k].alias = e[2]}
    IN  IF e = Null THEN Null
        ELSE IF columns = {} THEN Eval(g, row, e)
        ELSE Eval(g, row, projection.items[CHOOSE k \in columns : \A j \in columns : k <= j].expr)

\* Insertion after every row that does not come later: the sort is stable.
Inserted(sorted, x, descending) ==
    LET Later(y) == IF descending THEN SortsBefore(y.key, x.key) ELSE SortsBefore(x.key, y.key)
        later    == {k \in DOMAIN sorted : Later(sorted[k])}
        at       == IF later = {} THEN Len(sorted) + 1
                    ELSE CHOOSE k \in later : \A j \in later : k <= j
    IN  InsertAt(sorted, at, x)

Window(records, skip, limit) ==
    SubSeq(records, 1 + (IF skip = NoBound THEN 0 ELSE skip),
           IF limit = NoBound THEN Len(records)
           ELSE MinOf(Len(records), limit + (IF skip = NoBound THEN 0 ELSE skip)))

\* project_rows; counts take the place of sorting and of the window.
Projected(g, rows, projection) ==
    LET items == projection.items
        keyed == [k \in DOMAIN rows |-> [values |-> RecordOf(g, rows[k], items),
                                        key |-> SortKey(g, rows[k], projection)]]
        sorted == IF projection.orderBy = Null THEN keyed
                  ELSE FoldLeft(LAMBDA s, x : Inserted(s, x, projection.descending), <<>>, keyed)
    IN  IF \A k \in DOMAIN items : IsCount(items[k].expr)
        THEN [ok |-> TRUE,
              records |-> <<[k \in DOMAIN items |-> Number(Count(rows, items[k].expr))]>>]
        ELSE [ok |-> \A x \in ToSet(keyed) : x.key # Error /\ Error \notin ToSet(x.values),
              records |-> Window([k \in DOMAIN sorted |-> sorted[k].values],
                                 projection.skip, projection.limit)]
=============================================================================
