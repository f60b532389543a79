---------------------------- MODULE GraphQueries ----------------------------
(***************************************************************************)
(* The structured query engine: a path of node and edge patterns, matched  *)
(* from the node pattern with the fewest candidates, first to its left,    *)
(* then to its right, up to a limit of rows.                               *)
(*                                                                         *)
(* A query is [path, returns, limit].  In path, odd places hold node       *)
(* patterns [alias, id, ext], even places edge patterns                    *)
(* [alias, id, direction, where].  Labels and property filters of a node   *)
(* are looked up and tested as its external id is; type and filters of an  *)
(* edge are where, a filter [type, op, value] on type and weight.          *)
(***************************************************************************)
EXTENDS GraphReads
LOCAL INSTANCE SequencesExt

CONSTANTS
    NoAlias,   \* an edge pattern without an alias
    NoId,      \* a pattern without an id
    NoLimit    \* a query without a limit

---------------------------------------------------------------------------
(* Patterns *)

\* properties_match: a missing property passes no filter, "ne" included.
WeightPasses(weight, op, value) ==
    /\ weight # NoWeight
    /\ \/ op = "eq" /\ weight = value
       \/ op = "ne" /\ weight # value
       \/ op = "lt" /\ weight < value
       \/ op = "gte" /\ weight >= value

EdgeMatches(g, pattern, i) ==
    LET e == EdgeRecordOf(g, i) IN
    /\ pattern.id \in {NoId, i}
    /\ OfType(e, pattern.where.type)
    /\ pattern.where.op = "any" \/ WeightPasses(e.prop.weight, pattern.where.op,
                                                pattern.where.value)

NodeMatches(g, pattern, id) ==
    \E n \in g.nodes : /\ n.id = id
                       /\ pattern.id \in {NoId, id}
                       /\ pattern.ext \in {NoName, n.ext}

\* node_candidates: what the indexes offer, then the record itself.
Indexed(g, pattern) ==
    LET live == IdsOf(g.nodes) IN
    (IF pattern.id = NoId THEN live ELSE live \cap {pattern.id})
        \cap (IF pattern.ext = NoName THEN live
              ELSE {p[2] : p \in {q \in g.byName : q[1] = pattern.ext}})

Candidates(g, pattern) ==
    Ascending({i \in Indexed(g, pattern) : NodeMatches(g, pattern, i)})

\* choose_anchor: the first of the node patterns with the fewest candidates.
Anchor(g, path) ==
    LET places == {i \in DOMAIN path : i % 2 = 1}
        Count(i) == Len(Candidates(g, path[i]))
    IN  CHOOSE i \in places :
            \A j \in places : Count(i) < Count(j) \/ (Count(i) = Count(j) /\ i <= j)

---------------------------------------------------------------------------
(* Rows: functions from aliases to ids *)

NoRow == [a \in {} |-> 0]

Bindable(row, alias, id) == alias = NoAlias \/ alias \notin DOMAIN row \/ row[alias] = id

Bound(row, alias, id) ==
    IF alias = NoAlias THEN row
    ELSE [a \in DOMAIN row \cup {alias} |-> IF a = alias THEN id ELSE row[a]]

\* Wrong variant: a self-loop is met from both ends.
StepsBothTwice(g, id) == AllSteps(g, id, "both", AnyType)

\* query_steps_both: a self-loop is met once.
StepsBoth(g, id) ==
    LET out == Steps(g, id, "out", AnyType)
        in  == Steps(g, id, "in", AnyType)
        Unseen(s) == \A k \in DOMAIN out : out[k].edge # s.edge
    IN  out \o SelectSeq(in, Unseen)

\* The steps that lead to the pattern on the given side of a node.
QuerySteps(g, id, direction, rightwards) ==
    IF direction = "both" THEN StepsBoth(g, id)
    ELSE Steps(g, id, IF (direction = "out") <=> rightwards THEN "out" ELSE "in", AnyType)

\* The row after a step over the edge pattern to the node pattern, if it fits.
Extended(g, edge, node, row, step) ==
    LET withEdge == Bound(row, edge.alias, step.edge) IN
    IF /\ EdgeMatches(g, edge, step.edge)
       /\ NodeMatches(g, node, step.node)
       /\ Bindable(row, edge.alias, step.edge)
       /\ Bindable(withEdge, node.alias, step.node)
    THEN {Bound(withEdge, node.alias, step.node)}
    ELSE {}

RECURSIVE ExpandLeft(_, _, _, _, _)
ExpandLeft(g, path, place, id, row) ==
    IF place = 1 THEN <<row>>
    ELSE LET steps == QuerySteps(g, id, path[place - 1].direction, FALSE) IN
         FlattenSeq([k \in DOMAIN steps |->
            LET next == Extended(g, path[place - 1], path[place - 2], row, steps[k]) IN
            IF next = {} THEN <<>>
            ELSE ExpandLeft(g, path, place - 2, steps[k].node, CHOOSE r \in next : TRUE)])

Full(limit, rows) == limit # NoLimit /\ Len(rows) >= limit

Projected(row, returns) == [a \in returns \cap DOMAIN row |-> row[a]]

RECURSIVE ExpandRight(_, _, _, _, _, _)
ExpandRight(g, query, place, id, row, rows) ==
    IF Full(query.limit, rows) THEN rows
    ELSE IF place = Len(query.path) THEN Append(rows, Projected(row, query.returns))
    ELSE LET edge == query.path[place + 1]
             node == query.path[place + 2]
         IN  FoldLeft(LAMBDA found, s :
                        LET next == Extended(g, edge, node, row, s) IN
                        IF next = {} \/ Full(query.limit, found) THEN found
                        ELSE ExpandRight(g, query, place + 2, s.node,
                                         CHOOSE r \in next : TRUE, found),
                      rows, QuerySteps(g, id, edge.direction, TRUE))

\* query: each candidate of the anchor, each match to its left, then its right.
Rows(g, query) ==
    LET anchor  == Anchor(g, query.path)
        pattern == query.path[anchor]
        starts  == Candidates(g, pattern)
        From(id, rows) ==
            FoldLeft(LAMBDA found, left :
                        IF Full(query.limit, found) THEN found
                        ELSE ExpandRight(g, query, anchor, left[pattern.alias], left, found),
                     rows, ExpandLeft(g, query.path, anchor, id, Bound(NoRow, pattern.alias, id)))
    IN  FoldLeft(LAMBDA found, id : From(id, found), <<>>, starts)
=============================================================================
