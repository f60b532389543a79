--------------------------- MODULE MCMemoryGraph ---------------------------
(* Instances of MemoryGraph for TLC: names, edge properties and queries. *)
EXTENDS MemoryGraph, TLC

MCDefaultName(i) == "node:" \o ToString(i)
\* Nodes keep their default names here: renames are the handles' runs'.
MCNames == {}

\* One type has weights, the other has none.
MCProps == {[type |-> "x", weight |-> 3], [type |-> "y", weight |-> NoWeight]}

MCEnds == {<<0, 0>>, <<0, 1>>, <<0, 2>>, <<2, 1>>}
MCDamping == <<1, 2>>

\* Bound: the self-loop and the edge that closes the triangle have one type.
Small == \A e \in graph.edges : <<e.src, e.dst>> \in {<<0, 0>>, <<0, 2>>} => e.prop.type = "x"
MCSpec == Init /\ [][Next /\ Small']_vars

NodePattern(alias, ext) == [alias |-> alias, id |-> NoId, ext |-> ext]
EdgePattern(alias, direction, type, op, value) ==
    [alias |-> alias, id |-> NoId, direction |-> direction,
     where |-> [type |-> type, op |-> op, value |-> value]]
AnyEdge(alias, direction) == EdgePattern(alias, direction, AnyType, "any", 0)
Node(alias) == NodePattern(alias, NoName)

\* A named far end, a cycle by a repeated alias, an edge met twice, parallel
\* edges without an alias, filters, and limits.
MCQueries ==
    {[path |-> <<Node("u"), AnyEdge("e", "out"), Node("v"), AnyEdge("f", "both"),
                 NodePattern("w", MCDefaultName(1))>>,
      returns |-> {"u", "e", "w"}, limit |-> 1],
     [path |-> <<Node("u"), AnyEdge("e", "both"), Node("v"), AnyEdge("f", "in"), Node("u")>>,
      returns |-> {"u", "v"}, limit |-> 2],
     [path |-> <<NodePattern("u", MCDefaultName(0)), AnyEdge("e", "both"), Node("v"),
                 AnyEdge("e", "both"), NodePattern("w", MCDefaultName(1))>>,
      returns |-> {"e", "w"}, limit |-> NoLimit],
     [path |-> <<Node("u"), EdgePattern(NoAlias, "in", AnyType, "ne", 1), Node("v")>>,
      returns |-> {"v"}, limit |-> 1],
     [path |-> <<[alias |-> "u", id |-> 1, ext |-> NoName],
                 EdgePattern("e", "out", "x", "gte", 3), Node("v")>>,
      returns |-> {"u", "v"}, limit |-> NoLimit]}
=============================================================================
