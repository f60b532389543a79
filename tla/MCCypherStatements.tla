------------------------- MODULE MCCypherStatements -------------------------
(* Instances of CypherStatements for TLC: the statements clients run. *)
EXTENDS CypherStatements, TLC

MCDefaultName(i) == "node:" \o ToString(i)

Lit(i) == <<"literal", Number(i)>>
Prop_(var) == <<"property", var, "v">>
Var(var) == <<"variable", var>>

N(var, labels, props) == [var |-> var, labels |-> labels, props |-> props]
R(var, type, direction, props) ==
    [var |-> var, type |-> type, direction |-> direction, props |-> props]
Bare(var) == N(var, {}, <<>>)
Edge(var, direction) == R(var, NoType, direction, <<>>)
Path(nodes, rels) == [nodes |-> nodes, rels |-> rels]
V(expr) == <<"v", expr>>

Returning(items) == [items |-> items, orderBy |-> Null, descending |-> FALSE,
                     skip |-> NoBound, limit |-> NoBound]
Item(alias, expr) == [alias |-> alias, expr |-> expr]
Column(alias, expr) == Returning(<<Item(alias, expr)>>)

Create(p, projection) == [kind |-> "create", pattern |-> p, projection |-> projection]
Merge(p) == [kind |-> "merge", pattern |-> p, projection |-> NoProjection]
Match(patterns, where, action) ==
    [kind |-> "match", optional |-> FALSE, patterns |-> patterns, where |-> where,
     action |-> action]
Action(kind, set, remove, vars_, detach, projection) ==
    [kind |-> kind, set |-> set, remove |-> remove, vars |-> vars_, detach |-> detach,
     projection |-> projection]
Return(projection) == Action("return", <<>>, <<>>, <<>>, FALSE, projection)
Set(set, remove) == Action("update", set, remove, <<>>, FALSE, NoProjection)
Delete(vars_, detach) == Action("delete", <<>>, <<>>, vars_, detach, NoProjection)

SetV(var, expr) == [kind |-> "property", var |-> var, key |-> "v", value |-> expr]
Labels(var) == [kind |-> "labels", var |-> var, labels |-> {"L"}]

Creates ==
    {Create(Path(<<N("n", {}, <<<<"external_id", <<"literal", Text("a")>>>>, V(Lit(1))>>)>>, <<>>),
            NoProjection),
     \* a copied property, which is null, and an error, for a later node
     Create(Path(<<N("x", {"L"}, <<V(Lit(1))>>), N("y", {}, <<V(Prop_("x"))>>)>>,
                 <<R("r", "T", "in", <<>>)>>), Returning(<<Item("c", <<"id", "y">>)>>)),
     \* an error once the node is there
     Create(Path(<<Bare("x"), Bare("x")>>, <<R(NoVar, "T", "both", <<>>)>>), NoProjection)}

Merges ==
    {Merge(Path(<<N("x", {}, <<V(Lit(1))>>), N("y", {"L"}, <<>>)>>, <<R(NoVar, "T", "in", <<V(Lit(2))>>)>>)),
     Merge(Path(<<N("x", {}, <<V(Lit(2))>>), Bare("x")>>, <<R("r", "T", "out", <<V(Prop_("x"))>>)>>)),
     \* asks about a node to its right: never matches what it created
     Merge(Path(<<Bare("x"), N("y", {}, <<V(Lit(2))>>)>>, <<R(NoVar, "T", "out", <<V(Prop_("y"))>>)>>))}

Reads ==
    {Match(<<Path(<<Bare("x"), Bare("y"), Bare("x")>>, <<Edge("r", "both"), Edge("s", "out")>>)>>, <<>>,
           Return([Returning(<<Item("v", Prop_("y")), Item("x", Var("x"))>>) EXCEPT
                        !.orderBy = Var("v"), !.descending = TRUE, !.skip = 1, !.limit = 1])),
     Match(<<Path(<<Bare("x"), N("y", {}, <<V(Prop_("x"))>>)>>, <<R("r", "T", "both", <<>>)>>),
             Path(<<Bare("y"), Bare(NoVar)>>, <<Edge(NoVar, "in")>>)>>,
           <<[left |-> Prop_("r"), op |-> "<>", right |-> Lit(1)]>>,
           Return(Returning(<<Item("n", <<"count", "r">>)>>))),
     [Match(<<Path(<<N("x", {"L"}, <<>>), Bare("y")>>, <<Edge(NoVar, "out")>>)>>,
            <<[left |-> Prop_("x"), op |-> "=", right |-> <<"parameter">>]>>,
            Return(Column("y", Prop_("y")))) EXCEPT !.optional = TRUE]}

Updates ==
    {Match(<<Path(<<Bare("x"), Bare("y")>>, <<Edge("r", "both")>>)>>, <<>>,
           Set(<<SetV("y", Prop_("x")), Labels("x"),
                 [kind |-> "map", var |-> "r", entries |-> <<V(Lit(1)), V(Lit(2))>>]>>, <<>>)),
     Match(<<Path(<<N("x", {"L"}, <<>>)>>, <<>>)>>, <<>>,
           Set(<<[kind |-> "property", var |-> "x", key |-> "external_id",
                  value |-> <<"literal", Text("a")>>]>>,
               <<[kind |-> "property", var |-> "x", key |-> "v"], Labels("x")>>)),
     \* a node is not a property value
     Match(<<Path(<<Bare("x")>>, <<>>)>>,
           <<[left |-> Prop_("x"), op |-> "IN", right |-> <<"literal", <<"list", <<Number(2)>>>>>>]>>,
           Set(<<SetV("x", <<"literal", Null>>), SetV("x", Var("x"))>>, <<>>))}

Deletes ==
    {Match(<<Path(<<Bare("x"), Bare("y")>>, <<Edge("r", "both")>>)>>,
           <<[left |-> Prop_("x"), op |-> "<", right |-> Lit(2)]>>, Delete(<<"x", "r">>, FALSE)),
     Match(<<Path(<<N("x", {"L"}, <<>>)>>, <<>>)>>, <<>>, Delete(<<"x">>, TRUE)),
     Match(<<Path(<<N("x", {}, <<V(Lit(1))>>)>>, <<>>)>>, <<>>, Delete(<<"x">>, FALSE))}

\* The columns agree; they do not; a parameter is missing.
Unions ==
    {[kind |-> "union",
      branches |-> <<[kind |-> "return", projection |-> Column("c", Lit(1))],
                     Match(<<Path(<<Bare("x")>>, <<>>)>>, <<>>, Return(Column(alias, Prop_("x"))))>>] :
        alias \in {"c", "d"}}
    \cup {[kind |-> "return", projection |-> Column("c", <<"parameter">>)]}

MCStatements == Creates \cup Merges \cup Reads \cup Updates \cup Deletes \cup Unions

\* Bound: once a transaction cannot commit any more, the handle's graph waits for
\* its end.
MCSpec == Init /\ [][Next /\ (tx.active /\ ~tx.current => core' = core)]_vars
=============================================================================
