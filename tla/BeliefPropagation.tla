-------------------------- MODULE BeliefPropagation --------------------------
(***************************************************************************)
(* Factor tables and the beliefs computed from them: belief_propagation    *)
(* without damping and with tolerance 0, over the active factors.          *)
(*                                                                         *)
(* A distribution is a sequence of natural numbers; normalize divides by   *)
(* the greatest common divisor, so equal distributions are equal sequences *)
(* and arithmetic is exact.  A table is [vars, values, cpd]; an inference  *)
(* problem is [states, prior, tables, evidence, owner, edges]: functions   *)
(* of variables or factors (number of states, prior, table, index of the   *)
(* state given, node that owns the variable) and the graph's edges, each   *)
(* the set of its ends.                                                    *)
(***************************************************************************)
EXTENDS Integers, Sequences, FiniteSets
LOCAL INSTANCE SequencesExt
LOCAL INSTANCE FiniteSetsExt
LOCAL INSTANCE Folds

CONSTANTS
    MaxIters,  \* max_iters: updates of a run
    CpdUnit,   \* what 1.0 is in the values of a CPD
    Problem,   \* the problems looked at
    Radius     \* the radii asked for

RECURSIVE Gcd(_, _)
Gcd(a, b) == IF b = 0 THEN a ELSE Gcd(b, a % b)

Total(s) == FoldLeft(LAMBDA a, b : a + b, 0, s)

Ascending(S) == SetToSortSeq(S, LAMBDA a, b : a < b)

---------------------------------------------------------------------------
(* Tables: the place of a variable's state in the list of values *)

\* What stands for a distribution of no mass, and for what follows from it.
NoMass == <<>>

Normalize(values) ==
    IF Total(values) = 0 THEN NoMass
    ELSE LET d == FoldLeft(Gcd, 0, values) IN [k \in DOMAIN values |-> values[k] \div d]

Product(cards) == FoldLeft(LAMBDA a, b : a * b, 1, cards)

\* The last variable changes fastest.
Strides(cards) ==
    [k \in DOMAIN cards |-> Product(SubSeq(cards, k + 1, Len(cards)))]

\* The child, which is the first, changes fastest, then the last parent.
CpdStrides(cards) ==
    [k \in DOMAIN cards |->
        IF k = 1 THEN 1 ELSE cards[1] * Product(SubSeq(cards, k + 1, Len(cards)))]

\* Wrong variant: a CPD is read like any other table.
PlainStrides(cards, cpd) == Strides(cards)

TableStrides(cards, cpd) == IF cpd THEN CpdStrides(cards) ELSE Strides(cards)

Cardinalities(problem, table) == [k \in DOMAIN table.vars |-> problem.states[table.vars[k]]]

\* The state of the variable at a position, for the value at an index from 0.
StateAt(problem, table, position, index) ==
    LET cards == Cardinalities(problem, table) IN
    (index \div TableStrides(cards, table.cpd)[position]) % cards[position]

\* validate_factor_table; a child distribution adds up to CpdUnit, which is 1.0.
ValidTable(problem, table) ==
    LET cards == Cardinalities(problem, table)
        chunk(c) == SubSeq(table.values, (c - 1) * cards[1] + 1, c * cards[1])
    IN  /\ table.vars # <<>>
        /\ ToSet(table.vars) \subseteq DOMAIN problem.states
        /\ IsInjective(table.vars)
        /\ Len(table.values) = Product(cards)
        /\ Total(table.values) > 0
        /\ table.cpd => \A c \in 1..(Len(table.values) \div cards[1]) : Total(chunk(c)) = CpdUnit

---------------------------------------------------------------------------
(* Messages: a function of <<"vf", v, f>> and <<"fv", v, f>> *)

Uniform(n) == [k \in 1..n |-> 1]

Times(a, b) == [k \in DOMAIN a |-> a[k] * b[k]]

HardEvidence(problem, v) ==
    [k \in 1..problem.states[v] |-> IF k - 1 = problem.evidence[v] THEN 1 ELSE 0]

FactorsOf(problem, v) == {f \in DOMAIN problem.tables : v \in ToSet(problem.tables[f].vars)}

Prior(problem, v) == Normalize(problem.prior[v])

\* A product of the prior and messages to a variable, or its evidence.
Combined(problem, v, factors, messages) ==
    IF v \in DOMAIN problem.evidence THEN HardEvidence(problem, v)
    ELSE Normalize(FoldLeft(LAMBDA d, f : Times(d, messages[<<"fv", v, f>>]),
                            Prior(problem, v), Ascending(factors)))

VariableToFactor(problem, v, f, messages) ==
    Combined(problem, v, FactorsOf(problem, v) \ {f}, messages)

FactorToVariable(problem, f, v, messages) ==
    LET table    == problem.tables[f]
        target   == CHOOSE k \in DOMAIN table.vars : table.vars[k] = v
        others   == DOMAIN table.vars \ {target}
        weight(i) == FoldSet(LAMBDA k, w :
                                w * messages[<<"vf", table.vars[k], f>>]
                                            [StateAt(problem, table, k, i) + 1],
                             table.values[i + 1], others)
        at(s)    == {i \in 0..(Len(table.values) - 1) : StateAt(problem, table, target, i) = s - 1}
    IN  Normalize([s \in 1..problem.states[v] |-> FoldSet(LAMBDA i, sum : sum + weight(i), 0, at(s))])

\* l1_residual, as a fraction.
Residual(old, new) ==
    LET a == Total(old)
        b == Total(new)
        Gap(x) == IF x < 0 THEN -x ELSE x
    IN  <<Total([k \in DOMAIN old |-> Gap(old[k] * b - new[k] * a)]), a * b>>
Exceeds(r, s) == r[1] * s[2] > s[1] * r[2]

\* The messages of a factor in the order they are looked at.
Messages(table, f) ==
    FlattenSeq([k \in DOMAIN table.vars |->
        <<<<"vf", table.vars[k], f>>, <<"fv", table.vars[k], f>>>>])

AllMessages(problem) ==
    FlattenSeq([k \in 1..Cardinality(DOMAIN problem.tables) |->
        LET f == Ascending(DOMAIN problem.tables)[k] IN Messages(problem.tables[f], f)])

Candidate(problem, m, messages) ==
    IF m[1] = "vf" THEN VariableToFactor(problem, m[2], m[3], messages)
    ELSE FactorToVariable(problem, m[3], m[2], messages)

\* best_message_update: the first of the largest residuals.  One candidate
\* without mass is an error.
BestUpdate(problem, messages) ==
    FoldLeft(LAMBDA best, m :
                LET candidate == Candidate(problem, m, messages)
                    residual  == Residual(messages[m], candidate)
                IN  IF best.failed \/ candidate = NoMass THEN [best EXCEPT !.failed = TRUE]
                    ELSE IF Exceeds(residual, best.residual)
                    THEN [failed |-> FALSE, message |-> m, candidate |-> candidate, residual |-> residual]
                    ELSE best,
             [failed |-> FALSE, message |-> <<>>, candidate |-> NoMass, residual |-> <<0, 1>>],
             AllMessages(problem))

VariableBelief(problem, v, messages) == Combined(problem, v, FactorsOf(problem, v), messages)

---------------------------------------------------------------------------
(* compile_active_subgraph: [variables, factors, nodes, boundary, truncated] *)

Smallest(S, n) == {x \in S : Cardinality({y \in S : y < x}) < n}

\* Wrong variant: what there is no room for is left out silently.
InsertedSilently(st, S, cap) ==
    [st EXCEPT !.nodes = @ \cup Smallest(S \ @, cap - Cardinality(@))]

\* insert_capped_node, for each of a set.  The order decides only which of them
\* are left out.
Inserted(st, S, cap) ==
    LET room == cap - Cardinality(st.nodes) IN
    [nodes |-> st.nodes \cup Smallest(S \ st.nodes, room),
     truncated |-> st.truncated \/ Cardinality(S \ st.nodes) > room]

Joined(problem, S) == {n \in UNION problem.edges : \E m \in S : {n, m} \in problem.edges}

Owners(problem, V) == {problem.owner[v] : v \in V \cap DOMAIN problem.owner}

\* Everything is a seed when nothing is asked or given; then come the variables
\* of the nodes within the radius, the factors of all these, and their variables.
ActiveSubgraph(problem, query, radius, maxNodes, maxFactors) ==
    LET given    == query \cup DOMAIN problem.evidence
        seeds    == IF given = {} THEN DOMAIN problem.states ELSE given
        seeded   == Inserted([nodes |-> {}, truncated |-> FALSE], Owners(problem, seeds), maxNodes)
        expanded == FoldLeft(LAMBDA st, k : Inserted(st, Joined(problem, st.nodes), maxNodes),
                             seeded, [k \in 1..radius |-> k])
        near     == seeds \cup {v \in DOMAIN problem.owner : problem.owner[v] \in expanded.nodes}
        touching == {f \in DOMAIN problem.tables : ToSet(problem.tables[f].vars) \cap near # {}}
        factors  == Smallest(touching, maxFactors)
        all      == near \cup UNION {ToSet(problem.tables[f].vars) : f \in factors}
        st       == Inserted(expanded, Owners(problem, all), maxNodes)
    IN  [variables |-> all, factors |-> factors, nodes |-> st.nodes,
         boundary |-> {v \in all \cap DOMAIN problem.owner : problem.owner[v] \notin st.nodes},
         truncated |-> st.truncated \/ factors # touching]

\* Caps that no problem here reaches.
Everything(problem, query, radius) ==
    ActiveSubgraph(problem, query, radius, 1000, 1000)

---------------------------------------------------------------------------
(* A run of belief_propagation: [problem, query, radius, active, messages,  *)
(* iterations, outcome], active being the problem with the active factors   *)

\* No cycle, as long as there are two factors at most.
NoCycle(problem) ==
    \A f, g \in DOMAIN problem.tables :
        f # g => Cardinality(ToSet(problem.tables[f].vars) \cap ToSet(problem.tables[g].vars)) <= 1

VARIABLE run

NoRun == [outcome |-> "none"]

InitRun ==
    \E problem \in Problem :
        \E query \in SUBSET DOMAIN problem.states, radius \in Radius :
            LET active == [problem EXCEPT !.tables =
                            [f \in Everything(problem, query, radius).factors |-> problem.tables[f]]]
            IN  /\ NoCycle(active)  \* a bound: with a cycle the numbers grow for ever
                /\ run = [problem |-> problem, query |-> query, radius |-> radius, active |-> active,
                          messages |-> [m \in ToSet(AllMessages(active)) |->
                                           Uniform(problem.states[m[2]])],
                          iterations |-> 0,
                          outcome |-> IF DOMAIN active.tables = {} THEN "converged" ELSE "running"]

\* One iteration; the run ends when no message would change, or fails.
Iterate ==
    LET best == BestUpdate(run.active, run.messages) IN
    /\ run.outcome = "running" /\ run.iterations < MaxIters
    /\ run' = IF best.failed THEN [run EXCEPT !.outcome = "failed"]
              ELSE IF best.residual[1] = 0
              THEN [run EXCEPT !.outcome = "converged", !.iterations = @ + 1]
              ELSE [run EXCEPT !.messages[best.message] = best.candidate, !.iterations = @ + 1]

---------------------------------------------------------------------------
(* The reference: the sum over all assignments *)

Assignments(problem) ==
    {a \in [DOMAIN problem.states -> 0..(FoldSet(LAMBDA v, m : IF problem.states[v] > m
                                                             THEN problem.states[v] ELSE m,
                                                 1, DOMAIN problem.states) - 1)] :
        /\ \A v \in DOMAIN a : a[v] < problem.states[v]
        /\ \A v \in DOMAIN problem.evidence : a[v] = problem.evidence[v]}

\* The index of an assignment in a table, by what the layouts promise: for a CPD
\* one distribution of the child after the other, the last parent changing first.
RECURSIVE PlaceIn(_, _, _)
PlaceIn(problem, vars, a) ==
    IF vars = <<>> THEN 0
    ELSE PlaceIn(problem, Front(vars), a) * problem.states[Last(vars)] + a[Last(vars)]
Place(problem, table, a) ==
    IF ~table.cpd THEN PlaceIn(problem, table.vars, a)
    ELSE PlaceIn(problem, Tail(table.vars) \o <<table.vars[1]>>, a)

Weight(problem, a) ==
    FoldSet(LAMBDA v, w : IF v \in DOMAIN problem.evidence THEN w ELSE w * problem.prior[v][a[v] + 1],
            1, DOMAIN problem.states)
    * FoldSet(LAMBDA f, w : w * problem.tables[f].values[Place(problem, problem.tables[f], a) + 1],
              1, DOMAIN problem.tables)

Mass(problem, A) == FoldSet(LAMBDA a, sum : sum + Weight(problem, a), 0, A)

Marginal(problem, v) ==
    Normalize([s \in 1..problem.states[v] |->
                Mass(problem, {a \in Assignments(problem) : a[v] = s - 1})])

---------------------------------------------------------------------------
(* What is promised *)

\* On factors without a cycle a run converges, whatever is asked, and every belief
\* is the marginal over the active factors: the sum over all assignments, which
\* takes the values of a table in the layout it was validated in
\* (inference.rs:144-298, 381-493, 704-734).
BeliefsExact ==
    run # NoRun /\ Mass(run.active, Assignments(run.active)) > 0 =>
        /\ run.outcome # "failed"
        /\ run.iterations = MaxIters => run.outcome = "converged"
        /\ run.outcome = "converged" =>
            \A v \in DOMAIN run.problem.states :
                VariableBelief(run.active, v, run.messages) = Marginal(run.active, v)

\* An active subgraph reports that it is truncated exactly when its caps left
\* something out, and only then is a variable cut off from its node
\* (inference.rs:46-142, 684-698).
TruncationTold ==
    run # NoRun =>
        LET all == Everything(run.problem, run.query, run.radius) IN
        /\ ~all.truncated /\ all.boundary = {}
        /\ \A maxNodes \in 0..Cardinality(all.nodes), maxFactors \in 0..Cardinality(all.factors) :
            LET part == ActiveSubgraph(run.problem, run.query, run.radius, maxNodes, maxFactors) IN
            /\ part.truncated <=> part # all
            /\ part.boundary # {} => part.truncated

ASSUME ProblemAssumption ==
    \A problem \in Problem :
        /\ \A f \in DOMAIN problem.tables : ValidTable(problem, problem.tables[f])
        /\ DOMAIN problem.owner \subseteq DOMAIN problem.states
=============================================================================
