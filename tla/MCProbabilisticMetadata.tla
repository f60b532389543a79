---------------------- MODULE MCProbabilisticMetadata ----------------------
(* Instances of ProbabilisticMetadata, and problems for BeliefPropagation. *)
EXTENDS ProbabilisticMetadata, BeliefPropagation

Table(vars_, values, cpd) == [vars |-> vars_, values |-> values, cpd |-> cpd]

\* Over a variable with two states and one with three.
Tables ==
    {Table(<<0, 1>>, <<1, 2, 0, 3, 0, 1>>, FALSE), Table(<<1, 0>>, <<1, 2, 1, 0, 1, 3>>, TRUE),
     Table(<<0>>, <<1, 3>>, FALSE), Table(<<0>>, <<3, 0>>, FALSE), Table(<<1>>, <<0, 1, 2>>, FALSE)}

\* Up to two tables, with and without evidence; two that contradict each other.
\* Variable 0 is owned by the middle of three nodes in a row, or by no one.
MCProblem ==
    {[states |-> [v \in 0..1 |-> v + 2],
      prior |-> [v \in 0..1 |-> IF v = 0 THEN <<1, 1>> ELSE <<2, 1, 1>>],
      tables |-> tables, evidence |-> evidence,
      owner |-> [v \in owned |-> 1 + v], edges |-> {{0, 1}, {1, 2}}] :
        tables \in UNION {[fs -> Tables] : fs \in SUBSET (0..1)},
        evidence \in {<<>>} \cup [{0} -> {1}] \cup [{1} -> {2}],
        owned \in {{1}, {0, 1}}}

\* Bound: the loads and the faults are those of one process.
Troubled == CHOOSE p \in Process : TRUE
Small == <<faults', loads'>> # <<faults, loads>> =>
            \A q \in Process \ {Troubled} : phase'[q] = phase[q] /\ seen'[q] = seen[q]

\* Either the processes act or a run of belief propagation goes on.
MCInit == Init /\ (run = NoRun \/ InitRun)
MCNext ==
    \/ run = NoRun /\ Next /\ Small /\ UNCHANGED run
    \/ run # NoRun /\ Iterate /\ UNCHANGED vars
MCSpec == MCInit /\ [][MCNext]_<<vars, run>> /\ CallsGoOn
=============================================================================
