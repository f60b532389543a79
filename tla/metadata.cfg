SPECIFICATION MCSpec
CONSTANTS
    Process = {p1, p2}
    Variables = {0}
    MaxVariables = 2
    MaxFactors = 1
    MaxEvidence = 1
    MaxSeq = 3
    MaxFaults = 1
    MaxLoads = 1
    MaxIters = 20
    CpdUnit = 4
    Problem <- MCProblem
    Radius = {0, 1}
INVARIANTS
    CurrentLacksOnlyUnlogged
    BeliefsExact
    TruncationTold
PROPERTIES
    RefusedOnlyInRaces
    ForgetsOnlyUnlogged
    CallsEnd
CHECK_DEADLOCK FALSE
