SPECIFICATION MCSpec
CONSTANTS
    Process = {p1, p2}
    TextName = {t}
    VecName = {v}
    MaxNodes = 1
    MaxEdges = 1
    MaxSeq = 2
    MaxTx = 1
    MaxFaults = 1
    MaxLoads = 1
    TextQuestion <- MCTextQuestion
    VectorQuestion <- MCVectorQuestion
    AnyLabel = AnyLabel
INVARIANTS
    RowsFollowRecords
    CurrentIndexesMatch
    SearchesAgree
PROPERTIES
    OpensUnlessRaced
    CommitKeepsVectors
SYMMETRY Symmetry
CHECK_DEADLOCK FALSE
