SPECIFICATION Spec
CONSTANTS
    Handle = {h1, h2}
    Tx = {t1}
    RefreshInTx = TRUE
    MaxBatch = 1
    MaxNodes = 1
    MaxEdges = 2
    MaxOwned = 1
    MaxSeq = 3
    MaxStatements = 1
    MaxFaults = 1
    Name <- MCDefaultNames
    Prop = {p}
    DeltaLimit = 1
    DeltaRatio = 4
    NoName = NoName
    DefaultName <- MCDefaultName
SYMMETRY Symmetric
INVARIANTS
    TypeOK
    GraphsConsistent
    CurrentHandleMatchesStore
PROPERTIES
    CleanCommitRespectsSnapshot
    OwnersLostOnlyToOlderSnapshots
CHECK_DEADLOCK FALSE
