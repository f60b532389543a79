SPECIFICATION Spec
CONSTANTS
    Handle = {h1}
    Tx = {t1}
    RefreshInTx = FALSE
    MaxBatch = 1
    MaxNodes = 1
    MaxEdges = 0
    MaxOwned = 1
    MaxSeq = 4
    MaxStatements = 1
    MaxFaults = 0
    Name <- MCDefaultNames
    Prop = {p}
    DeltaLimit = 1
    DeltaRatio = 4
    NoName = NoName
    DefaultName <- MCDefaultName
INVARIANTS
    OwnersExist
