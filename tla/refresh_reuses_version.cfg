SPECIFICATION Spec
CONSTANTS
    Handle = {h1, h2}
    Tx = {t1}
    RefreshInTx = TRUE
    MaxBatch = 1
    MaxNodes = 2
    MaxEdges = 0
    MaxOwned = 0
    MaxSeq = 4
    MaxStatements = 1
    MaxFaults = 0
    Name <- MCDefaultNames
    Prop = {p}
    DeltaLimit = 1
    DeltaRatio = 4
    NoName = NoName
    DefaultName <- MCDefaultName
SYMMETRY Symmetric
PROPERTIES
    CommitRespectsSnapshot
