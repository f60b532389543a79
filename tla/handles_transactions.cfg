SPECIFICATION Spec
CONSTANTS
    Handle = {h1}
    Tx = {t1}
    RefreshInTx = FALSE
    MaxBatch = 1
    MaxNodes = 2
    MaxEdges = 1
    MaxOwned = 0
    MaxSeq = 4
    MaxStatements = 2
    MaxFaults = 0
    Name <- MCDefaultNames
    Prop = {p}
    DeltaLimit = 1
    DeltaRatio = 4
    NoName = NoName
    DefaultName <- MCDefaultName
SYMMETRY Symmetric
PROPERTIES
    IdsNeverReused
    ImplementsLedger
