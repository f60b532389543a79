SPECIFICATION Spec
CONSTANTS
    Handle = {h1}
    Tx = {}
    RefreshInTx = FALSE
    MaxBatch = 2
    MaxNodes = 2
    MaxEdges = 2
    MaxOwned = 0
    MaxSeq = 4
    MaxStatements = 2
    MaxFaults = 2
    Name <- MCDefaultNames
    Prop = {p}
    DeltaLimit = 1
    DeltaRatio = 4
    NoName = NoName
    DefaultName <- MCDefaultName
INVARIANTS
    IndexesMatchRecords
    AdjacencyExactWhileSaved
    NeighborsReal
