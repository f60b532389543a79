SPECIFICATION MCSpec
CONSTANTS
    Statement <- MCStatements
    MaxNodes = 3
    MaxEdges = 2
    MaxOwned = 1
    MaxRuns = 1
    Name = {"a"}
    NoName = NoName
    DefaultName <- MCDefaultName
    Prop = {}
    DeltaLimit = 0
    DeltaRatio = 0
    NoVar = NoVar
    NoType = NoType
    NoProjection = NoProjection
    NoBound = NoBound
INVARIANTS
    GraphsSound
    RowsExact
    MergeExact
    CountsTrue
    DeletesExact
