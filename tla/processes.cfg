SPECIFICATION Spec
CONSTANTS
    Process = {p1, p2}
    MaxBatch = 1
    MaxNodes = 2
    MaxEdges = 1
    MaxSeq = 3
    Name <- MCDefaultNames
    Prop = {x}
    DeltaLimit = 1
    DeltaRatio = 4
    NoName = NoName
    DefaultName <- MCDefaultName
SYMMETRY Symmetric
INVARIANTS
    CheckMissesOnlyRaces
    OnlyRacesHarm
PROPERTIES
    IdsReusedOnlyInRaces
