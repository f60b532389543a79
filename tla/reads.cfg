SPECIFICATION MCSpec
CONSTANTS
    MaxNodes = 3
    MaxEdges = 3
    Ends <- MCEnds
    Query <- MCQueries
    Name <- MCNames
    Prop <- MCProps
    Damping <- MCDamping
    DefaultName <- MCDefaultName
    DeltaLimit = 2
    DeltaRatio = 1
    NoName = NoName
    NoWeight = NoWeight
    AnyType = AnyType
    NoAlias = NoAlias
    NoId = NoId
    NoLimit = NoLimit
INVARIANTS
    SearchesExact
    
    RanksSumToOne
    LocalScoresAgree
    SubgraphsExact
    QueriesExact
