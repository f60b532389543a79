SPECIFICATION MCSpec
CONSTANTS
    Graph = {a, b}
    User = {c, d}
    Scope = {l}
    Access = {"write"}
    Token = {t}
    SnapshotId = {s}
    BackupId = {k}
    ConfigGraph = {a}
    ConfigLogical = {a}
    ConfigUser = {c}
    ConfigToken <- MCConfigToken
    ConfigGrants <- MCConfigGrants
    NoAccess = NoAccess
    NoEntry = NoEntry
    NoScope = NoScope
    NoFile = NoFile
    MaxFaults = 1
INVARIANTS
    RestartRestores
    FilesBelongToGraphs
    GrantsNameGraphs
    WorkersServeFiles
PROPERTIES
    OrphansOnlyUnscoped
