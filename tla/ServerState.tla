----------------------------- MODULE ServerState -----------------------------
(***************************************************************************)
(* The server's control plane: graph entries, grants, dynamic users and    *)
(* logical graph ids in memory, server-state.json, the graph files, the    *)
(* workers with the snapshots they hold, and the backups.                  *)
(*                                                                         *)
(* Every route is a coroutine that never awaits inside its handler, so a   *)
(* request is one step.  What makes the steps hard is what outlives them: a*)
(* handler that raises after it changed memory, a save that fails, a       *)
(* restart, which rebuilds memory from the file and the configuration.  A  *)
(* crash inside a handler leaves what the failure and then a restart leave.*)
(*                                                                         *)
(* The records of a graph are the set of logical graph ids that have any,  *)
(* NoScope for records without one.  A user's admin flag is left out: it is*)
(* kept and updated as the disabled flag is.                               *)
(***************************************************************************)
EXTENDS Naturals, FiniteSets

CONSTANTS
    Graph, User,             \* names clients and administrators use
    Scope,                   \* logical graph ids, and NoScope for none
    Access,                  \* "read", "write"
    Token,                   \* bearer tokens
    SnapshotId, BackupId,    \* fresh uuids, as many as are alive at once
    ConfigGraph,             \* graphs of the configuration file ...
    ConfigLogical,           \* ... and those of them with logical graphs
    ConfigUser,              \* users of the configuration file
    ConfigToken,             \* ConfigToken[u]
    ConfigGrants,            \* ConfigGrants[u][g]: an access or NoAccess
    NoAccess, NoEntry, NoScope, NoFile,
    MaxFaults                \* bound: failures of a request past its first change

ASSUME ConfigAssumption ==
    /\ ConfigLogical \subseteq ConfigGraph /\ ConfigGraph \subseteq Graph
    /\ ConfigUser \subseteq User
    /\ ConfigToken \in [ConfigUser -> Token]
    /\ ConfigGrants \in [User -> [Graph -> Access \cup {NoAccess}]]
    /\ MaxFaults \in Nat

ASSUME AbsenceAssumption ==
    /\ "write" \in Access /\ NoAccess \notin Access
    /\ \A e \in [disabled : BOOLEAN, token : Token] : e # NoEntry
    /\ \A s \in SUBSET Scope : s # NoFile

VARIABLES
    mem,        \* what the registry holds: graphs, grants, users, logical
    file,       \* server-state.json, NoFile before the first save
    data,       \* data[g]: the database file of the graph, NoFile if none
    open,       \* graphs with a worker
    snapshots,  \* snapshots[g]: snapshots the worker of g holds
    backups,    \* archives and metadata files
    unsaved,    \* history: memory changed since the last successful save
    strayed,    \* history: a restart lost changes, or a restore failed
    faults

vars == <<mem, file, data, open, snapshots, backups, unsaved, strayed, faults>>
files == <<data, open, snapshots, backups>>

LogicalId == Scope \ {NoScope}
Entry == [disabled : BOOLEAN, token : Token]
Grants == [Graph -> Access \cup {NoAccess}]

\* What the registry holds, in memory or as the file has it.
Memory == [graphs : [Graph -> {"absent", "plain", "logical"}],
           grants : [User -> Grants],
           users : [User -> Entry \cup {NoEntry}],
           logical : [Graph -> SUBSET LogicalId]]

ASSUME NoFileAssumption == \A m \in Memory : m # NoFile

Known(m) == {g \in Graph : m.graphs[g] # "absent"}

---------------------------------------------------------------------------
(* The state file *)

\* Wrong variant: entries of created graphs are not written.
SavedWithoutGraphs(m) == [m EXCEPT !.graphs = [g \in Graph |-> "absent"]]

\* Configured graphs are not written.
Saved(m) ==
    [m EXCEPT !.graphs = [g \in Graph |-> IF g \in ConfigGraph THEN "absent" ELSE @[g]]]

ConfigState ==
    [graphs |-> [g \in Graph |-> IF g \notin ConfigGraph THEN "absent"
                                 ELSE IF g \in ConfigLogical THEN "logical" ELSE "plain"],
     grants |-> ConfigGrants,
     users |-> [u \in User |-> NoEntry],
     logical |-> [g \in Graph |-> {}]]

\* Grants of the file are merged over the configured ones, and logical ids of
\* graphs that are in neither are dropped.
Loaded(f) ==
    IF f = NoFile THEN ConfigState
    ELSE LET graphs == [g \in Graph |-> IF g \in ConfigGraph THEN ConfigState.graphs[g]
                                        ELSE f.graphs[g]]
         IN  [graphs |-> graphs,
              grants |-> [u \in User |-> [g \in Graph |->
                            IF f.grants[u][g] # NoAccess THEN f.grants[u][g]
                            ELSE ConfigGrants[u][g]]],
              users |-> f.users,
              logical |-> [g \in Graph |-> IF graphs[g] = "absent" THEN {}
                                           ELSE f.logical[g]]]

Fault == faults < MaxFaults /\ faults' = faults + 1

\* The handler's last step: memory is m, and the file gets it.
SaveWorks(m) ==
    /\ mem' = m /\ file' = Saved(m)
    /\ unsaved' = FALSE
    /\ UNCHANGED <<strayed, faults>>

\* The same when writing or replacing the file fails.
SaveBreaks(m) ==
    /\ mem' = m
    /\ Fault
    /\ unsaved' = TRUE
    /\ UNCHANGED <<file, strayed>>

Save(m) == SaveWorks(m) \/ SaveBreaks(m)

\* The handler raises before it saves, with memory at m.
Raises(m) ==
    /\ mem' = m
    /\ Fault
    /\ unsaved' = TRUE
    /\ UNCHANGED <<file, strayed>>

Init ==
    /\ mem = ConfigState
    /\ file = NoFile
    /\ data = [g \in Graph |-> NoFile]
    /\ open = {}
    /\ snapshots = [g \in Graph |-> {}]
    /\ backups = {}
    /\ unsaved = FALSE
    /\ strayed = FALSE
    /\ faults = 0

---------------------------------------------------------------------------
(* Workers *)

\* What a graph holds, and what its new file would.
Contents(g) == IF data[g] = NoFile THEN {} ELSE data[g]

\* Starting a worker creates the database file if there is none.
OpenWorker(g) ==
    /\ open' = open \cup {g}
    /\ data' = [data EXCEPT ![g] = Contents(g)]

\* Wrong variant: the worker goes on with the file it has open.
WorkerLeft(g) == UNCHANGED <<open, snapshots>>

\* The snapshots die with their worker.
CloseWorker(g) ==
    /\ open' = open \ {g}
    /\ snapshots' = [snapshots EXCEPT ![g] = {}]

\* A read of any kind, a compaction or a refresh.
Use(g) ==
    /\ g \in Known(mem)
    /\ OpenWorker(g)
    /\ UNCHANGED <<mem, file, snapshots, backups, unsaved, strayed, faults>>

Restart ==
    /\ mem' = Loaded(file)
    /\ open' = {}
    /\ snapshots' = [g \in Graph |-> {}]
    /\ strayed' = (strayed \/ unsaved)
    /\ unsaved' = FALSE
    /\ UNCHANGED <<file, data, backups, faults>>

---------------------------------------------------------------------------
(* Users and grants *)

\* The entry in effect: a dynamic one, else the configured one.
Effective(u) ==
    IF mem.users[u] # NoEntry THEN mem.users[u]
    ELSE [disabled |-> FALSE, token |-> ConfigToken[u]]

HasUser(u) == u \in ConfigUser \/ mem.users[u] # NoEntry

WithUser(u, entry) == [mem EXCEPT !.users[u] = entry]

\* The rest of a request that also replaces the grants of u: grants that name
\* an unknown graph are refused after the user has been changed.
FinishWithGrants(m, u, grants) ==
    IF \E g \in Graph \ Known(m) : grants[g] # NoAccess
    THEN Raises(m)
    ELSE Save([m EXCEPT !.grants[u] = grants])

CreateUser(u, entry, grants) ==
    /\ ~HasUser(u)
    /\ FinishWithGrants(WithUser(u, entry), u, grants)
    /\ UNCHANGED files

\* disabled is {} when the request leaves it out.
UpdatedEntry(u, disabled) ==
    IF disabled = {} THEN Effective(u)
    ELSE [Effective(u) EXCEPT !.disabled = TRUE \in disabled]

UpdateUser(u, disabled) ==
    /\ HasUser(u)
    /\ LET m == WithUser(u, UpdatedEntry(u, disabled)) IN
       \/ Save(m)
       \/ \E grants \in Grants : FinishWithGrants(m, u, grants)
    /\ UNCHANGED files

RotateToken(u, token) ==
    /\ HasUser(u)
    /\ Save(WithUser(u, [Effective(u) EXCEPT !.token = token]))
    /\ UNCHANGED files

DeleteUser(u) ==
    /\ u \notin ConfigUser /\ mem.users[u] # NoEntry
    /\ Save(WithUser(u, NoEntry))
    /\ UNCHANGED files

Grant(u, g, access) ==
    /\ g \in Known(mem)
    /\ Save([mem EXCEPT !.grants[u][g] = access])
    /\ UNCHANGED files

Revoke(u, g) ==
    /\ Save([mem EXCEPT !.grants[u][g] = NoAccess])
    /\ UNCHANGED files

---------------------------------------------------------------------------
(* Graphs and logical graphs *)

GrantedTo(m, g, users, access) ==
    [m EXCEPT !.grants = [u \in User |->
        IF u \in users THEN [@[u] EXCEPT ![g] = access] ELSE @[u]]]

\* An unknown access raises in the middle of the grants: those before it stay,
\* and so does the graph.
CreateGraph(g, kind, by, users, access) ==
    /\ g \notin Known(mem)
    /\ LET m == GrantedTo([mem EXCEPT !.graphs[g] = kind], g, users, access) IN
       \/ Save(GrantedTo(m, g, {by}, "write"))
       \/ Raises(m)
    /\ OpenWorker(g)
    /\ UNCHANGED <<snapshots, backups>>

Registered(g, l) == [mem EXCEPT !.logical[g] = @ \cup {l}]

\* ensure_logical_graph: an id that is in memory is not saved again.
EnsureLogical(g, l) ==
    /\ mem.graphs[g] = "logical"
    /\ l \notin mem.logical[g]
    /\ Save(Registered(g, l))
    /\ UNCHANGED files

\* resolve_scope before records are written.
RegistersScope(g, scope) ==
    IF scope \in LogicalId /\ scope \notin mem.logical[g]
    THEN SaveWorks(Registered(g, scope))
    ELSE UNCHANGED <<mem, file, unsaved, strayed, faults>>

\* A request that creates records; only administrators may leave the logical
\* graph out where there are some.
WriteRecords(g, scope) ==
    /\ g \in Known(mem)
    /\ scope \in LogicalId => mem.graphs[g] = "logical"
    /\ RegistersScope(g, scope)
    /\ open' = open \cup {g}
    /\ data' = [data EXCEPT ![g] = Contents(g) \cup {scope}]
    /\ UNCHANGED <<snapshots, backups>>

\* The registration could not be saved: the records are not written.
WriteRecordsFails(g, scope) ==
    /\ g \in Known(mem)
    /\ mem.graphs[g] = "logical" /\ scope \in LogicalId \ mem.logical[g]
    /\ SaveBreaks(Registered(g, scope))
    /\ UNCHANGED files

\* Administrators' Cypher and imported files name any property they like, the
\* one that holds the logical graph id included: nothing is registered.
WriteUnscoped(g, scope) ==
    /\ g \in Known(mem)
    /\ open' = open \cup {g}
    /\ data' = [data EXCEPT ![g] = Contents(g) \cup {scope}]
    /\ UNCHANGED <<mem, file, snapshots, backups, unsaved, strayed, faults>>

\* Wrong variant: the id is removed, its records stay.
RecordsKept(g, l) == OpenWorker(g)

\* All of them go, and with detached nodes perhaps the last edges without one.
RecordsDeleted(g, l) ==
    /\ open' = open \cup {g}
    /\ \E also \in SUBSET {NoScope} :
        data' = [data EXCEPT ![g] = Contents(g) \ ({l} \cup also)]

\* The last records of a scope are deleted one by one, also by administrators,
\* who need not name it.
RemoveRecords(g, scope) ==
    /\ g \in Known(mem)
    /\ RecordsDeleted(g, scope)
    /\ UNCHANGED <<mem, file, snapshots, backups, unsaved, strayed, faults>>

DeleteLogical(g, l) ==
    /\ mem.graphs[g] = "logical" /\ l \in mem.logical[g]
    /\ RecordsDeleted(g, l)
    /\ Save([mem EXCEPT !.logical[g] = @ \ {l}])
    /\ UNCHANGED <<snapshots, backups>>

---------------------------------------------------------------------------
(* Snapshots *)

SnapshotIds == {s.id : s \in UNION {snapshots[g] : g \in Graph}}

Pruned(S) == {s \in S : ~s.expired}

CreateSnapshot(g) ==
    /\ g \in Known(mem)
    /\ OpenWorker(g)
    /\ \E i \in SnapshotId \ SnapshotIds :
        snapshots' = [snapshots EXCEPT ![g] =
                        Pruned(@) \cup {[id |-> i, expired |-> FALSE]}]
    /\ UNCHANGED <<mem, file, backups, unsaved, strayed, faults>>

\* Listing and reading, which prune first.
ReadSnapshots(g) ==
    /\ g \in Known(mem)
    /\ OpenWorker(g)
    /\ snapshots' = [snapshots EXCEPT ![g] = Pruned(@)]
    /\ UNCHANGED <<mem, file, backups, unsaved, strayed, faults>>

DeleteSnapshot(g, s) ==
    /\ g \in Known(mem)
    /\ s \in Pruned(snapshots[g])
    /\ snapshots' = [snapshots EXCEPT ![g] = Pruned(@) \ {s}]
    /\ UNCHANGED <<mem, file, data, open, backups, unsaved, strayed, faults>>

\* Time passes.
Expire(g, s) ==
    /\ s \in Pruned(snapshots[g])
    /\ snapshots' = [snapshots EXCEPT ![g] = (@ \ {s}) \cup {[s EXCEPT !.expired = TRUE]}]
    /\ UNCHANGED <<mem, file, data, open, backups, unsaved, strayed, faults>>

---------------------------------------------------------------------------
(* Backups *)

\* The worker compacts, is closed, and the files are copied; then the metadata
\* file makes the backup visible.  A failure may leave the archive alone.
BackupGraph(g) ==
    /\ g \in Known(mem)
    /\ CloseWorker(g)
    /\ data' = [data EXCEPT ![g] = Contents(g)]
    /\ \/ \E i \in BackupId \ {b.id : b \in backups}, listed \in BOOLEAN :
            /\ backups' = backups \cup {[id |-> i, of |-> Contents(g),
                                         archived |-> TRUE, listed |-> listed]}
            /\ IF listed THEN UNCHANGED faults ELSE Fault
       \/ Fault /\ UNCHANGED backups
    /\ UNCHANGED <<mem, file, unsaved, strayed>>

\* The archive goes first, and may go alone.
DeleteBackup(b) ==
    /\ b \in backups
    /\ \/ backups' = backups \ {b} /\ UNCHANGED faults
       \/ /\ b.archived /\ b.listed /\ Fault
          /\ backups' = (backups \ {b}) \cup {[b EXCEPT !.archived = FALSE]}
    /\ UNCHANGED <<mem, file, data, open, snapshots, unsaved, strayed>>

\* Files first, then the entry and the grants, then the save.  A new entry has
\* no logical graphs, whatever the backup came from.
RestoreBackup(b, g, overwrite, users, access) ==
    /\ b \in backups /\ b.archived
    /\ g \in Known(mem) => overwrite
    /\ snapshots' = [snapshots EXCEPT ![g] = {}]
    /\ data' = [data EXCEPT ![g] = b.of]
    /\ LET entry == [mem EXCEPT !.graphs[g] = IF @ = "absent" THEN "plain" ELSE @]
           m == GrantedTo(entry, g, users, access)
       IN  \/ SaveWorks(m) /\ open' = open \cup {g}
           \/ SaveBreaks(m) /\ open' = open \ {g}
           \/ Raises(m) /\ open' = open \ {g}
    /\ UNCHANGED backups

\* The archive cannot be read, or the copy fails: the old files are removed
\* before the new ones are copied, and the entry comes last.
RestoreFails(b, g, overwrite) ==
    /\ b \in backups /\ b.archived
    /\ g \in Known(mem) => overwrite
    /\ CloseWorker(g)
    /\ data' \in {data, [data EXCEPT ![g] = NoFile], [data EXCEPT ![g] = b.of]}
    /\ strayed' = TRUE
    /\ Fault
    /\ UNCHANGED <<mem, file, backups, unsaved>>

---------------------------------------------------------------------------
UserRequests ==
    \E u \in User :
        \/ \E entry \in Entry, grants \in Grants : CreateUser(u, entry, grants)
        \/ \E disabled \in {{}, {TRUE}, {FALSE}} : UpdateUser(u, disabled)
        \/ \E token \in Token : RotateToken(u, token)
        \/ DeleteUser(u)
        \/ \E g \in Graph : Revoke(u, g) \/ \E access \in Access : Grant(u, g, access)

GraphRequests ==
    \E g \in Graph :
        \/ Use(g)
        \/ \E kind \in {"plain", "logical"}, by \in User, users \in SUBSET User,
              access \in Access : CreateGraph(g, kind, by, users, access)
        \/ \E l \in LogicalId : EnsureLogical(g, l) \/ DeleteLogical(g, l)
        \/ \E scope \in Scope : \/ WriteRecords(g, scope) \/ WriteRecordsFails(g, scope)
                                \/ WriteUnscoped(g, scope) \/ RemoveRecords(g, scope)

SnapshotRequests ==
    \E g \in Graph :
        \/ CreateSnapshot(g) \/ ReadSnapshots(g)
        \/ \E s \in snapshots[g] : DeleteSnapshot(g, s) \/ Expire(g, s)

BackupRequests ==
    \/ \E g \in Graph : BackupGraph(g)
    \/ \E b \in backups :
        \/ DeleteBackup(b)
        \/ \E g \in Graph, overwrite \in BOOLEAN :
            \/ RestoreFails(b, g, overwrite)
            \/ \E users \in SUBSET User, access \in Access :
                    RestoreBackup(b, g, overwrite, users, access)

Next == \/ UserRequests \/ GraphRequests \/ SnapshotRequests \/ BackupRequests
        \/ Restart

Spec == Init /\ [][Next]_vars

---------------------------------------------------------------------------
(* Properties *)

\* Unless a request failed after it changed memory, a restart brings back the
\* graphs, the users, the logical graphs and every grant; only grants of the
\* configuration come back too when they had been revoked ("persisted server
\* control-plane state", local-server.md:13; registry.py:818-885).
RestartRestores ==
    ~unsaved =>
        LET l == Loaded(file) IN
        /\ l.graphs = mem.graphs /\ l.users = mem.users /\ l.logical = mem.logical
        /\ \A u \in User, g \in Graph :
                l.grants[u][g] = IF mem.grants[u][g] # NoAccess THEN mem.grants[u][g]
                                 ELSE ConfigGrants[u][g]

\* A grant names a graph there is, in memory and after any restart, except
\* what the configuration itself grants (registry.py:805-816, 470).
GrantsNameGraphs ==
    \A m \in {mem, Loaded(file)} : \A u \in User, g \in Graph \ Known(m) :
        m.grants[u][g] \in {NoAccess, ConfigGrants[u][g]}

\* A database file belongs to a graph, so that a graph created under a new
\* name is empty, until a failed restore or a restart that lost unsaved changes
\* leaves a file behind (registry.py:465, 384).
FilesBelongToGraphs ==
    ~strayed => \A g \in Graph : data[g] # NoFile => g \in Known(mem)

Orphans(g) == {l \in LogicalId : l \in Contents(g) /\ l \notin mem.logical[g]}

\* Records of a logical graph that is not registered, which no scoped request
\* can reach, appear when a backup is restored, when a restart loses unsaved
\* changes, or by a request that names no scope: never by a scoped one, nor
\* between the two steps of a creation or of a deletion (logical.py:45-48,
\* registry.py:526-541).
OrphansOnlyUnscoped ==
    [][\A g \in Graph : Orphans(g)' \ Orphans(g) # {} =>
            \/ Restart /\ unsaved
            \/ \E l \in LogicalId : WriteUnscoped(g, l)
            \/ data'[g] # data[g] /\ \E b \in backups : b.archived /\ data'[g] = b.of]_vars

\* A worker, and what its snapshots are taken of, is of a graph there is, and of
\* its file: a restore, failed or not, closes it before the files are replaced
\* (registry.py:375-384, 733-755), and so does a restart that forgets the graph.
WorkersServeFiles ==
    \A g \in Graph :
        /\ snapshots[g] # {} => g \in open
        /\ g \in open => g \in Known(mem) /\ data[g] # NoFile
=============================================================================
