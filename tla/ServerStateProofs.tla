-------------------------- MODULE ServerStateProofs --------------------------
(***************************************************************************)
(* Proofs about ServerState, for every configuration, every set of graphs, *)
(* users and logical graphs, and any number of failures: what a restart    *)
(* restores, what grants and database files name, which requests can leave *)
(* records without a registered logical graph, and what workers have open. *)
(*                                                                         *)
(* A restart restores memory only if memory was in order when it was saved:*)
(* the file has neither configured graphs nor what belongs to unknown ones.*)
(* So the invariant says of memory, and of what the file would be loaded   *)
(* as, that they are in order (Good).                                      *)
(***************************************************************************)
EXTENDS ServerState, TLAPS

Snapshot == [id : SnapshotId, expired : BOOLEAN]
Backup == [id : BackupId, of : SUBSET Scope, archived : BOOLEAN, listed : BOOLEAN]

Shape ==
    /\ data \in [Graph -> (SUBSET Scope) \cup {NoFile}]
    /\ snapshots \in [Graph -> SUBSET Snapshot]
    /\ backups \subseteq Backup
    /\ unsaved \in BOOLEAN /\ strayed \in BOOLEAN

\* Configured graphs are as configured, and grants and logical ids name graphs.
Good(m) ==
    /\ m \in Memory
    /\ \A g \in ConfigGraph : m.graphs[g] = ConfigState.graphs[g]
    /\ \A g \in Graph \ Known(m) :
        /\ m.logical[g] = {}
        /\ \A u \in User : m.grants[u][g] \in {NoAccess, ConfigGrants[u][g]}

\* A restart with the file f instead of m in memory changes nothing that counts.
Restores(f, m) ==
    /\ Loaded(f).graphs = m.graphs /\ Loaded(f).users = m.users
    /\ Loaded(f).logical = m.logical
    /\ \A u \in User, g \in Graph :
        Loaded(f).grants[u][g] = IF m.grants[u][g] # NoAccess THEN m.grants[u][g]
                                 ELSE ConfigGrants[u][g]

IInv ==
    /\ Shape
    /\ Good(mem) /\ Good(Loaded(file))
    /\ ~unsaved => Restores(file, mem)
    /\ FilesBelongToGraphs

---------------------------------------------------------------------------
(* Memory and the file *)

\* The configured state is in order.
LEMMA ConfigGood == Good(ConfigState)
<1>1. ConfigState \in Memory
  BY ConfigAssumption, AbsenceAssumption
  DEF ConfigState, Memory, Grants
<1>2. \A u \in User, g \in Graph : ConfigState.grants[u][g] = ConfigGrants[u][g]
  BY DEF ConfigState
<1>3. \A g \in Graph : ConfigState.logical[g] = {}
  BY DEF ConfigState
<1> QED
  BY <1>1, <1>2, <1>3 DEF Good

\* Configured graphs come from the configuration, the others from the file.
LEMMA SavedLoads ==
    ASSUME NEW m, Good(m)
    PROVE  Good(Loaded(Saved(m))) /\ Restores(Saved(m), m)
<1> DEFINE s == Saved(m)  l == Loaded(s)
<1>1. m \in Memory
  BY DEF Good
<1>2. /\ s \in Memory
      /\ s.grants = m.grants /\ s.users = m.users /\ s.logical = m.logical
      /\ \A g \in Graph \ ConfigGraph : s.graphs[g] = m.graphs[g]
  BY <1>1 DEF Saved, Memory
<1>3. s # NoFile
  BY <1>2, NoFileAssumption
<1>4. /\ l.graphs = [g \in Graph |-> IF g \in ConfigGraph THEN ConfigState.graphs[g]
                                     ELSE s.graphs[g]]
      /\ l.grants = [u \in User |-> [g \in Graph |->
                        IF s.grants[u][g] # NoAccess THEN s.grants[u][g]
                        ELSE ConfigGrants[u][g]]]
      /\ l.users = s.users
      /\ l.logical = [g \in Graph |-> IF l.graphs[g] = "absent" THEN {} ELSE s.logical[g]]
      /\ l = [graphs |-> l.graphs, grants |-> l.grants, users |-> l.users,
              logical |-> l.logical]
  <2> HIDE DEF s
  <2> QED
    BY <1>3 DEF Loaded
<1> HIDE DEF l, s
<1>5. l.graphs = m.graphs
  <2>1. \A g \in Graph : l.graphs[g] = m.graphs[g]
    BY <1>2, <1>4 DEF Good
  <2>2. m.graphs = [g \in Graph |-> m.graphs[g]]
    BY <1>1 DEF Memory
  <2> QED
    BY <1>4, <2>1, <2>2
<1>6. l.users = m.users
  BY <1>2, <1>4
<1>7. l.logical = m.logical
  <2>1. \A g \in Graph : m.graphs[g] = "absent" => m.logical[g] = {}
    BY DEF Good, Known
  <2>2. \A g \in Graph :
          l.logical[g] = IF m.graphs[g] = "absent" THEN {} ELSE m.logical[g]
    BY <1>2, <1>4, <1>5
  <2>3. \A g \in Graph : l.logical[g] = m.logical[g]
    BY <2>1, <2>2
  <2>4. m.logical = [g \in Graph |-> m.logical[g]]
    BY <1>1 DEF Memory
  <2> QED
    BY <1>4, <2>3, <2>4
<1>8. \A u \in User, g \in Graph :
        l.grants[u][g] = IF m.grants[u][g] # NoAccess THEN m.grants[u][g]
                         ELSE ConfigGrants[u][g]
  BY <1>2, <1>4
<1>9. l.grants \in [User -> Grants]
  <2>1. \A u \in User, g \in Graph : l.grants[u][g] \in Access \cup {NoAccess}
    BY <1>1, <1>8, ConfigAssumption DEF Memory, Grants
  <2> QED
    BY <1>4, <2>1 DEF Grants
<1>10. l \in Memory
  BY <1>1, <1>4, <1>5, <1>6, <1>7, <1>9 DEF Memory
<1>11. Good(l)
  <2>1. Known(l) = Known(m)
    BY <1>5 DEF Known
  <2> QED
    BY <1>5, <1>7, <1>8, <1>10, <2>1 DEF Good
<1> QED
  BY <1>5, <1>6, <1>7, <1>8, <1>11 DEF Restores, l, s

\* A second restart changes nothing.
LEMMA LoadedRestores ==
    ASSUME NEW f
    PROVE  Restores(f, Loaded(f))
<1>1. CASE f = NoFile
  <2>1. Loaded(f) = ConfigState
    BY <1>1 DEF Loaded
  <2>2. \A u \in User, g \in Graph : ConfigState.grants[u][g] = ConfigGrants[u][g]
    BY DEF ConfigState
  <2> QED
    BY <2>1, <2>2 DEF Restores
<1>2. CASE f # NoFile
  <2>1. \A u \in User, g \in Graph : Loaded(f).grants[u][g] =
            IF f.grants[u][g] # NoAccess THEN f.grants[u][g] ELSE ConfigGrants[u][g]
    BY <1>2 DEF Loaded
  <2> QED
    BY <2>1 DEF Restores
<1> QED
  BY <1>1, <1>2

---------------------------------------------------------------------------
(* What a step does to memory, and to the files *)

\* A request changes memory to m, which has every graph memory had.
Becomes(m) ==
    /\ Good(m)
    /\ Known(mem) \subseteq Known(m)
    /\ Save(m) \/ Raises(m)

Change == \E m : Becomes(m)

\* It leaves memory alone; a restore may have failed.
Quiet ==
    /\ mem' = mem /\ file' = file /\ unsaved' = unsaved
    /\ strayed' \in {strayed, TRUE}

\* A new database file is one of a graph, or of a restore that failed.
FilesKept ==
    \/ strayed'
    \/ \A g \in Graph : data'[g] # NoFile => data[g] # NoFile \/ g \in Known(mem')

ShapeKept ==
    /\ data' \in [Graph -> (SUBSET Scope) \cup {NoFile}]
    /\ snapshots' \in [Graph -> SUBSET Snapshot]
    /\ backups' \subseteq Backup

\* No graph loses a logical id or gains records.
NothingOrphaned ==
    \A g \in Graph : mem.logical[g] \subseteq mem'.logical[g] /\ Contents(g)' \subseteq Contents(g)

\* A request that changes memory and saves it, or fails to, keeps the invariant.
LEMMA ChangeKeeps ==
    ASSUME IInv, Change, FilesKept, ShapeKept
    PROVE  IInv'
<1>1. PICK m : Becomes(m)
  BY DEF Change
<1>2. Good(mem') /\ Known(mem) \subseteq Known(mem')
  BY <1>1 DEF Becomes, Save, SaveWorks, SaveBreaks, Raises
<1>3. strayed' = strayed /\ unsaved' \in BOOLEAN
  BY <1>1 DEF Becomes, Save, SaveWorks, SaveBreaks, Raises
<1>4. Good(Loaded(file)') /\ (~unsaved' => Restores(file', mem'))
  <2>1. CASE SaveWorks(m)
    <3>1. file' = Saved(m) /\ mem' = m
      BY <2>1 DEF SaveWorks
    <3>2. Loaded(file)' = Loaded(Saved(m))
      BY <3>1 DEF Loaded
    <3> QED
      BY <1>1, <3>1, <3>2, SavedLoads DEF Becomes
  <2>2. CASE SaveBreaks(m) \/ Raises(m)
    <3>1. file' = file /\ unsaved'
      BY <2>2 DEF SaveBreaks, Raises
    <3>2. Loaded(file)' = Loaded(file)
      BY <3>1 DEF Loaded
    <3> QED
      BY <3>1, <3>2 DEF IInv
  <2> QED
    BY <1>1, <2>1, <2>2 DEF Becomes, Save
<1>5. FilesBelongToGraphs'
  BY <1>2, <1>3 DEF FilesBelongToGraphs, FilesKept, IInv
<1>6. Shape'
  BY <1>3 DEF Shape, ShapeKept, IInv
<1>7. Restores(file', mem') = Restores(file, mem)'
  BY DEF Restores, Loaded
<1> QED
  BY <1>2, <1>4, <1>5, <1>6, <1>7 DEF IInv

\* So does one that changes nothing that is saved.
LEMMA QuietKeeps ==
    ASSUME IInv, Quiet, FilesKept, ShapeKept
    PROVE  IInv'
<1>1. Loaded(file)' = Loaded(file) /\ Known(mem') = Known(mem)
  BY DEF Quiet, Loaded
<1>2. Good(mem') /\ Good(Loaded(file)') /\ (~unsaved' => Restores(file, mem)')
  BY <1>1 DEF Quiet, IInv, Restores
<1>3. FilesBelongToGraphs'
  BY <1>1 DEF FilesBelongToGraphs, FilesKept, Quiet, IInv
<1>4. Shape'
  BY DEF Shape, ShapeKept, Quiet, IInv
<1> QED
  BY <1>2, <1>3, <1>4 DEF IInv

\* So does a restart: memory is what the file says.
LEMMA RestartKeeps ==
    ASSUME IInv, Restart
    PROVE  IInv'
<1>1. Loaded(file)' = Loaded(file) /\ mem' = Loaded(file) /\ file' = file
  BY DEF Restart, Loaded
<1>2. Good(mem') /\ Good(Loaded(file)') /\ Restores(file', mem')
  BY <1>1, LoadedRestores DEF IInv
<1>3. FilesBelongToGraphs'
  <2> SUFFICES ASSUME ~strayed'
               PROVE  FilesBelongToGraphs'
    BY DEF FilesBelongToGraphs
  <2>1. ~strayed /\ ~unsaved /\ data' = data
    BY DEF Restart, Shape, IInv
  <2>2. Known(mem') = Known(mem)
    BY <1>1, <2>1 DEF IInv, Restores, Known
  <2> QED
    BY <2>1, <2>2 DEF FilesBelongToGraphs, IInv
<1>4. Shape'
  BY DEF Shape, Restart, IInv
<1>5. Restores(file', mem') = Restores(file, mem)'
  BY DEF Restores, Loaded
<1> QED
  BY <1>2, <1>3, <1>4, <1>5 DEF IInv

---------------------------------------------------------------------------
(* What requests make of memory *)

\* An entry of a user is set or removed.
LEMMA UserChanged ==
    ASSUME NEW m, Good(m), NEW u \in User, NEW entry \in Entry \cup {NoEntry}
    PROVE  LET n == [m EXCEPT !.users[u] = entry] IN
           Good(n) /\ Known(n) = Known(m) /\ n.logical = m.logical
<1> DEFINE n == [m EXCEPT !.users[u] = entry]
<1>1. n \in Memory /\ n.graphs = m.graphs /\ n.grants = m.grants /\ n.logical = m.logical
  BY DEF Good, Memory
<1>2. Known(n) = Known(m)
  BY <1>1 DEF Known
<1> QED
  BY <1>1, <1>2 DEF Good

\* Grants that name only known graphs, or none.
LEMMA GrantsChanged ==
    ASSUME NEW m, Good(m), NEW u \in User, NEW grants \in Grants,
           \A g \in Graph \ Known(m) : grants[g] \in {NoAccess, ConfigGrants[u][g]}
    PROVE  LET n == [m EXCEPT !.grants[u] = grants] IN
           Good(n) /\ Known(n) = Known(m) /\ n.logical = m.logical
<1> DEFINE n == [m EXCEPT !.grants[u] = grants]
<1>1. n \in Memory /\ n.graphs = m.graphs /\ n.logical = m.logical
  BY DEF Good, Memory
<1>2. \A v \in User : n.grants[v] = IF v = u THEN grants ELSE m.grants[v]
  BY DEF Good, Memory
<1>3. Known(n) = Known(m)
  BY <1>1 DEF Known
<1> QED
  BY <1>1, <1>2, <1>3 DEF Good

\* A grant is set, on a graph there is, or removed.
LEMMA GrantChanged ==
    ASSUME NEW m, Good(m), NEW u \in User, NEW g \in Graph,
           NEW access \in Access \cup {NoAccess},
           g \in Known(m) \/ access = NoAccess
    PROVE  LET n == [m EXCEPT !.grants[u][g] = access] IN
           Good(n) /\ Known(n) = Known(m) /\ n.logical = m.logical
<1> DEFINE n == [m EXCEPT !.grants[u][g] = access]
<1>1. n \in Memory /\ n.graphs = m.graphs /\ n.logical = m.logical
  BY DEF Good, Memory, Grants
<1>2. \A v \in User, h \in Graph :
        n.grants[v][h] = IF v = u /\ h = g THEN access ELSE m.grants[v][h]
  BY DEF Good, Memory, Grants
<1>3. Known(n) = Known(m)
  BY <1>1 DEF Known
<1> QED
  BY <1>1, <1>2, <1>3 DEF Good

\* Users are given access to a graph there is.
LEMMA GrantedToUsers ==
    ASSUME NEW m, Good(m), NEW g \in Known(m), NEW users, NEW access \in Access
    PROVE  LET n == GrantedTo(m, g, users, access) IN
           Good(n) /\ n.graphs = m.graphs /\ Known(n) = Known(m) /\ n.logical = m.logical
<1> DEFINE n == GrantedTo(m, g, users, access)
<1>1. g \in Graph /\ m \in Memory
  BY DEF Known, Good
<1>2. n.graphs = m.graphs /\ n.logical = m.logical /\ n.users = m.users
  BY <1>1 DEF GrantedTo, Memory
<1>3. \A v \in User, h \in Graph :
        n.grants[v][h] = IF v \in users /\ h = g THEN access ELSE m.grants[v][h]
  BY <1>1 DEF GrantedTo, Memory, Grants
<1>4. n \in Memory
  BY <1>1 DEF GrantedTo, Memory, Grants
<1>5. Known(n) = Known(m)
  BY <1>2 DEF Known
<1> QED
  BY <1>2, <1>3, <1>4, <1>5 DEF Good

\* A graph that was not known, under a name the configuration does not have.
LEMMA EntryAdded ==
    ASSUME NEW m, Good(m), NEW g \in Graph \ Known(m), NEW kind \in {"plain", "logical"}
    PROVE  LET n == [m EXCEPT !.graphs[g] = kind] IN
           Good(n) /\ Known(n) = Known(m) \cup {g} /\ n.logical = m.logical
<1> DEFINE n == [m EXCEPT !.graphs[g] = kind]
<1>1. n \in Memory /\ n.grants = m.grants /\ n.logical = m.logical
  BY DEF Good, Memory
<1>2. \A h \in Graph : n.graphs[h] = IF h = g THEN kind ELSE m.graphs[h]
  BY DEF Good, Memory
<1>3. Known(n) = Known(m) \cup {g}
  BY <1>2 DEF Known
<1>4. g \notin ConfigGraph
  BY DEF Good, Known, ConfigState
<1>5. \A h \in ConfigGraph : n.graphs[h] = ConfigState.graphs[h]
  BY <1>2, <1>4, ConfigAssumption DEF Good
<1> QED
  BY <1>1, <1>3, <1>5 DEF Good

\* The logical graphs of a graph there is are replaced.
LEMMA LogicalChanged ==
    ASSUME NEW m, Good(m), NEW g \in Known(m), NEW ids \in SUBSET LogicalId
    PROVE  LET n == [m EXCEPT !.logical[g] = ids] IN
           /\ Good(n) /\ Known(n) = Known(m)
           /\ \A h \in Graph : n.logical[h] = IF h = g THEN ids ELSE m.logical[h]
<1> DEFINE n == [m EXCEPT !.logical[g] = ids]
<1>1. g \in Graph /\ m \in Memory
  BY DEF Known, Good
<1>2. n \in Memory /\ n.graphs = m.graphs /\ n.grants = m.grants
  BY <1>1 DEF Memory
<1>3. \A h \in Graph : n.logical[h] = IF h = g THEN ids ELSE m.logical[h]
  BY <1>1 DEF Memory
<1>4. Known(n) = Known(m)
  BY <1>2 DEF Known
<1> QED
  BY <1>2, <1>3, <1>4 DEF Good

---------------------------------------------------------------------------
(* The requests *)

\* A change of memory that leaves the files alone, and every logical id.
LEMMA MemoryRequest ==
    ASSUME IInv, NEW m, Becomes(m), m.logical = mem.logical, UNCHANGED files
    PROVE  Change /\ FilesKept /\ ShapeKept /\ NothingOrphaned
<1>1. Change
  BY DEF Change
<1>2. mem' = m
  BY DEF Becomes, Save, SaveWorks, SaveBreaks, Raises
<1>3. data' = data /\ snapshots' = snapshots /\ backups' = backups
  BY DEF files
<1>4. FilesKept /\ ShapeKept
  BY <1>3 DEF FilesKept, ShapeKept, Shape, IInv
<1>5. \A g \in Graph : Contents(g)' = Contents(g)
  BY <1>3 DEF Contents
<1> QED
  BY <1>1, <1>2, <1>4, <1>5 DEF NothingOrphaned

\* Who is a user has an entry.
LEMMA EffectiveEntry ==
    ASSUME IInv, NEW u \in User, HasUser(u)
    PROVE  Effective(u) \in Entry
BY ConfigAssumption DEF Effective, HasUser, Entry, IInv, Good, Memory

\* The rest of a request that may end with new grants.
LEMMA FinishBecomes ==
    ASSUME IInv, NEW m, Good(m), Known(m) = Known(mem), m.logical = mem.logical,
           NEW u \in User, NEW grants \in Grants, FinishWithGrants(m, u, grants)
    PROVE  \E n : Becomes(n) /\ n.logical = mem.logical
<1>1. CASE \E g \in Graph \ Known(m) : grants[g] # NoAccess
  BY <1>1 DEF FinishWithGrants, Becomes
<1>2. CASE \A g \in Graph \ Known(m) : grants[g] = NoAccess
  <2> DEFINE n == [m EXCEPT !.grants[u] = grants]
  <2>1. Good(n) /\ Known(n) = Known(m) /\ n.logical = m.logical
    BY <1>2, GrantsChanged
  <2>2. Save(n)
    BY <1>2 DEF FinishWithGrants
  <2> QED
    BY <2>1, <2>2 DEF Becomes
<1> QED
  BY <1>1, <1>2

\* Requests about users change memory by the rules, and no logical graph.
LEMMA UserRequestsBecome ==
    ASSUME IInv, UserRequests
    PROVE  (\E m : Becomes(m) /\ m.logical = mem.logical) /\ UNCHANGED files
<1>1. Good(mem)
  BY DEF IInv
<1>2. ASSUME NEW u \in User, NEW entry \in Entry, NEW grants \in Grants,
             CreateUser(u, entry, grants)
      PROVE  (\E m : Becomes(m) /\ m.logical = mem.logical) /\ UNCHANGED files
  <2> DEFINE m == WithUser(u, entry)
  <2>1. Good(m) /\ Known(m) = Known(mem) /\ m.logical = mem.logical
    BY <1>1, UserChanged DEF WithUser
  <2>2. FinishWithGrants(m, u, grants) /\ UNCHANGED files
    BY <1>2 DEF CreateUser
  <2> QED
    BY <2>1, <2>2, FinishBecomes
<1>3. ASSUME NEW u \in User, NEW disabled \in {{}, {TRUE}, {FALSE}},
             UpdateUser(u, disabled)
      PROVE  (\E m : Becomes(m) /\ m.logical = mem.logical) /\ UNCHANGED files
  <2> DEFINE m == WithUser(u, UpdatedEntry(u, disabled))
  <2>1. UpdatedEntry(u, disabled) \in Entry
    <3>1. Effective(u) \in Entry
      BY <1>3, EffectiveEntry DEF UpdateUser
    <3> DEFINE flag == TRUE \in disabled
    <3>2. flag \in BOOLEAN
      OBVIOUS
    <3>3. \A e \in Entry, b \in BOOLEAN : [e EXCEPT !.disabled = b] \in Entry
      BY DEF Entry
    <3> HIDE DEF flag
    <3>4. [Effective(u) EXCEPT !.disabled = flag] \in Entry
      BY <3>1, <3>2, <3>3
    <3> QED
      BY <3>1, <3>4 DEF UpdatedEntry, flag
  <2>2. Good(m) /\ Known(m) = Known(mem) /\ m.logical = mem.logical
    BY <1>1, <2>1, UserChanged DEF WithUser
  <2>3. /\ Save(m) \/ \E grants \in Grants : FinishWithGrants(m, u, grants)
        /\ UNCHANGED files
    BY <1>3 DEF UpdateUser
  <2> HIDE DEF m
  <2>4. CASE Save(m)
    BY <2>2, <2>3, <2>4 DEF Becomes
  <2>5. CASE \E grants \in Grants : FinishWithGrants(m, u, grants)
    BY <2>2, <2>3, <2>5, FinishBecomes
  <2> QED
    BY <2>3, <2>4, <2>5
<1>4. ASSUME NEW u \in User, NEW token \in Token, RotateToken(u, token)
      PROVE  (\E m : Becomes(m) /\ m.logical = mem.logical) /\ UNCHANGED files
  <2> DEFINE entry == [Effective(u) EXCEPT !.token = token]  m == WithUser(u, entry)
  <2>1. entry \in Entry
    <3>1. Effective(u) \in Entry
      BY <1>4, EffectiveEntry DEF RotateToken
    <3> QED
      BY <3>1 DEF Entry
  <2>2. Good(m) /\ Known(m) = Known(mem) /\ m.logical = mem.logical
    <3> HIDE DEF entry
    <3> QED
      BY <1>1, <2>1, UserChanged DEF WithUser
  <2> QED
    BY <1>4, <2>2 DEF RotateToken, Becomes
<1>5. ASSUME NEW u \in User, DeleteUser(u)
      PROVE  (\E m : Becomes(m) /\ m.logical = mem.logical) /\ UNCHANGED files
  <2> DEFINE m == WithUser(u, NoEntry)
  <2>1. Good(m) /\ Known(m) = Known(mem) /\ m.logical = mem.logical
    BY <1>1, UserChanged DEF WithUser
  <2> QED
    BY <1>5, <2>1 DEF DeleteUser, Becomes
<1>6. ASSUME NEW u \in User, NEW g \in Graph, NEW access \in Access \cup {NoAccess},
             g \in Known(mem) \/ access = NoAccess,
             Save([mem EXCEPT !.grants[u][g] = access]), UNCHANGED files
      PROVE  (\E m : Becomes(m) /\ m.logical = mem.logical) /\ UNCHANGED files
  <2> DEFINE m == [mem EXCEPT !.grants[u][g] = access]
  <2>1. Good(m) /\ Known(m) = Known(mem) /\ m.logical = mem.logical
    BY <1>1, <1>6, GrantChanged
  <2> QED
    BY <1>6, <2>1 DEF Becomes
<1> QED
  BY <1>2, <1>3, <1>4, <1>5, <1>6 DEF UserRequests, Grant, Revoke

---------------------------------------------------------------------------
(* Requests that touch files: what they leave of the invariant's parts, and *)
(* that they orphan nothing except where OrphansOnlyUnscoped allows it      *)

ContentsIn == \A g \in Graph : Contents(g) \in SUBSET Scope

\* The file of g becomes d, the others stay.
FileBecomes(g, d) == data' = [data EXCEPT ![g] = d]

\* One graph's file is written, the others are as they were.
LEMMA FileChanged ==
    ASSUME IInv, NEW g \in Graph, NEW d \in SUBSET Scope, FileBecomes(g, d)
    PROVE  /\ data' \in [Graph -> (SUBSET Scope) \cup {NoFile}]
           /\ data'[g] = d /\ Contents(g)' = d
           /\ \A h \in Graph \ {g} : data'[h] = data[h] /\ Contents(h)' = Contents(h)
<1>1. data \in [Graph -> (SUBSET Scope) \cup {NoFile}]
  BY DEF IInv, Shape
<1>2. /\ data' \in [Graph -> (SUBSET Scope) \cup {NoFile}] /\ data'[g] = d
      /\ \A h \in Graph \ {g} : data'[h] = data[h]
  BY <1>1 DEF FileBecomes
<1>3. d # NoFile
  BY AbsenceAssumption
<1> QED
  BY <1>2, <1>3 DEF Contents

\* Files hold records of scopes.
LEMMA ContentsAreScopes ==
    ASSUME IInv
    PROVE  ContentsIn
BY DEF ContentsIn, Contents, IInv, Shape

\* A file that a request opens, or whose records it deletes.
LEMMA FileShrinks ==
    ASSUME IInv, NEW g \in Graph, NEW d \in SUBSET Contents(g), FileBecomes(g, d),
           g \in Known(mem')
    PROVE  /\ FilesKept
           /\ data' \in [Graph -> (SUBSET Scope) \cup {NoFile}]
           /\ \A h \in Graph : Contents(h)' \subseteq Contents(h)
<1>1. d \in SUBSET Scope
  BY ContentsAreScopes DEF ContentsIn
<1>2. /\ data' \in [Graph -> (SUBSET Scope) \cup {NoFile}] /\ Contents(g)' = d
      /\ \A h \in Graph \ {g} : data'[h] = data[h] /\ Contents(h)' = Contents(h)
  BY <1>1, FileChanged
<1> QED
  BY <1>2 DEF FilesKept

\* Opening a worker adds no record.
LEMMA Opened ==
    ASSUME IInv, NEW g \in Graph, OpenWorker(g), g \in Known(mem')
    PROVE  /\ FilesKept
           /\ data' \in [Graph -> (SUBSET Scope) \cup {NoFile}]
           /\ \A h \in Graph : Contents(h)' \subseteq Contents(h)
BY FileShrinks DEF OpenWorker, FileBecomes

\* Deleting records adds none.
LEMMA Deleted ==
    ASSUME IInv, NEW g \in Graph, NEW l, RecordsDeleted(g, l), g \in Known(mem')
    PROVE  /\ FilesKept
           /\ data' \in [Graph -> (SUBSET Scope) \cup {NoFile}]
           /\ \A h \in Graph : Contents(h)' \subseteq Contents(h)
           /\ l \notin Contents(g)'
<1>1. PICK also \in SUBSET {NoScope} : FileBecomes(g, Contents(g) \ ({l} \cup also))
  BY DEF RecordsDeleted, FileBecomes
<1> DEFINE d == Contents(g) \ ({l} \cup also)
<1>2. d \in SUBSET Contents(g) /\ d \in SUBSET Scope
  BY ContentsAreScopes DEF ContentsIn
<1>3. Contents(g)' = d
  BY <1>1, <1>2, FileChanged
<1> QED
  BY <1>1, <1>2, <1>3, FileShrinks

\* A request that leaves memory and the state file alone.
Untouched == UNCHANGED <<mem, file, unsaved, strayed>>

\* What touches neither memory nor the state file is quiet.
LEMMA UntouchedQuiet ==
    ASSUME Untouched
    PROVE  Quiet
BY DEF Untouched, Quiet

\* Where orphans may appear.
Excused(g) ==
    \/ Restart /\ unsaved
    \/ \E l \in LogicalId : WriteUnscoped(g, l)
    \/ data'[g] # data[g] /\ \E b \in backups : b.archived /\ data'[g] = b.of

Tidy == \A g \in Graph : Orphans(g)' \ Orphans(g) # {} => Excused(g)

\* No new orphan, no untidy step.
LEMMA NothingOrphanedTidy ==
    ASSUME NothingOrphaned
    PROVE  Tidy
BY DEF NothingOrphaned, Tidy, Orphans

\* What is proved of every request.
Sound == (Change \/ Quiet) /\ FilesKept /\ ShapeKept /\ Tidy

\* Requests about users.
LEMMA UserRequestsSound ==
    ASSUME IInv, UserRequests
    PROVE  Sound
BY UserRequestsBecome, MemoryRequest, NothingOrphanedTidy DEF Sound

---------------------------------------------------------------------------
(* Graphs and logical graphs *)

\* A request that only opens the graph.
LEMMA UseSound ==
    ASSUME IInv, NEW g \in Graph, Use(g)
    PROVE  Sound
<1>1. Untouched /\ OpenWorker(g) /\ g \in Known(mem')
  BY DEF Use, Untouched
<1>2. ShapeKept
  BY <1>1, Opened DEF Use, ShapeKept, IInv, Shape
<1>3. NothingOrphaned
  BY <1>1, Opened DEF NothingOrphaned, Untouched
<1> QED
  BY <1>1, <1>2, <1>3, Opened, UntouchedQuiet, NothingOrphanedTidy DEF Sound

\* A graph is created.
LEMMA CreateGraphSound ==
    ASSUME IInv, NEW g \in Graph, NEW kind \in {"plain", "logical"}, NEW by \in User,
           NEW users \in SUBSET User, NEW access \in Access,
           CreateGraph(g, kind, by, users, access)
    PROVE  Sound
<1> DEFINE e == [mem EXCEPT !.graphs[g] = kind]
           m == GrantedTo(e, g, users, access)
           n == GrantedTo(m, g, {by}, "write")
<1>1. Good(e) /\ Known(e) = Known(mem) \cup {g} /\ e.logical = mem.logical
  BY EntryAdded DEF CreateGraph, IInv
<1>2. Good(m) /\ Known(m) = Known(e) /\ m.logical = e.logical
  <2> HIDE DEF e
  <2> QED
    BY <1>1, GrantedToUsers
<1>3. Good(n) /\ Known(n) = Known(m) /\ n.logical = m.logical
  <2> HIDE DEF m
  <2> QED
    BY <1>1, <1>2, GrantedToUsers, AbsenceAssumption
<1>4. Save(n) \/ Raises(m)
  BY DEF CreateGraph
<1> HIDE DEF e, m, n
<1>5. PICK k : Becomes(k) /\ Known(k) = Known(mem) \cup {g} /\ k.logical = mem.logical
  BY <1>1, <1>2, <1>3, <1>4 DEF Becomes
<1>6. mem' = k
  BY <1>5 DEF Becomes, Save, SaveWorks, SaveBreaks, Raises
<1>7. OpenWorker(g) /\ UNCHANGED <<snapshots, backups>>
  BY DEF CreateGraph
<1>8. ShapeKept
  BY <1>5, <1>6, <1>7, Opened DEF ShapeKept, IInv, Shape
<1>9. NothingOrphaned
  BY <1>5, <1>6, <1>7, Opened DEF NothingOrphaned
<1> QED
  BY <1>5, <1>6, <1>7, <1>8, <1>9, Opened, NothingOrphanedTidy DEF Sound, Change

\* The id is registered, whether or not that is saved.
LEMMA RegisteredGood ==
    ASSUME IInv, NEW g \in Known(mem), NEW l \in LogicalId
    PROVE  /\ Good(Registered(g, l)) /\ Known(Registered(g, l)) = Known(mem)
           /\ \A h \in Graph : Registered(g, l).logical[h] =
                IF h = g THEN mem.logical[g] \cup {l} ELSE mem.logical[h]
<1> DEFINE ids == mem.logical[g] \cup {l}
<1>1. Good(mem) /\ ids \in SUBSET LogicalId
  BY DEF IInv, Good, Memory, Known
<1>2. Registered(g, l) = [mem EXCEPT !.logical[g] = ids]
  BY DEF Registered
<1> HIDE DEF ids
<1>3. /\ Good(Registered(g, l)) /\ Known(Registered(g, l)) = Known(mem)
      /\ \A h \in Graph : Registered(g, l).logical[h] = IF h = g THEN ids ELSE mem.logical[h]
  BY <1>1, <1>2, LogicalChanged
<1> QED
  BY <1>3 DEF ids

\* A graph of the logical kind is one there is.
LEMMA LogicalIsKnown ==
    ASSUME NEW g \in Graph, mem.graphs[g] = "logical"
    PROVE  g \in Known(mem)
BY DEF Known

\* ensure_logical_graph, and the failed registration before records are written.
LEMMA RegistrationSound ==
    ASSUME IInv, NEW g \in Known(mem), NEW l \in LogicalId,
           Save(Registered(g, l)), UNCHANGED files
    PROVE  Sound
<1> DEFINE m == Registered(g, l)
<1>1. /\ Good(m) /\ Known(m) = Known(mem)
      /\ \A h \in Graph : mem.logical[h] \subseteq m.logical[h]
  BY RegisteredGood
<1> HIDE DEF m
<1>2. Becomes(m)
  BY <1>1 DEF Becomes, m
<1>3. mem' = m
  BY <1>2 DEF Becomes, Save, SaveWorks, SaveBreaks, Raises
<1>4. data' = data /\ snapshots' = snapshots /\ backups' = backups
  BY DEF files
<1>5. FilesKept /\ ShapeKept
  BY <1>4 DEF FilesKept, ShapeKept, Shape, IInv
<1>6. \A h \in Graph : Contents(h)' = Contents(h)
  BY <1>4 DEF Contents
<1>7. NothingOrphaned
  BY <1>1, <1>3, <1>6 DEF NothingOrphaned
<1> QED
  BY <1>2, <1>5, <1>7, NothingOrphanedTidy DEF Sound, Change

\* A logical graph is registered.
LEMMA EnsureLogicalSound ==
    ASSUME IInv, NEW g \in Graph, NEW l \in LogicalId, EnsureLogical(g, l)
    PROVE  Sound
BY RegistrationSound, LogicalIsKnown DEF EnsureLogical

\* A scoped write whose registration could not be saved.
LEMMA WriteRecordsFailsSound ==
    ASSUME IInv, NEW g \in Graph, NEW scope \in Scope, WriteRecordsFails(g, scope)
    PROVE  Sound
BY RegistrationSound, LogicalIsKnown DEF WriteRecordsFails, Save

\* The id of the records is in memory when they are written.
LEMMA WriteRecordsSound ==
    ASSUME IInv, NEW g \in Graph, NEW scope \in Scope, WriteRecords(g, scope)
    PROVE  Sound
<1> DEFINE d == Contents(g) \cup {scope}
<1>1. g \in Known(mem) /\ FileBecomes(g, d) /\ snapshots' = snapshots /\ backups' = backups
  BY DEF WriteRecords, FileBecomes
<1>2. d \in SUBSET Scope
  BY ContentsAreScopes DEF ContentsIn
<1>3. /\ data' \in [Graph -> (SUBSET Scope) \cup {NoFile}] /\ Contents(g)' = d
      /\ \A h \in Graph \ {g} : data'[h] = data[h] /\ Contents(h)' = Contents(h)
  BY <1>1, <1>2, FileChanged
<1>4. /\ Change \/ Quiet
      /\ g \in Known(mem')
      /\ \A h \in Graph : mem.logical[h] \subseteq mem'.logical[h]
      /\ scope \in LogicalId => scope \in mem'.logical[g]
  <2>1. CASE scope \in LogicalId /\ scope \notin mem.logical[g]
    <3> DEFINE m == Registered(g, scope)
    <3>1. SaveWorks(m)
      BY <2>1 DEF WriteRecords, RegistersScope
    <3>2. /\ Good(m) /\ Known(m) = Known(mem)
          /\ \A h \in Graph : mem.logical[h] \subseteq m.logical[h]
          /\ scope \in m.logical[g]
      BY <1>1, <2>1, RegisteredGood
    <3> HIDE DEF m
    <3>3. mem' = m /\ Becomes(m)
      BY <3>1, <3>2 DEF SaveWorks, Save, Becomes
    <3> QED
      BY <1>1, <3>2, <3>3 DEF Change
  <2>2. CASE ~(scope \in LogicalId /\ scope \notin mem.logical[g])
    <3>1. Untouched
      BY <2>2 DEF WriteRecords, RegistersScope, Untouched
    <3> QED
      BY <1>1, <2>2, <3>1, UntouchedQuiet DEF Untouched
  <2> QED
    BY <2>1, <2>2
<1>5. FilesKept
  BY <1>3, <1>4 DEF FilesKept
<1>6. ShapeKept
  BY <1>1, <1>3 DEF ShapeKept, IInv, Shape
<1>7. Tidy
  <2>1. \A h \in Graph : Orphans(h)' \subseteq Orphans(h)
    BY <1>3, <1>4 DEF Orphans
  <2> QED
    BY <2>1 DEF Tidy
<1> QED
  BY <1>4, <1>5, <1>6, <1>7 DEF Sound

\* A write that names no logical graph.
LEMMA WriteUnscopedSound ==
    ASSUME IInv, NEW g \in Graph, NEW scope \in Scope, WriteUnscoped(g, scope)
    PROVE  Sound
<1> DEFINE d == Contents(g) \cup {scope}
<1>1. Untouched /\ g \in Known(mem) /\ FileBecomes(g, d)
  BY DEF WriteUnscoped, FileBecomes, Untouched
<1>2. d \in SUBSET Scope
  BY ContentsAreScopes DEF ContentsIn
<1>3. /\ data' \in [Graph -> (SUBSET Scope) \cup {NoFile}] /\ Contents(g)' = d
      /\ \A h \in Graph \ {g} : data'[h] = data[h] /\ Contents(h)' = Contents(h)
  BY <1>1, <1>2, FileChanged
<1>4. FilesKept /\ ShapeKept
  BY <1>1, <1>3 DEF FilesKept, ShapeKept, Untouched, WriteUnscoped, IInv, Shape
<1>5. Tidy
  <2>1. \A h \in Graph \ {g} : Orphans(h)' = Orphans(h)
    BY <1>1, <1>3 DEF Orphans, Untouched
  <2>2. CASE scope \in LogicalId
    BY <2>1, <2>2 DEF Tidy, Excused
  <2>3. CASE scope \notin LogicalId
    <3>1. Orphans(g)' = Orphans(g)
      BY <1>1, <1>3, <2>3 DEF Orphans, Untouched
    <3> QED
      BY <2>1, <3>1 DEF Tidy
  <2> QED
    BY <2>2, <2>3
<1> QED
  BY <1>1, <1>4, <1>5, UntouchedQuiet DEF Sound

\* A deletion of records.
LEMMA RemoveRecordsSound ==
    ASSUME IInv, NEW g \in Graph, NEW scope \in Scope, RemoveRecords(g, scope)
    PROVE  Sound
<1>1. Untouched /\ RecordsDeleted(g, scope) /\ g \in Known(mem')
  BY DEF RemoveRecords, Untouched
<1>2. ShapeKept
  BY <1>1, Deleted DEF RemoveRecords, ShapeKept, IInv, Shape
<1>3. NothingOrphaned
  BY <1>1, Deleted DEF NothingOrphaned, Untouched
<1> QED
  BY <1>1, <1>2, <1>3, Deleted, UntouchedQuiet, NothingOrphanedTidy DEF Sound

\* The records go before the id does.
LEMMA DeleteLogicalSound ==
    ASSUME IInv, NEW g \in Graph, NEW l \in LogicalId, DeleteLogical(g, l)
    PROVE  Sound
<1> DEFINE m == [mem EXCEPT !.logical[g] = mem.logical[g] \ {l}]
<1>1. /\ g \in Known(mem) /\ Good(mem)
      /\ mem.logical[g] \ {l} \in SUBSET LogicalId
  BY LogicalIsKnown DEF DeleteLogical, IInv, Good, Memory
<1>2. /\ Good(m) /\ Known(m) = Known(mem)
      /\ \A h \in Graph : m.logical[h] = IF h = g THEN mem.logical[g] \ {l}
                                         ELSE mem.logical[h]
  BY <1>1, LogicalChanged
<1>3. Save(m)
  <2>1. m = [mem EXCEPT !.logical[g] = @ \ {l}]
    BY <1>1 DEF Good, Memory
  <2> HIDE DEF m
  <2> QED
    BY <2>1 DEF DeleteLogical
<1> HIDE DEF m
<1>4. Becomes(m) /\ mem' = m
  BY <1>2, <1>3 DEF Becomes, Save, SaveWorks, SaveBreaks
<1>5. RecordsDeleted(g, l) /\ g \in Known(mem') /\ UNCHANGED <<snapshots, backups>>
  BY <1>1, <1>2, <1>4 DEF DeleteLogical
<1>6. ShapeKept
  BY <1>5, Deleted DEF ShapeKept, IInv, Shape
<1>7. Tidy
  <2>1. \A h \in Graph : Contents(h)' \subseteq Contents(h) /\ l \notin Contents(g)'
    BY <1>5, Deleted
  <2>2. \A h \in Graph : Orphans(h)' \subseteq Orphans(h)
    BY <1>2, <1>4, <2>1 DEF Orphans
  <2> QED
    BY <2>2 DEF Tidy
<1> QED
  BY <1>4, <1>5, <1>6, <1>7, Deleted DEF Sound, Change

\* All requests about graphs.
LEMMA GraphRequestsSound ==
    ASSUME IInv, GraphRequests
    PROVE  Sound
BY UseSound, CreateGraphSound, EnsureLogicalSound, DeleteLogicalSound, WriteRecordsSound,
   WriteRecordsFailsSound, WriteUnscopedSound, RemoveRecordsSound
DEF GraphRequests

---------------------------------------------------------------------------
(* Snapshots and backups *)

\* Requests that change snapshots and backups alone, or files no request reads.
LEMMA FilesAlone ==
    ASSUME IInv, Untouched, data' = data,
           snapshots' \in [Graph -> SUBSET Snapshot], backups' \subseteq Backup
    PROVE  Sound
<1>1. FilesKept /\ ShapeKept
  BY DEF FilesKept, ShapeKept, IInv, Shape
<1>2. NothingOrphaned
  BY DEF NothingOrphaned, Untouched, Contents
<1> QED
  BY <1>1, <1>2, UntouchedQuiet, NothingOrphanedTidy DEF Sound

\* A worker that is started or closed and compacted.
LEMMA FileOpened ==
    ASSUME IInv, Untouched, NEW g \in Known(mem), FileBecomes(g, Contents(g)),
           snapshots' \in [Graph -> SUBSET Snapshot], backups' \subseteq Backup
    PROVE  Sound
<1>1. g \in Graph /\ g \in Known(mem')
  BY DEF Known, Untouched
<1>2. /\ FilesKept
      /\ data' \in [Graph -> (SUBSET Scope) \cup {NoFile}]
      /\ \A h \in Graph : Contents(h)' \subseteq Contents(h)
  BY <1>1, FileShrinks
<1>3. ShapeKept /\ NothingOrphaned
  BY <1>2 DEF ShapeKept, NothingOrphaned, Untouched
<1> QED
  BY <1>2, <1>3, UntouchedQuiet, NothingOrphanedTidy DEF Sound

\* What a request makes of the snapshots of one graph.
LEMMA SnapshotsOf ==
    ASSUME IInv, NEW g \in Graph, NEW S \in SUBSET Snapshot,
           snapshots' = [snapshots EXCEPT ![g] = S]
    PROVE  /\ snapshots' \in [Graph -> SUBSET Snapshot] /\ snapshots'[g] = S
           /\ \A h \in Graph \ {g} : snapshots'[h] = snapshots[h]
BY DEF IInv, Shape

\* All requests about snapshots.
LEMMA SnapshotRequestsSound ==
    ASSUME IInv, SnapshotRequests
    PROVE  Sound
<1>1. \A g \in Graph : snapshots[g] \subseteq Snapshot /\ Pruned(snapshots[g]) \subseteq Snapshot
  BY DEF IInv, Shape, Pruned
<1>2. PICK g \in Graph : \/ CreateSnapshot(g) \/ ReadSnapshots(g)
                         \/ \E s \in snapshots[g] : DeleteSnapshot(g, s) \/ Expire(g, s)
  BY DEF SnapshotRequests
<1>3. CASE CreateSnapshot(g)
  <2>1. PICK i \in SnapshotId :
          snapshots' = [snapshots EXCEPT ![g] =
                          Pruned(snapshots[g]) \cup {[id |-> i, expired |-> FALSE]}]
    BY <1>3 DEF CreateSnapshot
  <2>2. [id |-> i, expired |-> FALSE] \in Snapshot
    BY DEF Snapshot
  <2>3. snapshots' \in [Graph -> SUBSET Snapshot]
    <3>1. Pruned(snapshots[g]) \cup {[id |-> i, expired |-> FALSE]} \in SUBSET Snapshot
      BY <1>1, <2>2
    <3> QED
      BY <2>1, <3>1, SnapshotsOf
  <2>4. Untouched /\ g \in Known(mem) /\ FileBecomes(g, Contents(g)) /\ backups' \subseteq Backup
    BY <1>3 DEF CreateSnapshot, Untouched, OpenWorker, FileBecomes, IInv, Shape
  <2> QED
    BY <2>3, <2>4, FileOpened
<1>4. CASE ReadSnapshots(g)
  <2>1. snapshots' \in [Graph -> SUBSET Snapshot]
    BY <1>1, <1>4, SnapshotsOf DEF ReadSnapshots
  <2>2. Untouched /\ g \in Known(mem) /\ FileBecomes(g, Contents(g)) /\ backups' \subseteq Backup
    BY <1>4 DEF ReadSnapshots, Untouched, OpenWorker, FileBecomes, IInv, Shape
  <2> QED
    BY <2>1, <2>2, FileOpened
<1>5. ASSUME NEW s \in snapshots[g], DeleteSnapshot(g, s)
      PROVE  Sound
  <2>1. Pruned(snapshots[g]) \ {s} \in SUBSET Snapshot
    BY <1>1
  <2>2. snapshots' \in [Graph -> SUBSET Snapshot]
    BY <1>5, <2>1, SnapshotsOf DEF DeleteSnapshot
  <2> QED
    BY <1>5, <2>2, FilesAlone DEF DeleteSnapshot, Untouched, IInv, Shape
<1>6. ASSUME NEW s \in snapshots[g], Expire(g, s)
      PROVE  Sound
  <2>1. [s EXCEPT !.expired = TRUE] \in Snapshot
    BY <1>1 DEF Snapshot
  <2>2. (snapshots[g] \ {s}) \cup {[s EXCEPT !.expired = TRUE]} \in SUBSET Snapshot
    BY <1>1, <2>1
  <2>3. snapshots' \in [Graph -> SUBSET Snapshot]
    BY <1>6, <2>2, SnapshotsOf DEF Expire
  <2> QED
    BY <1>6, <2>3, FilesAlone DEF Expire, Untouched, IInv, Shape
<1> QED
  BY <1>2, <1>3, <1>4, <1>5, <1>6

\* A backup is taken.
LEMMA BackupGraphSound ==
    ASSUME IInv, NEW g \in Graph, BackupGraph(g)
    PROVE  Sound
<1>1. Untouched /\ g \in Known(mem) /\ FileBecomes(g, Contents(g))
  BY DEF BackupGraph, Untouched, FileBecomes
<1>2. snapshots' \in [Graph -> SUBSET Snapshot]
  BY SnapshotsOf DEF BackupGraph, CloseWorker
<1>3. backups' \subseteq Backup
  <2>1. ASSUME NEW i \in BackupId, NEW listed \in BOOLEAN
        PROVE  [id |-> i, of |-> Contents(g), archived |-> TRUE, listed |-> listed] \in Backup
    BY ContentsAreScopes DEF ContentsIn, Backup
  <2> QED
    BY <2>1 DEF BackupGraph, IInv, Shape
<1> QED
  BY <1>1, <1>2, <1>3, FileOpened

\* A backup is deleted.
LEMMA DeleteBackupSound ==
    ASSUME IInv, NEW b \in backups, DeleteBackup(b)
    PROVE  Sound
<1>1. [b EXCEPT !.archived = FALSE] \in Backup
  BY DEF IInv, Shape, Backup
<1>2. backups' \subseteq Backup
  BY <1>1 DEF DeleteBackup, IInv, Shape
<1> QED
  BY <1>2, FilesAlone DEF DeleteBackup, Untouched, IInv, Shape

\* The files are those of the backup, and no logical graph comes or goes.
LEMMA RestoreBackupSound ==
    ASSUME IInv, NEW b \in backups, NEW g \in Graph, NEW overwrite \in BOOLEAN,
           NEW users \in SUBSET User, NEW access \in Access,
           RestoreBackup(b, g, overwrite, users, access)
    PROVE  Sound
<1> DEFINE e == [mem EXCEPT !.graphs[g] = IF @ = "absent" THEN "plain" ELSE @]
           m == GrantedTo(e, g, users, access)
<1>1. Good(e) /\ Known(e) = Known(mem) \cup {g} /\ e.logical = mem.logical
  <2>1. Good(mem) /\ mem \in Memory
    BY DEF IInv, Good
  <2>2. CASE g \in Known(mem)
    <3>1. e = mem
      BY <2>1, <2>2 DEF Known, Memory
    <3> QED
      BY <2>1, <2>2, <3>1
  <2>3. CASE g \notin Known(mem)
    <3>1. e = [mem EXCEPT !.graphs[g] = "plain"]
      BY <2>1, <2>3 DEF Known, Memory
    <3> HIDE DEF e
    <3> QED
      BY <2>1, <2>3, <3>1, EntryAdded
  <2> QED
    BY <2>2, <2>3
<1>2. Good(m) /\ Known(m) = Known(e) /\ m.logical = e.logical
  <2> HIDE DEF e
  <2> QED
    BY <1>1, GrantedToUsers
<1>3. SaveWorks(m) \/ SaveBreaks(m) \/ Raises(m)
  BY DEF RestoreBackup
<1> HIDE DEF e, m
<1>4. Becomes(m) /\ mem' = m
  BY <1>1, <1>2, <1>3 DEF Becomes, Save, SaveWorks, SaveBreaks, Raises
<1>5. b.of \in SUBSET Scope /\ FileBecomes(g, b.of) /\ b.archived
  BY DEF RestoreBackup, FileBecomes, IInv, Shape, Backup
<1>6. /\ data' \in [Graph -> (SUBSET Scope) \cup {NoFile}]
      /\ data'[g] = b.of
      /\ \A h \in Graph \ {g} : data'[h] = data[h] /\ Contents(h)' = Contents(h)
  BY <1>5, FileChanged
<1>7. FilesKept
  BY <1>1, <1>2, <1>4, <1>6 DEF FilesKept
<1>8. ShapeKept
  <2>1. {} \in SUBSET Snapshot
    OBVIOUS
  <2>2. snapshots' \in [Graph -> SUBSET Snapshot]
    BY <2>1, SnapshotsOf DEF RestoreBackup
  <2> QED
    BY <1>6, <2>2 DEF ShapeKept, RestoreBackup, IInv, Shape
<1>9. Tidy
  <2>1. \A h \in Graph \ {g} : Orphans(h)' = Orphans(h)
    BY <1>1, <1>2, <1>4, <1>6 DEF Orphans
  <2>2. CASE data'[g] = data[g]
    <3>1. Orphans(g)' = Orphans(g)
      BY <1>1, <1>2, <1>4, <2>2 DEF Orphans, Contents
    <3> QED
      BY <2>1, <3>1 DEF Tidy
  <2>3. CASE data'[g] # data[g]
    BY <1>5, <1>6, <2>1, <2>3 DEF Tidy, Excused
  <2> QED
    BY <2>2, <2>3
<1> QED
  BY <1>4, <1>7, <1>8, <1>9 DEF Sound, Change

\* A restore that fails.
LEMMA RestoreFailsSound ==
    ASSUME IInv, NEW b \in backups, NEW g \in Graph, NEW overwrite \in BOOLEAN,
           RestoreFails(b, g, overwrite)
    PROVE  Sound
<1>1. mem' = mem /\ Quiet /\ FilesKept
  BY DEF RestoreFails, Quiet, FilesKept
<1>2. PICK d \in {data[g], NoFile, b.of} : FileBecomes(g, d)
  <2>1. data = [data EXCEPT ![g] = data[g]]
    BY DEF IInv, Shape
  <2> QED
    BY <2>1 DEF RestoreFails, FileBecomes
<1>3. /\ data' \in [Graph -> (SUBSET Scope) \cup {NoFile}] /\ data'[g] = d
      /\ \A h \in Graph \ {g} : data'[h] = data[h]
  <2>1. b.of \in SUBSET Scope /\ data \in [Graph -> (SUBSET Scope) \cup {NoFile}]
    BY DEF IInv, Shape, Backup
  <2> QED
    BY <1>2, <2>1 DEF FileBecomes
<1>4. ShapeKept
  <2>1. {} \in SUBSET Snapshot
    OBVIOUS
  <2>2. snapshots' \in [Graph -> SUBSET Snapshot]
    BY <2>1, SnapshotsOf DEF RestoreFails, CloseWorker
  <2> QED
    BY <1>3, <2>2 DEF ShapeKept, RestoreFails, IInv, Shape
<1>5. Tidy
  <2>1. \A h \in Graph : data'[h] = data[h] => Orphans(h)' = Orphans(h)
    BY <1>1 DEF Orphans, Contents
  <2>2. d = NoFile => Orphans(g)' = {}
    BY <1>3 DEF Orphans, Contents
  <2>3. data'[g] # data[g] /\ d # NoFile => Excused(g)
    BY <1>2, <1>3 DEF Excused, RestoreFails
  <2> QED
    BY <1>3, <2>1, <2>2, <2>3 DEF Tidy
<1> QED
  BY <1>1, <1>4, <1>5 DEF Sound

\* All requests about backups.
LEMMA BackupRequestsSound ==
    ASSUME IInv, BackupRequests
    PROVE  Sound
BY BackupGraphSound, DeleteBackupSound, RestoreBackupSound, RestoreFailsSound
DEF BackupRequests

---------------------------------------------------------------------------
(* Theorems *)

\* A server starts from its configuration.
LEMMA InitInv == Init => IInv
<1> SUFFICES ASSUME Init
             PROVE  IInv
  OBVIOUS
<1>1. mem = ConfigState /\ file = NoFile /\ Loaded(file) = ConfigState
  BY DEF Init, Loaded
<1>2. Restores(file, mem)
  BY <1>1, LoadedRestores
<1>3. Shape /\ FilesBelongToGraphs
  BY DEF Init, Shape, FilesBelongToGraphs
<1> QED
  BY <1>1, <1>2, <1>3, ConfigGood DEF IInv

\* Every step is sound, or a restart.
LEMMA StepSound ==
    ASSUME IInv, Next
    PROVE  Sound \/ Restart
BY UserRequestsSound, GraphRequestsSound, SnapshotRequestsSound, BackupRequestsSound DEF Next

\* Every step keeps the invariant.
LEMMA StepInv == IInv /\ [Next]_vars => IInv'
<1> SUFFICES ASSUME IInv, [Next]_vars
             PROVE  IInv'
  OBVIOUS
<1>1. CASE Next
  BY <1>1, StepSound, ChangeKeeps, QuietKeeps, RestartKeeps DEF Sound
<1>2. CASE UNCHANGED vars
  <2>1. Quiet /\ FilesKept /\ ShapeKept
    BY <1>2 DEF vars, Quiet, FilesKept, ShapeKept, IInv, Shape
  <2> QED
    BY <2>1, QuietKeeps
<1> QED
  BY <1>1, <1>2

\* The inductive invariant holds in every state.
LEMMA InvAlways == Spec => []IInv
BY InitInv, StepInv, PTL DEF Spec

\* Unless a request failed after it changed memory, a restart restores graphs,
\* users, logical graphs and grants (load_state after save_state).
THEOREM RestartsRestore == Spec => []RestartRestores
<1>1. IInv => RestartRestores
  BY DEF IInv, Restores, RestartRestores
<1> QED
  BY <1>1, InvAlways, PTL

\* Grants name graphs there are, in memory and after any restart, whatever
\* failed (set_grants, create_graph, restore_backup, load_state).
THEOREM GrantsNameOnlyGraphs == Spec => []GrantsNameGraphs
<1>1. IInv => GrantsNameGraphs
  BY DEF IInv, Good, GrantsNameGraphs
<1> QED
  BY <1>1, InvAlways, PTL

\* A database file belongs to a graph until a failed restore, or a restart that
\* lost unsaved changes (worker, create_graph, restore_backup).
THEOREM FilesOfGraphs == Spec => []FilesBelongToGraphs
<1>1. IInv => FilesBelongToGraphs
  BY DEF IInv
<1> QED
  BY <1>1, InvAlways, PTL

\* A restart that loses nothing orphans nothing.
LEMMA RestartTidy ==
    ASSUME IInv, Restart
    PROVE  Tidy
<1>1. CASE unsaved
  BY <1>1 DEF Tidy, Excused
<1>2. CASE ~unsaved
  <2>1. mem'.logical = mem.logical /\ data' = data
    BY <1>2 DEF Restart, IInv, Restores
  <2>2. NothingOrphaned
    BY <2>1 DEF NothingOrphaned, Contents
  <2> QED
    BY <2>2, NothingOrphanedTidy
<1> QED
  BY <1>1, <1>2

\* Records of an unregistered logical graph come only from a restored backup, a
\* restart that lost unsaved changes, or a request that names no scope
\* (resolve_scope, ensure_logical_graph, delete_logical_graph).
THEOREM OrphansComeUnscoped == Spec => OrphansOnlyUnscoped
<1>1. IInv /\ [Next]_vars => [Tidy]_vars
  BY StepSound, RestartTidy DEF Sound
<1>2. [Tidy]_vars =>
        [\A g \in Graph : Orphans(g)' \ Orphans(g) # {} =>
            \/ Restart /\ unsaved
            \/ \E l \in LogicalId : WriteUnscoped(g, l)
            \/ data'[g] # data[g] /\ \E b \in backups : b.archived /\ data'[g] = b.of]_vars
  BY DEF Tidy, Excused
<1> QED
  BY <1>1, <1>2, InvAlways, PTL DEF Spec, OrphansOnlyUnscoped

---------------------------------------------------------------------------
(* Workers and snapshots *)

\* A request about g: other graphs keep their workers, files and snapshots, and
\* g has a worker only on a file of a graph there is, and snapshots only in one.
ServedAt(g) ==
    /\ \A h \in Graph \ {g} : /\ h \in open' <=> h \in open
                              /\ data'[h] = data[h] /\ snapshots'[h] = snapshots[h]
    /\ g \in open' => g \in Known(mem') /\ data'[g] # NoFile
    /\ snapshots'[g] # {} => g \in open'

GraphsKept == Known(mem) \subseteq Known(mem')

LEMMA ServedKeeps ==
    ASSUME WorkersServeFiles, GraphsKept, NEW g \in Graph, ServedAt(g)
    PROVE  WorkersServeFiles'
BY DEF WorkersServeFiles, GraphsKept, ServedAt

LEMMA FilesAloneServe ==
    ASSUME WorkersServeFiles, GraphsKept, UNCHANGED <<data, open, snapshots>>
    PROVE  WorkersServeFiles'
BY DEF WorkersServeFiles, GraphsKept

\* Only a restart forgets a graph.
LEMMA SoundKeepsGraphs ==
    ASSUME Sound
    PROVE  GraphsKept
BY DEF Sound, Change, Quiet, Becomes, Save, SaveWorks, SaveBreaks, Raises, GraphsKept

\* A request that opens a worker and leaves a file there.
LEMMA OpenedServes ==
    ASSUME IInv, WorkersServeFiles, GraphsKept, NEW g \in Graph, NEW d \in SUBSET Scope,
           open' = open \cup {g}, FileBecomes(g, d), g \in Known(mem'),
           \A h \in Graph \ {g} : snapshots'[h] = snapshots[h]
    PROVE  WorkersServeFiles'
<1>1. data'[g] = d /\ \A h \in Graph \ {g} : data'[h] = data[h]
  BY FileChanged
<1>2. d # NoFile
  BY AbsenceAssumption
<1>3. ServedAt(g)
  BY <1>1, <1>2 DEF ServedAt
<1> QED
  BY <1>3, ServedKeeps

LEMMA OpenWorkerServes ==
    ASSUME IInv, WorkersServeFiles, GraphsKept, NEW g \in Graph, OpenWorker(g),
           g \in Known(mem'), \A h \in Graph \ {g} : snapshots'[h] = snapshots[h]
    PROVE  WorkersServeFiles'
<1>1. Contents(g) \in SUBSET Scope
  BY ContentsAreScopes DEF ContentsIn
<1> QED
  BY <1>1, OpenedServes DEF OpenWorker, FileBecomes

LEMMA DeletedServes ==
    ASSUME IInv, WorkersServeFiles, GraphsKept, NEW g \in Graph, NEW l, RecordsDeleted(g, l),
           g \in Known(mem'), UNCHANGED snapshots
    PROVE  WorkersServeFiles'
<1>1. PICK also \in SUBSET {NoScope} : FileBecomes(g, Contents(g) \ ({l} \cup also))
  BY DEF RecordsDeleted, FileBecomes
<1> DEFINE d == Contents(g) \ ({l} \cup also)
<1>2. d \in SUBSET Scope
  BY ContentsAreScopes DEF ContentsIn
<1> QED
  BY <1>1, <1>2, OpenedServes DEF RecordsDeleted

LEMMA WrittenServes ==
    ASSUME IInv, WorkersServeFiles, GraphsKept, NEW g \in Known(mem), NEW scope \in Scope,
           open' = open \cup {g}, FileBecomes(g, Contents(g) \cup {scope}),
           UNCHANGED snapshots
    PROVE  WorkersServeFiles'
<1>1. g \in Graph /\ g \in Known(mem')
  BY DEF Known, GraphsKept
<1>2. Contents(g) \cup {scope} \in SUBSET Scope
  BY <1>1, ContentsAreScopes DEF ContentsIn
<1> QED
  BY <1>1, <1>2, OpenedServes

\* The graph of a new entry is known.
LEMMA EntryKnown ==
    ASSUME IInv, NEW g \in Graph, NEW kind \in {"plain", "logical"}, NEW users, NEW access
    PROVE  LET m == GrantedTo([mem EXCEPT !.graphs[g] = kind], g, users, access) IN
           /\ g \in Known(m)
           /\ \A u : g \in Known(GrantedTo(m, g, u, "write"))
<1>1. mem \in Memory
  BY DEF IInv, Good
<1>2. mem.graphs \in [Graph -> {"absent", "plain", "logical"}]
      /\ mem = [graphs |-> mem.graphs, grants |-> mem.grants, users |-> mem.users,
                logical |-> mem.logical]
  BY <1>1 DEF Memory
<1> DEFINE e == [mem EXCEPT !.graphs[g] = kind]
<1>3. /\ e = [graphs |-> e.graphs, grants |-> e.grants, users |-> e.users,
              logical |-> e.logical]
      /\ e.graphs[g] = kind
  BY <1>2
<1>4. ASSUME NEW x, x = [graphs |-> x.graphs, grants |-> x.grants, users |-> x.users,
                         logical |-> x.logical], NEW u, NEW a
      PROVE  /\ GrantedTo(x, g, u, a).graphs = x.graphs
             /\ GrantedTo(x, g, u, a) = [graphs |-> x.graphs,
                                         grants |-> GrantedTo(x, g, u, a).grants,
                                         users |-> x.users, logical |-> x.logical]
  BY <1>4 DEF GrantedTo
<1> HIDE DEF e
<1> DEFINE m == GrantedTo(e, g, users, access)
<1>5. /\ m.graphs = e.graphs
      /\ m = [graphs |-> m.graphs, grants |-> m.grants, users |-> m.users,
              logical |-> m.logical]
  <2>1. m = [graphs |-> e.graphs, grants |-> m.grants, users |-> e.users,
             logical |-> e.logical]
    BY <1>3, <1>4
  <2> HIDE DEF m
  <2> QED
    BY <2>1
<1> HIDE DEF m
<1>6. \A u : GrantedTo(m, g, u, "write").graphs = m.graphs
  BY <1>4, <1>5
<1>7. g \in Known(m) /\ \A u : g \in Known(GrantedTo(m, g, u, "write"))
  BY <1>3, <1>5, <1>6 DEF Known
<1> QED
  BY <1>7 DEF m, e

\* Requests about graphs open workers on the files of graphs there are.
LEMMA GraphRequestServes ==
    ASSUME IInv, WorkersServeFiles, GraphsKept, GraphRequests
    PROVE  WorkersServeFiles'
<1>1. ASSUME NEW g \in Graph, Use(g)
      PROVE  WorkersServeFiles'
  <2>1. OpenWorker(g) /\ g \in Known(mem') /\ snapshots' = snapshots
    BY <1>1 DEF Use
  <2> QED
    BY <2>1, OpenWorkerServes
<1>2. ASSUME NEW g \in Graph, NEW kind \in {"plain", "logical"}, NEW by \in User,
             NEW users \in SUBSET User, NEW access \in Access,
             CreateGraph(g, kind, by, users, access)
      PROVE  WorkersServeFiles'
  <2>1. OpenWorker(g) /\ snapshots' = snapshots
    BY <1>2 DEF CreateGraph
  <2> DEFINE m == GrantedTo([mem EXCEPT !.graphs[g] = kind], g, users, access)
  <2>2. mem' \in {m, GrantedTo(m, g, {by}, "write")}
    BY <1>2 DEF CreateGraph, Save, SaveWorks, SaveBreaks, Raises
  <2>3. g \in Known(m) /\ \A u : g \in Known(GrantedTo(m, g, u, "write"))
    BY EntryKnown
  <2> HIDE DEF m
  <2>4. g \in Known(mem')
    BY <2>2, <2>3
  <2> QED
    BY <2>1, <2>4, OpenWorkerServes
<1>3. ASSUME NEW g \in Graph, NEW l \in LogicalId, EnsureLogical(g, l)
      PROVE  WorkersServeFiles'
  BY <1>3, FilesAloneServe DEF EnsureLogical, files
<1>4. ASSUME NEW g \in Graph, NEW l \in LogicalId, DeleteLogical(g, l)
      PROVE  WorkersServeFiles'
  <2>1. g \in Known(mem')
    BY <1>4 DEF DeleteLogical, Known, GraphsKept
  <2> QED
    BY <1>4, <2>1, DeletedServes DEF DeleteLogical
<1>5. ASSUME NEW g \in Graph, NEW scope \in Scope,
             WriteRecords(g, scope) \/ WriteUnscoped(g, scope)
      PROVE  WorkersServeFiles'
  BY <1>5, WrittenServes DEF WriteRecords, WriteUnscoped, FileBecomes
<1>6. ASSUME NEW g \in Graph, NEW scope \in Scope, WriteRecordsFails(g, scope)
      PROVE  WorkersServeFiles'
  BY <1>6, FilesAloneServe DEF WriteRecordsFails, files
<1>7. ASSUME NEW g \in Graph, NEW scope \in Scope, RemoveRecords(g, scope)
      PROVE  WorkersServeFiles'
  <2>1. g \in Known(mem')
    BY <1>7 DEF RemoveRecords, GraphsKept
  <2> QED
    BY <1>7, <2>1, DeletedServes DEF RemoveRecords
<1> QED
  BY <1>1, <1>2, <1>3, <1>4, <1>5, <1>6, <1>7 DEF GraphRequests

\* Snapshots are taken in an open worker.
LEMMA SnapshotRequestServes ==
    ASSUME IInv, WorkersServeFiles, GraphsKept, SnapshotRequests
    PROVE  WorkersServeFiles'
<1>1. snapshots \in [Graph -> SUBSET Snapshot]
  BY DEF IInv, Shape
<1>2. ASSUME NEW g \in Graph, CreateSnapshot(g) \/ ReadSnapshots(g)
      PROVE  WorkersServeFiles'
  <2>1. OpenWorker(g) /\ g \in Known(mem')
    BY <1>2 DEF CreateSnapshot, ReadSnapshots
  <2>2. \A h \in Graph \ {g} : snapshots'[h] = snapshots[h]
    BY <1>1, <1>2 DEF CreateSnapshot, ReadSnapshots
  <2> QED
    BY <2>1, <2>2, OpenWorkerServes
<1>3. ASSUME NEW g \in Graph, NEW s \in snapshots[g], DeleteSnapshot(g, s) \/ Expire(g, s)
      PROVE  WorkersServeFiles'
  <2>1. /\ \A h \in Graph \ {g} : snapshots'[h] = snapshots[h]
        /\ UNCHANGED <<mem, data, open>>
    BY <1>1, <1>3 DEF DeleteSnapshot, Expire
  <2>2. ServedAt(g)
    BY <1>3, <2>1 DEF ServedAt, WorkersServeFiles
  <2> QED
    BY <2>2, ServedKeeps
<1> QED
  BY <1>2, <1>3 DEF SnapshotRequests

\* A backup and a restore close the worker; a restore that is saved opens one.
LEMMA BackupRequestServes ==
    ASSUME IInv, WorkersServeFiles, GraphsKept, BackupRequests
    PROVE  WorkersServeFiles'
<1>1. /\ snapshots \in [Graph -> SUBSET Snapshot]
      /\ data \in [Graph -> (SUBSET Scope) \cup {NoFile}]
      /\ \A b \in backups : b.of \in SUBSET Scope
  BY DEF IInv, Shape, Backup
<1>2. ASSUME NEW g \in Graph, CloseWorker(g), NEW d, FileBecomes(g, d)
      PROVE  WorkersServeFiles'
  <2>1. \A h \in Graph \ {g} : /\ h \in open' <=> h \in open
                               /\ data'[h] = data[h] /\ snapshots'[h] = snapshots[h]
    BY <1>1, <1>2 DEF CloseWorker, FileBecomes
  <2>2. g \notin open' /\ snapshots'[g] = {}
    BY <1>1, <1>2 DEF CloseWorker
  <2>3. ServedAt(g)
    BY <2>1, <2>2 DEF ServedAt
  <2> QED
    BY <2>3, ServedKeeps
<1>3. ASSUME NEW g \in Graph, BackupGraph(g)
      PROVE  WorkersServeFiles'
  BY <1>2, <1>3 DEF BackupGraph, FileBecomes
<1>4. ASSUME NEW b \in backups, DeleteBackup(b)
      PROVE  WorkersServeFiles'
  BY <1>4, FilesAloneServe DEF DeleteBackup
<1>5. ASSUME NEW b \in backups, NEW g \in Graph, NEW overwrite \in BOOLEAN,
             RestoreFails(b, g, overwrite)
      PROVE  WorkersServeFiles'
  <2>1. PICK d \in {data[g], NoFile, b.of} : FileBecomes(g, d)
    <3>1. data = [data EXCEPT ![g] = data[g]]
      BY <1>1
    <3> QED
      BY <1>5, <3>1 DEF RestoreFails, FileBecomes
  <2> QED
    BY <1>2, <1>5, <2>1 DEF RestoreFails
<1>6. ASSUME NEW b \in backups, NEW g \in Graph, NEW overwrite \in BOOLEAN,
             NEW users \in SUBSET User, NEW access \in Access,
             RestoreBackup(b, g, overwrite, users, access)
      PROVE  WorkersServeFiles'
  <2> DEFINE kind == IF mem.graphs[g] = "absent" THEN "plain" ELSE mem.graphs[g]
             m == GrantedTo([mem EXCEPT !.graphs[g] = kind], g, users, access)
  <2>1. /\ FileBecomes(g, b.of)
        /\ snapshots' = [snapshots EXCEPT ![g] = {}]
        /\ \/ mem' = m /\ open' = open \cup {g}
           \/ open' = open \ {g}
    BY <1>6 DEF RestoreBackup, FileBecomes, SaveWorks
  <2>2. kind \in {"plain", "logical"}
    BY DEF IInv, Good, Memory
  <2> HIDE DEF kind
  <2>3. g \in Known(m)
    BY <2>2, EntryKnown
  <2> HIDE DEF m
  <2>4. CASE mem' = m /\ open' = open \cup {g}
    <3>1. b.of \in SUBSET Scope /\ \A h \in Graph \ {g} : snapshots'[h] = snapshots[h]
      BY <1>1, <2>1
    <3> QED
      BY <2>1, <2>3, <2>4, <3>1, OpenedServes
  <2>5. CASE open' = open \ {g}
    BY <1>2, <2>1, <2>5 DEF CloseWorker
  <2> QED
    BY <2>1, <2>4, <2>5
<1> QED
  BY <1>3, <1>4, <1>5, <1>6 DEF BackupRequests

\* Every worker is one of a graph there is, on its file, and every snapshot is in
\* an open worker, whatever fails (invalidate_worker before backup and restore;
\* restore_backup, load_state).
THEOREM WorkersServe == Spec => []WorkersServeFiles
<1>1. Init => WorkersServeFiles
  BY DEF Init, WorkersServeFiles
<1>2. IInv /\ WorkersServeFiles /\ [Next]_vars => WorkersServeFiles'
  <2> SUFFICES ASSUME IInv, WorkersServeFiles, [Next]_vars
               PROVE  WorkersServeFiles'
    OBVIOUS
  <2>1. CASE Restart
    BY <2>1 DEF Restart, WorkersServeFiles
  <2>2. CASE UserRequests
    <3>1. GraphsKept
      BY <2>2, UserRequestsSound, SoundKeepsGraphs
    <3> QED
      BY <2>2, <3>1, UserRequestsBecome, FilesAloneServe DEF files
  <2>3. CASE GraphRequests
    BY <2>3, GraphRequestsSound, SoundKeepsGraphs, GraphRequestServes
  <2>4. CASE SnapshotRequests
    BY <2>4, SnapshotRequestsSound, SoundKeepsGraphs, SnapshotRequestServes
  <2>5. CASE BackupRequests
    BY <2>5, BackupRequestsSound, SoundKeepsGraphs, BackupRequestServes
  <2>6. CASE UNCHANGED vars
    BY <2>6 DEF vars, WorkersServeFiles, Known
  <2> QED
    BY <2>1, <2>2, <2>3, <2>4, <2>5, <2>6 DEF Next
<1> QED
  BY <1>1, <1>2, InvAlways, PTL DEF Spec
=============================================================================
