--------------------------- MODULE MCServerState ---------------------------
(* Instances of ServerState for TLC: the configuration of a small server. *)
EXTENDS ServerState

\* Configured users share a token.
MCConfigToken == [u \in ConfigUser |-> CHOOSE t \in Token : TRUE]

\* The configuration grants every configured user its graphs.
MCConfigGrants ==
    [u \in User |-> [g \in Graph |->
        IF u \in ConfigUser /\ g \in ConfigGraph THEN "write" ELSE NoAccess]]

\* Bounds: users that are not configured come, have grants and go only while
\* there are no files and no backups; a request that fails leaves no snapshots.
Named(u) ==
    \/ mem.users[u] # NoEntry
    \/ \E g \in Graph : mem.grants[u][g] # NoAccess

Small ==
    /\ (\E u \in User \ ConfigUser : Named(u)) =>
            backups = {} /\ \A g \in Graph : data[g] = NoFile
    /\ faults > 0 => \A g \in Graph : snapshots[g] = {}

MCSpec == Init /\ [][Next /\ Small']_vars
=============================================================================
