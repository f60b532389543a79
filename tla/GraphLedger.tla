----------------------------- MODULE GraphLedger -----------------------------
(***************************************************************************)
(* What a graph database promises, whoever writes to it: its contents      *)
(* change only by whole transactions, each a few statements run one after  *)
(* the other on the contents the previous transaction left.  No handles,   *)
(* no caches, no change sets: a ledger maps live ids to records, and       *)
(* remembers the next ids.                                                 *)
(***************************************************************************)
EXTENDS Integers, Sequences

CONSTANTS
    Name, NoName, DefaultName(_),  \* external ids, as in GraphState
    Prop,                          \* values of an edge's property
    MaxBatch,                      \* bound: records created by one statement
    MaxStatements                  \* bound: statements of one transaction

VARIABLE ledger

EmptyLedger == [nodes |-> <<>>, edges |-> <<>>, nextNode |-> 0, nextEdge |-> 0]

NamesIn(nodes) == {nodes[i] : i \in DOMAIN nodes}

\* f on the ids first, first + 1, ...
Numbered(first, batch) ==
    [i \in first..(first + Len(batch) - 1) |-> batch[i - first + 1]]

\* old, and what is new.
Extended(new, old) ==
    [i \in DOMAIN new \cup DOMAIN old |-> IF i \in DOMAIN new THEN new[i] ELSE old[i]]

Without(f, ids) == [i \in DOMAIN f \ ids |-> f[i]]

Drafts(S) == UNION {[1..k -> S] : k \in 1..MaxBatch}

Named(first, batch) ==
    LET new == Numbered(first, batch) IN
    [i \in DOMAIN new |-> IF new[i] = NoName THEN DefaultName(i) ELSE new[i]]

NodesCreated(l) ==
    LET fresh(new) == /\ NamesIn(new) \cap NamesIn(l.nodes) = {}
                      /\ \A i, j \in DOMAIN new : new[i] = new[j] => i = j
    IN  {[l EXCEPT !.nodes = Extended(Named(l.nextNode, b), @), !.nextNode = @ + Len(b)] :
            b \in {d \in Drafts(Name \cup {NoName}) : fresh(Named(l.nextNode, d))}}

EdgesCreated(l) ==
    {[l EXCEPT !.edges = Extended(Numbered(l.nextEdge, b), @), !.nextEdge = @ + Len(b)] :
        b \in Drafts([src : DOMAIN l.nodes, dst : DOMAIN l.nodes, prop : Prop])}

NodeRenamed(l) ==
    {[l EXCEPT !.nodes[c[1]] = c[2]] :
        c \in {x \in (DOMAIN l.nodes) \X Name : x[2] \notin NamesIn(l.nodes)}}

EdgeChanged(l) == {[l EXCEPT !.edges[c[1]].prop = c[2]] : c \in (DOMAIN l.edges) \X Prop}

\* The edges of a node go with it.
NodeDeleted(l) ==
    LET incident(i) == {j \in DOMAIN l.edges : i \in {l.edges[j].src, l.edges[j].dst}} IN
    {[l EXCEPT !.nodes = Without(@, {i}), !.edges = Without(@, incident(i))] :
        i \in DOMAIN l.nodes}

EdgeDeleted(l) == {[l EXCEPT !.edges = Without(@, {j})] : j \in DOMAIN l.edges}

Statement(l) == NodesCreated(l) \cup EdgesCreated(l) \cup NodeRenamed(l)
                    \cup EdgeChanged(l) \cup NodeDeleted(l) \cup EdgeDeleted(l)

\* After(l)[k]: where k statements can lead from l.
After(l) ==
    LET f[k \in 0..MaxStatements] ==
            IF k = 0 THEN {l} ELSE UNION {Statement(m) : m \in f[k - 1]}
    IN  f

LedgerInit == ledger = EmptyLedger

Transaction == \E k \in 1..MaxStatements : ledger' \in After(ledger)[k]

LedgerSpec == LedgerInit /\ [][Transaction]_ledger
=============================================================================
