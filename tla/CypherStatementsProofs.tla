----------------------- MODULE CypherStatementsProofs -----------------------
(***************************************************************************)
(* What is proved about CypherStatements, for every set of statements that *)
(* the parser accepts and every value of the bounds.                       *)
(***************************************************************************)
EXTENDS CypherStatements, TLAPS, FiniteSetTheorems, SequenceTheorems, WellFoundedInduction

---------------------------------------------------------------------------
(* Graphs *)

IsNode(n) == /\ n = [id |-> n.id, ext |-> n.ext, labels |-> n.labels, val |-> n.val]
             /\ n.id \in Nat
             /\ IsFiniteSet(n.labels)
IsEdge(e) == /\ e = [id |-> e.id, src |-> e.src, dst |-> e.dst, type |-> e.type, val |-> e.val]
             /\ e.id \in Nat

IsGraph(g) == /\ g = [nodes |-> g.nodes, edges |-> g.edges, owned |-> g.owned,
                      nextNode |-> g.nextNode, nextEdge |-> g.nextEdge]
              /\ g.nextNode \in Nat /\ g.nextEdge \in Nat

\* What makes a graph of a statement one: records in order, under ids that have
\* been handed out.
Sound(g) ==
    /\ IsGraph(g)
    /\ \A n \in g.nodes : IsNode(n) /\ n.id < g.nextNode
    /\ \A e \in g.edges : IsEdge(e) /\ e.id < g.nextEdge
    /\ Consistent(g)

\* A set of numbers that has 0, and with a number the next, has them all.
LEMMA AllNumbers ==
    ASSUME NEW S, 0 \in S, \A k \in Nat : k \in S => k + 1 \in S
    PROVE  Nat \subseteq S
<1>1. SUFFICES ASSUME NEW m \in Nat \ S
               PROVE  FALSE
    OBVIOUS
<1>2. PICK k \in Nat \ S : \A j \in Nat \ S : ~(<<j, k>> \in OpToRel(<, Nat))
    BY <1>1, NatLessThanWellFounded, WFMin
<1>3. k # 0
    BY <1>2
<1>4. k - 1 \in Nat /\ (k - 1) + 1 = k
    <2>1. k \in Nat
        BY <1>2
    <2> QED
        BY <1>3, <2>1
<1>5. <<k - 1, k>> \in OpToRel(<, Nat)
    BY <1>2, <1>4 DEF OpToRel
<1>6. k - 1 \in S
    BY <1>2, <1>4, <1>5
<1> QED
    BY <1>2, <1>4, <1>6

\* A set of numbers that has a bound has a largest one.
LEMMA Largest ==
    ASSUME NEW S \in SUBSET Nat, S # {}, NEW b \in Nat, \A i \in S : i <= b
    PROVE  \E m \in S : \A i \in S : i <= m
<1>1. SUFFICES ASSUME ~(\E m \in S : \A i \in S : i <= m)
               PROVE  FALSE
    OBVIOUS
<1>2. PICK m \in S : m \in Nat
    OBVIOUS
<1> DEFINE Above == {k \in Nat : \E i \in S : m + k <= i}
<1>3. 0 \in Above
    BY <1>2
<1>4. ASSUME NEW k \in Nat, k \in Above
      PROVE  k + 1 \in Above
    <2>1. PICK i \in S : m + k <= i
        BY <1>4
    <2>2. PICK j \in S : ~(j <= i)
        BY <1>1
    <2>3. m + (k + 1) <= j
        BY <2>1, <2>2
    <2> QED
        BY <2>3
<1> HIDE DEF Above
<1>5. b + 1 \in Above
    BY <1>3, <1>4, AllNumbers
<1>6. PICK i \in S : m + (b + 1) <= i
    BY <1>5 DEF Above
<1> QED
    BY <1>2, <1>6

\* Whatever is below the next id is below what a load would take for it.
LEMMA NextAfterBelow ==
    ASSUME NEW S \in SUBSET Nat, NEW b \in Nat, \A i \in S : i < b
    PROVE  NextAfter(S) <= b
<1>1. CASE S = {}
    BY <1>1 DEF NextAfter
<1>2. CASE S # {}
    <2>1. \A i \in S : i <= b
        OBVIOUS
    <2>2. PICK m \in S : \A i \in S : i <= m
        BY <1>2, <2>1, Largest
    <2>3. PICK n \in S : NextAfter(S) = 1 + n
        BY <1>2, <2>2 DEF NextAfter
    <2> QED
        BY <2>3
<1> QED
    BY <1>1, <1>2

LEMMA SoundIds ==
    ASSUME NEW g, Sound(g)
    PROVE  /\ IdsOf(g.nodes) \in SUBSET Nat /\ \A i \in IdsOf(g.nodes) : i < g.nextNode
           /\ IdsOf(g.edges) \in SUBSET Nat /\ \A i \in IdsOf(g.edges) : i < g.nextEdge
           /\ NextAfter(IdsOf(g.nodes)) <= g.nextNode
           /\ NextAfter(IdsOf(g.edges)) <= g.nextEdge
<1>1. /\ IdsOf(g.nodes) \in SUBSET Nat /\ \A i \in IdsOf(g.nodes) : i < g.nextNode
      /\ IdsOf(g.edges) \in SUBSET Nat /\ \A i \in IdsOf(g.edges) : i < g.nextEdge
    BY DEF Sound, IsNode, IsEdge, IdsOf
<1>2. g.nextNode \in Nat /\ g.nextEdge \in Nat
    BY DEF Sound, IsGraph
<1> QED
    BY <1>1, <1>2, NextAfterBelow

\* The record with an id that a record has.
LEMMA RecordWithId ==
    ASSUME NEW R, NEW i \in IdsOf(R)
    PROVE  RecordWith(R, i) \in R /\ RecordWith(R, i).id = i
<1>1. \E r \in R : r.id = i
    BY DEF IdsOf
<1> QED
    BY <1>1 DEF RecordWith

\* As many records as ids.
LEMMA RecordsFinite ==
    ASSUME NEW R, IdsUnique(R), IsFiniteSet(IdsOf(R))
    PROVE  IsFiniteSet(R)
<1> DEFINE f == [r \in R |-> r.id]
<1>1. f \in Injection(R, IdsOf(R))
    BY DEF Injection, IdsUnique, IdsOf, IsInjective
<1> QED
    BY <1>1, FS_Injection

LEMMA SoundFinite ==
    ASSUME NEW g, Sound(g)
    PROVE  IsFiniteSet(g.nodes) /\ IsFiniteSet(g.edges)
<1>1. g.nextNode \in Nat /\ g.nextEdge \in Nat /\ IdsUnique(g.nodes) /\ IdsUnique(g.edges)
    BY DEF Sound, IsGraph, Consistent
<1>2. IsFiniteSet(IdsOf(g.nodes)) /\ IsFiniteSet(IdsOf(g.edges))
    <2>1. \A i \in IdsOf(g.nodes) : i <= g.nextNode
        BY <1>1, SoundIds
    <2>2. \A i \in IdsOf(g.edges) : i <= g.nextEdge
        BY <1>1, SoundIds
    <2> QED
        BY <1>1, <2>1, <2>2, SoundIds, FS_BoundedSetOfNaturals
<1> QED
    BY <1>1, <1>2, RecordsFinite

\* The numbers of a set in order, each once.
LEMMA AscendingLists ==
    ASSUME NEW S \in SUBSET Nat, IsFiniteSet(S)
    PROVE  /\ Cardinality(S) \in Nat
           /\ DOMAIN Ascending(S) = 1..Cardinality(S)
           /\ Ascending(S) \in Bijection(1..Cardinality(S), S)
<1> DEFINE n == Cardinality(S)
           Upto(i) == {j \in S : j <= i}
           rank == [i \in S |-> Cardinality(Upto(i))]
<1>1. n \in Nat
    BY FS_CardinalityType
<1>2. ASSUME NEW i \in S
      PROVE  rank[i] \in 1..n
    <2>1. IsFiniteSet(Upto(i)) /\ Cardinality(Upto(i)) \in Nat /\ Cardinality(Upto(i)) <= n
        BY FS_Subset, FS_CardinalityType
    <2>2. i \in Upto(i)
        OBVIOUS
    <2>3. Cardinality(Upto(i)) # 0
        BY <2>1, <2>2, FS_EmptySet
    <2> QED
        BY <2>1, <2>3, <1>1
<1>3. ASSUME NEW i \in S, NEW j \in S, rank[i] = rank[j], i <= j
      PROVE  i = j
    <2>1. IsFiniteSet(Upto(i)) /\ IsFiniteSet(Upto(j))
        BY FS_Subset
    <2>2. Cardinality(Upto(i)) = Cardinality(Upto(j))
        BY <1>3
    <2>3. Upto(i) \in SUBSET Upto(j)
        <3>1. \A k \in S : k <= i => k <= j
            BY <1>3
        <3> QED
            BY <3>1
    <2>4. Upto(i) = Upto(j)
        BY <2>1, <2>2, <2>3, FS_Subset
    <2>5. j \in Upto(j)
        OBVIOUS
    <2>6. j <= i
        BY <2>4, <2>5
    <2> QED
        BY <1>3, <2>6
<1>4. ASSUME NEW i \in S, NEW j \in S, rank[i] = rank[j]
      PROVE  i = j
    <2>1. i <= j \/ j <= i
        OBVIOUS
    <2> QED
        BY <1>3, <1>4, <2>1
<1> HIDE DEF rank
<1>5. rank \in Injection(S, 1..n)
    <2>1. rank \in [S -> 1..n]
        BY <1>2 DEF rank
    <2> QED
        BY <1>4, <2>1 DEF Injection, IsInjective
<1>6. IsFiniteSet(1..n) /\ Cardinality(1..n) = n
    BY <1>1, FS_Interval
<1>7. rank \in Surjection(S, 1..n)
    BY <1>5, <1>6, FS_Injection
<1>8. Ascending(S) = [k \in 1..n |-> CHOOSE i \in S : Cardinality(Upto(i)) = k]
    BY Zenon DEF Ascending
<1>9. ASSUME NEW k \in 1..n
      PROVE  Ascending(S)[k] \in S /\ rank[Ascending(S)[k]] = k
    <2>1. \E i \in S : rank[i] = k
        BY <1>7 DEF Surjection
    <2>2. \E i \in S : Cardinality(Upto(i)) = k
        BY <2>1 DEF rank
    <2>3. Ascending(S)[k] = CHOOSE i \in S : Cardinality(Upto(i)) = k
        BY <1>8
    <2>4. Ascending(S)[k] \in S /\ Cardinality(Upto(Ascending(S)[k])) = k
        BY <2>2, <2>3
    <2> QED
        BY <2>4 DEF rank
<1>10. DOMAIN Ascending(S) = 1..n /\ Ascending(S) = [k \in 1..n |-> Ascending(S)[k]]
    BY <1>8
<1>11. Ascending(S) \in [1..n -> S]
    BY <1>9, <1>10
<1>12. \A j, k \in 1..n : Ascending(S)[j] = Ascending(S)[k] => j = k
    BY <1>9
<1>13. \A i \in S : \E k \in 1..n : Ascending(S)[k] = i
    <2>1. SUFFICES ASSUME NEW i \in S
                   PROVE  Ascending(S)[rank[i]] = i
        BY <1>2 DEF rank
    <2>2. rank[i] \in 1..n
        BY <1>2 DEF rank
    <2>3. Ascending(S)[rank[i]] \in S /\ rank[Ascending(S)[rank[i]]] = rank[i]
        BY <1>9, <2>2
    <2> QED
        BY <1>4, <2>3
<1> QED
    BY <1>1, <1>10, <1>11, <1>12, <1>13 DEF Bijection, Injection, Surjection, IsInjective

\* In id order, each record once.
LEMMA InIdOrderLists ==
    ASSUME NEW R, IsFiniteSet(R), IdsUnique(R), IdsOf(R) \in SUBSET Nat
    PROVE  /\ Cardinality(R) \in Nat
           /\ DOMAIN InIdOrder(R) = 1..Cardinality(R)
           /\ InIdOrder(R) \in Bijection(1..Cardinality(R), R)
<1> DEFINE f == [r \in R |-> r.id]
           ids == Ascending(IdsOf(R))
           n == Cardinality(R)
<1>1. f \in Bijection(R, IdsOf(R))
    BY DEF Bijection, Injection, Surjection, IdsUnique, IdsOf, IsInjective
<1>2. IsFiniteSet(IdsOf(R)) /\ Cardinality(IdsOf(R)) = n
    BY <1>1, FS_Bijection DEF ExistsBijection
<1>3. n \in Nat /\ DOMAIN ids = 1..n /\ ids \in Bijection(1..n, IdsOf(R))
    BY <1>2, AscendingLists
<1>4. InIdOrder(R) = [k \in 1..n |-> RecordWith(R, ids[k])]
    BY <1>3 DEF InIdOrder
<1> HIDE DEF ids, n, f
<1>5. \A k \in 1..n : ids[k] \in IdsOf(R)
    BY <1>3 DEF Bijection, Injection
<1>6. \A k \in 1..n : InIdOrder(R)[k] \in R /\ InIdOrder(R)[k].id = ids[k]
    BY <1>4, <1>5, RecordWithId
<1>7. \A j, k \in 1..n : InIdOrder(R)[j] = InIdOrder(R)[k] => j = k
    <2>1. \A j, k \in 1..n : ids[j] = ids[k] => j = k
        BY <1>3 DEF Bijection, Injection, IsInjective
    <2> QED
        BY <1>6, <2>1
<1>8. \A r \in R : \E k \in 1..n : InIdOrder(R)[k] = r
    <2>1. SUFFICES ASSUME NEW r \in R
                   PROVE  \E k \in 1..n : InIdOrder(R)[k] = r
        OBVIOUS
    <2>2. r.id \in IdsOf(R)
        BY DEF IdsOf
    <2>3. PICK k \in 1..n : ids[k] = r.id
        BY <1>3, <2>2 DEF Bijection, Surjection
    <2> QED
        BY <1>6, <2>3 DEF IdsUnique
<1>9. InIdOrder(R) \in [1..n -> R]
    BY <1>4, <1>6
<1> QED
    BY <1>3, <1>4, <1>7, <1>8, <1>9 DEF Bijection, Injection, Surjection, IsInjective, n

---------------------------------------------------------------------------
(* Lists *)

\* What a list is.
LEMMA ListLen ==
    ASSUME NEW s, IsList(s)
    PROVE  Len(s) \in Nat /\ DOMAIN s = 1..Len(s) /\ s = [i \in 1..Len(s) |-> s[i]]
BY LenProperties DEF IsList

\* A function on the numbers up to some number is a list.
LEMMA MakesList ==
    ASSUME NEW s, NEW n \in Nat, s = [i \in 1..n |-> s[i]]
    PROVE  IsList(s) /\ Len(s) = n /\ DOMAIN s = 1..n
<1>1. DOMAIN s = 1..n /\ \A i \in 1..n : s[i] \in ToSet(s)
    BY DEF ToSet
<1>2. s \in [1..n -> ToSet(s)]
    BY <1>1
<1>3. s \in Seq(ToSet(s))
    BY <1>2, IsASeq
<1> QED
    BY <1>1, <1>3, LenProperties DEF IsList

\* The sequences over a set are lists.
LEMMA SeqIsList ==
    ASSUME NEW T, NEW s \in Seq(T)
    PROVE  IsList(s)
<1>1. Len(s) \in Nat /\ s = [i \in 1..Len(s) |-> s[i]]
    BY LenProperties
<1> QED
    BY <1>1, MakesList

\* A list of elements of a set is a sequence over it.
LEMMA ListIn ==
    ASSUME NEW T, NEW s, IsList(s), \A k \in 1..Len(s) : s[k] \in T
    PROVE  s \in Seq(T)
<1>1. s \in [1..Len(s) -> T] /\ Len(s) \in Nat
    BY ListLen
<1> QED
    BY <1>1, IsASeq

\* The list t has the elements of s at the places P, each once.
Takes(t, s, P) ==
    \E f \in Bijection(1..Len(t), P) : \A k \in 1..Len(t) : t[k] = s[f[k]]

\* One more place, one more element.
LEMMA TakesOneMore ==
    ASSUME NEW T, NEW s, NEW t \in Seq(T), NEW P, Takes(t, s, P), NEW i, i \notin P, s[i] \in T
    PROVE  Append(t, s[i]) \in Seq(T) /\ Takes(Append(t, s[i]), s, P \cup {i})
<1> DEFINE n == Len(t)
           u == Append(t, s[i])
<1>1. n \in Nat /\ u \in Seq(T) /\ Len(u) = n + 1
    BY AppendProperties, LenProperties
<1>2. u[n + 1] = s[i] /\ \A k \in 1..n : u[k] = t[k]
    BY AppendProperties
<1>3. PICK f \in Bijection(1..n, P) : \A k \in 1..n : t[k] = s[f[k]]
    BY DEF Takes
<1> DEFINE h == [k \in 1..(n + 1) |-> IF k <= n THEN f[k] ELSE i]
<1>4. /\ f \in [1..n -> P] /\ \A j, k \in 1..n : f[j] = f[k] => j = k
      /\ \A p \in P : \E k \in 1..n : f[k] = p
    BY <1>3 DEF Bijection, Injection, Surjection, IsInjective
<1>5. h \in [1..(n + 1) -> P \cup {i}]
    BY <1>1, <1>4
<1>6. \A j, k \in 1..(n + 1) : h[j] = h[k] => j = k
    BY <1>1, <1>4
<1>7. \A p \in P \cup {i} : \E k \in 1..(n + 1) : h[k] = p
    <2>1. ASSUME NEW p \in P
          PROVE  \E k \in 1..(n + 1) : h[k] = p
        <3>1. PICK k \in 1..n : f[k] = p
            BY <1>4
        <3>2. k \in 1..(n + 1) /\ h[k] = p
            BY <1>1, <3>1
        <3> QED
            BY <3>2
    <2>2. n + 1 \in 1..(n + 1) /\ h[n + 1] = i
        BY <1>1
    <2> QED
        BY <2>1, <2>2
<1>8. \A k \in 1..(n + 1) : u[k] = s[h[k]]
    <2>1. SUFFICES ASSUME NEW k \in 1..(n + 1)
                   PROVE  u[k] = s[h[k]]
        OBVIOUS
    <2>2. CASE k <= n
        <3>1. k \in 1..n /\ h[k] = f[k]
            BY <1>1, <2>2
        <3> QED
            BY <1>2, <1>3, <3>1
    <2>3. CASE k = n + 1
        BY <1>1, <1>2, <2>3
    <2> QED
        BY <1>1, <2>2, <2>3
<1>9. h \in Bijection(1..(n + 1), P \cup {i})
    BY <1>5, <1>6, <1>7 DEF Bijection, Injection, Surjection, IsInjective
<1> HIDE DEF h, u, n
<1>10. Takes(u, s, P \cup {i})
    BY <1>1, <1>8, <1>9 DEF Takes
<1> QED
    BY <1>1, <1>10 DEF u

KeptStep(c, x, y) == IF y \in c[1] THEN Append(x, y) ELSE x
KeptGood(c, k, x) == x \in Seq(c[3]) /\ Takes(x, c[2], {j \in 1..k : c[2][j] \in c[1]})
Keeping == INSTANCE Folding WITH Step <- KeptStep, Good <- KeptGood

\* What is kept are the elements in the set, each place once.
LEMMA KeptAre ==
    ASSUME NEW s, IsList(s), NEW S
    PROVE  /\ IsList(Kept(s, S))
           /\ Takes(Kept(s, S), s, {k \in 1..Len(s) : s[k] \in S})
<1> DEFINE T == ToSet(s)
           c == <<S, s, T>>
           n == Len(s)
           Places(m) == {k \in 1..m : s[k] \in S}
<1>1. n \in Nat /\ DOMAIN s = 1..n /\ \A k \in 1..n : s[k] \in T
    BY ListLen DEF ToSet
<1>2. c[1] = S /\ c[2] = s /\ c[3] = T
    OBVIOUS
<1> HIDE DEF c, T
<1>3. KeptGood(c, 0, << >>)
    <2>1. << >> \in Seq(T) /\ Len(<< >>) = 0
        BY EmptySeq
    <2>2. Places(0) = {} /\ 1..0 = {}
        OBVIOUS
    <2>3. << >> \in Bijection(1..0, Places(0))
        <3>1. << >> = [k \in 1..0 |-> k]
            OBVIOUS
        <3> QED
            BY <2>2, <3>1 DEF Bijection, Injection, Surjection, IsInjective
    <2>4. Takes(<< >>, s, Places(0))
        BY <2>1, <2>2, <2>3 DEF Takes
    <2> QED
        BY <1>2, <2>1, <2>4 DEF KeptGood
<1>4. ASSUME NEW k \in 1..n, NEW x, KeptGood(c, k - 1, x)
      PROVE  KeptGood(c, k, KeptStep(c, x, s[k]))
    <2>1. x \in Seq(T) /\ Takes(x, s, Places(k - 1))
        BY <1>2, <1>4 DEF KeptGood
    <2>2. CASE s[k] \in S
        <3>1. Places(k) = Places(k - 1) \cup {k} /\ k \notin Places(k - 1)
            BY <1>1, <2>2
        <3>2. KeptStep(c, x, s[k]) = Append(x, s[k])
            BY <1>2, <2>2 DEF KeptStep
        <3>3. s[k] \in T
            BY <1>1
        <3> HIDE DEF Places
        <3>4. Append(x, s[k]) \in Seq(T) /\ Takes(Append(x, s[k]), s, Places(k - 1) \cup {k})
            BY <2>1, <3>1, <3>3, TakesOneMore
        <3> QED
            BY <1>2, <3>1, <3>2, <3>4 DEF KeptGood, Places
    <2>3. CASE s[k] \notin S
        <3>1. Places(k) = Places(k - 1)
            BY <1>1, <2>3
        <3>2. KeptStep(c, x, s[k]) = x
            BY <1>2, <2>3 DEF KeptStep
        <3> QED
            BY <1>2, <2>1, <3>1, <3>2 DEF KeptGood
    <2> QED
        BY <2>2, <2>3
<1>5. KeptGood(c, n, Keeping!Fold(c, << >>, s))
    BY <1>1, <1>3, <1>4, AllNumbers, Keeping!FoldKeeps DEF Keeping!Inductive
<1>6. Keeping!Fold(c, << >>, s) = Kept(s, S)
    BY <1>2 DEF Keeping!Fold, KeptStep, Kept, FoldLeft, MapThenFoldSet, Max,
                Keeping!LastOf
<1> QED
    BY <1>2, <1>5, <1>6, SeqIsList DEF KeptGood

\* The places of the elements of the first m lists of s.
PlacesIn(s, m) == {p \in Nat \X Nat : p[1] \in 1..m /\ p[2] \in 1..Len(s[p[1]])}

\* The list t has the elements of the first m lists of s, each once.
Flat(t, s, m) ==
    \E f \in Bijection(1..Len(t), PlacesIn(s, m)) :
        \A k \in 1..Len(t) : t[k] = s[f[k][1]][f[k][2]]

\* One more list appended.
LEMMA FlatOneMore ==
    ASSUME NEW T, NEW s, NEW m \in Nat, NEW t \in Seq(T), Flat(t, s, m), s[m + 1] \in Seq(T)
    PROVE  t \o s[m + 1] \in Seq(T) /\ Flat(t \o s[m + 1], s, m + 1)
<1> DEFINE a == Len(t)
           b == Len(s[m + 1])
           u == t \o s[m + 1]
<1>1. a \in Nat /\ b \in Nat /\ u \in Seq(T) /\ Len(u) = a + b
    BY ConcatProperties, LenProperties
<1>2. \A k \in 1..(a + b) : u[k] = IF k <= a THEN t[k] ELSE s[m + 1][k - a]
    BY ConcatProperties
<1>3. PICK f \in Bijection(1..a, PlacesIn(s, m)) : \A k \in 1..a : t[k] = s[f[k][1]][f[k][2]]
    BY DEF Flat
<1> DEFINE h == [k \in 1..(a + b) |-> IF k <= a THEN f[k] ELSE <<m + 1, k - a>>]
<1>4. /\ f \in [1..a -> PlacesIn(s, m)] /\ \A j, k \in 1..a : f[j] = f[k] => j = k
      /\ \A p \in PlacesIn(s, m) : \E k \in 1..a : f[k] = p
    BY <1>3 DEF Bijection, Injection, Surjection, IsInjective
<1>5. ASSUME NEW k \in 1..(a + b), k > a
      PROVE  <<m + 1, k - a>> \in PlacesIn(s, m + 1) /\ <<m + 1, k - a>> \notin PlacesIn(s, m)
    BY <1>1, <1>5 DEF PlacesIn
<1>6. PlacesIn(s, m) \subseteq PlacesIn(s, m + 1)
    BY DEF PlacesIn
<1>7. h \in [1..(a + b) -> PlacesIn(s, m + 1)]
    <2>1. SUFFICES ASSUME NEW k \in 1..(a + b)
                   PROVE  h[k] \in PlacesIn(s, m + 1)
        OBVIOUS
    <2>2. CASE k <= a
        BY <1>1, <1>4, <1>6, <2>2
    <2>3. CASE k > a
        BY <1>1, <1>5, <2>3
    <2> QED
        BY <1>1, <2>2, <2>3
<1>8. ASSUME NEW j \in 1..(a + b), NEW k \in 1..(a + b), h[j] = h[k]
      PROVE  j = k
    <2>1. CASE j <= a /\ k <= a
        BY <1>1, <1>4, <1>8, <2>1
    <2>2. CASE j <= a /\ k > a
        <3>1. h[j] \in PlacesIn(s, m) /\ h[k] \notin PlacesIn(s, m)
            BY <1>1, <1>4, <1>5, <2>2
        <3> QED
            BY <1>8, <3>1
    <2>3. CASE j > a /\ k <= a
        <3>1. h[k] \in PlacesIn(s, m) /\ h[j] \notin PlacesIn(s, m)
            BY <1>1, <1>4, <1>5, <2>3
        <3> QED
            BY <1>8, <3>1
    <2>4. CASE j > a /\ k > a
        BY <1>1, <1>8, <2>4
    <2> QED
        BY <1>1, <2>1, <2>2, <2>3, <2>4
<1>9. ASSUME NEW p \in PlacesIn(s, m + 1)
      PROVE  \E k \in 1..(a + b) : h[k] = p
    <2>1. CASE p[1] <= m
        <3>1. p \in PlacesIn(s, m)
            BY <2>1 DEF PlacesIn
        <3>2. PICK k \in 1..a : f[k] = p
            BY <1>4, <3>1
        <3>3. k \in 1..(a + b) /\ h[k] = p
            BY <1>1, <3>2
        <3> QED
            BY <3>3
    <2>2. CASE p[1] = m + 1
        <3>1. p[2] \in 1..b /\ p = <<m + 1, p[2]>>
            BY <2>2 DEF PlacesIn
        <3> DEFINE k == a + p[2]
        <3>2. k \in 1..(a + b) /\ k > a /\ k - a = p[2]
            BY <1>1, <3>1
        <3>3. h[k] = p
            BY <1>1, <3>1, <3>2
        <3> QED
            BY <3>2, <3>3
    <2>3. p[1] <= m \/ p[1] = m + 1
        BY DEF PlacesIn
    <2> QED
        BY <2>1, <2>2, <2>3
<1>10. h \in Bijection(1..(a + b), PlacesIn(s, m + 1))
    BY <1>7, <1>8, <1>9 DEF Bijection, Injection, Surjection, IsInjective
<1>11. ASSUME NEW k \in 1..(a + b)
       PROVE  u[k] = s[h[k][1]][h[k][2]]
    <2>1. CASE k <= a
        <3>1. k \in 1..a /\ h[k] = f[k]
            BY <1>1, <2>1
        <3> QED
            BY <1>2, <1>3, <2>1, <3>1
    <2>2. CASE k > a
        <3>1. h[k] = <<m + 1, k - a>>
            BY <1>1, <2>2
        <3> QED
            BY <1>1, <1>2, <2>2, <3>1
    <2>3. k <= a \/ k > a
        BY <1>1
    <2> QED
        BY <2>1, <2>2, <2>3, Zenon
<1> HIDE DEF h, u, a, b
<1>12. Flat(u, s, m + 1)
    BY <1>1, <1>10, <1>11 DEF Flat
<1> QED
    BY <1>1, <1>12 DEF u

Joint(x, y) == x \o y
IsFlatten(F, s, m) == F = [i \in 1..m |-> IF i = 1 THEN s[i] ELSE Joint(F[i - 1], s[i])]

\* FlattenSeq is defined by such a function.
LEMMA FlattenExists ==
    ASSUME NEW s, NEW n \in Nat
    PROVE  \E F : IsFlatten(F, s, n)
<1> DEFINE S == {m \in Nat : \E F : IsFlatten(F, s, m)}
<1>1. 0 \in S
    <2>1. IsFlatten([k \in 1..0 |-> k], s, 0)
        BY DEF IsFlatten
    <2> QED
        BY <2>1
<1>2. ASSUME NEW m \in Nat, m \in S
      PROVE  m + 1 \in S
    <2>1. PICK F : IsFlatten(F, s, m)
        BY <1>2
    <2> DEFINE H == [i \in 1..(m + 1) |-> IF i <= m THEN F[i]
                                          ELSE IF i = 1 THEN s[i] ELSE Joint(F[m], s[i])]
    <2>2. ASSUME NEW i \in 1..(m + 1)
          PROVE  H[i] = IF i = 1 THEN s[i] ELSE Joint(H[i - 1], s[i])
        <3>1. CASE i <= m
            BY <2>1, <3>1 DEF IsFlatten
        <3>2. CASE i = m + 1 /\ i = 1
            BY <3>2
        <3>3. CASE i = m + 1 /\ i # 1
            <4>1. i - 1 \in 1..(m + 1) /\ i - 1 = m /\ H[i - 1] = F[m] /\ H[i] = Joint(F[m], s[i])
                BY <3>3
            <4> QED
                BY <3>3, <4>1
        <3> QED
            BY <3>1, <3>2, <3>3
    <2>3. H = [i \in 1..(m + 1) |-> H[i]]
        OBVIOUS
    <2> HIDE DEF H
    <2>4. IsFlatten(H, s, m + 1)
        BY <2>2, <2>3 DEF IsFlatten
    <2> QED
        BY <2>4
<1> HIDE DEF S
<1>3. Nat \subseteq S
    BY <1>1, <1>2, AllNumbers
<1> QED
    BY <1>3 DEF S

\* A flattened list of lists has the elements of them all, each once.
LEMMA Flattened ==
    ASSUME NEW s, IsList(s), \A i \in 1..Len(s) : IsList(s[i])
    PROVE  IsList(FlattenSeq(s)) /\ Flat(FlattenSeq(s), s, Len(s))
<1> DEFINE n == Len(s)
           T == UNION {ToSet(s[i]) : i \in 1..n}
           F == CHOOSE F : IsFlatten(F, s, n)
<1>1. n \in Nat /\ DOMAIN s = 1..n /\ s = [i \in 1..n |-> s[i]]
    BY ListLen
<1>2. ASSUME NEW i \in 1..n
      PROVE  s[i] \in Seq(T)
    <2>1. \A k \in 1..Len(s[i]) : s[i][k] \in T
        BY ListLen DEF ToSet
    <2> HIDE DEF T
    <2> QED
        BY <2>1, ListIn
<1> HIDE DEF T
<1>3. CASE n = 0
    <2>1. FlattenSeq(s) = s /\ s = << >> /\ Len(s) = 0
        BY <1>1, <1>3 DEF FlattenSeq
    <2>2. PlacesIn(s, 0) = {} /\ 1..0 = {}
        BY DEF PlacesIn
    <2>3. << >> = [k \in 1..0 |-> k]
        OBVIOUS
    <2>4. << >> \in Bijection(1..0, PlacesIn(s, 0))
        BY <2>2, <2>3 DEF Bijection, Injection, Surjection, IsInjective
    <2>5. Flat(s, s, 0)
        BY <2>1, <2>2, <2>4 DEF Flat
    <2> QED
        BY <1>3, <2>1, <2>5
<1>4. CASE n # 0
    <2>1. IsFlatten(F, s, n)
        BY <1>1, FlattenExists
    <2>2. FlattenSeq(s) = F[n]
        BY <1>4 DEF FlattenSeq, IsFlatten, Joint
    <2> HIDE DEF F
    <2>a. F[1] = s[1] /\ \A i \in 2..n : F[i] = Joint(F[i - 1], s[i])
        BY <1>1, <1>4, <2>1 DEF IsFlatten
    <2>3. F[1] = s[1] /\ \A i \in 2..n : F[i] = F[i - 1] \o s[i]
        BY <2>a DEF Joint
    <2> DEFINE S == {m \in Nat : m + 1 <= n => F[m + 1] \in Seq(T) /\ Flat(F[m + 1], s, m + 1)}
    <2>4. 0 \in S
        <3>1. s[1] \in Seq(T)
            BY <1>1, <1>2, <1>4
        <3>2. << >> \in Seq(T) /\ Len(<< >>) = 0 /\ << >> \o s[1] = s[1]
            BY <3>1, EmptySeq, ConcatEmptySeq
        <3>3. PlacesIn(s, 0) = {} /\ 1..0 = {}
            BY DEF PlacesIn
        <3>4. << >> = [k \in 1..0 |-> k]
            OBVIOUS
        <3>5. << >> \in Bijection(1..0, PlacesIn(s, 0))
            BY <3>3, <3>4 DEF Bijection, Injection, Surjection, IsInjective
        <3>6. Flat(<< >>, s, 0)
            BY <3>2, <3>3, <3>5 DEF Flat
        <3>7. Flat(<< >> \o s[1], s, 1)
            <4>1. 0 \in Nat /\ 0 + 1 = 1
                OBVIOUS
            <4>2. Flat(<< >> \o s[0 + 1], s, 0 + 1)
                BY <3>1, <3>2, <3>6, <4>1, FlatOneMore
            <4> QED
                BY <4>1, <4>2
        <3> QED
            BY <2>3, <3>1, <3>2, <3>7
    <2>5. ASSUME NEW m \in Nat, m \in S
          PROVE  m + 1 \in S
        <3>1. SUFFICES ASSUME (m + 1) + 1 <= n
                       PROVE  F[(m + 1) + 1] \in Seq(T) /\ Flat(F[(m + 1) + 1], s, (m + 1) + 1)
            OBVIOUS
        <3>2. F[m + 1] \in Seq(T) /\ Flat(F[m + 1], s, m + 1) /\ m + 1 \in Nat
            BY <1>1, <2>5, <3>1
        <3>3. (m + 1) + 1 \in 2..n /\ ((m + 1) + 1) - 1 = m + 1
            BY <1>1, <3>1
        <3>4. s[(m + 1) + 1] \in Seq(T)
            BY <1>1, <1>2, <3>3
        <3>5. F[(m + 1) + 1] = F[m + 1] \o s[(m + 1) + 1]
            BY <2>3, <3>3
        <3> QED
            BY <3>2, <3>4, <3>5, FlatOneMore
    <2> HIDE DEF S
    <2>6. Nat \subseteq S
        BY <2>4, <2>5, AllNumbers
    <2>7. n - 1 \in S /\ (n - 1) + 1 = n
        BY <1>1, <1>4, <2>6
    <2>8. F[n] \in Seq(T) /\ Flat(F[n], s, n)
        BY <2>7 DEF S
    <2> QED
        BY <2>2, <2>8, SeqIsList
<1> QED
    BY <1>3, <1>4

\* What is kept is in the set and in the list.
LEMMA KeptElements ==
    ASSUME NEW s, IsList(s), NEW S, NEW k \in 1..Len(Kept(s, S))
    PROVE  Kept(s, S)[k] \in S /\ \E i \in 1..Len(s) : Kept(s, S)[k] = s[i]
<1>1. PICK f \in Bijection(1..Len(Kept(s, S)), {i \in 1..Len(s) : s[i] \in S}) :
            \A j \in 1..Len(Kept(s, S)) : Kept(s, S)[j] = s[f[j]]
    BY KeptAre DEF Takes
<1>2. f[k] \in {i \in 1..Len(s) : s[i] \in S}
    BY <1>1 DEF Bijection, Injection
<1> QED
    BY <1>1, <1>2

\* What is in a flattened list is in one of the lists.
LEMMA FlattenedElements ==
    ASSUME NEW s, IsList(s), \A i \in 1..Len(s) : IsList(s[i]), NEW k \in 1..Len(FlattenSeq(s))
    PROVE  \E i \in 1..Len(s) : \E j \in 1..Len(s[i]) : FlattenSeq(s)[k] = s[i][j]
<1>1. PICK f \in Bijection(1..Len(FlattenSeq(s)), PlacesIn(s, Len(s))) :
            \A j \in 1..Len(FlattenSeq(s)) : FlattenSeq(s)[j] = s[f[j][1]][f[j][2]]
    BY Flattened DEF Flat
<1>2. f[k] \in PlacesIn(s, Len(s))
    BY <1>1 DEF Bijection, Injection
<1> QED
    BY <1>1, <1>2 DEF PlacesIn

---------------------------------------------------------------------------
(* Rows and what matching finds *)

Refs(g) == {NodeRef(i) : i \in IdsOf(g.nodes)} \cup {RelRef(i) : i \in IdsOf(g.edges)}

IsRow(g, row) == row \in [DOMAIN row -> Refs(g)]

\* The variables of a pattern up to its k-th relationship and the node after it.
VarsTo(p, k) ==
    ({p.nodes[j].var : j \in 1..(k + 1)} \cup {p.rels[j].var : j \in 1..k}) \ {NoVar}
PathVars(p) == VarsTo(p, Len(p.rels))

IsWay(g, p, k, way) == /\ IsRow(g, way.row)
                       /\ DOMAIN way.row = VarsTo(p, k)
                       /\ way.at \in IdsOf(g.nodes)

IsFound(g, p, k, found) == /\ found.ok \in BOOLEAN /\ IsList(found.ways)
                           /\ \A i \in 1..Len(found.ways) : IsWay(g, p, k, found.ways[i])

\* The lists of a pattern.
LEMMA PathLists ==
    ASSUME NEW p, PathParsed(p)
    PROVE  /\ IsList(p.nodes) /\ IsList(p.rels)
           /\ Len(p.rels) \in Nat /\ Len(p.nodes) = Len(p.rels) + 1
           /\ DOMAIN p.nodes = 1..(Len(p.rels) + 1) /\ DOMAIN p.rels = 1..Len(p.rels)
           /\ \A k \in 1..(Len(p.rels) + 1) : IsList(p.nodes[k].props) /\ IsFiniteSet(p.nodes[k].labels)
           /\ \A k \in 1..Len(p.rels) :
                IsList(p.rels[k].props) /\ p.rels[k].direction \in {"out", "in", "both"}
<1>1. /\ IsList(p.nodes) /\ IsList(p.rels)
      /\ Len(p.rels) \in Nat /\ Len(p.nodes) = Len(p.rels) + 1
      /\ DOMAIN p.nodes = 1..(Len(p.rels) + 1) /\ DOMAIN p.rels = 1..Len(p.rels)
    BY ListLen DEF PathParsed
<1>2. /\ \A k \in 1..(Len(p.rels) + 1) : p.nodes[k] \in ToSet(p.nodes)
      /\ \A k \in 1..Len(p.rels) : p.rels[k] \in ToSet(p.rels)
    BY <1>1 DEF ToSet
<1> QED
    BY <1>1, <1>2 DEF PathParsed

WithVar(V, var) == V \cup ({var} \ {NoVar})

\* Binding a variable.
LEMMA BoundRow ==
    ASSUME NEW g, NEW row, IsRow(g, row), NEW ref \in Refs(g), NEW var
    PROVE  /\ IsRow(g, Bound(row, var, ref))
           /\ DOMAIN Bound(row, var, ref) = WithVar(DOMAIN row, var)
           /\ \A v \in DOMAIN row : v # var => Bound(row, var, ref)[v] = row[v]
           /\ var # NoVar => Bound(row, var, ref)[var] = ref
BY DEF IsRow, Bound, WithVar

\* The records of a graph in the order of their ids.
LEMMA SoundLists ==
    ASSUME NEW g, Sound(g)
    PROVE  /\ IsList(InIdOrder(g.nodes)) /\ IsList(InIdOrder(g.edges))
           /\ InIdOrder(g.nodes) \in Bijection(1..Len(InIdOrder(g.nodes)), g.nodes)
           /\ InIdOrder(g.edges) \in Bijection(1..Len(InIdOrder(g.edges)), g.edges)
<1>1. /\ IsFiniteSet(g.nodes) /\ IdsUnique(g.nodes) /\ IdsOf(g.nodes) \in SUBSET Nat
      /\ IsFiniteSet(g.edges) /\ IdsUnique(g.edges) /\ IdsOf(g.edges) \in SUBSET Nat
    BY SoundFinite, SoundIds DEF Sound, Consistent
<1>2. ASSUME NEW R, IsFiniteSet(R), IdsUnique(R), IdsOf(R) \in SUBSET Nat
      PROVE  IsList(InIdOrder(R)) /\ InIdOrder(R) \in Bijection(1..Len(InIdOrder(R)), R)
    <2>1. /\ Cardinality(R) \in Nat /\ DOMAIN InIdOrder(R) = 1..Cardinality(R)
          /\ InIdOrder(R) \in Bijection(1..Cardinality(R), R)
        BY <1>2, InIdOrderLists
    <2>2. InIdOrder(R) = [i \in 1..Cardinality(R) |-> InIdOrder(R)[i]]
        BY <2>1 DEF Bijection, Injection
    <2> QED
        BY <2>1, <2>2, MakesList
<1> QED
    BY <1>1, <1>2

\* An edge leads from a node to another in a direction.
Leads(e, direction, id, far) ==
    \/ direction \in {"out", "both"} /\ e.src = id /\ e.dst = far
    \/ direction \in {"in", "both"} /\ e.dst = id /\ e.src = far

\* Where an edge leads from a node, once.
LEMMA FarEndsLead ==
    ASSUME NEW e, NEW direction, NEW id
    PROVE  /\ IsList(FarEnds(e, direction, id)) /\ Len(FarEnds(e, direction, id)) \in {0, 1}
           /\ \A j \in 1..Len(FarEnds(e, direction, id)) :
                    j = 1 /\ Leads(e, direction, id, FarEnds(e, direction, id)[j])
           /\ \A far : Leads(e, direction, id, far) =>
                    1 \in 1..Len(FarEnds(e, direction, id)) /\ FarEnds(e, direction, id)[1] = far
<1>1. \A x : IsList(<<x>>) /\ Len(<<x>>) = 1 /\ <<x>>[1] = x
    <2>1. \A x : <<x>> \in Seq({x}) /\ Len(<<x>>) = 1 /\ <<x>>[1] = x
        OBVIOUS
    <2> QED
        BY <2>1, SeqIsList
<1>2. IsList(<< >>) /\ Len(<< >>) = 0
    BY EmptySeq, SeqIsList
<1>3. CASE direction \in {"out", "both"} /\ e.src = id
    BY <1>1, <1>3 DEF FarEnds, Leads
<1>4. CASE ~(direction \in {"out", "both"} /\ e.src = id) /\ direction \in {"in", "both"} /\ e.dst = id
    BY <1>1, <1>4 DEF FarEnds, Leads
<1>5. CASE ~(direction \in {"out", "both"} /\ e.src = id) /\ ~(direction \in {"in", "both"} /\ e.dst = id)
    BY <1>2, <1>5 DEF FarEnds, Leads
<1> QED
    BY <1>3, <1>4, <1>5

StepSet(g, direction, id) ==
    {x \in g.edges \X IdsOf(g.nodes) : Leads(x[1], direction, id, x[2])}

\* The steps from a node are all there are, each once.
LEMMA StepsAre ==
    ASSUME NEW g, Sound(g), NEW direction, NEW id
    PROVE  /\ IsList(Steps(g, direction, id))
           /\ Steps(g, direction, id) \in
                    Bijection(1..Len(Steps(g, direction, id)), StepSet(g, direction, id))
<1> DEFINE ends(e) == FarEnds(e, direction, id)
           edges == InIdOrder(g.edges)
           n == Len(edges)
           lists == [i \in DOMAIN edges |-> [j \in DOMAIN ends(edges[i]) |-> <<edges[i], ends(edges[i])[j]>>]]
           steps == FlattenSeq(lists)
           D == StepSet(g, direction, id)
<1>1. Steps(g, direction, id) = steps
    BY DEF Steps
<1>2. IsList(edges) /\ edges \in Bijection(1..n, g.edges) /\ n \in Nat /\ DOMAIN edges = 1..n
    BY SoundLists, ListLen
<1>3. /\ \A i \in 1..n : edges[i] \in g.edges
      /\ \A i, j \in 1..n : edges[i] = edges[j] => i = j
      /\ \A e \in g.edges : \E i \in 1..n : edges[i] = e
    BY <1>2 DEF Bijection, Injection, Surjection, IsInjective
<1>4. \A e \in g.edges : e.src \in IdsOf(g.nodes) /\ e.dst \in IdsOf(g.nodes)
    BY DEF Sound, Consistent, EndpointsExist
<1> HIDE DEF edges
<1>5. IsList(lists) /\ Len(lists) = n
    <2>1. lists = [i \in 1..n |-> lists[i]]
        BY <1>2
    <2> QED
        BY <1>2, <2>1, MakesList
<1>6. ASSUME NEW i \in 1..n
      PROVE  /\ IsList(lists[i]) /\ Len(lists[i]) = Len(ends(edges[i]))
             /\ \A j \in 1..Len(lists[i]) : lists[i][j] = <<edges[i], ends(edges[i])[j]>>
    <2>1. IsList(ends(edges[i])) /\ Len(ends(edges[i])) \in Nat
        BY FarEndsLead
    <2>2. DOMAIN ends(edges[i]) = 1..Len(ends(edges[i]))
        BY <2>1, ListLen
    <2>3. lists[i] = [j \in 1..Len(ends(edges[i])) |-> <<edges[i], ends(edges[i])[j]>>]
        BY <1>2, <2>2
    <2> DEFINE l == lists[i]
    <2>4. l = [j \in 1..Len(ends(edges[i])) |-> l[j]]
        BY <2>3
    <2> HIDE DEF l
    <2>5. IsList(l) /\ Len(l) = Len(ends(edges[i]))
        BY <2>1, <2>4, MakesList
    <2> QED
        BY <2>3, <2>5 DEF l
<1> HIDE DEF lists
<1>7. IsList(steps) /\ Flat(steps, lists, n)
    BY <1>5, <1>6, Flattened
<1>8. PICK f \in Bijection(1..Len(steps), PlacesIn(lists, n)) :
            \A k \in 1..Len(steps) : steps[k] = lists[f[k][1]][f[k][2]]
    BY <1>7 DEF Flat
<1>9. /\ \A k \in 1..Len(steps) : f[k] \in PlacesIn(lists, n)
      /\ \A j, k \in 1..Len(steps) : f[j] = f[k] => j = k
      /\ \A p \in PlacesIn(lists, n) : \E k \in 1..Len(steps) : f[k] = p
    BY <1>8 DEF Bijection, Injection, Surjection, IsInjective
<1>10. ASSUME NEW k \in 1..Len(steps)
      PROVE  /\ f[k][1] \in 1..n /\ f[k] = <<f[k][1], 1>>
             /\ steps[k] = <<edges[f[k][1]], ends(edges[f[k][1]])[1]>>
             /\ Leads(edges[f[k][1]], direction, id, ends(edges[f[k][1]])[1])
    <2>1. /\ f[k] \in Nat \X Nat /\ f[k][1] \in 1..n /\ f[k][2] \in 1..Len(lists[f[k][1]])
        BY <1>9 DEF PlacesIn
    <2>2. f[k][2] \in 1..Len(ends(edges[f[k][1]]))
        BY <1>6, <2>1
    <2>3. f[k][2] = 1 /\ Leads(edges[f[k][1]], direction, id, ends(edges[f[k][1]])[1])
        BY <2>2, FarEndsLead
    <2>4. f[k] = <<f[k][1], 1>>
        BY <2>1, <2>3
    <2>5. steps[k] = lists[f[k][1]][f[k][2]]
        BY <1>8
    <2> QED
        BY <1>6, <2>1, <2>3, <2>4, <2>5
<1>11. ASSUME NEW k \in 1..Len(steps)
       PROVE  steps[k] \in D
    <2>1. edges[f[k][1]] \in g.edges
        BY <1>3, <1>10
    <2>2. ends(edges[f[k][1]])[1] \in IdsOf(g.nodes)
        BY <1>4, <1>10, <2>1 DEF Leads
    <2>3. \A e \in g.edges, far \in IdsOf(g.nodes) :
            Leads(e, direction, id, far) => <<e, far>> \in D
        BY DEF StepSet
    <2> QED
        BY <1>10, <2>1, <2>2, <2>3
<1>12. ASSUME NEW j \in 1..Len(steps), NEW k \in 1..Len(steps), steps[j] = steps[k]
       PROVE  j = k
    <2>1. edges[f[j][1]] = edges[f[k][1]]
        BY <1>10, <1>12
    <2>2. f[j][1] = f[k][1]
        BY <1>3, <1>10, <2>1
    <2>3. f[j] = f[k]
        BY <1>10, <2>2
    <2> QED
        BY <1>9, <2>3
<1>13. ASSUME NEW x \in D
       PROVE  \E k \in 1..Len(steps) : steps[k] = x
    <2>1. x = <<x[1], x[2]>> /\ x[1] \in g.edges /\ Leads(x[1], direction, id, x[2])
        BY DEF StepSet
    <2>2. PICK i \in 1..n : edges[i] = x[1]
        BY <1>3, <2>1
    <2>3. 1 \in 1..Len(ends(x[1])) /\ ends(x[1])[1] = x[2]
        BY <2>1, FarEndsLead
    <2>a. Len(lists[i]) = Len(ends(x[1]))
        BY <1>6, <2>2
    <2>b. 1 \in 1..Len(lists[i])
        BY <2>3, <2>a
    <2>c. lists[i][1] = <<edges[i], ends(edges[i])[1]>>
        BY <1>6, <2>b, Zenon
    <2>4. 1 \in 1..Len(lists[i]) /\ lists[i][1] = x
        BY <2>1, <2>2, <2>3, <2>b, <2>c, Zenon
    <2>5. <<i, 1>> \in PlacesIn(lists, n)
        BY <2>4 DEF PlacesIn
    <2>6. PICK k \in 1..Len(steps) : f[k] = <<i, 1>>
        BY <1>9, <2>5
    <2>7. steps[k] = x
        BY <1>8, <2>4, <2>6
    <2> QED
        BY <2>7
<1> HIDE DEF steps, D
<1>14. steps \in [1..Len(steps) -> D]
    <2>1. steps = [k \in 1..Len(steps) |-> steps[k]]
        BY <1>7, ListLen
    <2> QED
        BY <1>11, <2>1
<1>15. steps \in Bijection(1..Len(steps), D)
    BY <1>12, <1>13, <1>14 DEF Bijection, Injection, Surjection, IsInjective
<1> QED
    BY <1>1, <1>7, <1>15 DEF D

\* The fields of a way.
LEMMA WayFields ==
    ASSUME NEW a, NEW b, NEW c
    PROVE  Way(a, b, c).fits = a /\ Way(a, b, c).row = b /\ Way(a, b, c).at = c
BY DEF Way

\* One edge further.
LEMMA ThroughEdgeIsWay ==
    ASSUME NEW g, NEW p, PathParsed(p), NEW k \in 1..Len(p.rels), NEW way, IsWay(g, p, k - 1, way),
           NEW e \in g.edges, NEW far \in IdsOf(g.nodes)
    PROVE  IsWay(g, p, k, ThroughEdge(g, p, k, e, far, way.row))
<1> DEFINE rel      == p.rels[k]
           node     == p.nodes[k + 1]
           withRel  == Bound(way.row, rel.var, RelRef(e.id))
           withNode == Bound(withRel, node.var, NodeRef(far))
           next     == ThroughEdge(g, p, k, e, far, way.row)
<1>1. RelRef(e.id) \in Refs(g) /\ NodeRef(far) \in Refs(g)
    BY DEF Refs, IdsOf
<1>2. IsRow(g, withRel) /\ DOMAIN withRel = WithVar(VarsTo(p, k - 1), rel.var)
    BY <1>1, BoundRow DEF IsWay
<1>3. IsRow(g, withNode) /\ DOMAIN withNode = WithVar(DOMAIN withRel, node.var)
    BY <1>1, <1>2, BoundRow
<1>4. next.row = withNode /\ next.at = far
    BY DEF ThroughEdge, Way
<1>5. VarsTo(p, k) = WithVar(WithVar(VarsTo(p, k - 1), rel.var), node.var)
    <2>1. k \in Nat /\ (k - 1) + 1 = k /\ 1..(k + 1) = 1..k \cup {k + 1} /\ 1..k = 1..(k - 1) \cup {k}
        BY PathLists
    <2>2. {p.nodes[j].var : j \in 1..(k + 1)} = {p.nodes[j].var : j \in 1..k} \cup {node.var}
        BY <2>1
    <2>3. {p.rels[j].var : j \in 1..k} = {p.rels[j].var : j \in 1..(k - 1)} \cup {rel.var}
        BY <2>1
    <2> QED
        BY <2>1, <2>2, <2>3 DEF VarsTo, WithVar
<1> HIDE DEF next, withNode, withRel, rel, node
<1>6. DOMAIN next.row = VarsTo(p, k) /\ IsRow(g, next.row)
    BY <1>2, <1>3, <1>4, <1>5
<1> QED
    BY <1>4, <1>6 DEF IsWay, next

\* What is tried from a way.
LEMMA TriedAre ==
    ASSUME NEW g, Sound(g), NEW p, NEW k, NEW way
    PROVE  LET steps == Steps(g, p.rels[k].direction, way.at) IN
           /\ IsList(Tried(g, p, k, way)) /\ Len(Tried(g, p, k, way)) = Len(steps)
           /\ \A j \in 1..Len(steps) :
                /\ steps[j][1] \in g.edges /\ steps[j][2] \in IdsOf(g.nodes)
                /\ Tried(g, p, k, way)[j] = ThroughEdge(g, p, k, steps[j][1], steps[j][2], way.row)
<1> DEFINE steps == Steps(g, p.rels[k].direction, way.at)
           D == StepSet(g, p.rels[k].direction, way.at)
           tried == Tried(g, p, k, way)
<1>1. IsList(steps) /\ steps \in Bijection(1..Len(steps), D)
    BY StepsAre
<1>2. Len(steps) \in Nat /\ DOMAIN steps = 1..Len(steps)
    BY <1>1, ListLen
<1> HIDE DEF steps
<1>3. tried = [j \in DOMAIN steps |-> ThroughEdge(g, p, k, steps[j][1], steps[j][2], way.row)]
    BY DEF Tried, steps
<1>4. tried = [j \in 1..Len(steps) |-> tried[j]]
    BY <1>2, <1>3
<1>5. \A j \in 1..Len(steps) : tried[j] = ThroughEdge(g, p, k, steps[j][1], steps[j][2], way.row)
    BY <1>2, <1>3
<1> HIDE DEF tried
<1>6. IsList(tried) /\ Len(tried) = Len(steps)
    BY <1>2, <1>4, MakesList
<1>7. \A j \in 1..Len(steps) : steps[j] \in D
    BY <1>1 DEF Bijection, Injection
<1>8. \A j \in 1..Len(steps) : steps[j][1] \in g.edges /\ steps[j][2] \in IdsOf(g.nodes)
    BY <1>7 DEF StepSet
<1> QED
    BY <1>5, <1>6, <1>8 DEF steps, tried

\* The way that a step makes.
LEMMA TriedIs ==
    ASSUME NEW g, Sound(g), NEW p, NEW k, NEW way,
           NEW j \in 1..Len(Steps(g, p.rels[k].direction, way.at))
    PROVE  /\ Steps(g, p.rels[k].direction, way.at)[j][1] \in g.edges
           /\ Steps(g, p.rels[k].direction, way.at)[j][2] \in IdsOf(g.nodes)
           /\ Tried(g, p, k, way)[j]
                = ThroughEdge(g, p, k, Steps(g, p.rels[k].direction, way.at)[j][1],
                              Steps(g, p.rels[k].direction, way.at)[j][2], way.row)
BY TriedAre

\* The ways that fit are among the ways.
Fit(ways) == Kept(ways, {way \in ToSet(ways) : way.fits = "match"})

LEMMA FitAre ==
    ASSUME NEW ways, IsList(ways)
    PROVE  /\ IsList(Fit(ways))
           /\ \A i \in 1..Len(Fit(ways)) :
                /\ Fit(ways)[i].fits = "match"
                /\ \E j \in 1..Len(ways) : Fit(ways)[i] = ways[j]
<1> DEFINE S == {way \in ToSet(ways) : way.fits = "match"}
<1>1. Fit(ways) = Kept(ways, S)
    BY DEF Fit
<1>2. IsList(Kept(ways, S))
    BY KeptAre
<1> HIDE DEF S
<1>3. \A i \in 1..Len(Kept(ways, S)) :
        Kept(ways, S)[i] \in S /\ \E j \in 1..Len(ways) : Kept(ways, S)[i] = ways[j]
    BY KeptElements
<1>4. \A x \in S : x.fits = "match"
    BY DEF S
<1> QED
    BY <1>1, <1>2, <1>3, <1>4

\* The ways that are tried from all those found before.
AllTried(g, p, found, k) ==
    [i \in DOMAIN found.ways |-> Tried(g, p, k, found.ways[i])]

\* They are a list of lists.
LEMMA AllTriedAre ==
    ASSUME NEW g, Sound(g), NEW p, NEW found, IsList(found.ways), NEW k
    PROVE  /\ IsList(AllTried(g, p, found, k)) /\ Len(AllTried(g, p, found, k)) = Len(found.ways)
           /\ \A i \in 1..Len(found.ways) :
                /\ AllTried(g, p, found, k)[i] = Tried(g, p, k, found.ways[i])
                /\ IsList(AllTried(g, p, found, k)[i])
<1> DEFINE lists == AllTried(g, p, found, k)
<1>1. Len(found.ways) \in Nat /\ DOMAIN found.ways = 1..Len(found.ways)
    BY ListLen
<1>2. lists = [i \in 1..Len(found.ways) |-> Tried(g, p, k, found.ways[i])]
    BY <1>1 DEF AllTried
<1>3. lists = [i \in 1..Len(found.ways) |-> lists[i]]
    BY <1>2
<1>4. \A i \in 1..Len(found.ways) : lists[i] = Tried(g, p, k, found.ways[i])
    BY <1>2
<1>5. \A i \in 1..Len(found.ways) : IsList(Tried(g, p, k, found.ways[i]))
    BY TriedAre
<1> HIDE DEF lists
<1>6. IsList(lists) /\ Len(lists) = Len(found.ways)
    BY <1>1, <1>3, MakesList
<1> QED
    BY <1>4, <1>5, <1>6 DEF lists

\* What is found one relationship further binds its variables, too.
LEMMA ExpandMatchFound ==
    ASSUME NEW g, Sound(g), NEW p, PathParsed(p), NEW k \in 1..Len(p.rels),
           NEW found, IsFound(g, p, k - 1, found)
    PROVE  IsFound(g, p, k, ExpandMatch(g, p, found, k))
<1> DEFINE lists == AllTried(g, p, found, k)
           tried == FlattenSeq(lists)
           n == Len(found.ways)
           next == Fitting(found.ok, tried)
<1>1. /\ found.ok \in BOOLEAN /\ IsList(found.ways)
      /\ \A i \in 1..n : IsWay(g, p, k - 1, found.ways[i])
    BY DEF IsFound
<1>2. /\ IsList(lists) /\ Len(lists) = n
      /\ \A i \in 1..n : IsList(lists[i]) /\ lists[i] = Tried(g, p, k, found.ways[i])
    BY <1>1, AllTriedAre
<1>3. ExpandMatch(g, p, found, k) = next
    BY DEF ExpandMatch, AllTried
<1> HIDE DEF lists
<1>a. \A i \in 1..Len(lists) : IsList(lists[i])
    BY <1>2
<1>4. IsList(tried)
    BY <1>2, <1>a, Flattened
<1>5. ASSUME NEW i \in 1..Len(tried)
      PROVE  IsWay(g, p, k, tried[i])
    <2>a. \E a \in 1..Len(lists) : \E b \in 1..Len(lists[a]) : tried[i] = lists[a][b]
        BY <1>2, <1>a, FlattenedElements, Zenon
    <2>1. PICK a \in 1..n : \E b \in 1..Len(lists[a]) : tried[i] = lists[a][b]
        BY <1>2, <2>a, Zenon
    <2>b. PICK b \in 1..Len(lists[a]) : tried[i] = lists[a][b]
        BY <2>1
    <2> DEFINE steps == Steps(g, p.rels[k].direction, found.ways[a].at)
    <2>2. b \in 1..Len(steps)
        BY <1>2, <2>b, TriedAre
    <2>c. /\ steps[b][1] \in g.edges /\ steps[b][2] \in IdsOf(g.nodes)
          /\ Tried(g, p, k, found.ways[a])[b]
                = ThroughEdge(g, p, k, steps[b][1], steps[b][2], found.ways[a].row)
        <3> DEFINE way == found.ways[a]
        <3>1. b \in 1..Len(Steps(g, p.rels[k].direction, way.at))
            BY <2>2
        <3> HIDE DEF way
        <3>2. /\ Steps(g, p.rels[k].direction, way.at)[b][1] \in g.edges
              /\ Steps(g, p.rels[k].direction, way.at)[b][2] \in IdsOf(g.nodes)
              /\ Tried(g, p, k, way)[b]
                   = ThroughEdge(g, p, k, Steps(g, p.rels[k].direction, way.at)[b][1],
                                 Steps(g, p.rels[k].direction, way.at)[b][2], way.row)
            BY <3>1, TriedIs
        <3> QED
            BY <3>2, Zenon DEF way
    <2>3. /\ steps[b][1] \in g.edges /\ steps[b][2] \in IdsOf(g.nodes)
          /\ tried[i] = ThroughEdge(g, p, k, steps[b][1], steps[b][2], found.ways[a].row)
        BY <1>2, <2>b, <2>c, Zenon
    <2> HIDE DEF steps
    <2> QED
        BY <1>1, <2>3, ThroughEdgeIsWay
<1> HIDE DEF tried
<1>6. next.ok \in BOOLEAN /\ next.ways = Fit(tried)
    BY DEF Fitting, Fit
<1>b. /\ IsList(Fit(tried))
      /\ \A i \in 1..Len(Fit(tried)) : \E j \in 1..Len(tried) : Fit(tried)[i] = tried[j]
    BY <1>4, FitAre
<1> HIDE DEF next
<1>7. \A i \in 1..Len(next.ways) : IsWay(g, p, k, next.ways[i])
    BY <1>5, <1>6, <1>b
<1> QED
    BY <1>3, <1>6, <1>b, <1>7 DEF IsFound

\* The ways to start: what is tried, and that it starts at each node once.
StartTried(g, p) ==
    LET nodes == InIdOrder(g.nodes) IN
    [i \in DOMAIN nodes |->
        Way(NodeVerdict(g, Bound(NoRow, p.nodes[1].var, NodeRef(nodes[i].id)), p.nodes[1], nodes[i]),
            Bound(NoRow, p.nodes[1].var, NodeRef(nodes[i].id)), nodes[i].id)]

\* Every node is a start.
LEMMA StartTriedAre ==
    ASSUME NEW g, Sound(g), NEW p
    PROVE  LET nodes == InIdOrder(g.nodes) IN
           /\ IsList(StartTried(g, p)) /\ Len(StartTried(g, p)) = Len(nodes)
           /\ \A i \in 1..Len(nodes) :
                /\ nodes[i] \in g.nodes
                /\ StartTried(g, p)[i] =
                     Way(NodeVerdict(g, Bound(NoRow, p.nodes[1].var, NodeRef(nodes[i].id)),
                                     p.nodes[1], nodes[i]),
                         Bound(NoRow, p.nodes[1].var, NodeRef(nodes[i].id)), nodes[i].id)
           /\ StartMatch(g, p) = Fitting(TRUE, StartTried(g, p))
<1> DEFINE nodes == InIdOrder(g.nodes)
           tried == StartTried(g, p)
<1>1. IsList(nodes) /\ nodes \in Bijection(1..Len(nodes), g.nodes)
    BY SoundLists
<1>2. Len(nodes) \in Nat /\ DOMAIN nodes = 1..Len(nodes) /\ \A i \in 1..Len(nodes) : nodes[i] \in g.nodes
    BY <1>1, ListLen DEF Bijection, Injection
<1>3. StartMatch(g, p) = Fitting(TRUE, tried)
    BY DEF StartMatch, StartTried
<1>4. tried = [i \in 1..Len(nodes) |-> tried[i]]
    BY <1>2 DEF StartTried
<1>5. \A i \in 1..Len(nodes) : tried[i] =
                     Way(NodeVerdict(g, Bound(NoRow, p.nodes[1].var, NodeRef(nodes[i].id)),
                                     p.nodes[1], nodes[i]),
                         Bound(NoRow, p.nodes[1].var, NodeRef(nodes[i].id)), nodes[i].id)
    BY <1>2 DEF StartTried
<1> HIDE DEF tried, nodes
<1>6. IsList(tried) /\ Len(tried) = Len(nodes)
    BY <1>2, <1>4, MakesList
<1> QED
    BY <1>2, <1>3, <1>5, <1>6 DEF tried, nodes

\* A row that binds nothing.
LEMMA NoRowIsRow ==
    ASSUME NEW g
    PROVE  IsRow(g, NoRow) /\ DOMAIN NoRow = {}
BY DEF NoRow, IsRow

\* What a match starts with is found.
LEMMA StartMatchFound ==
    ASSUME NEW g, Sound(g), NEW p, PathParsed(p)
    PROVE  IsFound(g, p, 0, StartMatch(g, p))
<1> DEFINE nodes == InIdOrder(g.nodes)
           tried == StartTried(g, p)
           var == p.nodes[1].var
<1>1. StartMatch(g, p) = Fitting(TRUE, tried)
    BY StartTriedAre
<1>2. /\ IsList(tried) /\ Len(tried) = Len(nodes)
      /\ \A i \in 1..Len(nodes) : nodes[i] \in g.nodes
                /\ tried[i] = Way(NodeVerdict(g, Bound(NoRow, var, NodeRef(nodes[i].id)),
                                              p.nodes[1], nodes[i]),
                                  Bound(NoRow, var, NodeRef(nodes[i].id)), nodes[i].id)
    BY StartTriedAre
<1>3. VarsTo(p, 0) = WithVar({}, var)
    <2>1. 1..(0 + 1) = {1} /\ 1..0 = {}
        OBVIOUS
    <2> QED
        BY <2>1 DEF VarsTo, WithVar
<1> HIDE DEF tried, nodes, var
<1>4. ASSUME NEW i \in 1..Len(nodes)
      PROVE  IsWay(g, p, 0, tried[i])
    <2>1. nodes[i].id \in IdsOf(g.nodes) /\ NodeRef(nodes[i].id) \in Refs(g)
        BY <1>2 DEF IdsOf, Refs
    <2>2. tried[i].row = Bound(NoRow, var, NodeRef(nodes[i].id)) /\ tried[i].at = nodes[i].id
        BY <1>2, WayFields
    <2>3. IsRow(g, tried[i].row) /\ DOMAIN tried[i].row = WithVar({}, var)
        BY <2>1, <2>2, NoRowIsRow, BoundRow
    <2> QED
        BY <1>3, <2>1, <2>2, <2>3 DEF IsWay
<1>5. Fitting(TRUE, tried).ok \in BOOLEAN /\ Fitting(TRUE, tried).ways = Fit(tried)
    BY DEF Fitting, Fit
<1>6. /\ IsList(Fit(tried))
      /\ \A i \in 1..Len(Fit(tried)) : \E j \in 1..Len(tried) : Fit(tried)[i] = tried[j]
    BY <1>2, FitAre
<1> QED
    BY <1>1, <1>2, <1>4, <1>5, <1>6 DEF IsFound

ExpandStep(c, x, y) == ExpandMatch(c[1], c[2], x, y)
ExpandGood(c, k, x) == IsFound(c[1], c[2], k, x)
Expanding == INSTANCE Folding WITH Step <- ExpandStep, Good <- ExpandGood

\* The fold over the relationships of a pattern.
Expanded(g, p) == Expanding!Fold(<<g, p>>, StartMatch(g, p), [k \in DOMAIN p.rels |-> k])

\* A match is that fold.
LEMMA MatchPatternExpands ==
    ASSUME NEW g, NEW p
    PROVE  MatchPattern(g, p) =
            [ok |-> Expanded(g, p).ok,
             rows |-> [i \in DOMAIN Expanded(g, p).ways |-> Expanded(g, p).ways[i].row]]
BY DEF MatchPattern, RowsOf, Expanded, Expanding!Fold, ExpandStep, FoldLeft, MapThenFoldSet, Max,
       Expanding!LastOf

\* It keeps what is found well formed.
LEMMA ExpandedFound ==
    ASSUME NEW g, Sound(g), NEW p, PathParsed(p)
    PROVE  IsFound(g, p, Len(p.rels), Expanded(g, p))
<1> DEFINE c == <<g, p>>
           n == Len(p.rels)
           ks == [k \in DOMAIN p.rels |-> k]
<1>1. n \in Nat /\ DOMAIN ks = 1..n /\ \A k \in 1..n : ks[k] = k
    BY PathLists
<1>2. c[1] = g /\ c[2] = p
    OBVIOUS
<1> HIDE DEF c
<1>3. ExpandGood(c, 0, StartMatch(g, p))
    BY <1>2, StartMatchFound DEF ExpandGood
<1>4. ASSUME NEW k \in 1..n, NEW x, ExpandGood(c, k - 1, x)
      PROVE  ExpandGood(c, k, ExpandStep(c, x, ks[k]))
    BY <1>1, <1>2, <1>4, ExpandMatchFound DEF ExpandGood, ExpandStep
<1> HIDE DEF ks
<1>5. ExpandGood(c, n, Expanding!Fold(c, StartMatch(g, p), ks))
    BY <1>1, <1>3, <1>4, AllNumbers, Expanding!FoldKeeps DEF Expanding!Inductive
<1> QED
    BY <1>2, <1>5 DEF ExpandGood, Expanded, c, ks

\* A list of rows, each of which binds the variables in V.
AreRows(g, rows) == IsList(rows) /\ \A i \in 1..Len(rows) : IsRow(g, rows[i])
Bind(rows, V) == \A i \in 1..Len(rows) : DOMAIN rows[i] = V

\* Matching a pattern gives rows that bind its variables to what is there.
LEMMA MatchPatternRows ==
    ASSUME NEW g, Sound(g), NEW p, PathParsed(p)
    PROVE  LET rows == MatchPattern(g, p).rows IN AreRows(g, rows) /\ Bind(rows, PathVars(p))
<1> DEFINE ways == Expanded(g, p).ways
           rows == [i \in DOMAIN ways |-> ways[i].row]
<1>1. IsList(ways) /\ \A i \in 1..Len(ways) : IsWay(g, p, Len(p.rels), ways[i])
    BY ExpandedFound DEF IsFound
<1>2. MatchPattern(g, p).rows = rows
    BY MatchPatternExpands
<1> HIDE DEF ways
<1>3. Len(ways) \in Nat /\ DOMAIN ways = 1..Len(ways)
    BY <1>1, ListLen
<1>4. rows = [i \in 1..Len(ways) |-> rows[i]] /\ \A i \in 1..Len(ways) : rows[i] = ways[i].row
    BY <1>3
<1> HIDE DEF rows
<1>5. IsList(rows) /\ Len(rows) = Len(ways)
    BY <1>3, <1>4, MakesList
<1>6. \A i \in 1..Len(rows) : IsRow(g, rows[i]) /\ DOMAIN rows[i] = PathVars(p)
    BY <1>1, <1>4, <1>5 DEF IsWay, PathVars
<1> QED
    BY <1>2, <1>5, <1>6 DEF AreRows, Bind

\* Rows that agree, taken together.
LEMMA MergedRow ==
    ASSUME NEW g, NEW a, NEW b, IsRow(g, a), IsRow(g, b)
    PROVE  IsRow(g, Merged(a, b)) /\ DOMAIN Merged(a, b) = DOMAIN a \cup DOMAIN b
BY DEF Merged, IsRow

\* What a row of the left is joined to.
Partners(left, right, i) == Kept(right, {r \in ToSet(right) : Agree(left[i], r)})
JoinedLists(left, right) ==
    [i \in DOMAIN left |->
        [j \in DOMAIN Partners(left, right, i) |-> Merged(left[i], Partners(left, right, i)[j])]]

\* They are a list of lists.
LEMMA JoinedListsAre ==
    ASSUME NEW left, IsList(left), NEW right, IsList(right)
    PROVE  /\ Joined(left, right) = FlattenSeq(JoinedLists(left, right))
           /\ IsList(JoinedLists(left, right)) /\ Len(JoinedLists(left, right)) = Len(left)
           /\ \A i \in 1..Len(left) :
                LET list == JoinedLists(left, right)[i]
                    fitting == Partners(left, right, i)
                IN  /\ IsList(list) /\ IsList(fitting) /\ Len(list) = Len(fitting)
                    /\ \A j \in 1..Len(list) : list[j] = Merged(left[i], fitting[j])
<1> DEFINE lists == JoinedLists(left, right)
<1>1. Len(left) \in Nat /\ DOMAIN left = 1..Len(left)
    BY ListLen
<1>2. Joined(left, right) = FlattenSeq(lists)
    BY DEF Joined, JoinedLists, Partners
<1>3. lists = [i \in 1..Len(left) |-> lists[i]]
    BY <1>1 DEF JoinedLists
<1>4. ASSUME NEW i \in 1..Len(left)
      PROVE  LET list == lists[i]
                 fitting == Partners(left, right, i)
             IN  /\ IsList(list) /\ IsList(fitting) /\ Len(list) = Len(fitting)
                 /\ \A j \in 1..Len(list) : list[j] = Merged(left[i], fitting[j])
    <2> DEFINE fitting == Partners(left, right, i)
               list == lists[i]
    <2>1. IsList(fitting)
        BY KeptAre DEF Partners
    <2>2. Len(fitting) \in Nat /\ DOMAIN fitting = 1..Len(fitting)
        BY <2>1, ListLen
    <2>3. list = [j \in DOMAIN fitting |-> Merged(left[i], fitting[j])]
        BY <1>1 DEF JoinedLists
    <2> HIDE DEF fitting, list
    <2>4. list = [j \in 1..Len(fitting) |-> list[j]]
        BY <2>2, <2>3
    <2>5. IsList(list) /\ Len(list) = Len(fitting)
        BY <2>2, <2>4, MakesList
    <2>6. \A j \in 1..Len(list) : list[j] = Merged(left[i], fitting[j])
        BY <2>2, <2>3, <2>5
    <2> QED
        BY <2>1, <2>5, <2>6 DEF list, fitting
<1> HIDE DEF lists
<1>5. IsList(lists) /\ Len(lists) = Len(left)
    BY <1>1, <1>3, MakesList
<1> QED
    BY <1>2, <1>4, <1>5 DEF lists

\* Joined rows are rows that bind the variables of both.
LEMMA JoinedRows ==
    ASSUME NEW g, NEW left, NEW right, AreRows(g, left), AreRows(g, right)
    PROVE  /\ AreRows(g, Joined(left, right))
           /\ \A V, W : Bind(left, V) /\ Bind(right, W) => Bind(Joined(left, right), V \cup W)
<1> DEFINE lists == JoinedLists(left, right)
           rows == FlattenSeq(lists)
<1>1. IsList(left) /\ IsList(right)
    BY DEF AreRows
<1>2. /\ \A i \in 1..Len(left) : IsRow(g, left[i])
      /\ \A m \in 1..Len(right) : IsRow(g, right[m])
    BY DEF AreRows
<1>3. /\ Joined(left, right) = rows /\ IsList(lists) /\ Len(lists) = Len(left)
      /\ \A i \in 1..Len(lists) : IsList(lists[i])
    BY <1>1, JoinedListsAre
<1>4. \A i \in 1..Len(left) :
            /\ IsList(Partners(left, right, i)) /\ Len(lists[i]) = Len(Partners(left, right, i))
            /\ \A j \in 1..Len(lists[i]) : lists[i][j] = Merged(left[i], Partners(left, right, i)[j])
    BY <1>1, JoinedListsAre
<1> HIDE DEF lists
<1>5. IsList(rows)
    BY <1>3, Flattened
<1>6. ASSUME NEW k \in 1..Len(rows)
      PROVE  \E i \in 1..Len(left) : \E m \in 1..Len(right) : rows[k] = Merged(left[i], right[m])
    <2>1. \E i \in 1..Len(lists) : \E j \in 1..Len(lists[i]) : rows[k] = lists[i][j]
        BY <1>3, FlattenedElements
    <2>2. PICK i \in 1..Len(left) : \E j \in 1..Len(lists[i]) : rows[k] = lists[i][j]
        BY <1>3, <2>1
    <2>3. PICK j \in 1..Len(lists[i]) : rows[k] = lists[i][j]
        BY <2>2
    <2>4. j \in 1..Len(Partners(left, right, i)) /\ rows[k] = Merged(left[i], Partners(left, right, i)[j])
        BY <1>4, <2>3
    <2> DEFINE S == {r \in ToSet(right) : Agree(left[i], r)}
    <2>a. Partners(left, right, i) = Kept(right, S)
        BY DEF Partners
    <2> HIDE DEF S
    <2>5. PICK m \in 1..Len(right) : Partners(left, right, i)[j] = right[m]
        BY <1>1, <2>4, <2>a, KeptElements
    <2> QED
        BY <2>4, <2>5
<1> HIDE DEF rows
<1>7. \A k \in 1..Len(rows) : IsRow(g, rows[k])
    BY <1>6, MergedRow DEF AreRows
<1>8. ASSUME NEW V, NEW W, Bind(left, V), Bind(right, W), NEW k \in 1..Len(rows)
      PROVE  DOMAIN rows[k] = V \cup W
    <2>1. PICK i \in 1..Len(left) : \E m \in 1..Len(right) : rows[k] = Merged(left[i], right[m])
        BY <1>6
    <2>2. PICK m \in 1..Len(right) : rows[k] = Merged(left[i], right[m])
        BY <2>1
    <2>3. DOMAIN Merged(left[i], right[m]) = DOMAIN left[i] \cup DOMAIN right[m]
        BY DEF Merged
    <2> QED
        BY <1>8, <2>2, <2>3 DEF Bind
<1>9. AreRows(g, rows)
    BY <1>5, <1>7 DEF AreRows
<1>10. ASSUME NEW V, NEW W, Bind(left, V), Bind(right, W)
       PROVE  Bind(rows, V \cup W)
    BY <1>8, <1>10 DEF Bind
<1> QED
    BY <1>3, <1>9, <1>10, Zenon

\* The row a statement starts from.
LEMMA OneRow ==
    ASSUME NEW g
    PROVE  AreRows(g, <<NoRow>>) /\ Bind(<<NoRow>>, {})
<1> DEFINE rows == <<NoRow>>
<1>1. rows = [i \in 1..1 |-> rows[i]] /\ rows[1] = NoRow
    OBVIOUS
<1> HIDE DEF rows
<1>2. IsList(rows) /\ Len(rows) = 1
    BY <1>1, MakesList
<1>3. IsRow(g, NoRow) /\ DOMAIN NoRow = {}
    BY NoRowIsRow
<1>4. \A i \in 1..Len(rows) : rows[i] = NoRow
    BY <1>1, <1>2
<1>5. AreRows(g, rows) /\ Bind(rows, {})
    BY <1>2, <1>3, <1>4 DEF AreRows, Bind
<1> QED
    BY <1>5 DEF rows

PatternsVars(patterns, k) == UNION {PathVars(patterns[j]) : j \in 1..k}

AreMatched(g, patterns, k, found) ==
    /\ found = [ok |-> found.ok, rows |-> found.rows]
    /\ AreRows(g, found.rows)
    /\ found.ok => Bind(found.rows, PatternsVars(patterns, k))

PatternStep(c, x, y) == WithPattern(x, MatchPattern(c[1], y))
PatternGood(c, k, x) == AreMatched(c[1], c[2], k, x)
Matching == INSTANCE Folding WITH Step <- PatternStep, Good <- PatternGood

\* One pattern more.
LEMMA WithPatternMatched ==
    ASSUME NEW g, Sound(g), NEW patterns, NEW k \in Nat \ {0}, PathParsed(patterns[k]),
           NEW found, AreMatched(g, patterns, k - 1, found)
    PROVE  AreMatched(g, patterns, k, WithPattern(found, MatchPattern(g, patterns[k])))
<1> DEFINE own == MatchPattern(g, patterns[k])
           V == PatternsVars(patterns, k - 1)
           W == PathVars(patterns[k])
<1>1. AreRows(g, own.rows) /\ Bind(own.rows, W)
    BY MatchPatternRows
<1>2. PatternsVars(patterns, k) = V \cup W
    <2>1. 1..k = 1..(k - 1) \cup {k}
        OBVIOUS
    <2> QED
        BY <2>1 DEF PatternsVars
<1> HIDE DEF V, W, own
<1>3. /\ found = [ok |-> found.ok, rows |-> found.rows] /\ AreRows(g, found.rows)
      /\ found.ok => Bind(found.rows, V)
    BY DEF AreMatched, V
<1>4. CASE ~found.ok
    BY <1>3, <1>4 DEF WithPattern, AreMatched
<1>5. CASE found.ok /\ found.rows = << >>
    <2>1. Bind(found.rows, PatternsVars(patterns, k))
        BY <1>5 DEF Bind
    <2> QED
        BY <1>3, <1>5, <2>1 DEF WithPattern, AreMatched, own
<1>6. CASE found.ok /\ found.rows # << >> /\ ~own.ok
    <2>1. WithPattern(found, own) = [ok |-> FALSE, rows |-> found.rows]
        BY <1>3, <1>6 DEF WithPattern
    <2> QED
        BY <1>3, <2>1 DEF AreMatched, own
<1>7. CASE found.ok /\ found.rows # << >> /\ own.ok
    <2>1. WithPattern(found, own) = [ok |-> found.ok, rows |-> Joined(found.rows, own.rows)]
        BY <1>3, <1>7 DEF WithPattern
    <2>2. AreRows(g, Joined(found.rows, own.rows)) /\ Bind(Joined(found.rows, own.rows), V \cup W)
        BY <1>1, <1>3, <1>7, JoinedRows
    <2> QED
        BY <1>2, <2>1, <2>2 DEF AreMatched, own
<1> QED
    BY <1>4, <1>5, <1>6, <1>7

\* The fold over the patterns.
LEMMA MatchPatternsMatched ==
    ASSUME NEW g, Sound(g), NEW patterns, IsList(patterns),
           \A k \in 1..Len(patterns) : PathParsed(patterns[k])
    PROVE  AreMatched(g, patterns, Len(patterns), MatchPatterns(g, patterns))
<1> DEFINE c == <<g, patterns>>
           n == Len(patterns)
           base == [ok |-> TRUE, rows |-> <<NoRow>>]
<1>1. n \in Nat /\ DOMAIN patterns = 1..n /\ c[1] = g /\ c[2] = patterns
    BY ListLen
<1> HIDE DEF c
<1>2. PatternGood(c, 0, base)
    <2>1. AreRows(g, <<NoRow>>) /\ Bind(<<NoRow>>, {})
        BY OneRow
    <2>2. PatternsVars(patterns, 0) = {}
        BY DEF PatternsVars
    <2> QED
        BY <1>1, <2>1, <2>2 DEF PatternGood, AreMatched
<1> HIDE DEF base
<1>3. ASSUME NEW k \in 1..n, NEW x, PatternGood(c, k - 1, x)
      PROVE  PatternGood(c, k, PatternStep(c, x, patterns[k]))
    <2>1. k \in Nat \ {0} /\ PathParsed(patterns[k])
        BY <1>1
    <2>2. AreMatched(g, patterns, k - 1, x)
        BY <1>1, <1>3 DEF PatternGood
    <2>3. AreMatched(g, patterns, k, WithPattern(x, MatchPattern(g, patterns[k])))
        BY <2>1, <2>2, WithPatternMatched, Zenon
    <2> QED
        BY <1>1, <2>3 DEF PatternGood, PatternStep
<1>4. PatternGood(c, n, Matching!Fold(c, base, patterns))
    BY <1>1, <1>2, <1>3, AllNumbers, Matching!FoldKeeps DEF Matching!Inductive
<1>5. Matching!Fold(c, base, patterns) = MatchPatterns(g, patterns)
    BY <1>1 DEF base, MatchPatterns, Matching!Fold, PatternStep, FoldLeft, MapThenFoldSet, Max,
                Matching!LastOf
<1> QED
    BY <1>1, <1>4, <1>5 DEF PatternGood

\* The variables of the patterns of a statement.
LEMMA VarsOfPatterns ==
    ASSUME NEW patterns, IsList(patterns), \A k \in 1..Len(patterns) : PathParsed(patterns[k])
    PROVE  PatternsVars(patterns, Len(patterns)) = NodeVars(patterns) \cup RelVars(patterns)
<1>1. DOMAIN patterns = 1..Len(patterns)
    BY ListLen
<1>2. /\ \A p \in ToSet(patterns) : \E k \in 1..Len(patterns) : p = patterns[k]
      /\ \A k \in 1..Len(patterns) : patterns[k] \in ToSet(patterns)
    BY <1>1 DEF ToSet
<1>3. \A p \in ToSet(patterns) :
        PathVars(p) = ({p.nodes[k].var : k \in DOMAIN p.nodes}
                        \cup {p.rels[k].var : k \in DOMAIN p.rels}) \ {NoVar}
    <2>1. SUFFICES ASSUME NEW p \in ToSet(patterns)
                   PROVE  PathVars(p) = ({p.nodes[k].var : k \in DOMAIN p.nodes}
                                          \cup {p.rels[k].var : k \in DOMAIN p.rels}) \ {NoVar}
        OBVIOUS
    <2>2. DOMAIN p.nodes = 1..(Len(p.rels) + 1) /\ DOMAIN p.rels = 1..Len(p.rels)
        BY <1>2, PathLists
    <2> QED
        BY <2>2 DEF PathVars, VarsTo
<1>4. PatternsVars(patterns, Len(patterns)) = UNION {PathVars(p) : p \in ToSet(patterns)}
    BY <1>2 DEF PatternsVars
<1> QED
    BY <1>3, <1>4 DEF NodeVars, RelVars

\* The rows of a statement: of a DELETE or an update that is not stopped they bind
\* every variable of its patterns.
LEMMA MatchedRowsBind ==
    ASSUME NEW g, Sound(g), NEW s, MatchParsed(s)
    PROVE  LET matched == MatchedRows(g, s) IN
           /\ AreRows(g, matched.rows)
           /\ matched.ok /\ ~s.optional =>
                Bind(matched.rows, NodeVars(s.patterns) \cup RelVars(s.patterns))
<1> DEFINE found == MatchPatterns(g, s.patterns)
           kept == Filtered(g, found.rows, s.where)
           V == NodeVars(s.patterns) \cup RelVars(s.patterns)
<1>1. IsList(s.patterns) /\ \A k \in 1..Len(s.patterns) : PathParsed(s.patterns[k])
    <2>1. IsList(s.patterns) /\ \A p \in ToSet(s.patterns) : PathParsed(p)
        BY DEF MatchParsed
    <2> QED
        BY <2>1, ListLen DEF ToSet
<1>2. AreRows(g, found.rows) /\ (found.ok => Bind(found.rows, V))
    BY <1>1, MatchPatternsMatched, VarsOfPatterns DEF AreMatched
<1>3. MatchedRows(g, s).ok = found.ok
      /\ MatchedRows(g, s).rows = IF s.optional /\ kept = << >> THEN <<NoRow>> ELSE kept
    BY DEF MatchedRows, KeptRows, OrNoRow
<1> HIDE DEF V, found
<1> DEFINE S == {row \in ToSet(found.rows) : \A k \in DOMAIN s.where : Holds(g, row, s.where[k])}
<1>4. kept = Kept(found.rows, S)
    BY DEF Filtered
<1> HIDE DEF S
<1>5. IsList(kept) /\ \A k \in 1..Len(kept) : \E i \in 1..Len(found.rows) : kept[k] = found.rows[i]
    <2>1. IsList(found.rows)
        BY <1>2 DEF AreRows
    <2>2. /\ IsList(Kept(found.rows, S))
          /\ \A k \in 1..Len(Kept(found.rows, S)) :
                \E i \in 1..Len(found.rows) : Kept(found.rows, S)[k] = found.rows[i]
        <3>1. IsList(Kept(found.rows, S))
            BY <2>1, KeptAre
        <3>2. ASSUME NEW k \in 1..Len(Kept(found.rows, S))
              PROVE  \E i \in 1..Len(found.rows) : Kept(found.rows, S)[k] = found.rows[i]
            BY <2>1, KeptElements
        <3> QED
            BY <3>1, <3>2
    <2> QED
        BY <1>4, <2>2
<1> HIDE DEF kept
<1>6. AreRows(g, kept) /\ (found.ok => Bind(kept, V))
    BY <1>2, <1>5 DEF AreRows, Bind
<1>7. AreRows(g, <<NoRow>>)
    BY OneRow
<1> QED
    BY <1>3, <1>6, <1>7 DEF V

---------------------------------------------------------------------------
(* Labels and values of a graph, counted *)

LabelPairs(R) == UNION {{n} \X n.labels : n \in R}
Labelled(R) == IsFiniteSet(R) /\ \A n \in R : IsFiniteSet(n.labels)

\* The labels of a node, paired with it.
LEMMA PairsOfOne ==
    ASSUME NEW n, IsFiniteSet(n.labels)
    PROVE  /\ IsFiniteSet({n} \X n.labels)
           /\ Cardinality({n} \X n.labels) = Cardinality(n.labels)
<1> DEFINE S == n.labels
           T == {n} \X S
           f == [l \in S |-> <<n, l>>]
<1>1. f \in Bijection(S, T)
    <2>1. f \in [S -> T]
        OBVIOUS
    <2>2. \A l, m \in S : f[l] = f[m] => l = m
        OBVIOUS
    <2>3. \A t \in T : \E l \in S : f[l] = t
        OBVIOUS
    <2> HIDE DEF f, S, T
    <2> QED
        BY <2>1, <2>2, <2>3 DEF Bijection, Injection, Surjection, IsInjective
<1> HIDE DEF f, S, T
<1>2. ExistsBijection(S, T)
    BY <1>1 DEF ExistsBijection
<1>3. IsFiniteSet(T) /\ Cardinality(T) = Cardinality(S)
    BY <1>2, FS_Bijection DEF S
<1> QED
    BY <1>3 DEF S, T

LEMMA PairsFinite ==
    ASSUME NEW R, Labelled(R)
    PROVE  IsFiniteSet(LabelPairs(R))
<1> DEFINE M == {{n} \X n.labels : n \in R}
           f == [n \in R |-> {n} \X n.labels]
<1>1. f \in Surjection(R, M)
    BY DEF Surjection
<1>2. \A T \in M : IsFiniteSet(T)
    BY PairsOfOne DEF Labelled
<1> HIDE DEF f, M
<1>3. IsFiniteSet(M)
    BY <1>1, FS_Surjection DEF Labelled
<1>4. IsFiniteSet(UNION M)
    BY <1>2, <1>3, FS_UNION
<1> QED
    BY <1>4 DEF M, LabelPairs

\* Disjoint sets.
LEMMA CountsAdd ==
    ASSUME NEW S, IsFiniteSet(S), NEW T, IsFiniteSet(T), S \cap T = {}
    PROVE  Cardinality(S \cup T) = Cardinality(S) + Cardinality(T)
<1>1. Cardinality(S \cup T) = Cardinality(S) + Cardinality(T) - Cardinality(S \cap T)
    BY FS_Union
<1>2. Cardinality(S) \in Nat /\ Cardinality(T) \in Nat /\ Cardinality(S \cap T) = 0
    BY FS_CardinalityType, FS_EmptySet
<1> QED
    BY <1>1, <1>2

LEMMA LabelsOneMore ==
    ASSUME NEW R, Labelled(R), NEW x, x \notin R, IsFiniteSet(x.labels)
    PROVE  /\ Labelled(R \cup {x})
           /\ Cardinality(LabelPairs(R \cup {x})) =
                Cardinality(LabelPairs(R)) + Cardinality(x.labels)
<1>1. LabelPairs(R \cup {x}) = LabelPairs(R) \cup ({x} \X x.labels)
    BY DEF LabelPairs
<1>2. LabelPairs(R) \cap ({x} \X x.labels) = {}
    BY DEF LabelPairs
<1>3. /\ IsFiniteSet(LabelPairs(R)) /\ IsFiniteSet({x} \X x.labels)
      /\ Cardinality({x} \X x.labels) = Cardinality(x.labels)
    BY PairsFinite, PairsOfOne
<1>4. Cardinality(LabelPairs(R) \cup ({x} \X x.labels)) =
        Cardinality(LabelPairs(R)) + Cardinality({x} \X x.labels)
    BY <1>2, <1>3, CountsAdd, Zenon
<1>5. Labelled(R \cup {x})
    BY FS_AddElement DEF Labelled
<1> QED
    BY <1>1, <1>3, <1>4, <1>5, Zenon

\* The function behind LabelsOf.
IsLabelSum(F, S) ==
    F = [t \in SUBSET S |-> IF t = {} THEN 0
                            ELSE LET x == CHOOSE x \in t : TRUE
                                 IN  Cardinality(x.labels) + F[t \ {x}]]

PairCount(S) == [t \in SUBSET S |-> Cardinality(LabelPairs(t))]

LEMMA PairCountTakes ==
    ASSUME NEW S, Labelled(S), NEW t \in SUBSET S, t # {}
    PROVE  LET x == CHOOSE x \in t : TRUE
           IN  /\ x \in t
               /\ PairCount(S)[t] = Cardinality(x.labels) + PairCount(S)[t \ {x}]
<1> DEFINE x == CHOOSE x \in t : TRUE
           u == t \ {x}
<1>1. x \in t
    OBVIOUS
<1> HIDE DEF x
<1>2. u \in SUBSET S /\ x \notin u /\ u \cup {x} = t /\ IsFiniteSet(x.labels)
    BY <1>1 DEF Labelled
<1>3. Labelled(u)
    <2>1. IsFiniteSet(u)
        BY <1>2, FS_Subset DEF Labelled
    <2> QED
        BY <1>2, <2>1 DEF Labelled
<1>4. PairCount(S)[t] = Cardinality(LabelPairs(t)) /\ PairCount(S)[u] = Cardinality(LabelPairs(u))
    BY <1>2 DEF PairCount
<1> HIDE DEF u
<1>5. Cardinality(LabelPairs(u \cup {x})) = Cardinality(LabelPairs(u)) + Cardinality(x.labels)
    BY <1>2, <1>3, LabelsOneMore
<1>6. Cardinality(LabelPairs(u)) \in Nat /\ Cardinality(x.labels) \in Nat
    BY <1>2, <1>3, PairsFinite, FS_CardinalityType
<1>a. Cardinality(LabelPairs(t)) = Cardinality(LabelPairs(u)) + Cardinality(x.labels)
    BY <1>2, <1>5, Zenon
<1>7. PairCount(S)[t] = Cardinality(x.labels) + PairCount(S)[u]
    BY <1>4, <1>6, <1>a
<1> QED
    BY <1>1, <1>7 DEF x, u

LEMMA PairCountSums ==
    ASSUME NEW S, Labelled(S)
    PROVE  IsLabelSum(PairCount(S), S)
<1> DEFINE F == PairCount(S)
           G == [t \in SUBSET S |-> IF t = {} THEN 0
                                    ELSE LET x == CHOOSE x \in t : TRUE
                                         IN  Cardinality(x.labels) + F[t \ {x}]]
<1>1. F = [t \in SUBSET S |-> F[t]]
    BY DEF PairCount
<1>2. ASSUME NEW t \in SUBSET S
      PROVE  F[t] = G[t]
    <2>1. CASE t = {}
        <3>1. LabelPairs({}) = {}
            BY DEF LabelPairs
        <3>2. F[t] = Cardinality({})
            BY <2>1, <3>1 DEF PairCount
        <3> QED
            BY <2>1, <3>2, FS_EmptySet
    <2>2. CASE t # {}
        BY <2>2, PairCountTakes
    <2> QED
        BY <2>1, <2>2
<1>3. G = [t \in SUBSET S |-> G[t]]
    OBVIOUS
<1>4. F = G
    <2> HIDE DEF F, G
    <2> QED
        BY <1>1, <1>2, <1>3
<1> QED
    BY <1>4 DEF IsLabelSum

LEMMA LabelSumIs ==
    ASSUME NEW S, Labelled(S), NEW F, IsLabelSum(F, S)
    PROVE  F[S] = PairCount(S)[S]
<1> DEFINE K == {k \in Nat : \A t \in SUBSET S : Cardinality(t) = k => F[t] = PairCount(S)[t]}
<1>1. \A t \in SUBSET S : IsFiniteSet(t) /\ Cardinality(t) \in Nat
    BY FS_Subset, FS_CardinalityType DEF Labelled
<1>2. IsLabelSum(PairCount(S), S)
    BY PairCountSums
<1>3. 0 \in K
    <2>1. \A t \in SUBSET S : Cardinality(t) = 0 => t = {}
        BY <1>1, FS_EmptySet
    <2>2. F[{}] = 0 /\ PairCount(S)[{}] = 0
        BY <1>2 DEF IsLabelSum
    <2> QED
        BY <2>1, <2>2
<1>4. ASSUME NEW k \in Nat, k \in K
      PROVE  k + 1 \in K
    <2>1. SUFFICES ASSUME NEW t \in SUBSET S, Cardinality(t) = k + 1
                   PROVE  F[t] = PairCount(S)[t]
        OBVIOUS
    <2>2. t # {}
        BY <2>1, FS_EmptySet
    <2> DEFINE x == CHOOSE x \in t : TRUE
               u == t \ {x}
    <2>3. x \in t
        BY <2>2
    <2>4. F[t] = Cardinality(x.labels) + F[u]
        BY <2>2 DEF IsLabelSum
    <2>5. PairCount(S)[t] = Cardinality(x.labels) + PairCount(S)[u]
        BY <2>2, PairCountTakes
    <2> HIDE DEF x
    <2>6. u \in SUBSET S /\ Cardinality(u) = k
        BY <1>1, <2>1, <2>3, FS_RemoveElement
    <2> QED
        BY <1>4, <2>4, <2>5, <2>6
<1> HIDE DEF K
<1>5. Nat \subseteq K
    BY <1>3, <1>4, AllNumbers
<1>6. Cardinality(S) \in K
    BY <1>1, <1>5
<1> QED
    BY <1>6 DEF K

\* The labels of nodes, summed, are the pairs of a node and a label of it.
LEMMA LabelsCounted ==
    ASSUME NEW S, Labelled(S)
    PROVE  LabelsOf(S) = Cardinality(LabelPairs(S))
<1> DEFINE F == CHOOSE F : IsLabelSum(F, S)
<1>1. IsLabelSum(F, S)
    BY PairCountSums
<1>2. LabelsOf(S) = F[S]
    BY DEF LabelsOf, MapThenSumSet, MapThenFoldSet, IsLabelSum
<1> HIDE DEF F
<1>3. F[S] = PairCount(S)[S]
    BY <1>1, LabelSumIs
<1> QED
    BY <1>2, <1>3 DEF PairCount

\* The counters of a statement.
Counters == {"nodesCreated", "relsCreated", "propsSet", "propsRemoved",
             "labelsAdded", "labelsRemoved", "nodesDeleted", "relsDeleted"}
IsCounts(c) == c \in [Counters -> Nat]

LEMMA NothingCounted == NoCounts = [counter \in Counters |-> 0]
BY DEF NoCounts, Counters

LEMMA CountsZero ==
    ASSUME NEW c, IsCounts(c)
    PROVE  c = NoCounts <=> \A counter \in Counters : c[counter] = 0
BY NothingCounted DEF IsCounts

\* What an amount on a counter adds to another.
By(counter, other, amount) == IF counter = other THEN amount ELSE 0

LEMMA CounterMoved ==
    ASSUME NEW c, IsCounts(c), NEW counter \in Counters, NEW amount \in Nat
    PROVE  LET d == [c EXCEPT ![counter] = @ + amount] IN
           /\ IsCounts(d)
           /\ \A other \in Counters : d[other] = c[other] + By(counter, other, amount)
BY DEF IsCounts, By

\* The counters of updates.
Updating == {"propsSet", "propsRemoved", "labelsAdded", "labelsRemoved"}

One(r) == IF r.val # Null THEN 1 ELSE 0

LEMMA PresentOneMore ==
    ASSUME NEW R, IsFiniteSet(R), NEW x, x \notin R
    PROVE  Present(R) \in Nat /\ Present(R \cup {x}) = Present(R) + One(x)
<1> DEFINE S == {r \in R : r.val # Null}
           T == {r \in R \cup {x} : r.val # Null}
<1>1. IsFiniteSet(S) /\ x \notin S
    BY FS_Subset
<1>2. T = IF x.val # Null THEN S \cup {x} ELSE S
    OBVIOUS
<1> HIDE DEF S, T
<1>3. Cardinality(S) \in Nat /\ Cardinality(S \cup {x}) = Cardinality(S) + 1
    BY <1>1, FS_CardinalityType, FS_AddElement
<1>4. Cardinality(T) = Cardinality(S) + One(x)
    BY <1>2, <1>3 DEF One
<1>5. Present(R) = Cardinality(S) /\ Present(R \cup {x}) = Cardinality(T)
    BY DEF Present, S, T
<1> QED
    BY <1>3, <1>4, <1>5

LEMMA LabelsOneMoreOf ==
    ASSUME NEW R, Labelled(R), NEW x, x \notin R, IsFiniteSet(x.labels)
    PROVE  /\ LabelsOf(R) \in Nat /\ Cardinality(x.labels) \in Nat
           /\ LabelsOf(R \cup {x}) = LabelsOf(R) + Cardinality(x.labels)
<1>1. Labelled(R \cup {x}) /\ Cardinality(LabelPairs(R \cup {x})) =
        Cardinality(LabelPairs(R)) + Cardinality(x.labels)
    BY LabelsOneMore
<1>2. /\ LabelsOf(R) = Cardinality(LabelPairs(R))
      /\ LabelsOf(R \cup {x}) = Cardinality(LabelPairs(R \cup {x}))
    BY <1>1, LabelsCounted
<1>3. Cardinality(LabelPairs(R)) \in Nat /\ Cardinality(x.labels) \in Nat
    BY PairsFinite, FS_CardinalityType
<1> QED
    BY <1>1, <1>2, <1>3

LEMMA NodesLabelled ==
    ASSUME NEW g, Sound(g)
    PROVE  Labelled(g.nodes) /\ LabelsOf(g.nodes) \in Nat
<1>1. Labelled(g.nodes)
    BY SoundFinite DEF Labelled, Sound, IsNode
<1>2. LabelsOf(g.nodes) \in Nat
    BY <1>1, LabelsCounted, PairsFinite, FS_CardinalityType
<1> QED
    BY <1>1, <1>2

LEMMA PresentNat ==
    ASSUME NEW R, IsFiniteSet(R)
    PROVE  Present(R) \in Nat
<1>1. IsFiniteSet({r \in R : r.val # Null})
    BY FS_Subset
<1> QED
    BY <1>1, FS_CardinalityType DEF Present

\* A record is replaced by one with its id.
LEMMA PresentReplaced ==
    ASSUME NEW R, IsFiniteSet(R), IdsUnique(R), NEW r \in R, NEW new, new.id = r.id
    PROVE  /\ Present(Replace(R, r, new)) + One(r) = Present(R) + One(new)
           /\ Present(Replace(R, r, new)) \in Nat /\ Present(R) \in Nat
<1> DEFINE Rest == R \ {r}
<1>1. IsFiniteSet(Rest) /\ r \notin Rest /\ Rest \cup {r} = R
    BY FS_RemoveElement
<1>2. new \notin Rest
    BY DEF IdsUnique
<1>3. Replace(R, r, new) = Rest \cup {new}
    BY DEF Replace
<1> HIDE DEF Rest
<1>4. Present(Rest) \in Nat /\ Present(Rest \cup {r}) = Present(Rest) + One(r)
    BY <1>1, PresentOneMore
<1>5. Present(Rest \cup {new}) = Present(Rest) + One(new)
    BY <1>1, <1>2, PresentOneMore
<1>6. One(r) \in Nat /\ One(new) \in Nat
    BY DEF One
<1>7. Present(R) = Present(Rest) + One(r)
    BY <1>1, <1>4
<1> QED
    BY <1>3, <1>4, <1>5, <1>6, <1>7

LEMMA LabelsReplaced ==
    ASSUME NEW R, Labelled(R), IdsUnique(R), NEW r \in R, NEW new, new.id = r.id,
           IsFiniteSet(new.labels)
    PROVE  /\ LabelsOf(Replace(R, r, new)) + Cardinality(r.labels)
                = LabelsOf(R) + Cardinality(new.labels)
           /\ LabelsOf(Replace(R, r, new)) \in Nat /\ LabelsOf(R) \in Nat
<1> DEFINE Rest == R \ {r}
<1>1. Labelled(Rest) /\ r \notin Rest /\ Rest \cup {r} = R /\ IsFiniteSet(r.labels)
    BY FS_RemoveElement DEF Labelled
<1>2. new \notin Rest
    BY DEF IdsUnique
<1>3. Replace(R, r, new) = Rest \cup {new}
    BY DEF Replace
<1> HIDE DEF Rest
<1>4. /\ LabelsOf(Rest) \in Nat /\ Cardinality(r.labels) \in Nat
      /\ LabelsOf(Rest \cup {r}) = LabelsOf(Rest) + Cardinality(r.labels)
    BY <1>1, LabelsOneMoreOf
<1>5. /\ Cardinality(new.labels) \in Nat
      /\ LabelsOf(Rest \cup {new}) = LabelsOf(Rest) + Cardinality(new.labels)
    BY <1>1, <1>2, LabelsOneMoreOf
<1>7. LabelsOf(R) = LabelsOf(Rest) + Cardinality(r.labels)
    BY <1>1, <1>4
<1> QED
    BY <1>3, <1>4, <1>5, <1>7

\* The counters of an update account for the graph it made of another.
Tallied(g, h, c) ==
    /\ IsCounts(c)
    /\ \A counter \in Counters \ Updating : c[counter] = 0
    /\ LabelsOf(h.nodes) + c.labelsRemoved = LabelsOf(g.nodes) + c.labelsAdded
    /\ Present(h.nodes) + Present(h.edges) + c.propsRemoved
            <= Present(g.nodes) + Present(g.edges) + c.propsSet
    /\ c = NoCounts => h = g

LEMMA TalliedNone ==
    ASSUME NEW g, Sound(g)
    PROVE  Tallied(g, g, NoCounts)
<1>1. LabelsOf(g.nodes) \in Nat /\ Present(g.nodes) \in Nat /\ Present(g.edges) \in Nat
    BY NodesLabelled, SoundFinite, PresentNat
<1>2. IsCounts(NoCounts) /\ \A counter \in Counters : NoCounts[counter] = 0
    BY NothingCounted DEF IsCounts
<1>3. /\ NoCounts.labelsRemoved = 0 /\ NoCounts.labelsAdded = 0
      /\ NoCounts.propsRemoved = 0 /\ NoCounts.propsSet = 0
    BY <1>2 DEF Counters
<1> QED
    BY <1>1, <1>2, <1>3 DEF Tallied

LEMMA TalliedMore ==
    ASSUME NEW g, Sound(g), NEW h, Sound(h), NEW k, Sound(k), NEW c, Tallied(g, h, c),
           NEW counter \in Updating, NEW amount \in Nat,
           LabelsOf(k.nodes) + By(counter, "labelsRemoved", amount)
                = LabelsOf(h.nodes) + By(counter, "labelsAdded", amount),
           Present(k.nodes) + Present(k.edges) + By(counter, "propsRemoved", amount)
                <= Present(h.nodes) + Present(h.edges) + By(counter, "propsSet", amount),
           amount = 0 => k = h
    PROVE  Tallied(g, k, [c EXCEPT ![counter] = @ + amount])
<1> DEFINE d == [c EXCEPT ![counter] = @ + amount]
<1>1. \A x \in {g, h, k} : /\ LabelsOf(x.nodes) \in Nat
                           /\ Present(x.nodes) \in Nat /\ Present(x.edges) \in Nat
    BY NodesLabelled, SoundFinite, PresentNat
<1>2. \A other \in Counters : By(counter, other, amount) \in Nat /\ c[other] \in Nat
    BY DEF By, Tallied, IsCounts
<1>3. IsCounts(d) /\ \A other \in Counters : d[other] = c[other] + By(counter, other, amount)
    BY CounterMoved DEF Tallied, Updating, Counters
<1> HIDE DEF d
<1>4. \A other \in Counters \ Updating : d[other] = 0
    BY <1>3 DEF By, Tallied
<1>5. LabelsOf(k.nodes) + d.labelsRemoved = LabelsOf(g.nodes) + d.labelsAdded
    <2>1. /\ d.labelsAdded = c.labelsAdded + By(counter, "labelsAdded", amount)
          /\ d.labelsRemoved = c.labelsRemoved + By(counter, "labelsRemoved", amount)
          /\ c.labelsAdded \in Nat /\ By(counter, "labelsAdded", amount) \in Nat
          /\ c.labelsRemoved \in Nat /\ By(counter, "labelsRemoved", amount) \in Nat
        BY <1>2, <1>3 DEF Counters
    <2>2. LabelsOf(h.nodes) + c.labelsRemoved = LabelsOf(g.nodes) + c.labelsAdded
        BY DEF Tallied
    <2> QED
        BY <1>1, <2>1, <2>2
<1>6. Present(k.nodes) + Present(k.edges) + d.propsRemoved
        <= Present(g.nodes) + Present(g.edges) + d.propsSet
    <2>1. /\ d.propsSet = c.propsSet + By(counter, "propsSet", amount)
          /\ d.propsRemoved = c.propsRemoved + By(counter, "propsRemoved", amount)
          /\ c.propsSet \in Nat /\ By(counter, "propsSet", amount) \in Nat
          /\ c.propsRemoved \in Nat /\ By(counter, "propsRemoved", amount) \in Nat
        BY <1>2, <1>3 DEF Counters
    <2>2. Present(h.nodes) + Present(h.edges) + c.propsRemoved
            <= Present(g.nodes) + Present(g.edges) + c.propsSet
        BY DEF Tallied
    <2> QED
        BY <1>1, <2>1, <2>2
<1>7. ASSUME d = NoCounts
      PROVE  k = g
    <2>1. \A other \in Counters : c[other] + By(counter, other, amount) = 0
        BY <1>3, <1>7, CountsZero
    <2>2. \A other \in Counters : c[other] = 0
        BY <1>2, <2>1
    <2>3. amount = 0
        BY <1>2, <2>1 DEF By, Updating, Counters
    <2> QED
        BY <2>2, <2>3, CountsZero DEF Tallied
<1> QED
    BY <1>3, <1>4, <1>5, <1>6, <1>7 DEF Tallied, d

\* An update's counters account for what it changed.
LEMMA TalliedAccounts ==
    ASSUME NEW g, Sound(g), NEW h, Sound(h), IdsOf(h.nodes) = IdsOf(g.nodes),
           IdsOf(h.edges) = IdsOf(g.edges), NEW c, Tallied(g, h, c)
    PROVE  Accounted(c, g, h)
<1>1. /\ Survivors(h.nodes, g.nodes) = h.nodes /\ Survivors(g.nodes, h.nodes) = g.nodes
      /\ Survivors(h.edges, g.edges) = h.edges /\ Survivors(g.edges, h.edges) = g.edges
    BY DEF Survivors, IdsOf
<1>2. \A S : Cardinality(S \ S) = 0
    <2>1. \A S : S \ S = {}
        OBVIOUS
    <2> QED
        BY <2>1, FS_EmptySet
<1>3. c.nodesCreated = 0 /\ c.relsCreated = 0 /\ c.nodesDeleted = 0 /\ c.relsDeleted = 0
    BY DEF Tallied, Counters, Updating
<1>4. \A x \in {g, h} : /\ LabelsOf(x.nodes) \in Nat
                        /\ Present(x.nodes) \in Nat /\ Present(x.edges) \in Nat
    BY NodesLabelled, SoundFinite, PresentNat
<1>5. /\ c.propsSet \in Nat /\ c.propsRemoved \in Nat
      /\ c.labelsAdded \in Nat /\ c.labelsRemoved \in Nat
    BY DEF Tallied, IsCounts, Counters
<1>6. c.labelsAdded - c.labelsRemoved = LabelsOf(h.nodes) - LabelsOf(g.nodes)
    BY <1>4, <1>5 DEF Tallied
<1>7. Present(h.nodes) + Present(h.edges)
        <= Present(g.nodes) + Present(g.edges) + c.propsSet - c.propsRemoved
    BY <1>4, <1>5 DEF Tallied
<1> QED
    BY <1>1, <1>2, <1>3, <1>6, <1>7 DEF Accounted, Tallied

\* As many ids as records.
LEMMA IdsCounted ==
    ASSUME NEW R, IsFiniteSet(R), IdsUnique(R)
    PROVE  IsFiniteSet(IdsOf(R)) /\ Cardinality(IdsOf(R)) = Cardinality(R)
<1> DEFINE T == IdsOf(R)
           f == [r \in R |-> r.id]
<1>1. f \in Bijection(R, T)
    BY DEF Bijection, Injection, Surjection, IsInjective, IdsOf, IdsUnique
<1> HIDE DEF f, T
<1>2. ExistsBijection(R, T)
    BY <1>1 DEF ExistsBijection
<1> QED
    BY <1>2, FS_Bijection DEF T

\* Some of the records of a set.
LEMMA SomeCounted ==
    ASSUME NEW R, IsFiniteSet(R), IdsUnique(R), NEW S \in SUBSET R
    PROVE  /\ Cardinality(R) \in Nat /\ Cardinality(S) \in Nat
           /\ Cardinality(IdsOf(R) \ IdsOf(S)) = Cardinality(R) - Cardinality(S)
           /\ IdsOf(S) \ IdsOf(R) = {}
           /\ Survivors(R, S) = S /\ Survivors(S, R) = S
           /\ Cardinality(S) <= Cardinality(R)
           /\ Cardinality(S) = Cardinality(R) => S = R
<1>1. IsFiniteSet(S) /\ IdsUnique(S) /\ IdsOf(S) \subseteq IdsOf(R)
    BY FS_Subset DEF IdsUnique, IdsOf
<1>2. /\ IsFiniteSet(IdsOf(R)) /\ Cardinality(IdsOf(R)) = Cardinality(R)
      /\ IsFiniteSet(IdsOf(S)) /\ Cardinality(IdsOf(S)) = Cardinality(S)
    BY <1>1, IdsCounted
<1>3. Cardinality(IdsOf(R) \ IdsOf(S)) =
        Cardinality(IdsOf(R)) - Cardinality(IdsOf(R) \cap IdsOf(S))
    BY <1>2, FS_Difference
<1>4. IdsOf(R) \cap IdsOf(S) = IdsOf(S)
    BY <1>1
<1>5. Survivors(R, S) = S
    <2>1. \A r \in R : r.id \in IdsOf(S) => r \in S
        BY DEF IdsOf, IdsUnique
    <2>2. \A r \in S : r.id \in IdsOf(S)
        BY DEF IdsOf
    <2> QED
        BY <2>1, <2>2 DEF Survivors
<1>6. Survivors(S, R) = S
    BY DEF Survivors, IdsOf
<1>7. Cardinality(S) <= Cardinality(R) /\ (Cardinality(S) = Cardinality(R) => S = R)
    BY FS_Subset
<1>8. Cardinality(R) \in Nat /\ Cardinality(S) \in Nat
    BY <1>1, FS_CardinalityType
<1> QED
    BY <1>1, <1>2, <1>3, <1>4, <1>5, <1>6, <1>7, <1>8

\* A graph with some of the records of another.
Within(h, g) == h.nodes \in SUBSET g.nodes /\ h.edges \in SUBSET g.edges

LEMMA NoneMissing == Cardinality({}) = 0
BY FS_EmptySet

LEMMA DeletedCounts ==
    ASSUME NEW x \in Nat, NEW y \in Nat
    PROVE  LET c == [NoCounts EXCEPT !.nodesDeleted = x, !.relsDeleted = y] IN
           /\ IsCounts(c) /\ c.nodesDeleted = x /\ c.relsDeleted = y
           /\ c.nodesCreated = 0 /\ c.relsCreated = 0 /\ c.propsSet = 0 /\ c.propsRemoved = 0
           /\ c.labelsAdded = 0 /\ c.labelsRemoved = 0
BY NothingCounted DEF IsCounts, Counters

LEMMA DeletedAccounts ==
    ASSUME NEW g, Sound(g), NEW h, Sound(h), Within(h, g),
           h.nextNode = g.nextNode, h.nextEdge = g.nextEdge, h.owned = g.owned, NEW c,
           c = [NoCounts EXCEPT
                    !.nodesDeleted = Cardinality(g.nodes) - Cardinality(h.nodes),
                    !.relsDeleted = Cardinality(g.edges) - Cardinality(h.edges)]
    PROVE  Accounted(c, g, h)
<1> DEFINE x == Cardinality(g.nodes) - Cardinality(h.nodes)
           y == Cardinality(g.edges) - Cardinality(h.edges)
<1>1. /\ IsFiniteSet(g.nodes) /\ IsFiniteSet(g.edges) /\ IdsUnique(g.nodes) /\ IdsUnique(g.edges)
    BY SoundFinite DEF Sound, Consistent
<1>2. /\ Cardinality(g.nodes) \in Nat /\ Cardinality(h.nodes) \in Nat
      /\ Cardinality(IdsOf(g.nodes) \ IdsOf(h.nodes)) = Cardinality(g.nodes) - Cardinality(h.nodes)
      /\ IdsOf(h.nodes) \ IdsOf(g.nodes) = {}
      /\ Survivors(g.nodes, h.nodes) = h.nodes /\ Survivors(h.nodes, g.nodes) = h.nodes
      /\ Cardinality(h.nodes) <= Cardinality(g.nodes)
      /\ Cardinality(h.nodes) = Cardinality(g.nodes) => h.nodes = g.nodes
    BY <1>1, SomeCounted DEF Within
<1>3. /\ Cardinality(g.edges) \in Nat /\ Cardinality(h.edges) \in Nat
      /\ Cardinality(IdsOf(g.edges) \ IdsOf(h.edges)) = Cardinality(g.edges) - Cardinality(h.edges)
      /\ IdsOf(h.edges) \ IdsOf(g.edges) = {}
      /\ Survivors(g.edges, h.edges) = h.edges /\ Survivors(h.edges, g.edges) = h.edges
      /\ Cardinality(h.edges) <= Cardinality(g.edges)
      /\ Cardinality(h.edges) = Cardinality(g.edges) => h.edges = g.edges
    BY <1>1, SomeCounted DEF Within
<1>4. x \in Nat /\ y \in Nat
    BY <1>2, <1>3
<1>5. c = [NoCounts EXCEPT !.nodesDeleted = x, !.relsDeleted = y]
    OBVIOUS
<1>6. LabelsOf(h.nodes) \in Nat /\ Present(h.nodes) \in Nat /\ Present(h.edges) \in Nat
    BY NodesLabelled, SoundFinite, PresentNat
<1>7. (x = 0 => h.nodes = g.nodes) /\ (y = 0 => h.edges = g.edges)
    BY <1>2, <1>3
<1>8. /\ Cardinality(IdsOf(g.nodes) \ IdsOf(h.nodes)) = x
      /\ Cardinality(IdsOf(g.edges) \ IdsOf(h.edges)) = y
    BY <1>2, <1>3
<1> HIDE DEF x, y
<1>9. /\ IsCounts(c) /\ c.nodesDeleted = x /\ c.relsDeleted = y
      /\ c.nodesCreated = 0 /\ c.relsCreated = 0 /\ c.propsSet = 0 /\ c.propsRemoved = 0
      /\ c.labelsAdded = 0 /\ c.labelsRemoved = 0
    <2> DEFINE d == [NoCounts EXCEPT !.nodesDeleted = x, !.relsDeleted = y]
    <2>1. /\ IsCounts(d) /\ d.nodesDeleted = x /\ d.relsDeleted = y
          /\ d.nodesCreated = 0 /\ d.relsCreated = 0 /\ d.propsSet = 0 /\ d.propsRemoved = 0
          /\ d.labelsAdded = 0 /\ d.labelsRemoved = 0
        BY <1>4, DeletedCounts
    <2>2. c = d
        BY <1>5
    <2> HIDE DEF d
    <2> QED
        BY <2>1, <2>2
<1>10. c = NoCounts => h = g
    <2>1. c = NoCounts => x = 0 /\ y = 0
        BY <1>9, CountsZero DEF Counters
    <2> QED
        BY <1>7, <2>1 DEF Sound, IsGraph
<1>11. /\ Cardinality(IdsOf(h.nodes) \ IdsOf(g.nodes)) = 0
       /\ Cardinality(IdsOf(h.edges) \ IdsOf(g.edges)) = 0
    BY <1>2, <1>3, NoneMissing
<1>12. c.labelsAdded - c.labelsRemoved
            = LabelsOf(Survivors(h.nodes, g.nodes)) - LabelsOf(Survivors(g.nodes, h.nodes))
    BY <1>2, <1>6, <1>9
<1>13. Present(Survivors(h.nodes, g.nodes)) + Present(Survivors(h.edges, g.edges))
            <= Present(Survivors(g.nodes, h.nodes)) + Present(Survivors(g.edges, h.edges))
                + c.propsSet - c.propsRemoved
    BY <1>2, <1>3, <1>6, <1>9
<1> QED
    BY <1>8, <1>9, <1>10, <1>11, <1>12, <1>13 DEF Accounted

\* The counters of a creation count the records it has added to a graph.
Adding == {"nodesCreated", "relsCreated", "propsSet"}
Enlarged(g, h, c) ==
    /\ IsCounts(c)
    /\ \A counter \in Counters \ Adding : c[counter] = 0
    /\ Within(g, h)
    /\ Cardinality(h.nodes) = Cardinality(g.nodes) + c.nodesCreated
    /\ Cardinality(h.edges) = Cardinality(g.edges) + c.relsCreated
    /\ c = NoCounts => h = g

LEMMA CreatedAccounts ==
    ASSUME NEW g, Sound(g), NEW h, Sound(h), NEW c, Enlarged(g, h, c)
    PROVE  Accounted(c, g, h)
<1>1. /\ IsFiniteSet(h.nodes) /\ IsFiniteSet(h.edges) /\ IdsUnique(h.nodes) /\ IdsUnique(h.edges)
    BY SoundFinite DEF Sound, Consistent
<1>a. g.nodes \in SUBSET h.nodes /\ g.edges \in SUBSET h.edges
    BY DEF Enlarged, Within
<1>2. /\ Cardinality(h.nodes) \in Nat /\ Cardinality(g.nodes) \in Nat
      /\ Cardinality(IdsOf(h.nodes) \ IdsOf(g.nodes)) = Cardinality(h.nodes) - Cardinality(g.nodes)
      /\ IdsOf(g.nodes) \ IdsOf(h.nodes) = {}
      /\ Survivors(h.nodes, g.nodes) = g.nodes /\ Survivors(g.nodes, h.nodes) = g.nodes
    BY <1>1, <1>a, SomeCounted
<1>3. /\ Cardinality(h.edges) \in Nat /\ Cardinality(g.edges) \in Nat
      /\ Cardinality(IdsOf(h.edges) \ IdsOf(g.edges)) = Cardinality(h.edges) - Cardinality(g.edges)
      /\ IdsOf(g.edges) \ IdsOf(h.edges) = {}
      /\ Survivors(h.edges, g.edges) = g.edges /\ Survivors(g.edges, h.edges) = g.edges
    BY <1>1, <1>a, SomeCounted
<1>4. LabelsOf(g.nodes) \in Nat /\ Present(g.nodes) \in Nat /\ Present(g.edges) \in Nat
    BY NodesLabelled, SoundFinite, PresentNat
<1>5. /\ c.nodesCreated \in Nat /\ c.relsCreated \in Nat /\ c.propsSet \in Nat
      /\ c.nodesDeleted = 0 /\ c.relsDeleted = 0 /\ c.propsRemoved = 0
      /\ c.labelsAdded = 0 /\ c.labelsRemoved = 0
    BY DEF Enlarged, IsCounts, Counters, Adding
<1>6. /\ Cardinality(h.nodes) = Cardinality(g.nodes) + c.nodesCreated
      /\ Cardinality(h.edges) = Cardinality(g.edges) + c.relsCreated
    BY DEF Enlarged
<1>7. /\ c.nodesCreated = Cardinality(IdsOf(h.nodes) \ IdsOf(g.nodes))
      /\ c.relsCreated = Cardinality(IdsOf(h.edges) \ IdsOf(g.edges))
    BY <1>2, <1>3, <1>5, <1>6
<1>8. /\ Cardinality(IdsOf(g.nodes) \ IdsOf(h.nodes)) = 0
      /\ Cardinality(IdsOf(g.edges) \ IdsOf(h.edges)) = 0
    BY <1>2, <1>3, NoneMissing
<1>9. c.labelsAdded - c.labelsRemoved
            = LabelsOf(Survivors(h.nodes, g.nodes)) - LabelsOf(Survivors(g.nodes, h.nodes))
    BY <1>2, <1>4, <1>5
<1>10. Present(Survivors(h.nodes, g.nodes)) + Present(Survivors(h.edges, g.edges))
            <= Present(Survivors(g.nodes, h.nodes)) + Present(Survivors(g.edges, h.edges))
                + c.propsSet - c.propsRemoved
    BY <1>2, <1>3, <1>4, <1>5
<1>11. c = NoCounts => h = g
    BY DEF Enlarged
<1> QED
    BY <1>5, <1>7, <1>8, <1>9, <1>10, <1>11 DEF Accounted

\* A record created, with the properties given.
CountedNew(c, counter, amount) ==
    LET d == [c EXCEPT ![counter] = @ + 1] IN [d EXCEPT !["propsSet"] = @ + amount]

LEMMA EnlargedMore ==
    ASSUME NEW g, NEW h, Sound(h), NEW c, Enlarged(g, h, c), NEW counter \in {"nodesCreated", "relsCreated"},
           NEW amount \in Nat, NEW k, Within(h, k), IsFiniteSet(g.nodes), IsFiniteSet(g.edges),
           Cardinality(k.nodes) = Cardinality(h.nodes) + By(counter, "nodesCreated", 1),
           Cardinality(k.edges) = Cardinality(h.edges) + By(counter, "relsCreated", 1)
    PROVE  Enlarged(g, k, CountedNew(c, counter, amount))
<1> DEFINE d == [c EXCEPT ![counter] = @ + 1]
           e == [d EXCEPT !["propsSet"] = @ + amount]
<1>1. /\ counter \in Counters /\ "propsSet" \in Counters
      /\ counter \in Adding /\ counter # "propsSet" /\ 1 \in Nat
    BY DEF Counters, Adding
<1>a. IsCounts(c)
    BY DEF Enlarged
<1>2. IsCounts(d) /\ \A other \in Counters : d[other] = c[other] + By(counter, other, 1)
    BY <1>1, <1>a, CounterMoved
<1> HIDE DEF d
<1>3. IsCounts(e) /\ \A other \in Counters : e[other] = d[other] + By("propsSet", other, amount)
    BY <1>1, <1>2, CounterMoved
<1> HIDE DEF e
<1>4. \A other \in Counters : /\ c[other] \in Nat
                              /\ By(counter, other, 1) \in Nat /\ By("propsSet", other, amount) \in Nat
    BY <1>1, <1>a DEF IsCounts, By
<1>5. \A other \in Counters \ Adding : e[other] = 0
    BY <1>1, <1>2, <1>3 DEF By, Enlarged, Adding
<1>6. e.nodesCreated = c.nodesCreated + By(counter, "nodesCreated", 1)
    BY <1>2, <1>3, <1>4 DEF By, Counters
<1>7. e.relsCreated = c.relsCreated + By(counter, "relsCreated", 1)
    BY <1>2, <1>3, <1>4 DEF By, Counters
<1>8. Cardinality(g.nodes) \in Nat /\ Cardinality(g.edges) \in Nat
    BY FS_CardinalityType
<1>9. c.nodesCreated \in Nat /\ c.relsCreated \in Nat
      /\ By(counter, "nodesCreated", 1) \in Nat /\ By(counter, "relsCreated", 1) \in Nat
    BY <1>4 DEF Counters
<1>10. /\ Cardinality(k.nodes) = Cardinality(g.nodes) + e.nodesCreated
       /\ Cardinality(k.edges) = Cardinality(g.edges) + e.relsCreated
    BY <1>6, <1>7, <1>8, <1>9 DEF Enlarged
<1>11. Within(g, k)
    BY DEF Within, Enlarged
<1>12. e # NoCounts
    <2>1. e[counter] = c[counter] + 1
        BY <1>1, <1>2, <1>3, <1>4 DEF By
    <2>2. e[counter] # 0
        BY <1>1, <1>4, <2>1
    <2> QED
        BY <1>1, <1>3, <2>2, CountsZero
<1>13. Enlarged(g, k, e)
    BY <1>3, <1>5, <1>10, <1>11, <1>12 DEF Enlarged
<1> QED
    BY <1>13 DEF CountedNew, d, e

---------------------------------------------------------------------------
(* Updates *)

\* What a reference of a row stands for.
LEMMA RowRefs ==
    ASSUME NEW g, NEW row, IsRow(g, row), NEW var \in DOMAIN row
    PROVE  /\ row[var][1] = "node" => row[var][2] \in IdsOf(g.nodes)
           /\ row[var][1] # "node" => row[var][1] = "rel" /\ row[var][2] \in IdsOf(g.edges)
<1>1. row[var] \in Refs(g)
    BY DEF IsRow
<1> QED
    BY <1>1 DEF Refs, NodeRef, RelRef

\* A graph that is sound and has the ids of another, from which the counters tell it.
SameIds(g, h) == IdsOf(h.nodes) = IdsOf(g.nodes) /\ IdsOf(h.edges) = IdsOf(g.edges)
IsState(g, st) == /\ st = [ok |-> st.ok, graph |-> st.graph, counts |-> st.counts]
                  /\ st.ok \in BOOLEAN
                  /\ Sound(st.graph)
                  /\ SameIds(g, st.graph)
                  /\ Tallied(g, st.graph, st.counts)

\* Another record under the same id.
LEMMA NodeReplaced ==
    ASSUME NEW g, Sound(g), NEW n \in g.nodes, NEW new, IsNode(new), new.id = n.id,
           \A m \in g.nodes : m.id # n.id => m.ext # new.ext
    PROVE  LET h == [g EXCEPT !.nodes = Replace(@, n, new)] IN Sound(h) /\ SameIds(g, h)
<1> DEFINE h == [g EXCEPT !.nodes = Replace(@, n, new)]
           R == Replace(g.nodes, n, new)
<1>1. h = [nodes |-> R, edges |-> g.edges, owned |-> g.owned, nextNode |-> g.nextNode, nextEdge |-> g.nextEdge]
    BY DEF Sound, IsGraph
<1>2. g.nextNode \in Nat /\ g.nextEdge \in Nat
    BY DEF Sound, IsGraph
<1>3. \A m \in g.nodes : m.id = n.id => m = n
    BY DEF Sound, Consistent, IdsUnique
<1>4. \A m \in R : m = new \/ (m \in g.nodes /\ m.id # n.id)
    BY <1>3 DEF Replace
<1>5. IdsOf(R) = IdsOf(g.nodes)
    <2>1. ASSUME NEW i \in IdsOf(g.nodes)
          PROVE  i \in IdsOf(R)
        <3>1. PICK m \in g.nodes : m.id = i
            BY DEF IdsOf
        <3>2. new \in R /\ (m # n => m \in R)
            BY DEF Replace
        <3> QED
            BY <3>1, <3>2 DEF IdsOf
    <2>2. ASSUME NEW i \in IdsOf(R)
          PROVE  i \in IdsOf(g.nodes)
        BY <1>4 DEF IdsOf
    <2> QED
        BY <2>1, <2>2
<1>6. \A m \in R : IsNode(m) /\ m.id < g.nextNode
    BY <1>4 DEF Sound
<1>7. IdsUnique(R)
    <2>1. \A m, o \in g.nodes : m.id = o.id => m = o
        BY DEF Sound, Consistent, IdsUnique
    <2> QED
        BY <1>4, <2>1 DEF IdsUnique
<1>8. NamesUnique(R)
    <2>1. \A m, o \in g.nodes : m.ext = o.ext => m = o
        BY DEF Sound, Consistent, NamesUnique
    <2> QED
        BY <1>4, <2>1 DEF NamesUnique
<1> HIDE DEF h, R
<1>9. h.nodes = R /\ h.edges = g.edges /\ h.nextNode = g.nextNode /\ h.nextEdge = g.nextEdge
    BY <1>1
<1>10. Consistent(h)
    BY <1>5, <1>7, <1>8, <1>9 DEF Sound, Consistent, EndpointsExist
<1>11. IsGraph(h)
    BY <1>1, <1>2, <1>9 DEF IsGraph
<1> QED
    BY <1>5, <1>6, <1>9, <1>10, <1>11 DEF Sound, SameIds, h

\* The same for an edge that keeps its ends.
LEMMA EdgeReplaced ==
    ASSUME NEW g, Sound(g), NEW e \in g.edges, NEW new, IsEdge(new), new.id = e.id,
           new.src = e.src, new.dst = e.dst
    PROVE  LET h == [g EXCEPT !.edges = Replace(@, e, new)] IN Sound(h) /\ SameIds(g, h)
<1> DEFINE h == [g EXCEPT !.edges = Replace(@, e, new)]
           R == Replace(g.edges, e, new)
<1>1. h = [nodes |-> g.nodes, edges |-> R, owned |-> g.owned, nextNode |-> g.nextNode, nextEdge |-> g.nextEdge]
    BY DEF Sound, IsGraph
<1>2. g.nextNode \in Nat /\ g.nextEdge \in Nat
    BY DEF Sound, IsGraph
<1>3. \A m \in g.edges : m.id = e.id => m = e
    BY DEF Sound, Consistent, IdsUnique
<1>4. \A m \in R : m = new \/ (m \in g.edges /\ m.id # e.id)
    BY <1>3 DEF Replace
<1>5. IdsOf(R) = IdsOf(g.edges)
    <2>1. ASSUME NEW i \in IdsOf(g.edges)
          PROVE  i \in IdsOf(R)
        <3>1. PICK m \in g.edges : m.id = i
            BY DEF IdsOf
        <3>2. new \in R /\ (m # e => m \in R)
            BY DEF Replace
        <3> QED
            BY <3>1, <3>2 DEF IdsOf
    <2>2. ASSUME NEW i \in IdsOf(R)
          PROVE  i \in IdsOf(g.edges)
        BY <1>4 DEF IdsOf
    <2> QED
        BY <2>1, <2>2
<1>6. \A m \in R : IsEdge(m) /\ m.id < g.nextEdge
    BY <1>4 DEF Sound
<1>7. IdsUnique(R)
    <2>1. \A m, o \in g.edges : m.id = o.id => m = o
        BY DEF Sound, Consistent, IdsUnique
    <2> QED
        BY <1>4, <2>1 DEF IdsUnique
<1>8. \A m \in R : {m.src, m.dst} \subseteq IdsOf(g.nodes)
    BY <1>4 DEF Sound, Consistent, EndpointsExist
<1> HIDE DEF h, R
<1>9. h.nodes = g.nodes /\ h.edges = R /\ h.nextNode = g.nextNode /\ h.nextEdge = g.nextEdge
    BY <1>1
<1>10. Consistent(h)
    BY <1>7, <1>8, <1>9 DEF Sound, Consistent, EndpointsExist
<1>11. IsGraph(h)
    BY <1>1, <1>2, <1>9 DEF IsGraph
<1> QED
    BY <1>5, <1>6, <1>9, <1>10, <1>11 DEF Sound, SameIds, h

\* Updates are made of steps that keep a state: failing.
LEMMA FailState ==
    ASSUME NEW g, NEW st, IsState(g, st)
    PROVE  IsState(g, Fail(st)) /\ Fail(st).graph = st.graph /\ Fail(st).ok = FALSE
<1>1. st = [ok |-> st.ok, graph |-> st.graph, counts |-> st.counts]
    BY DEF IsState
<1>2. Fail(st) = [ok |-> FALSE, graph |-> st.graph, counts |-> st.counts]
    <2>1. \A x : [st EXCEPT !.ok = x] = [ok |-> x, graph |-> st.graph, counts |-> st.counts]
        BY <1>1
    <2> QED
        BY <2>1, Zenon DEF Fail
<1> QED
    BY <1>2 DEF IsState

\* A node replaced, and counted.
LEMMA NodeCountedState ==
    ASSUME NEW g, Sound(g), NEW st, IsState(g, st), NEW n \in st.graph.nodes, NEW new, IsNode(new),
           new.id = n.id, \A m \in st.graph.nodes : m.id # n.id => m.ext # new.ext,
           NEW counter \in Updating, NEW amount \in Nat,
           Cardinality(new.labels) + By(counter, "labelsRemoved", amount)
                = Cardinality(n.labels) + By(counter, "labelsAdded", amount),
           One(new) + By(counter, "propsRemoved", amount) <= One(n) + By(counter, "propsSet", amount),
           amount = 0 => new = n
    PROVE  IsState(g, Counted(WithNode(st, n, new), counter, amount))
<1> DEFINE k == st.graph
           R == Replace(k.nodes, n, new)
           h == [k EXCEPT !.nodes = R]
           c == [st.counts EXCEPT ![counter] = @ + amount]
<1>1. Counted(WithNode(st, n, new), counter, amount) = [ok |-> st.ok, graph |-> h, counts |-> c]
    <2> DEFINE w == WithNode(st, n, new)
    <2>1. w = [ok |-> st.ok, graph |-> h, counts |-> st.counts]
        BY DEF WithNode, IsState
    <2>2. w = [ok |-> w.ok, graph |-> w.graph, counts |-> w.counts]
          /\ w.ok = st.ok /\ w.graph = h /\ w.counts = st.counts
        BY <2>1
    <2> HIDE DEF w, h
    <2>3. \A v : [w EXCEPT !.counts = v] = [ok |-> st.ok, graph |-> h, counts |-> v]
        BY <2>2
    <2>4. Counted(w, counter, amount) = [w EXCEPT !.counts = c]
        BY <2>2, Zenon DEF Counted
    <2> QED
        BY <2>3, <2>4 DEF w
<1>2. Sound(k) /\ IsNode(n) /\ Tallied(g, k, st.counts)
    BY DEF IsState, Sound
<1>3. Sound(h) /\ SameIds(k, h)
    BY <1>2, NodeReplaced
<1>4. h = [nodes |-> R, edges |-> k.edges, owned |-> k.owned, nextNode |-> k.nextNode, nextEdge |-> k.nextEdge]
    BY <1>2 DEF Sound, IsGraph
<1>5. /\ IdsUnique(k.nodes) /\ IsFiniteSet(k.nodes) /\ IsFiniteSet(k.edges) /\ Labelled(k.nodes)
      /\ IsFiniteSet(n.labels) /\ IsFiniteSet(new.labels)
    BY <1>2, SoundFinite, NodesLabelled DEF Sound, Consistent, IsNode
<1> HIDE DEF k, h, R
<1>6. /\ Present(R) + One(n) = Present(k.nodes) + One(new)
      /\ Present(R) \in Nat /\ Present(k.nodes) \in Nat /\ Present(k.edges) \in Nat
    BY <1>5, PresentReplaced, PresentNat DEF R, k
<1>7. /\ LabelsOf(R) + Cardinality(n.labels) = LabelsOf(k.nodes) + Cardinality(new.labels)
      /\ LabelsOf(R) \in Nat /\ LabelsOf(k.nodes) \in Nat
    BY <1>5, LabelsReplaced DEF R, k
<1>8. /\ Cardinality(n.labels) \in Nat /\ Cardinality(new.labels) \in Nat
      /\ One(n) \in Nat /\ One(new) \in Nat
      /\ \A other : By(counter, other, amount) \in Nat
    BY <1>5, FS_CardinalityType DEF One, By
<1>9. h.nodes = R /\ h.edges = k.edges
    BY <1>4
<1>10. LabelsOf(h.nodes) + By(counter, "labelsRemoved", amount)
            = LabelsOf(k.nodes) + By(counter, "labelsAdded", amount)
    BY <1>7, <1>8, <1>9
<1>11. Present(h.nodes) + Present(h.edges) + By(counter, "propsRemoved", amount)
            <= Present(k.nodes) + Present(k.edges) + By(counter, "propsSet", amount)
    BY <1>6, <1>8, <1>9
<1>12. ASSUME amount = 0
       PROVE  h = k
    <2>1. R = k.nodes
        BY <1>12 DEF R, k, Replace
    <2> QED
        BY <1>2, <1>4, <2>1 DEF Sound, IsGraph
<1>13. Tallied(g, h, c)
    BY <1>2, <1>3, <1>10, <1>11, <1>12, TalliedMore
<1> HIDE DEF c
<1> QED
    BY <1>1, <1>3, <1>13 DEF IsState, SameIds, k

\* An edge's value, and what is counted of it.
LEMMA EdgeCountedState ==
    ASSUME NEW g, Sound(g), NEW st, IsState(g, st), NEW e \in st.graph.edges, NEW new, IsEdge(new),
           new.id = e.id, new.src = e.src, new.dst = e.dst,
           NEW counter \in {"propsSet", "propsRemoved"}, NEW amount \in Nat,
           One(new) + By(counter, "propsRemoved", amount) <= One(e) + By(counter, "propsSet", amount),
           amount = 0 => new = e
    PROVE  IsState(g, Counted(WithEdge(st, e, new), counter, amount))
<1> DEFINE k == st.graph
           R == Replace(k.edges, e, new)
           h == [k EXCEPT !.edges = R]
           c == [st.counts EXCEPT ![counter] = @ + amount]
<1>1. Counted(WithEdge(st, e, new), counter, amount) = [ok |-> st.ok, graph |-> h, counts |-> c]
    <2> DEFINE w == WithEdge(st, e, new)
    <2>1. w = [ok |-> st.ok, graph |-> h, counts |-> st.counts]
        BY DEF WithEdge, IsState
    <2>2. w = [ok |-> w.ok, graph |-> w.graph, counts |-> w.counts]
          /\ w.ok = st.ok /\ w.graph = h /\ w.counts = st.counts
        BY <2>1
    <2> HIDE DEF w, h
    <2>3. \A v : [w EXCEPT !.counts = v] = [ok |-> st.ok, graph |-> h, counts |-> v]
        BY <2>2
    <2>4. Counted(w, counter, amount) = [w EXCEPT !.counts = c]
        BY <2>2, Zenon DEF Counted
    <2> QED
        BY <2>3, <2>4 DEF w
<1>2. Sound(k) /\ Tallied(g, k, st.counts)
    BY DEF IsState, Sound
<1>3. Sound(h) /\ SameIds(k, h)
    BY <1>2, EdgeReplaced
<1>4. h = [nodes |-> k.nodes, edges |-> R, owned |-> k.owned, nextNode |-> k.nextNode, nextEdge |-> k.nextEdge]
    BY <1>2 DEF Sound, IsGraph
<1>5. /\ IdsUnique(k.edges) /\ IsFiniteSet(k.nodes) /\ IsFiniteSet(k.edges)
      /\ LabelsOf(k.nodes) \in Nat
    BY <1>2, SoundFinite, NodesLabelled DEF Sound, Consistent
<1> HIDE DEF k, h, R
<1>6. /\ Present(R) + One(e) = Present(k.edges) + One(new)
      /\ Present(R) \in Nat /\ Present(k.nodes) \in Nat /\ Present(k.edges) \in Nat
    BY <1>5, PresentReplaced, PresentNat DEF R, k
<1>7. /\ One(e) \in Nat /\ One(new) \in Nat
      /\ \A other : By(counter, other, amount) \in Nat
    BY DEF One, By
<1>8. h.nodes = k.nodes /\ h.edges = R
    BY <1>4
<1>9. LabelsOf(h.nodes) + By(counter, "labelsRemoved", amount)
            = LabelsOf(k.nodes) + By(counter, "labelsAdded", amount)
    <2>1. By(counter, "labelsRemoved", amount) = 0 /\ By(counter, "labelsAdded", amount) = 0
        BY DEF By
    <2> QED
        BY <1>5, <1>8, <2>1
<1>10. Present(h.nodes) + Present(h.edges) + By(counter, "propsRemoved", amount)
            <= Present(k.nodes) + Present(k.edges) + By(counter, "propsSet", amount)
    BY <1>6, <1>7, <1>8
<1>11. ASSUME amount = 0
       PROVE  h = k
    <2>1. R = k.edges
        BY <1>11 DEF R, k, Replace
    <2> QED
        BY <1>2, <1>4, <2>1 DEF Sound, IsGraph
<1>12. counter \in Updating
    BY DEF Updating
<1>13. Tallied(g, h, c)
    BY <1>2, <1>3, <1>9, <1>10, <1>11, <1>12, TalliedMore
<1> HIDE DEF c
<1> QED
    BY <1>1, <1>3, <1>13 DEF IsState, SameIds, k

\* The node with an id.
LEMMA StateNode ==
    ASSUME NEW g, NEW st, IsState(g, st), NEW i \in IdsOf(g.nodes)
    PROVE  LET n == RecordWith(st.graph.nodes, i) IN
           /\ n \in st.graph.nodes /\ n.id = i /\ IsNode(n)
           /\ \A m \in st.graph.nodes : m.id # n.id => m.ext # n.ext
<1> DEFINE n == RecordWith(st.graph.nodes, i)
<1>1. n \in st.graph.nodes /\ n.id = i
    BY RecordWithId DEF IsState, SameIds
<1> HIDE DEF n
<1>2. IsNode(n) /\ NamesUnique(st.graph.nodes)
    BY <1>1 DEF IsState, Sound, Consistent
<1> QED
    BY <1>1, <1>2 DEF NamesUnique, n

\* The edge with an id.
LEMMA StateEdge ==
    ASSUME NEW g, NEW st, IsState(g, st), NEW i \in IdsOf(g.edges)
    PROVE  LET e == RecordWith(st.graph.edges, i) IN
           e \in st.graph.edges /\ e.id = i /\ IsEdge(e)
<1> DEFINE e == RecordWith(st.graph.edges, i)
<1>1. e \in st.graph.edges /\ e.id = i
    BY RecordWithId DEF IsState, SameIds
<1> HIDE DEF e
<1>2. IsEdge(e)
    BY <1>1 DEF IsState, Sound
<1> QED
    BY <1>1, <1>2 DEF e

\* The value of a node.
LEMMA SetNodeValueState ==
    ASSUME NEW g, Sound(g), NEW st, IsState(g, st), NEW i \in IdsOf(g.nodes), NEW value
    PROVE  IsState(g, SetNodeValue(st, RecordWith(st.graph.nodes, i), value))
<1> DEFINE n == RecordWith(st.graph.nodes, i)
<1>1. /\ n \in st.graph.nodes /\ IsNode(n)
      /\ \A m \in st.graph.nodes : m.id # n.id => m.ext # n.ext
    BY StateNode
<1> HIDE DEF n
<1>2. ASSUME NEW x, NEW counter, \/ counter = "propsSet" /\ x # Null
                                 \/ counter = "propsRemoved" /\ x = Null /\ n.val # Null
      PROVE  IsState(g, Counted(WithNode(st, n, [n EXCEPT !.val = x]), counter, 1))
    <2> DEFINE new == [n EXCEPT !.val = x]
    <2>1. new = [id |-> n.id, ext |-> n.ext, labels |-> n.labels, val |-> x]
        BY <1>1 DEF IsNode
    <2>2. IsNode(new) /\ new.id = n.id /\ new.ext = n.ext /\ new.labels = n.labels /\ new.val = x
        BY <1>1, <2>1 DEF IsNode
    <2> HIDE DEF new
    <2>3. One(new) + By(counter, "propsRemoved", 1) <= One(n) + By(counter, "propsSet", 1)
        BY <1>2, <2>2 DEF One, By
    <2>4. Cardinality(new.labels) + By(counter, "labelsRemoved", 1)
            = Cardinality(n.labels) + By(counter, "labelsAdded", 1)
        BY <1>2, <2>2 DEF By
    <2>5. counter \in Updating
        BY <1>2 DEF Updating
    <2>6. IsState(g, Counted(WithNode(st, n, new), counter, 1))
        BY <1>1, <2>2, <2>3, <2>4, <2>5, NodeCountedState
    <2> QED
        BY <2>6 DEF new
<1>3. IsState(g, SetNodeValue(st, n, value))
    BY <1>2, FailState DEF SetNodeValue
<1> QED
    BY <1>3 DEF n

\* The value of an edge.
LEMMA SetRelValueState ==
    ASSUME NEW g, Sound(g), NEW st, IsState(g, st), NEW i \in IdsOf(g.edges), NEW value
    PROVE  IsState(g, SetRelValue(st, RecordWith(st.graph.edges, i), value))
<1> DEFINE e == RecordWith(st.graph.edges, i)
<1>1. e \in st.graph.edges /\ IsEdge(e)
    BY StateEdge
<1> HIDE DEF e
<1>2. ASSUME NEW x, NEW counter, \/ counter = "propsSet" /\ x # Null
                                 \/ counter = "propsRemoved" /\ x = Null /\ e.val # Null
      PROVE  IsState(g, Counted(WithEdge(st, e, [e EXCEPT !.val = x]), counter, 1))
    <2> DEFINE new == [e EXCEPT !.val = x]
    <2>1. new = [id |-> e.id, src |-> e.src, dst |-> e.dst, type |-> e.type, val |-> x]
        BY <1>1 DEF IsEdge
    <2>2. /\ IsEdge(new) /\ new.id = e.id /\ new.src = e.src /\ new.dst = e.dst
          /\ new.val = x
        BY <1>1, <2>1 DEF IsEdge
    <2> HIDE DEF new
    <2>3. One(new) + By(counter, "propsRemoved", 1) <= One(e) + By(counter, "propsSet", 1)
        BY <1>2, <2>2 DEF One, By
    <2>4. IsState(g, Counted(WithEdge(st, e, new), counter, 1))
        BY <1>1, <1>2, <2>2, <2>3, EdgeCountedState
    <2> QED
        BY <2>4 DEF new
<1>3. IsState(g, SetRelValue(st, e, value))
    BY <1>2, FailState DEF SetRelValue
<1> QED
    BY <1>3 DEF e

\* The external id of a node.
LEMMA RenameState ==
    ASSUME NEW g, Sound(g), NEW st, IsState(g, st), NEW i \in IdsOf(g.nodes), NEW value
    PROVE  IsState(g, Rename(st, RecordWith(st.graph.nodes, i), value))
<1> DEFINE n == RecordWith(st.graph.nodes, i)
<1>1. n \in st.graph.nodes /\ IsNode(n)
    BY StateNode
<1> HIDE DEF n
<1>2. ASSUME ~Taken(st.graph, n, value[2])
      PROVE  IsState(g, Counted(WithNode(st, n, [n EXCEPT !.ext = value[2]]), "propsSet", 1))
    <2> DEFINE new == [n EXCEPT !.ext = value[2]]
    <2>1. new = [id |-> n.id, ext |-> value[2], labels |-> n.labels, val |-> n.val]
        BY <1>1 DEF IsNode
    <2>2. /\ IsNode(new) /\ new.id = n.id /\ new.ext = value[2]
          /\ new.labels = n.labels /\ new.val = n.val
        BY <1>1, <2>1 DEF IsNode
    <2> HIDE DEF new
    <2>3. \A m \in st.graph.nodes : m.id # n.id => m.ext # new.ext
        BY <1>2, <2>2 DEF Taken
    <2>4. One(new) + By("propsSet", "propsRemoved", 1) <= One(n) + By("propsSet", "propsSet", 1)
        BY <2>2 DEF One, By
    <2>5. Cardinality(new.labels) + By("propsSet", "labelsRemoved", 1)
            = Cardinality(n.labels) + By("propsSet", "labelsAdded", 1)
        BY <2>2 DEF By
    <2>6. "propsSet" \in Updating
        BY DEF Updating
    <2>7. IsState(g, Counted(WithNode(st, n, new), "propsSet", 1))
        BY <1>1, <2>2, <2>3, <2>4, <2>5, <2>6, NodeCountedState
    <2> QED
        BY <2>7 DEF new
<1>3. IsState(g, Rename(st, n, value))
    BY <1>2, FailState DEF Rename
<1> QED
    BY <1>3 DEF n

\* Other labels for a node, and their difference.
LEMMA LabelledState ==
    ASSUME NEW g, Sound(g), NEW st, IsState(g, st), NEW i \in IdsOf(g.nodes), NEW labels, IsFiniteSet(labels),
           NEW counter \in {"labelsAdded", "labelsRemoved"}, NEW amount \in Nat,
           LET n == RecordWith(st.graph.nodes, i) IN
           /\ Cardinality(labels) + By(counter, "labelsRemoved", amount)
                = Cardinality(n.labels) + By(counter, "labelsAdded", amount)
           /\ amount = 0 => labels = n.labels
    PROVE  LET n == RecordWith(st.graph.nodes, i) IN
           IsState(g, Counted(WithNode(st, n, [n EXCEPT !.labels = labels]), counter, amount))
<1> DEFINE n == RecordWith(st.graph.nodes, i)
<1>1. /\ n \in st.graph.nodes /\ IsNode(n)
      /\ \A m \in st.graph.nodes : m.id # n.id => m.ext # n.ext
    BY StateNode
<1>a. /\ Cardinality(labels) + By(counter, "labelsRemoved", amount)
            = Cardinality(n.labels) + By(counter, "labelsAdded", amount)
      /\ amount = 0 => labels = n.labels
    OBVIOUS
<1> HIDE DEF n
<1> DEFINE new == [n EXCEPT !.labels = labels]
<1>2. new = [id |-> n.id, ext |-> n.ext, labels |-> labels, val |-> n.val]
    BY <1>1 DEF IsNode
<1>3. /\ IsNode(new) /\ new.id = n.id /\ new.ext = n.ext
      /\ new.labels = labels /\ new.val = n.val /\ (labels = n.labels => new = n)
    BY <1>1, <1>2 DEF IsNode
<1> HIDE DEF new
<1>4. One(new) + By(counter, "propsRemoved", amount) <= One(n) + By(counter, "propsSet", amount)
    BY <1>3 DEF One, By
<1>5. counter \in Updating
    BY DEF Updating
<1>6. IsState(g, Counted(WithNode(st, n, new), counter, amount))
    BY <1>1, <1>a, <1>3, <1>4, <1>5, NodeCountedState
<1> QED
    BY <1>6 DEF n, new

\* apply_property_value keeps a state.
LEMMA SetPropertyState ==
    ASSUME NEW g, Sound(g), NEW st, IsState(g, st), NEW row, IsRow(g, row), NEW var, NEW key, NEW value
    PROVE  IsState(g, SetProperty(st, row, var, key, value))
<1>1. CASE ~st.ok
    BY <1>1 DEF SetProperty
<1>2. CASE st.ok /\ (value = Error \/ var \notin DOMAIN row)
    BY <1>2, FailState DEF SetProperty
<1>3. CASE st.ok /\ value # Error /\ var \in DOMAIN row /\ row[var][1] = "node"
    <2>1. row[var][2] \in IdsOf(g.nodes)
        BY <1>3, RowRefs
    <2> DEFINE n == RecordWith(st.graph.nodes, row[var][2])
    <2>2. IsState(g, Rename(st, n, value)) /\ IsState(g, SetNodeValue(st, n, value))
        BY <2>1, RenameState, SetNodeValueState
    <2>3. SetProperty(st, row, var, key, value) =
            IF key = "external_id" THEN Rename(st, n, value) ELSE SetNodeValue(st, n, value)
        BY <1>3 DEF SetProperty
    <2> QED
        BY <2>2, <2>3
<1>4. CASE st.ok /\ value # Error /\ var \in DOMAIN row /\ row[var][1] # "node"
    <2>1. row[var][2] \in IdsOf(g.edges)
        BY <1>4, RowRefs
    <2> DEFINE e == RecordWith(st.graph.edges, row[var][2])
    <2>2. IsState(g, Fail(st)) /\ IsState(g, SetRelValue(st, e, value))
        BY <2>1, FailState, SetRelValueState
    <2>3. SetProperty(st, row, var, key, value) =
            IF key = "external_id" THEN Fail(st) ELSE SetRelValue(st, e, value)
        BY <1>4 DEF SetProperty
    <2> QED
        BY <2>2, <2>3
<1> QED
    BY <1>1, <1>2, <1>3, <1>4

\* Labels added.
LEMMA SetLabelsState ==
    ASSUME NEW g, Sound(g), NEW st, IsState(g, st), NEW row, IsRow(g, row), NEW var, NEW labels, IsFiniteSet(labels)
    PROVE  IsState(g, SetLabels(st, row, var, labels))
<1>1. CASE var \notin DOMAIN row \/ row[var][1] # "node"
    BY <1>1, FailState DEF SetLabels
<1>2. CASE var \in DOMAIN row /\ row[var][1] = "node"
    <2>1. row[var][2] \in IdsOf(g.nodes)
        BY <1>2, RowRefs
    <2> DEFINE n == RecordWith(st.graph.nodes, row[var][2])
               all == n.labels \cup labels
               added == Cardinality(labels \ n.labels)
    <2>2. IsNode(n)
        BY <2>1, StateNode
    <2>3. IsFiniteSet(all)
        BY <2>2, FS_Union DEF IsNode
    <2>a. added \in Nat /\ Cardinality(all) = Cardinality(n.labels) + added
        <3>1. IsFiniteSet(n.labels) /\ IsFiniteSet(labels \ n.labels)
            BY <2>2, FS_Difference DEF IsNode
        <3> DEFINE new == labels \ n.labels
        <3>2. all = n.labels \cup new /\ n.labels \cap new = {}
            OBVIOUS
        <3> HIDE DEF all, new
        <3>3. Cardinality(n.labels \cup new) = Cardinality(n.labels) + Cardinality(new)
            BY <3>1, <3>2, CountsAdd DEF new
        <3>4. Cardinality(new) \in Nat
            BY <3>1, FS_CardinalityType DEF new
        <3> QED
            BY <3>2, <3>3, <3>4 DEF new
    <2>b. added = 0 => all = n.labels
        <3>1. IsFiniteSet(labels \ n.labels)
            BY FS_Difference
        <3>2. added = 0 => labels \ n.labels = {}
            BY <3>1, FS_EmptySet
        <3> QED
            BY <3>2
    <2>c. Cardinality(n.labels) \in Nat
        BY <2>2, FS_CardinalityType DEF IsNode
    <2>4. SetLabels(st, row, var, labels) =
            Counted(WithNode(st, n, [n EXCEPT !.labels = all]), "labelsAdded", added)
        BY <1>2 DEF SetLabels
    <2> HIDE DEF all, added
    <2>5. IsState(g, Counted(WithNode(st, n, [n EXCEPT !.labels = all]), "labelsAdded", added))
        <3>1. Cardinality(all) + By("labelsAdded", "labelsRemoved", added)
                = Cardinality(n.labels) + By("labelsAdded", "labelsAdded", added)
            BY <2>a, <2>c DEF By
        <3> QED
            BY <2>1, <2>3, <2>a, <2>b, <3>1, LabelledState
    <2> QED
        BY <2>4, <2>5
<1> QED
    BY <1>1, <1>2

MapStep(c, x, y) == SetKey(x, c.row, c.var, y, c.entries, c.values)
MapGood(c, k, x) == IsState(c.graph, x)
MapFold == INSTANCE Folding WITH Step <- MapStep, Good <- MapGood

\* A map of properties set.
LEMMA SetMapState ==
    ASSUME NEW g, Sound(g), NEW st, IsState(g, st), NEW row, IsRow(g, row), NEW var, NEW entries, IsList(entries)
    PROVE  IsState(g, SetMap(st, row, var, entries))
<1> DEFINE values == [k \in DOMAIN entries |-> Eval(st.graph, row, entries[k][2])]
           c == [graph |-> g, row |-> row, var |-> var, entries |-> entries, values |-> values]
           ks == KeyOrder
           n == 2
<1>1. n \in Nat /\ DOMAIN ks = 1..n
    BY DEF KeyOrder
<1>2. /\ c.graph = g /\ c.row = row /\ c.var = var /\ c.entries = entries /\ c.values = values
    OBVIOUS
<1>3. CASE Error \in ToSet(values)
    BY <1>3, FailState DEF SetMap
<1>4. CASE Error \notin ToSet(values)
    <2>1. SetMap(st, row, var, entries) = MapFold!Fold(c, st, ks)
        BY <1>4 DEF SetMap, MapFold!Fold, MapStep, FoldLeft, MapThenFoldSet, Max,
                    MapFold!LastOf
    <2> HIDE DEF c, ks, values
    <2>2. MapGood(c, 0, st)
        BY <1>2 DEF MapGood
    <2>3. ASSUME NEW k \in 1..n, NEW x, MapGood(c, k - 1, x)
          PROVE  MapGood(c, k, MapStep(c, x, ks[k]))
        <3>1. IsState(g, x)
            BY <1>2, <2>3 DEF MapGood
        <3>2. \A key, value : IsState(g, SetProperty(x, row, var, key, value))
            BY <3>1, SetPropertyState
        <3>3. IsState(g, SetKey(x, row, var, ks[k], entries, values))
            BY <3>1, <3>2, Zenon DEF SetKey
        <3> QED
            BY <1>2, <3>3 DEF MapGood, MapStep
    <2>4. MapGood(c, n, MapFold!Fold(c, st, ks))
        BY <1>1, <2>2, <2>3, AllNumbers, MapFold!FoldKeeps DEF MapFold!Inductive
    <2> QED
        BY <1>2, <2>1, <2>4 DEF MapGood
<1> QED
    BY <1>3, <1>4

\* An item of a SET clause.
LEMMA SetItemState ==
    ASSUME NEW g, Sound(g), NEW st, IsState(g, st), NEW row, IsRow(g, row), NEW item, ItemParsed(item)
    PROVE  IsState(g, SetItem(st, row, item))
<1>1. CASE ~st.ok
    BY <1>1 DEF SetItem
<1>2. CASE st.ok /\ item.kind = "property"
    <2>1. SetItem(st, row, item) =
            SetProperty(st, row, item.var, item.key, Eval(st.graph, row, item.value))
        BY <1>2 DEF SetItem
    <2> QED
        BY <2>1, SetPropertyState
<1>3. CASE st.ok /\ item.kind = "map"
    <2>1. SetItem(st, row, item) = SetMap(st, row, item.var, item.entries) /\ IsList(item.entries)
        BY <1>3 DEF SetItem, ItemParsed
    <2> QED
        BY <2>1, SetMapState
<1>4. CASE st.ok /\ item.kind = "labels"
    <2>1. SetItem(st, row, item) = SetLabels(st, row, item.var, item.labels) /\ IsFiniteSet(item.labels)
        BY <1>4 DEF SetItem, ItemParsed
    <2> QED
        BY <2>1, SetLabelsState
<1>5. item.kind \in {"property", "map", "labels"}
    BY DEF ItemParsed
<1> QED
    BY <1>1, <1>2, <1>3, <1>4, <1>5

\* An item of a REMOVE clause.
LEMMA RemoveItemState ==
    ASSUME NEW g, Sound(g), NEW st, IsState(g, st), NEW row, IsRow(g, row), NEW item, ItemParsed(item)
    PROVE  IsState(g, RemoveItem(st, row, item))
<1>1. CASE ~st.ok \/ item.var \notin DOMAIN row
    BY <1>1, FailState DEF RemoveItem
<1>2. CASE st.ok /\ item.var \in DOMAIN row /\ item.kind = "property"
    <2>1. RemoveItem(st, row, item) =
            IF item.key = "external_id" THEN Fail(st)
            ELSE SetProperty(st, row, item.var, item.key, Null)
        BY <1>2 DEF RemoveItem
    <2> QED
        BY <2>1, SetPropertyState, FailState
<1>3. CASE /\ st.ok /\ item.var \in DOMAIN row /\ item.kind # "property"
           /\ row[item.var][1] # "node"
    BY <1>3, FailState DEF RemoveItem
<1>4. CASE /\ st.ok /\ item.var \in DOMAIN row /\ item.kind # "property"
           /\ row[item.var][1] = "node"
    <2>1. row[item.var][2] \in IdsOf(g.nodes)
        BY <1>4, RowRefs
    <2> DEFINE n == RecordWith(st.graph.nodes, row[item.var][2])
               left == n.labels \ item.labels
               removed == Cardinality(item.labels \cap n.labels)
    <2>2. IsNode(n)
        BY <2>1, StateNode
    <2>3. IsFiniteSet(left)
        BY <2>2, FS_Difference DEF IsNode
    <2>a. removed \in Nat /\ Cardinality(n.labels) = Cardinality(left) + removed
        <3>1. IsFiniteSet(n.labels) /\ IsFiniteSet(item.labels \cap n.labels)
            BY <2>2, FS_Intersection DEF IsNode
        <3> DEFINE common == item.labels \cap n.labels
        <3>2. n.labels = left \cup common /\ left \cap common = {}
            OBVIOUS
        <3> HIDE DEF left, common
        <3>3. Cardinality(left \cup common) = Cardinality(left) + Cardinality(common)
            BY <2>3, <3>1, <3>2, CountsAdd DEF common
        <3>4. Cardinality(common) \in Nat
            BY <3>1, FS_CardinalityType DEF common
        <3> QED
            BY <3>2, <3>3, <3>4 DEF common
    <2>b. removed = 0 => left = n.labels
        <3>1. IsFiniteSet(item.labels \cap n.labels)
            BY <2>2, FS_Intersection DEF IsNode
        <3>2. removed = 0 => item.labels \cap n.labels = {}
            BY <3>1, FS_EmptySet
        <3> QED
            BY <3>2
    <2>c. Cardinality(left) \in Nat
        BY <2>3, FS_CardinalityType
    <2>4. RemoveItem(st, row, item) =
            Counted(WithNode(st, n, [n EXCEPT !.labels = left]), "labelsRemoved", removed)
        BY <1>4 DEF RemoveItem
    <2> HIDE DEF left, removed
    <2>5. IsState(g, Counted(WithNode(st, n, [n EXCEPT !.labels = left]), "labelsRemoved", removed))
        <3>1. Cardinality(left) + By("labelsRemoved", "labelsRemoved", removed)
                = Cardinality(n.labels) + By("labelsRemoved", "labelsAdded", removed)
            BY <2>a, <2>c DEF By
        <3> QED
            BY <2>1, <2>3, <2>a, <2>b, <3>1, LabelledState
    <2> QED
        BY <2>4, <2>5
<1> QED
    BY <1>1, <1>2, <1>3, <1>4

ItemStep(c, x, y) == SetItem(x, c.row, y)
RemovalStep(c, x, y) == RemoveItem(x, c.row, y)
ItemGood(c, k, x) == IsState(c.graph, x)
SetFold == INSTANCE Folding WITH Step <- ItemStep, Good <- ItemGood
RemoveFold == INSTANCE Folding WITH Step <- RemovalStep, Good <- ItemGood

\* The clauses of an action on one row.
SetItems(st, row, items) == FoldLeft(LAMBDA s, item : SetItem(s, row, item), st, items)
RemoveItems(st, row, items) == FoldLeft(LAMBDA s, item : RemoveItem(s, row, item), st, items)
UpdatedRow(st, row, action) ==
    RemoveItems(SetItems(st, row, action.set), row, action.remove)

ItemsParsed(items) == IsList(items) /\ \A item \in ToSet(items) : ItemParsed(item)

LEMMA SetItemsState ==
    ASSUME NEW g, Sound(g), NEW st, IsState(g, st), NEW row, IsRow(g, row), NEW items, ItemsParsed(items)
    PROVE  IsState(g, SetItems(st, row, items))
<1> DEFINE c == [graph |-> g, row |-> row]
           n == Len(items)
<1>1. n \in Nat /\ DOMAIN items = 1..n /\ c.graph = g /\ c.row = row
    BY ListLen DEF ItemsParsed
<1>2. \A k \in 1..n : ItemParsed(items[k])
    BY <1>1 DEF ItemsParsed, ToSet
<1>3. SetItems(st, row, items) = SetFold!Fold(c, st, items)
    BY DEF SetItems, SetFold!Fold, ItemStep, FoldLeft, MapThenFoldSet, Max,
           SetFold!LastOf
<1> HIDE DEF c
<1>4. ItemGood(c, 0, st)
    BY <1>1 DEF ItemGood
<1>5. ASSUME NEW k \in 1..n, NEW x, ItemGood(c, k - 1, x)
      PROVE  ItemGood(c, k, ItemStep(c, x, items[k]))
    BY <1>1, <1>2, <1>5, SetItemState DEF ItemGood, ItemStep
<1>6. ItemGood(c, n, SetFold!Fold(c, st, items))
    BY <1>1, <1>4, <1>5, AllNumbers, SetFold!FoldKeeps DEF SetFold!Inductive
<1> QED
    BY <1>1, <1>3, <1>6 DEF ItemGood

LEMMA RemoveItemsState ==
    ASSUME NEW g, Sound(g), NEW st, IsState(g, st), NEW row, IsRow(g, row), NEW items, ItemsParsed(items)
    PROVE  IsState(g, RemoveItems(st, row, items))
<1> DEFINE c == [graph |-> g, row |-> row]
           n == Len(items)
<1>1. n \in Nat /\ DOMAIN items = 1..n /\ c.graph = g /\ c.row = row
    BY ListLen DEF ItemsParsed
<1>2. \A k \in 1..n : ItemParsed(items[k])
    BY <1>1 DEF ItemsParsed, ToSet
<1>3. RemoveItems(st, row, items) = RemoveFold!Fold(c, st, items)
    BY DEF RemoveItems, RemoveFold!Fold, RemovalStep, FoldLeft, MapThenFoldSet, Max,
           RemoveFold!LastOf
<1> HIDE DEF c
<1>4. ItemGood(c, 0, st)
    BY <1>1 DEF ItemGood
<1>5. ASSUME NEW k \in 1..n, NEW x, ItemGood(c, k - 1, x)
      PROVE  ItemGood(c, k, RemovalStep(c, x, items[k]))
    BY <1>1, <1>2, <1>5, RemoveItemState DEF ItemGood, RemovalStep
<1>6. ItemGood(c, n, RemoveFold!Fold(c, st, items))
    BY <1>1, <1>4, <1>5, AllNumbers, RemoveFold!FoldKeeps DEF RemoveFold!Inductive
<1> QED
    BY <1>1, <1>3, <1>6 DEF ItemGood

RowStep(c, x, y) == UpdatedRow(x, y, c.action)
RowGood(c, k, x) == IsState(c.graph, x)
RowFold == INSTANCE Folding WITH Step <- RowStep, Good <- RowGood

\* execute_update keeps a graph sound, and every id of it.
LEMMA UpdatedState ==
    ASSUME NEW g, Sound(g), NEW rows, AreRows(g, rows), NEW action,
           ItemsParsed(action.set), ItemsParsed(action.remove)
    PROVE  IsState(g, Updated(g, rows, action))
<1> DEFINE c == [graph |-> g, action |-> action]
           n == Len(rows)
<1>1. /\ n \in Nat /\ DOMAIN rows = 1..n /\ c.graph = g /\ c.action = action
      /\ \A k \in 1..n : IsRow(g, rows[k])
    BY ListLen DEF AreRows
<1>a. Updated(g, rows, action) = FoldLeft(LAMBDA x, y : UpdatedRow(x, y, action), Start(g), rows)
    BY DEF Updated, UpdatedRow, SetItems, RemoveItems
<1>b. FoldLeft(LAMBDA x, y : UpdatedRow(x, y, action), Start(g), rows) = RowFold!Fold(c, Start(g), rows)
    BY DEF RowFold!Fold, RowStep, FoldLeft, MapThenFoldSet, Max, RowFold!LastOf
<1>2. Updated(g, rows, action) = RowFold!Fold(c, Start(g), rows)
    BY <1>a, <1>b
<1> HIDE DEF c
<1>3. RowGood(c, 0, Start(g))
    <2>1. IsState(g, Start(g))
        BY TalliedNone DEF IsState, Start, SameIds
    <2> QED
        BY <1>1, <2>1 DEF RowGood
<1>4. ASSUME NEW k \in 1..n, NEW x, RowGood(c, k - 1, x)
      PROVE  RowGood(c, k, RowStep(c, x, rows[k]))
    <2>1. IsState(g, x) /\ IsRow(g, rows[k])
        BY <1>1, <1>4 DEF RowGood
    <2>2. IsState(g, SetItems(x, rows[k], action.set))
        BY <2>1, SetItemsState
    <2>3. IsState(g, RemoveItems(SetItems(x, rows[k], action.set), rows[k], action.remove))
        BY <2>1, <2>2, RemoveItemsState
    <2>4. IsState(g, UpdatedRow(x, rows[k], action))
        BY <2>3 DEF UpdatedRow
    <2> QED
        BY <1>1, <2>4 DEF RowGood, RowStep
<1>5. RowGood(c, n, RowFold!Fold(c, Start(g), rows))
    BY <1>1, <1>3, <1>4, AllNumbers, RowFold!FoldKeeps DEF RowFold!Inductive
<1> QED
    BY <1>1, <1>2, <1>5 DEF RowGood

---------------------------------------------------------------------------
(* Deletions *)

\* A graph without some nodes, the edges at them, and some more edges.
At(g, S) == {e \in g.edges : e.src \in S \/ e.dst \in S}
Without(g, S, T) ==
    [nodes |-> {n \in g.nodes : n.id \notin S},
     edges |-> {e \in g.edges : e.id \notin T /\ e.src \notin S /\ e.dst \notin S}, owned |-> g.owned,
     nextNode |-> g.nextNode, nextEdge |-> g.nextEdge]

LEMMA WithoutSound ==
    ASSUME NEW g, Sound(g), NEW S, NEW T
    PROVE  /\ Sound(Without(g, S, T))
           /\ IdsOf(Without(g, S, T).nodes) = IdsOf(g.nodes) \ S
           /\ IdsOf(Without(g, S, T).edges) = IdsOf(g.edges) \ (T \cup IdsOf(At(g, S)))
<1> DEFINE h == Without(g, S, T)
<1>1. /\ h = [nodes |-> h.nodes, edges |-> h.edges, owned |-> h.owned, nextNode |-> h.nextNode, nextEdge |-> h.nextEdge]
      /\ h.nodes = {n \in g.nodes : n.id \notin S}
      /\ h.edges = {e \in g.edges : e.id \notin T /\ e.src \notin S /\ e.dst \notin S}
      /\ h.nextNode = g.nextNode /\ h.nextEdge = g.nextEdge
    BY DEF Without
<1> HIDE DEF h
<1>2. /\ g.nextNode \in Nat /\ g.nextEdge \in Nat
      /\ \A n \in g.nodes : IsNode(n) /\ n.id < g.nextNode
      /\ \A e \in g.edges : IsEdge(e) /\ e.id < g.nextEdge
      /\ IdsUnique(g.nodes) /\ IdsUnique(g.edges) /\ NamesUnique(g.nodes) /\ EndpointsExist(g)
    BY DEF Sound, IsGraph, Consistent
<1>3. IdsOf(h.nodes) = IdsOf(g.nodes) \ S
    BY <1>1 DEF IdsOf
<1>4. IdsOf(h.edges) = IdsOf(g.edges) \ (T \cup IdsOf(At(g, S)))
    BY <1>1, <1>2 DEF IdsOf, IdsUnique, At
<1>5. IsGraph(h)
    BY <1>1, <1>2 DEF IsGraph
<1>6. IdsUnique(h.nodes) /\ IdsUnique(h.edges) /\ NamesUnique(h.nodes)
    BY <1>1, <1>2 DEF IdsUnique, NamesUnique
<1>7. EndpointsExist(h)
    BY <1>1, <1>2, <1>3 DEF EndpointsExist
<1>8. Sound(h)
    BY <1>1, <1>2, <1>5, <1>6, <1>7 DEF Sound, Consistent
<1> QED
    BY <1>3, <1>4, <1>8 DEF h

First(ids, k) == {ids[j] : j \in 1..k}

LEMMA FirstNone ==
    ASSUME NEW ids
    PROVE  First(ids, 0) = {}
BY DEF First

LEMMA FirstOneMore ==
    ASSUME NEW ids, NEW k \in Nat \ {0}
    PROVE  First(ids, k) = First(ids, k - 1) \cup {ids[k]}
BY DEF First

\* The numbers of a set, one after the other, are the set.
LEMMA AscendingAll ==
    ASSUME NEW S \in SUBSET Nat, IsFiniteSet(S)
    PROVE  /\ Cardinality(S) \in Nat /\ DOMAIN Ascending(S) = 1..Cardinality(S)
           /\ First(Ascending(S), Cardinality(S)) = S
<1> DEFINE n == Cardinality(S)
           a == Ascending(S)
<1>1. n \in Nat /\ DOMAIN a = 1..n /\ a \in Bijection(1..n, S)
    BY AscendingLists
<1> HIDE DEF n, a
<1>2. (\A k \in 1..n : a[k] \in S) /\ (\A i \in S : \E k \in 1..n : a[k] = i)
    BY <1>1 DEF Bijection, Injection, Surjection
<1>3. First(a, n) = S
    BY <1>2 DEF First
<1> QED
    BY <1>1, <1>3 DEF n, a

DeleteEdgeStep(c, x, y) == DeleteEdge(x, y)
EdgesGood(c, k, x) ==
    x = [ok |-> TRUE, graph |-> Without(c.graph, {}, First(c.ids, k)), counts |-> NoCounts]
EdgesFold == INSTANCE Folding WITH Step <- DeleteEdgeStep, Good <- EdgesGood

\* The edges of a DELETE.
LEMMA EdgesDeleted ==
    ASSUME NEW g, Sound(g), NEW T \in SUBSET IdsOf(g.edges)
    PROVE  FoldLeft(DeleteEdge, Start(g), Ascending(T)) =
                [ok |-> TRUE, graph |-> Without(g, {}, T), counts |-> NoCounts]
<1> DEFINE c == [graph |-> g, ids |-> Ascending(T)]
           n == Cardinality(T)
<1>1. T \in SUBSET Nat /\ IsFiniteSet(T)
    <2>1. g.nextEdge \in Nat
        BY DEF Sound, IsGraph
    <2>2. IdsOf(g.edges) \in SUBSET Nat /\ \A i \in T : i <= g.nextEdge
        BY <2>1, SoundIds
    <2> QED
        BY <2>1, <2>2, FS_BoundedSetOfNaturals
<1>2. n \in Nat /\ DOMAIN Ascending(T) = 1..n /\ First(Ascending(T), n) = T
    BY <1>1, AscendingAll
<1>3. c.graph = g /\ c.ids = Ascending(T)
    OBVIOUS
<1>4. FoldLeft(DeleteEdge, Start(g), Ascending(T)) = EdgesFold!Fold(c, Start(g), Ascending(T))
    BY DEF EdgesFold!Fold, DeleteEdgeStep, FoldLeft, MapThenFoldSet, Max,
           EdgesFold!LastOf
<1> HIDE DEF c, n
<1>5. EdgesGood(c, 0, Start(g))
    <2>1. Without(g, {}, {}) = [nodes |-> g.nodes, edges |-> g.edges, owned |-> g.owned,
                                nextNode |-> g.nextNode, nextEdge |-> g.nextEdge]
        BY DEF Without
    <2>2. Without(g, {}, {}) = g
        BY <2>1 DEF Sound, IsGraph
    <2> QED
        BY <1>3, <2>2, FirstNone DEF EdgesGood, Start
<1>6. ASSUME NEW k \in 1..n, NEW x, EdgesGood(c, k - 1, x)
      PROVE  EdgesGood(c, k, DeleteEdgeStep(c, x, Ascending(T)[k]))
    <2> DEFINE F == First(Ascending(T), k - 1)
               id == Ascending(T)[k]
    <2>1. First(Ascending(T), k) = F \cup {id}
        BY <1>2, FirstOneMore
    <2>2. x = [ok |-> TRUE, graph |-> Without(g, {}, F), counts |-> NoCounts]
        BY <1>3, <1>6 DEF EdgesGood
    <2> HIDE DEF F, id
    <2> DEFINE W == Without(g, {}, F)
               V == Without(g, {}, F \cup {id})
    <2>3. /\ W = [nodes |-> W.nodes, edges |-> W.edges, owned |-> W.owned, nextNode |-> W.nextNode, nextEdge |-> W.nextEdge]
          /\ V = [nodes |-> W.nodes, edges |-> V.edges, owned |-> W.owned, nextNode |-> W.nextNode, nextEdge |-> W.nextEdge]
          /\ V.edges = {e \in W.edges : e.id # id}
        BY DEF Without
    <2> HIDE DEF W, V
    <2>4. DeleteEdge(x, id) = [ok |-> TRUE, graph |-> V, counts |-> NoCounts]
        <3>1. x = [ok |-> x.ok, graph |-> W, counts |-> NoCounts] /\ x.graph = W /\ x.ok = TRUE
            BY <2>2 DEF W
        <3>2. [W EXCEPT !.edges = {e \in W.edges : e.id # id}] = V
            BY <2>3
        <3>3. DeleteEdge(x, id) = [x EXCEPT !.graph = [W EXCEPT !.edges = {e \in W.edges : e.id # id}]]
            BY <3>1 DEF DeleteEdge
        <3>4. DeleteEdge(x, id) = [x EXCEPT !.graph = V]
            BY <3>2, <3>3, Zenon
        <3>5. \A v : [x EXCEPT !.graph = v] = [ok |-> x.ok, graph |-> v, counts |-> NoCounts]
            BY <3>1
        <3> QED
            BY <3>1, <3>4, <3>5, Zenon
    <2>5. DeleteEdge(x, id) =
            [ok |-> TRUE, graph |-> Without(g, {}, F \cup {id}), counts |-> NoCounts]
        BY <2>4 DEF V
    <2> QED
        BY <1>3, <2>1, <2>5 DEF EdgesGood, DeleteEdgeStep, id
<1>7. EdgesGood(c, n, EdgesFold!Fold(c, Start(g), Ascending(T)))
    BY <1>2, <1>5, <1>6, AllNumbers, EdgesFold!FoldKeeps DEF EdgesFold!Inductive
<1> QED
    BY <1>2, <1>3, <1>4, <1>7 DEF EdgesGood

\* Fields replaced in a state and in a graph.
LEMMA StateFields ==
    ASSUME NEW st, st = [ok |-> st.ok, graph |-> st.graph, counts |-> st.counts]
    PROVE  /\ \A v : [st EXCEPT !.ok = v] = [ok |-> v, graph |-> st.graph, counts |-> st.counts]
           /\ \A v : [st EXCEPT !.graph = v] = [ok |-> st.ok, graph |-> v, counts |-> st.counts]
           /\ \A v : [st EXCEPT !.counts = v] = [ok |-> st.ok, graph |-> st.graph, counts |-> v]
OBVIOUS

IsGraphRecord(g) == g = [nodes |-> g.nodes, edges |-> g.edges, owned |-> g.owned,
                         nextNode |-> g.nextNode, nextEdge |-> g.nextEdge]

LEMMA GraphFields ==
    ASSUME NEW g, IsGraphRecord(g)
    PROVE  /\ \A v : [g EXCEPT !.nodes = v] =
                    [nodes |-> v, edges |-> g.edges, owned |-> g.owned, nextNode |-> g.nextNode, nextEdge |-> g.nextEdge]
           /\ \A v : [g EXCEPT !.edges = v] =
                    [nodes |-> g.nodes, edges |-> v, owned |-> g.owned, nextNode |-> g.nextNode, nextEdge |-> g.nextEdge]
BY DEF IsGraphRecord

\* The nodes that own a variable.
Owners(g) == {v.owner : v \in g.owned}

LEMMA OwnerOwns ==
    ASSUME NEW g, NEW id
    PROVE  OwnsVariable(g, id) <=> id \in Owners(g)
BY DEF OwnsVariable, Owners

DeleteNodeStep(c, x, y) == DeleteNode(x, y, c.detach)
NodesGood(c, k, x) ==
    /\ x = [ok |-> x.ok, graph |-> x.graph, counts |-> NoCounts]
    /\ x.ok \in BOOLEAN
    /\ Sound(x.graph)
    /\ x.ok => x.graph = Without(c.graph, First(c.ids, k), {})
    /\ x.ok <=> /\ First(c.ids, k) \cap Owners(c.graph) = {}
                /\ c.detach \/ At(c.graph, First(c.ids, k)) = {}
NodesFold == INSTANCE Folding WITH Step <- DeleteNodeStep, Good <- NodesGood

\* A node that can be deleted takes its edges with it.
LEMMA NodeDeleted ==
    ASSUME NEW h, NEW F, NEW id, NEW st,
           st = [ok |-> st.ok, graph |-> Without(h, F, {}), counts |-> NoCounts],
           st.ok, ~OwnsVariable(st.graph, id),
           NEW detach, detach \/ Incident(st.graph, id) = {}
    PROVE  DeleteNode(st, id, detach) =
                [ok |-> st.ok, graph |-> Without(h, F \cup {id}, {}), counts |-> NoCounts]
<1> DEFINE W == Without(h, F, {})
           V == Without(h, F \cup {id}, {})
           N == {n \in W.nodes : n.id # id}
           E == W.edges \ Incident(W, id)
<1>1. /\ W = [nodes |-> W.nodes, edges |-> W.edges, owned |-> W.owned, nextNode |-> W.nextNode, nextEdge |-> W.nextEdge]
      /\ V = [nodes |-> V.nodes, edges |-> V.edges, owned |-> W.owned, nextNode |-> W.nextNode, nextEdge |-> W.nextEdge]
      /\ V.nodes = N /\ V.edges = E
    BY DEF Without, Incident
<1> HIDE DEF W, V, N, E
<1>2. st.graph = W /\ st = [ok |-> st.ok, graph |-> W, counts |-> NoCounts]
    BY DEF W
<1>3. DeleteNode(st, id, detach) = [st EXCEPT !.graph = [[W EXCEPT !.nodes = N] EXCEPT !.edges = E]]
    BY <1>1, <1>2 DEF DeleteNode, N, E
<1>4. [[W EXCEPT !.nodes = N] EXCEPT !.edges = E] = V
    <2> DEFINE U == [W EXCEPT !.nodes = N]
    <2>1. U = [nodes |-> N, edges |-> W.edges, owned |-> W.owned, nextNode |-> W.nextNode, nextEdge |-> W.nextEdge]
        <3> HIDE DEF U
        <3>a. IsGraphRecord(W)
            BY <1>1, Zenon DEF IsGraphRecord
        <3>b. \A v : [W EXCEPT !.nodes = v] = [nodes |-> v, edges |-> W.edges, owned |-> W.owned,
                                             nextNode |-> W.nextNode, nextEdge |-> W.nextEdge]
            BY <3>a, GraphFields, Zenon
        <3> QED
            BY <3>b, Zenon DEF U
    <2> HIDE DEF U
    <2>2. /\ IsGraphRecord(U)
          /\ U.nodes = N /\ U.owned = W.owned /\ U.nextNode = W.nextNode /\ U.nextEdge = W.nextEdge
        BY <2>1 DEF IsGraphRecord
    <2>3. [U EXCEPT !.edges = E] =
            [nodes |-> N, edges |-> E, owned |-> W.owned, nextNode |-> W.nextNode, nextEdge |-> W.nextEdge]
        BY <2>2, GraphFields
    <2> QED
        BY <1>1, <2>3, Zenon DEF U
<1>5. DeleteNode(st, id, detach) = [st EXCEPT !.graph = V]
    BY <1>3, <1>4, Zenon
<1>6. st = [ok |-> st.ok, graph |-> st.graph, counts |-> st.counts] /\ st.counts = NoCounts
    BY <1>2
<1>7. [st EXCEPT !.graph = V] = [ok |-> st.ok, graph |-> V, counts |-> st.counts]
    BY <1>6, StateFields
<1> QED
    BY <1>5, <1>6, <1>7, Zenon DEF V

\* The nodes of a DELETE, after its edges.
LEMMA NodesDeleted ==
    ASSUME NEW h, Sound(h), NEW D \in SUBSET IdsOf(h.nodes), NEW detach \in BOOLEAN
    PROVE  LET st == FoldLeft(LAMBDA s, id : DeleteNode(s, id, detach),
                              [ok |-> TRUE, graph |-> h, counts |-> NoCounts], Ascending(D))
           IN  /\ st = [ok |-> st.ok, graph |-> st.graph, counts |-> NoCounts]
               /\ st.ok \in BOOLEAN
               /\ Sound(st.graph)
               /\ st.ok => st.graph = Without(h, D, {})
               /\ st.ok <=> D \cap Owners(h) = {} /\ (detach \/ At(h, D) = {})
<1> DEFINE ids == Ascending(D)
           c == [graph |-> h, ids |-> ids, detach |-> detach]
           n == Cardinality(D)
           base == [ok |-> TRUE, graph |-> h, counts |-> NoCounts]
<1>1. D \in SUBSET Nat /\ IsFiniteSet(D)
    <2>1. h.nextNode \in Nat
        BY DEF Sound, IsGraph
    <2>2. IdsOf(h.nodes) \in SUBSET Nat /\ \A i \in D : i <= h.nextNode
        BY <2>1, SoundIds
    <2> QED
        BY <2>1, <2>2, FS_BoundedSetOfNaturals
<1>2. n \in Nat /\ DOMAIN ids = 1..n /\ First(ids, n) = D
    BY <1>1, AscendingAll
<1>3. c.graph = h /\ c.ids = ids /\ c.detach = detach
    OBVIOUS
<1>4. FoldLeft(LAMBDA s, id : DeleteNode(s, id, detach), base, ids) = NodesFold!Fold(c, base, ids)
    BY DEF NodesFold!Fold, DeleteNodeStep, FoldLeft, MapThenFoldSet, Max,
           NodesFold!LastOf
<1> HIDE DEF c, n, ids
<1>5. NodesGood(c, 0, base)
    <2>1. Without(h, {}, {}) = [nodes |-> h.nodes, edges |-> h.edges, owned |-> h.owned,
                                nextNode |-> h.nextNode, nextEdge |-> h.nextEdge]
        BY DEF Without
    <2>2. Without(h, {}, {}) = h
        BY <2>1 DEF Sound, IsGraph
    <2>3. First(ids, 0) = {} /\ At(h, {}) = {}
        BY FirstNone DEF At
    <2>4. base = [ok |-> base.ok, graph |-> base.graph, counts |-> NoCounts] /\ base.graph = h
        OBVIOUS
    <2>5. base.ok \in BOOLEAN /\ base.ok
        OBVIOUS
    <2> HIDE DEF base
    <2> QED
        BY <1>3, <2>2, <2>3, <2>4, <2>5 DEF NodesGood
<1> HIDE DEF base
<1>6. ASSUME NEW k \in 1..n, NEW x, NodesGood(c, k - 1, x)
      PROVE  NodesGood(c, k, DeleteNodeStep(c, x, ids[k]))
    <2> DEFINE F == First(ids, k - 1)
               id == ids[k]
               y == DeleteNode(x, id, detach)
    <2>1. First(ids, k) = F \cup {id}
        BY <1>2, FirstOneMore
    <2>2. /\ x = [ok |-> x.ok, graph |-> x.graph, counts |-> NoCounts]
          /\ x.ok \in BOOLEAN
          /\ Sound(x.graph)
          /\ x.ok => x.graph = Without(h, F, {})
          /\ x.ok <=> F \cap Owners(h) = {} /\ (detach \/ At(h, F) = {})
        BY <1>3, <1>6 DEF NodesGood
    <2> HIDE DEF F, id
    <2>3. /\ y = [ok |-> y.ok, graph |-> y.graph, counts |-> NoCounts]
          /\ y.ok \in BOOLEAN
          /\ Sound(y.graph)
          /\ y.ok => y.graph = Without(h, F \cup {id}, {})
          /\ y.ok <=> (F \cup {id}) \cap Owners(h) = {} /\ (detach \/ At(h, F \cup {id}) = {})
        <3>1. CASE ~x.ok
            <4>1. y = x
                BY <3>1 DEF DeleteNode
            <4>2. At(h, F) # {} => At(h, F \cup {id}) # {}
                BY DEF At
            <4> HIDE DEF y
            <4> QED
                BY <2>2, <3>1, <4>1, <4>2
        <3>2. CASE x.ok /\ (OwnsVariable(x.graph, id) \/ (~detach /\ Incident(x.graph, id) # {}))
            <4>1. y = Fail(x)
                BY <3>2 DEF DeleteNode
            <4>2. \A v : [x EXCEPT !.ok = v] = [ok |-> v, graph |-> x.graph, counts |-> NoCounts]
                BY <2>2
            <4>3. y = [ok |-> FALSE, graph |-> x.graph, counts |-> NoCounts]
                BY <4>1, <4>2, Zenon DEF Fail
            <4>a. x.graph.owned = h.owned
                BY <2>2, <3>2 DEF Without
            <4>b. OwnsVariable(x.graph, id) => (F \cup {id}) \cap Owners(h) # {}
                BY <4>a, OwnerOwns DEF Owners
            <4>c. Incident(x.graph, id) # {} => At(h, F \cup {id}) # {}
                BY <2>2, <3>2 DEF At, Incident, Without
            <4>4. ~((F \cup {id}) \cap Owners(h) = {} /\ (detach \/ At(h, F \cup {id}) = {}))
                BY <3>2, <4>b, <4>c
            <4> HIDE DEF y
            <4> QED
                BY <2>2, <3>2, <4>3, <4>4
        <3>3. CASE x.ok /\ ~OwnsVariable(x.graph, id) /\ (detach \/ Incident(x.graph, id) = {})
            <4>1. x.graph = Without(h, F, {}) /\ x = [ok |-> x.ok, graph |-> Without(h, F, {}), counts |-> NoCounts]
                BY <2>2, <3>3
            <4>2. y = [ok |-> x.ok, graph |-> Without(h, F \cup {id}, {}), counts |-> NoCounts]
                BY <3>3, <4>1, NodeDeleted
            <4>a. detach \/ At(h, F \cup {id}) = {}
                BY <2>2, <3>3, <4>1 DEF At, Incident, Without
            <4>b. id \notin Owners(h)
                BY <3>3, <4>1, OwnerOwns DEF Owners, Without
            <4>3. (F \cup {id}) \cap Owners(h) = {} /\ (detach \/ At(h, F \cup {id}) = {})
                BY <2>2, <3>3, <4>a, <4>b
            <4>4. Sound(Without(h, F \cup {id}, {}))
                BY WithoutSound
            <4> HIDE DEF y
            <4> QED
                BY <2>2, <3>3, <4>2, <4>3, <4>4
        <3> QED
            BY <2>2, <3>1, <3>2, <3>3
    <2> QED
        BY <1>3, <2>1, <2>3 DEF NodesGood, DeleteNodeStep, id
<1>7. NodesGood(c, n, NodesFold!Fold(c, base, ids))
    BY <1>2, <1>5, <1>6, AllNumbers, NodesFold!FoldKeeps DEF NodesFold!Inductive
<1> QED
    BY <1>2, <1>3, <1>4, <1>7 DEF NodesGood, ids, base

\* What rows bind is there.
LEMMA BoundIdsLive ==
    ASSUME NEW g, NEW rows, AreRows(g, rows), NEW vars_,
           \A i \in 1..Len(rows) : ToSet(vars_) \subseteq DOMAIN rows[i]
    PROVE  /\ BoundIds(rows, vars_, "node") \in SUBSET IdsOf(g.nodes)
           /\ BoundIds(rows, vars_, "rel") \in SUBSET IdsOf(g.edges)
           /\ ~(\E row \in ToSet(rows), v \in ToSet(vars_) : v \notin DOMAIN row)
<1>1. \A row \in ToSet(rows) : IsRow(g, row) /\ ToSet(vars_) \subseteq DOMAIN row
    BY ListLen DEF AreRows, ToSet
<1>2. ASSUME NEW row \in ToSet(rows), NEW v \in ToSet(vars_)
      PROVE  /\ row[v][1] = "node" => row[v][2] \in IdsOf(g.nodes)
             /\ row[v][1] = "rel" => row[v][2] \in IdsOf(g.edges)
    <2>1. IsRow(g, row) /\ v \in DOMAIN row
        BY <1>1
    <2> QED
        BY <2>1, RowRefs
<1> HIDE DEF ToSet
<1>a. ASSUME NEW kind, NEW i \in BoundIds(rows, vars_, kind)
      PROVE  \E row \in ToSet(rows) : \E v \in ToSet(vars_) : row[v][1] = kind /\ row[v][2] = i
    BY <1>a DEF BoundIds
<1>3. BoundIds(rows, vars_, "node") \in SUBSET IdsOf(g.nodes)
    BY <1>2, <1>a
<1>4. BoundIds(rows, vars_, "rel") \in SUBSET IdsOf(g.edges)
    BY <1>2, <1>a
<1> QED
    BY <1>1, <1>3, <1>4

\* A graph without some edges.
LEMMA WithoutEdges ==
    ASSUME NEW g, Sound(g), NEW T
    PROVE  /\ Sound(Without(g, {}, T))
           /\ IdsOf(Without(g, {}, T).nodes) = IdsOf(g.nodes)
           /\ IdsOf(Without(g, {}, T).edges) = IdsOf(g.edges) \ T
<1> DEFINE h == Without(g, {}, T)
<1>1. /\ Sound(h) /\ IdsOf(h.nodes) = IdsOf(g.nodes) \ {}
      /\ IdsOf(h.edges) = IdsOf(g.edges) \ (T \cup IdsOf(At(g, {})))
    <2>1. \A S : /\ Sound(Without(g, S, T)) /\ IdsOf(Without(g, S, T).nodes) = IdsOf(g.nodes) \ S
                  /\ IdsOf(Without(g, S, T).edges) = IdsOf(g.edges) \ (T \cup IdsOf(At(g, S)))
        BY WithoutSound
    <2> QED
        BY <2>1, Zenon
<1>2. IdsOf(At(g, {})) = {}
    BY DEF At, IdsOf
<1> HIDE DEF h
<1>3. IdsOf(h.nodes) = IdsOf(g.nodes)
    BY <1>1
<1>4. IdsOf(h.edges) = IdsOf(g.edges) \ T
    BY <1>1, <1>2
<1> QED
    BY <1>1, <1>3, <1>4 DEF h

\* Only no records have no ids.
LEMMA NoIds ==
    ASSUME NEW R
    PROVE  R = {} <=> IdsOf(R) = {}
BY DEF IdsOf

\* The nodes and edges of a DELETE, in the code's order: edges first.
LEMMA GoneAfter ==
    ASSUME NEW g, Sound(g), NEW D \in SUBSET IdsOf(g.nodes), NEW T \in SUBSET IdsOf(g.edges),
           NEW detach, NEW st,
           st.ok \in BOOLEAN,
           st.ok => st.graph = Without(Without(g, {}, T), D, {}),
           st.ok <=> D \cap Owners(g) = {} /\ (detach \/ At(Without(g, {}, T), D) = {})
    PROVE  Gone(g, D, T, IdsOf(At(g, D)), detach, st)
<1> DEFINE h == Without(g, {}, T)
           at == IdsOf(At(g, D))
<1>1. at = IdsOf(At(g, D))
    OBVIOUS
<1>2. /\ Sound(h) /\ IdsOf(h.nodes) = IdsOf(g.nodes)
      /\ IdsOf(h.edges) = IdsOf(g.edges) \ T
    BY WithoutEdges
<1>3. IdsOf(At(h, D)) = IdsOf(At(g, D)) \ T
    BY DEF At, Without, IdsOf
<1>4. At(h, D) = {} <=> at \subseteq T
    <2>1. At(h, D) = {} <=> IdsOf(At(h, D)) = {}
        BY NoIds, Zenon
    <2> QED
        BY <1>1, <1>3, <2>1
<1> HIDE DEF h, at
<1>5. /\ IdsOf(Without(h, D, {}).nodes) = IdsOf(h.nodes) \ D
      /\ IdsOf(Without(h, D, {}).edges) = IdsOf(h.edges) \ ({} \cup IdsOf(At(h, D)))
    BY <1>2, WithoutSound
<1>6. IdsOf(Without(h, D, {}).edges) = IdsOf(g.edges) \ (T \cup at)
    BY <1>1, <1>2, <1>3, <1>5
<1>7. st.ok <=> D \cap Owners(g) = {} /\ (detach \/ at \subseteq T)
    BY <1>4 DEF h
<1>8. st.ok => /\ IdsOf(st.graph.nodes) = IdsOf(g.nodes) \ D
               /\ IdsOf(st.graph.edges) = IdsOf(g.edges) \ (T \cup at)
    <2>1. SUFFICES ASSUME st.ok
                   PROVE  /\ IdsOf(st.graph.nodes) = IdsOf(g.nodes) \ D
                          /\ IdsOf(st.graph.edges) = IdsOf(g.edges) \ (T \cup at)
        OBVIOUS
    <2>2. st.graph = Without(h, D, {})
        BY <2>1 DEF h
    <2> QED
        BY <1>2, <1>5, <1>6, <2>2
<1> QED
    BY <1>7, <1>8 DEF Gone, Owners, at

\* execute_delete keeps a graph sound, and deletes what its rows bind.
LEMMA WithoutWithin ==
    ASSUME NEW g, NEW S, NEW T, NEW U, NEW V
    PROVE  LET h == Without(Without(g, S, T), U, V) IN
           Within(h, g) /\ h.nextNode = g.nextNode /\ h.nextEdge = g.nextEdge /\ h.owned = g.owned
BY DEF Without, Within

LEMMA DeletedGraph ==
    ASSUME NEW g, Sound(g), NEW rows, AreRows(g, rows), NEW action, action.detach \in BOOLEAN
    PROVE  LET st == Deleted(g, rows, action) IN
           /\ st.ok \in BOOLEAN /\ Sound(st.graph)
           /\ (\A i \in 1..Len(rows) : ToSet(action.vars) \subseteq DOMAIN rows[i]) =>
                DeletedFrom(g, rows, action, st)
           /\ st.ok => Accounted(st.counts, g, st.graph)
<1> DEFINE unbound == \E row \in ToSet(rows), v \in ToSet(action.vars) : v \notin DOMAIN row
           T == BoundIds(rows, action.vars, "rel")
           D == BoundIds(rows, action.vars, "node")
           h == Without(g, {}, T)
           st == FoldLeft(LAMBDA s, id : DeleteNode(s, id, action.detach),
                          [ok |-> TRUE, graph |-> h, counts |-> NoCounts], Ascending(D))
<1>1. CASE unbound
    <2>1. Deleted(g, rows, action) = Fail(Start(g))
        BY <1>1 DEF Deleted
    <2>2. Fail(Start(g)) = [ok |-> FALSE, graph |-> g, counts |-> NoCounts]
        <3> DEFINE st0 == Start(g)
        <3>1. st0 = [ok |-> st0.ok, graph |-> g, counts |-> NoCounts] /\ st0.graph = g
              /\ st0.counts = NoCounts
            BY DEF Start
        <3> HIDE DEF st0
        <3>2. \A v : [st0 EXCEPT !.ok = v] = [ok |-> v, graph |-> g, counts |-> NoCounts]
            BY <3>1, StateFields
        <3> QED
            BY <3>2, Zenon DEF Fail, st0
    <2>3. \E row \in ToSet(rows) : ~(ToSet(action.vars) \subseteq DOMAIN row)
        BY <1>1
    <2>4. ~(\A i \in 1..Len(rows) : ToSet(action.vars) \subseteq DOMAIN rows[i])
        BY <2>3, ListLen DEF AreRows, ToSet
    <2> QED
        BY <2>1, <2>2, <2>4
<1>2. CASE ~unbound
    <2>1. \A i \in 1..Len(rows) : ToSet(action.vars) \subseteq DOMAIN rows[i]
        BY <1>2, ListLen DEF AreRows, ToSet
    <2>2. D \in SUBSET IdsOf(g.nodes) /\ T \in SUBSET IdsOf(g.edges)
        BY <2>1, BoundIdsLive
    <2>3. FoldLeft(DeleteEdge, Start(g), Ascending(T)) =
            [ok |-> TRUE, graph |-> h, counts |-> NoCounts]
        BY <2>2, EdgesDeleted
    <2> DEFINE counts == [NoCounts EXCEPT
                    !.nodesDeleted = Cardinality(g.nodes) - Cardinality(st.graph.nodes),
                    !.relsDeleted = Cardinality(g.edges) - Cardinality(st.graph.edges)]
    <2>4. Deleted(g, rows, action) = [st EXCEPT !.counts = counts]
        BY <1>2, <2>3 DEF Deleted
    <2>5. Sound(h) /\ IdsOf(h.nodes) = IdsOf(g.nodes)
        BY WithoutEdges
    <2>6. D \in SUBSET IdsOf(h.nodes)
        BY <2>2, <2>5
    <2> HIDE DEF h, D, T
    <2>7. /\ st = [ok |-> st.ok, graph |-> st.graph, counts |-> NoCounts]
          /\ st.ok \in BOOLEAN
          /\ Sound(st.graph)
          /\ st.ok => st.graph = Without(h, D, {})
          /\ st.ok <=> D \cap Owners(h) = {} /\ (action.detach \/ At(h, D) = {})
        BY <2>5, <2>6, NodesDeleted
    <2> HIDE DEF st
    <2> DEFINE r == Deleted(g, rows, action)
    <2>8. r.ok = st.ok /\ r.graph = st.graph /\ r.counts = counts
        <3> HIDE DEF counts
        <3>1. \A v : [st EXCEPT !.counts = v] = [ok |-> st.ok, graph |-> st.graph, counts |-> v]
            BY <2>7
        <3> QED
            BY <2>4, <3>1
    <2> HIDE DEF r
    <2>9. /\ r.ok \in BOOLEAN
          /\ r.ok => r.graph = Without(Without(g, {}, T), D, {})
          /\ r.ok <=> /\ D \cap Owners(g) = {}
                      /\ action.detach \/ At(Without(g, {}, T), D) = {}
        <3>1. Owners(h) = Owners(g)
            BY DEF Owners, Without, h
        <3> QED
            BY <2>7, <2>8, <3>1 DEF h
    <2>10. Gone(g, D, T, IdsOf(At(g, D)), action.detach, r)
        <3>1. r.ok <=> D \cap Owners(g) = {} /\ (action.detach \/ At(Without(g, {}, T), D) = {})
            BY <2>9
        <3> QED
            BY <2>2, <2>9, <3>1, GoneAfter
    <2>a. UNION {Incident(g, id) : id \in D} = At(g, D)
        BY DEF Incident, At
    <2>11. DeletedFrom(g, rows, action, r)
        BY <2>10, <2>a, Zenon DEF DeletedFrom, D, T
    <2>12. ASSUME r.ok
           PROVE  Accounted(r.counts, g, r.graph)
        <3>1. r.graph = Without(Without(g, {}, T), D, {})
            BY <2>9, <2>12
        <3>2. /\ Within(r.graph, g) /\ r.graph.nextNode = g.nextNode
              /\ r.graph.nextEdge = g.nextEdge /\ r.graph.owned = g.owned
            BY <3>1, WithoutWithin
        <3>3. Sound(r.graph)
            BY <2>7, <2>8
        <3>4. r.counts = [NoCounts EXCEPT
                    !.nodesDeleted = Cardinality(g.nodes) - Cardinality(r.graph.nodes),
                    !.relsDeleted = Cardinality(g.edges) - Cardinality(r.graph.edges)]
            BY <2>8
        <3> QED
            BY <3>2, <3>3, <3>4, DeletedAccounts
    <2> QED
        BY <2>7, <2>8, <2>9, <2>11, <2>12 DEF r
<1> QED
    BY <1>1, <1>2

---------------------------------------------------------------------------
(* Creation *)

\* A graph with one more node, and with one more edge.
WithNewNode(g, n) == [nodes |-> g.nodes \cup {n}, edges |-> g.edges, owned |-> g.owned,
                      nextNode |-> g.nextNode + 1, nextEdge |-> g.nextEdge]
WithNewEdge(g, e) == [nodes |-> g.nodes, edges |-> g.edges \cup {e}, owned |-> g.owned,
                      nextNode |-> g.nextNode, nextEdge |-> g.nextEdge + 1]

LEMMA NewNodeSound ==
    ASSUME NEW g, Sound(g), NEW n, IsNode(n), n.id = g.nextNode, ~\E m \in g.nodes : m.ext = n.ext
    PROVE  /\ Sound(WithNewNode(g, n))
           /\ IdsOf(WithNewNode(g, n).nodes) = IdsOf(g.nodes) \cup {n.id}
           /\ n \notin g.nodes
<1> DEFINE h == WithNewNode(g, n)
<1>1. /\ h = [nodes |-> h.nodes, edges |-> h.edges, owned |-> h.owned, nextNode |-> h.nextNode, nextEdge |-> h.nextEdge]
      /\ h.nodes = g.nodes \cup {n} /\ h.edges = g.edges
      /\ h.nextNode = g.nextNode + 1 /\ h.nextEdge = g.nextEdge
    BY DEF WithNewNode
<1> HIDE DEF h
<1>2. /\ g.nextNode \in Nat /\ g.nextEdge \in Nat
      /\ \A m \in g.nodes : IsNode(m) /\ m.id < g.nextNode
      /\ \A e \in g.edges : IsEdge(e) /\ e.id < g.nextEdge
      /\ IdsUnique(g.nodes) /\ IdsUnique(g.edges) /\ NamesUnique(g.nodes) /\ EndpointsExist(g)
    BY DEF Sound, IsGraph, Consistent
<1>3. IdsOf(h.nodes) = IdsOf(g.nodes) \cup {n.id}
    BY <1>1 DEF IdsOf
<1>4. \A m \in g.nodes : m.id # n.id /\ m.id < g.nextNode + 1
    BY <1>2 DEF IsNode
<1>5. IdsUnique(h.nodes) /\ NamesUnique(h.nodes)
    BY <1>1, <1>2, <1>4 DEF IdsUnique, NamesUnique
<1>6. EndpointsExist(h)
    BY <1>1, <1>2, <1>3 DEF EndpointsExist
<1>7. \A m \in h.nodes : IsNode(m) /\ m.id < h.nextNode
    BY <1>1, <1>2, <1>4
<1>8. IsGraph(h)
    BY <1>1, <1>2 DEF IsGraph
<1>9. Sound(h)
    BY <1>1, <1>2, <1>5, <1>6, <1>7, <1>8 DEF Sound, Consistent
<1> QED
    BY <1>3, <1>4, <1>9 DEF h

LEMMA NewEdgeSound ==
    ASSUME NEW g, Sound(g), NEW e, IsEdge(e), e.id = g.nextEdge,
           e.src \in IdsOf(g.nodes), e.dst \in IdsOf(g.nodes)
    PROVE  Sound(WithNewEdge(g, e)) /\ e \notin g.edges
<1> DEFINE h == WithNewEdge(g, e)
<1>1. /\ h = [nodes |-> h.nodes, edges |-> h.edges, owned |-> h.owned, nextNode |-> h.nextNode, nextEdge |-> h.nextEdge]
      /\ h.nodes = g.nodes /\ h.edges = g.edges \cup {e}
      /\ h.nextNode = g.nextNode /\ h.nextEdge = g.nextEdge + 1
    BY DEF WithNewEdge
<1> HIDE DEF h
<1>2. /\ g.nextNode \in Nat /\ g.nextEdge \in Nat
      /\ \A m \in g.nodes : IsNode(m) /\ m.id < g.nextNode
      /\ \A f \in g.edges : IsEdge(f) /\ f.id < g.nextEdge
      /\ IdsUnique(g.nodes) /\ IdsUnique(g.edges) /\ NamesUnique(g.nodes) /\ EndpointsExist(g)
    BY DEF Sound, IsGraph, Consistent
<1>3. \A f \in g.edges : f.id # e.id /\ f.id < g.nextEdge + 1
    BY <1>2 DEF IsEdge
<1>4. IdsUnique(h.edges)
    BY <1>1, <1>2, <1>3 DEF IdsUnique
<1>5. EndpointsExist(h)
    BY <1>1, <1>2 DEF EndpointsExist
<1>6. \A f \in h.edges : IsEdge(f) /\ f.id < h.nextEdge
    BY <1>1, <1>2, <1>3
<1>7. IsGraph(h)
    BY <1>1, <1>2 DEF IsGraph
<1>8. Sound(h)
    BY <1>1, <1>2, <1>4, <1>5, <1>6, <1>7 DEF Sound, Consistent
<1> QED
    BY <1>3, <1>8 DEF h

\* What a record created adds.
LEMMA NewNodeEnlarges ==
    ASSUME NEW g, Sound(g), NEW h, Sound(h), NEW c, Enlarged(g, h, c), NEW n, n \notin h.nodes,
           NEW amount \in Nat
    PROVE  Enlarged(g, WithNewNode(h, n), CountedNew(c, "nodesCreated", amount))
<1> DEFINE k == WithNewNode(h, n)
<1>1. k.nodes = h.nodes \cup {n} /\ k.edges = h.edges
    BY DEF WithNewNode
<1> HIDE DEF k
<1>2. IsFiniteSet(h.nodes) /\ IsFiniteSet(h.edges) /\ IsFiniteSet(g.nodes) /\ IsFiniteSet(g.edges)
    BY SoundFinite
<1>3. /\ Cardinality(k.nodes) = Cardinality(h.nodes) + 1 /\ Cardinality(h.nodes) \in Nat
      /\ Cardinality(k.edges) = Cardinality(h.edges) /\ Cardinality(h.edges) \in Nat
    BY <1>1, <1>2, FS_AddElement, FS_CardinalityType
<1>4. /\ Cardinality(k.nodes) = Cardinality(h.nodes) + By("nodesCreated", "nodesCreated", 1)
      /\ Cardinality(k.edges) = Cardinality(h.edges) + By("nodesCreated", "relsCreated", 1)
    BY <1>3 DEF By
<1>5. Within(h, k)
    BY <1>1 DEF Within
<1> QED
    BY <1>2, <1>4, <1>5, EnlargedMore DEF k

LEMMA NewEdgeEnlarges ==
    ASSUME NEW g, Sound(g), NEW h, Sound(h), NEW c, Enlarged(g, h, c), NEW e, e \notin h.edges,
           NEW amount \in Nat
    PROVE  Enlarged(g, WithNewEdge(h, e), CountedNew(c, "relsCreated", amount))
<1> DEFINE k == WithNewEdge(h, e)
<1>1. k.nodes = h.nodes /\ k.edges = h.edges \cup {e}
    BY DEF WithNewEdge
<1> HIDE DEF k
<1>2. IsFiniteSet(h.nodes) /\ IsFiniteSet(h.edges) /\ IsFiniteSet(g.nodes) /\ IsFiniteSet(g.edges)
    BY SoundFinite
<1>3. /\ Cardinality(k.edges) = Cardinality(h.edges) + 1 /\ Cardinality(h.edges) \in Nat
      /\ Cardinality(k.nodes) = Cardinality(h.nodes) /\ Cardinality(h.nodes) \in Nat
    BY <1>1, <1>2, FS_AddElement, FS_CardinalityType
<1>4. /\ Cardinality(k.nodes) = Cardinality(h.nodes) + By("relsCreated", "nodesCreated", 1)
      /\ Cardinality(k.edges) = Cardinality(h.edges) + By("relsCreated", "relsCreated", 1)
    BY <1>3 DEF By
<1>5. Within(h, k)
    BY <1>1 DEF Within
<1> QED
    BY <1>2, <1>4, <1>5, EnlargedMore DEF k

\* The state of a creation with k nodes of its path.
IsMaking(k, st) ==
    /\ st = [ok |-> st.ok, graph |-> st.graph, counts |-> st.counts, row |-> st.row, path |-> st.path]
    /\ st.ok \in BOOLEAN
    /\ Sound(st.graph)
    /\ IsList(st.path)
    /\ \A i \in 1..Len(st.path) : st.path[i] \in IdsOf(st.graph.nodes)
    /\ st.ok => Len(st.path) = k
BindsNodes(st) == \A v \in DOMAIN st.row : st.row[v][2] \in IdsOf(st.graph.nodes)

LEMMA MakingFields ==
    ASSUME NEW k, NEW st, IsMaking(k, st)
    PROVE  /\ \A v : [st EXCEPT !.ok = v] =
                [ok |-> v, graph |-> st.graph, counts |-> st.counts, row |-> st.row, path |-> st.path]
           /\ \A v : [st EXCEPT !.path = v] =
                [ok |-> st.ok, graph |-> st.graph, counts |-> st.counts, row |-> st.row, path |-> v]
BY DEF IsMaking

\* A state given by its fields.
LEMMA MakingOf ==
    ASSUME NEW k, NEW y, NEW ok \in BOOLEAN, NEW graph, NEW counts, NEW row, NEW path,
           y = [ok |-> ok, graph |-> graph, counts |-> counts, row |-> row, path |-> path],
           Sound(graph), IsList(path), \A i \in 1..Len(path) : path[i] \in IdsOf(graph.nodes),
           ok => Len(path) = k
    PROVE  IsMaking(k, y)
<1>1. y.ok = ok /\ y.graph = graph /\ y.counts = counts /\ y.row = row /\ y.path = path
    OBVIOUS
<1>2. y = [ok |-> y.ok, graph |-> y.graph, counts |-> y.counts, row |-> y.row, path |-> y.path]
    OBVIOUS
<1> QED
    BY <1>1, <1>2 DEF IsMaking

LEMMA AppendList ==
    ASSUME NEW s, IsList(s), NEW x
    PROVE  /\ IsList(Append(s, x)) /\ Len(Append(s, x)) = Len(s) + 1
           /\ \A i \in 1..Len(s) : Append(s, x)[i] = s[i]
           /\ Append(s, x)[Len(s) + 1] = x
<1>1. Len(s) \in Nat /\ s \in Seq(ToSet(s) \cup {x})
    <2>1. s \in [1..Len(s) -> ToSet(s)] /\ Len(s) \in Nat
        BY LenProperties DEF IsList
    <2>2. s \in [1..Len(s) -> ToSet(s) \cup {x}]
        BY <2>1
    <2> QED
        BY <2>1, <2>2, IsASeq
<1>2. /\ Append(s, x) \in Seq(ToSet(s) \cup {x}) /\ Len(Append(s, x)) = Len(s) + 1
      /\ \A i \in 1..Len(s) : Append(s, x)[i] = s[i]
      /\ Append(s, x)[Len(s) + 1] = x
    BY <1>1, AppendProperties
<1> QED
    BY <1>2, SeqIsList

\* What is bound after a node is created.
LEMMA BoundNodes ==
    ASSUME NEW row, NEW var, NEW ids, NEW id, \A v \in DOMAIN row : row[v][2] \in ids
    PROVE  \A v \in DOMAIN Bound(row, var, NodeRef(id)) :
                Bound(row, var, NodeRef(id))[v][2] \in ids \cup {id}
<1>1. NodeRef(id)[2] = id
    BY DEF NodeRef
<1>2. CASE var = NoVar
    BY <1>2 DEF Bound
<1>3. CASE var # NoVar
    <2> DEFINE b == Bound(row, var, NodeRef(id))
    <2>1. b = [v \in DOMAIN row \cup {var} |-> IF v = var THEN NodeRef(id) ELSE row[v]]
        BY <1>3 DEF Bound
    <2> HIDE DEF b
    <2>2. \A v \in DOMAIN b : b[v][2] \in ids \cup {id}
        BY <1>1, <2>1
    <2> QED
        BY <2>2 DEF b
<1> QED
    BY <1>2, <1>3

\* The fields of a state with one more node, and with one more edge.
AddedNode(st, node, row, path) ==
    [st EXCEPT !.graph.nodes = @ \cup {node}, !.graph.nextNode = @ + 1, !.row = row, !.path = path]

LEMMA MadeNode ==
    ASSUME NEW st, NEW g, st = [ok |-> st.ok, graph |-> g, counts |-> st.counts, row |-> st.row, path |-> st.path],
           g = [nodes |-> g.nodes, edges |-> g.edges, owned |-> g.owned,
                nextNode |-> g.nextNode, nextEdge |-> g.nextEdge],
           NEW node, NEW row, NEW path
    PROVE  AddedNode(st, node, row, path) =
                [ok |-> st.ok, graph |-> WithNewNode(g, node), counts |-> st.counts, row |-> row, path |-> path]
<1> DEFINE a == [st EXCEPT !.graph.nodes = @ \cup {node}]
           b == [a EXCEPT !.graph.nextNode = st.graph.nextNode + 1]
           c == [b EXCEPT !.row = row]
           h == [nodes |-> g.nodes \cup {node}, edges |-> g.edges, owned |-> g.owned,
                 nextNode |-> g.nextNode, nextEdge |-> g.nextEdge]
           k == [nodes |-> g.nodes \cup {node}, edges |-> g.edges, owned |-> g.owned,
                 nextNode |-> g.nextNode + 1, nextEdge |-> g.nextEdge]
<1>1. AddedNode(st, node, row, path) = [c EXCEPT !.path = path]
    BY Zenon DEF AddedNode
<1>2. [g EXCEPT !.nodes = @ \cup {node}] = h
    OBVIOUS
<1>3. a = [ok |-> st.ok, graph |-> h, counts |-> st.counts, row |-> st.row, path |-> st.path]
    OBVIOUS
<1>4. [h EXCEPT !.nextNode = g.nextNode + 1] = k
    OBVIOUS
<1>5. k = WithNewNode(g, node)
    BY DEF WithNewNode
<1> HIDE DEF h, k, a
<1>6. b = [ok |-> st.ok, graph |-> k, counts |-> st.counts, row |-> st.row, path |-> st.path]
    BY <1>3, <1>4
<1> HIDE DEF b
<1>7. c = [ok |-> st.ok, graph |-> k, counts |-> st.counts, row |-> row, path |-> st.path]
    BY <1>6
<1> HIDE DEF c
<1>8. [c EXCEPT !.path = path] =
        [ok |-> st.ok, graph |-> k, counts |-> st.counts, row |-> row, path |-> path]
    BY <1>7
<1> QED
    BY <1>1, <1>5, <1>8

AddedEdge(st, edge, row) ==
    [st EXCEPT !.graph.edges = @ \cup {edge}, !.graph.nextEdge = @ + 1, !.row = row]

LEMMA MadeEdge ==
    ASSUME NEW st, NEW g, st = [ok |-> st.ok, graph |-> g, counts |-> st.counts, row |-> st.row, path |-> st.path],
           g = [nodes |-> g.nodes, edges |-> g.edges, owned |-> g.owned,
                nextNode |-> g.nextNode, nextEdge |-> g.nextEdge],
           NEW edge, NEW row
    PROVE  AddedEdge(st, edge, row) =
                [ok |-> st.ok, graph |-> WithNewEdge(g, edge), counts |-> st.counts, row |-> row, path |-> st.path]
<1> DEFINE a == [st EXCEPT !.graph.edges = @ \cup {edge}]
           b == [a EXCEPT !.graph.nextEdge = st.graph.nextEdge + 1]
           c == [b EXCEPT !.row = row]
           h == [nodes |-> g.nodes, edges |-> g.edges \cup {edge}, owned |-> g.owned,
                 nextNode |-> g.nextNode, nextEdge |-> g.nextEdge]
           k == [nodes |-> g.nodes, edges |-> g.edges \cup {edge}, owned |-> g.owned,
                 nextNode |-> g.nextNode, nextEdge |-> g.nextEdge + 1]
<1>1. AddedEdge(st, edge, row) = c
    BY Zenon DEF AddedEdge
<1>2. [g EXCEPT !.edges = @ \cup {edge}] = h
    OBVIOUS
<1>3. a = [ok |-> st.ok, graph |-> h, counts |-> st.counts, row |-> st.row, path |-> st.path]
    OBVIOUS
<1>4. [h EXCEPT !.nextEdge = g.nextEdge + 1] = k
    OBVIOUS
<1>5. k = WithNewEdge(g, edge)
    BY DEF WithNewEdge
<1> HIDE DEF h, k, a
<1>6. b = [ok |-> st.ok, graph |-> k, counts |-> st.counts, row |-> st.row, path |-> st.path]
    BY <1>3, <1>4
<1> HIDE DEF b
<1>7. c = [ok |-> st.ok, graph |-> k, counts |-> st.counts, row |-> row, path |-> st.path]
    BY <1>6
<1> QED
    BY <1>1, <1>5, <1>7

LEMMA CountedTwice ==
    ASSUME NEW ok, NEW graph, NEW counts, NEW row, NEW path, NEW made,
           made = [ok |-> ok, graph |-> graph, counts |-> counts, row |-> row, path |-> path],
           NEW counter, NEW amount
    PROVE  Counted(Counted(made, counter, 1), "propsSet", amount) =
                [ok |-> ok, graph |-> graph, counts |-> CountedNew(counts, counter, amount),
                 row |-> row, path |-> path]
<1> DEFINE d == [counts EXCEPT ![counter] = @ + 1]
           once == Counted(made, counter, 1)
<1>1. \A v : [made EXCEPT !.counts = v] =
                [ok |-> ok, graph |-> graph, counts |-> v, row |-> row, path |-> path]
    OBVIOUS
<1>2. once = [made EXCEPT !.counts = d]
    BY DEF Counted
<1>3. once = [ok |-> ok, graph |-> graph, counts |-> d, row |-> row, path |-> path]
    <2> HIDE DEF d, once
    <2> QED
        BY <1>1, <1>2
<1> HIDE DEF d, once
<1> DEFINE e == [d EXCEPT !["propsSet"] = @ + amount]
<1>4. \A v : [once EXCEPT !.counts = v] =
                [ok |-> ok, graph |-> graph, counts |-> v, row |-> row, path |-> path]
    BY <1>3
<1>5. Counted(once, "propsSet", amount) = [once EXCEPT !.counts = e]
    BY <1>3 DEF Counted
<1>6. Counted(once, "propsSet", amount) =
            [ok |-> ok, graph |-> graph, counts |-> e, row |-> row, path |-> path]
    <2> HIDE DEF e
    <2> QED
        BY <1>4, <1>5
<1>7. e = CountedNew(counts, counter, amount)
    BY DEF CountedNew, d
<1> QED
    BY <1>6, <1>7 DEF once

\* A state whose graph and counters are not told apart from another's.
Same(st, y) == y.graph = st.graph /\ y.counts = st.counts

\* create_node of a pattern.
LEMMA CreateNodeMakes ==
    ASSUME NEW k \in Nat \ {0}, NEW st, IsMaking(k - 1, st), BindsNodes(st),
           NEW pattern, IsFiniteSet(pattern.labels)
    PROVE  LET y == CreateNode(st, pattern) IN
           /\ IsMaking(k, y) /\ BindsNodes(y)
           /\ \/ Same(st, y)
              \/ \E n : /\ n \notin st.graph.nodes /\ y.graph = WithNewNode(st.graph, n)
                        /\ y.counts = CountedNew(st.counts, "nodesCreated", Len(pattern.props))
<1> DEFINE g == st.graph
           named == PropValue(g, st.row, pattern.props, "external_id", Null)
           ext == IF named = Null THEN DefaultName(g.nextNode) ELSE named[2]
           val == PropValue(g, st.row, pattern.props, "v", Null)
           node == [id |-> g.nextNode, ext |-> ext, labels |-> pattern.labels, val |-> val]
           made == [st EXCEPT !.graph.nodes = @ \cup {node}, !.graph.nextNode = @ + 1,
                              !.row = Bound(@, pattern.var, NodeRef(node.id)),
                              !.path = Append(@, node.id)]
           y == CreateNode(st, pattern)
<1>1. y = IF ~st.ok THEN st
          ELSE IF pattern.var \in DOMAIN st.row
          THEN [st EXCEPT !.path = Append(@, st.row[pattern.var][2])]
          ELSE IF ~PropsStorable(g, st.row, pattern.props) THEN Fail(st)
          ELSE IF named # Null /\ named[1] # "str" THEN Fail(st)
          ELSE IF \E n \in g.nodes : n.ext = ext THEN Fail(st)
          ELSE Counted(Counted(made, "nodesCreated", 1), "propsSet", Len(pattern.props))
    BY Zenon DEF CreateNode
<1>2. node.id = g.nextNode /\ node.ext = ext /\ node.labels = pattern.labels
      /\ node = [id |-> node.id, ext |-> node.ext, labels |-> node.labels, val |-> node.val]
    OBVIOUS
<1> HIDE DEF y, named, ext, node
<1>3. CASE ~st.ok
    <2>1. y = st
        BY <1>1, <1>3
    <2>2. IsMaking(k, st)
        BY <1>3 DEF IsMaking
    <2> QED
        BY <2>1, <2>2 DEF y, Same
<1>4. CASE st.ok /\ pattern.var \in DOMAIN st.row
    <2> DEFINE id == st.row[pattern.var][2]
    <2>1. y = [ok |-> st.ok, graph |-> g, counts |-> st.counts, row |-> st.row,
               path |-> Append(st.path, id)]
        BY <1>1, <1>4, MakingFields
    <2>2. id \in IdsOf(g.nodes)
        BY <1>4 DEF BindsNodes
    <2>3. /\ Sound(g) /\ IsList(st.path) /\ st.ok \in BOOLEAN /\ Len(st.path) = k - 1
          /\ \A i \in 1..Len(st.path) : st.path[i] \in IdsOf(g.nodes)
        BY <1>4 DEF IsMaking
    <2> DEFINE path == Append(st.path, id)
    <2> HIDE DEF id
    <2>4. IsList(path) /\ Len(path) = k /\ \A i \in 1..Len(path) : path[i] \in IdsOf(g.nodes)
        BY <2>2, <2>3, AppendList
    <2> HIDE DEF path
    <2>5. IsMaking(k, y)
        BY <2>1, <2>3, <2>4, MakingOf DEF path
    <2>6. y.graph = g /\ y.row = st.row /\ y.counts = st.counts
        BY <2>1
    <2> QED
        BY <2>5, <2>6 DEF BindsNodes, Same, y
<1>5. CASE y = Fail(st)
    <2>1. y = [ok |-> FALSE, graph |-> g, counts |-> st.counts, row |-> st.row, path |-> st.path]
        BY <1>5, MakingFields, Zenon DEF Fail
    <2>2. /\ Sound(g) /\ IsList(st.path)
          /\ \A i \in 1..Len(st.path) : st.path[i] \in IdsOf(g.nodes)
        BY DEF IsMaking
    <2>3. IsMaking(k, y)
        BY <2>1, <2>2, MakingOf
    <2>4. y.graph = g /\ y.row = st.row /\ y.counts = st.counts
        BY <2>1
    <2> QED
        BY <2>3, <2>4 DEF BindsNodes, Same, y
<1>6. CASE /\ st.ok /\ ~\E n \in g.nodes : n.ext = ext
           /\ y = Counted(Counted(made, "nodesCreated", 1), "propsSet", Len(pattern.props))
    <2> DEFINE h == WithNewNode(g, node)
               row == Bound(st.row, pattern.var, NodeRef(node.id))
               path == Append(st.path, node.id)
    <2>1. IsNode(node) /\ node.id = g.nextNode
        BY <1>2 DEF IsMaking, Sound, IsGraph, IsNode
    <2>2. Sound(h) /\ IdsOf(h.nodes) = IdsOf(g.nodes) \cup {node.id} /\ node \notin g.nodes
        BY <1>2, <1>6, <2>1, NewNodeSound DEF IsMaking
    <2> DEFINE counts == CountedNew(st.counts, "nodesCreated", Len(pattern.props))
    <2>3. y = [ok |-> st.ok, graph |-> h, counts |-> counts, row |-> row, path |-> path]
        <3>1. made = [ok |-> st.ok, graph |-> h, counts |-> st.counts, row |-> row, path |-> path]
            <4>1. st = [ok |-> st.ok, graph |-> g, counts |-> st.counts, row |-> st.row, path |-> st.path]
                BY DEF IsMaking
            <4>2. g = [nodes |-> g.nodes, edges |-> g.edges, owned |-> g.owned,
                       nextNode |-> g.nextNode, nextEdge |-> g.nextEdge]
                BY DEF IsMaking, Sound, IsGraph
            <4> QED
                <5>1. made = AddedNode(st, node, row, path)
                    BY Zenon DEF AddedNode
                <5> HIDE DEF made, row, path
                <5> QED
                    BY <4>1, <4>2, <5>1, MadeNode
        <3> DEFINE amount == Len(pattern.props)
        <3> HIDE DEF made, h, row, path, amount
        <3>2. Counted(Counted(made, "nodesCreated", 1), "propsSet", amount) =
                [ok |-> st.ok, graph |-> h, counts |-> CountedNew(st.counts, "nodesCreated", amount),
                 row |-> row, path |-> path]
            BY <3>1, CountedTwice
        <3> QED
            BY <1>6, <3>2 DEF amount
    <2>4. \A v \in DOMAIN row : row[v][2] \in IdsOf(h.nodes)
        BY <2>2, BoundNodes DEF BindsNodes
    <2>5. IsList(path) /\ Len(path) = k /\ \A i \in 1..Len(path) : path[i] \in IdsOf(h.nodes)
        BY <1>6, <2>2, AppendList DEF IsMaking
    <2> HIDE DEF h, row, path, counts
    <2>6. IsMaking(k, y)
        <3>1. st.ok \in BOOLEAN
            BY DEF IsMaking
        <3> QED
            BY <2>2, <2>3, <2>5, <3>1, MakingOf
    <2>7. y.graph = h /\ y.row = row /\ y.counts = counts
        BY <2>3
    <2>8. BindsNodes(y)
        BY <2>4, <2>7 DEF BindsNodes
    <2>9. \E n : /\ n \notin g.nodes /\ y.graph = WithNewNode(g, n) /\ y.counts = counts
        BY <2>2, <2>7 DEF h
    <2> QED
        BY <2>6, <2>8, <2>9 DEF y, counts
<1> QED
    BY <1>1, <1>3, <1>4, <1>5, <1>6 DEF y

\* create_edge of a pattern.
LEMMA CreateRelMakes ==
    ASSUME NEW n \in Nat, NEW st, IsMaking(n, st), NEW pattern, NEW k \in Nat \ {0}, k + 1 <= n
    PROVE  LET y == CreateRel(st, pattern, k) IN
           /\ IsMaking(n, y)
           /\ \/ Same(st, y)
              \/ \E e : /\ e \notin st.graph.edges /\ y.graph = WithNewEdge(st.graph, e)
                        /\ y.counts = CountedNew(st.counts, "relsCreated", Len(pattern.props))
<1> DEFINE g == st.graph
           ends == RelEnds(pattern, st.path, k)
           val == PropValue(g, st.row, pattern.props, "v", Null)
           edge == [id |-> g.nextEdge, src |-> ends[1], dst |-> ends[2], type |-> pattern.type,
                    val |-> val]
           made == [st EXCEPT !.graph.edges = @ \cup {edge}, !.graph.nextEdge = @ + 1,
                              !.row = Bound(@, pattern.var, RelRef(edge.id))]
           y == CreateRel(st, pattern, k)
<1>1. y = IF ~st.ok THEN st
          ELSE IF \/ pattern.direction = "both"
                  \/ pattern.var \in DOMAIN st.row
                  \/ pattern.type = NoType
                  \/ ~PropsStorable(g, st.row, pattern.props)
          THEN Fail(st)
          ELSE Counted(Counted(made, "relsCreated", 1), "propsSet", Len(pattern.props))
    BY Zenon DEF CreateRel
<1>2. edge.id = g.nextEdge /\ edge.src = ends[1] /\ edge.dst = ends[2]
      /\ edge = [id |-> edge.id, src |-> edge.src, dst |-> edge.dst, type |-> edge.type,
                 val |-> edge.val]
    OBVIOUS
<1>3. ends \in {<<st.path[k], st.path[k + 1]>>, <<st.path[k + 1], st.path[k]>>}
    BY DEF RelEnds
<1> HIDE DEF y, edge, ends
<1>4. /\ Sound(g) /\ IsList(st.path) /\ st.ok \in BOOLEAN /\ (st.ok => Len(st.path) = n)
      /\ \A i \in 1..Len(st.path) : st.path[i] \in IdsOf(g.nodes)
    BY DEF IsMaking
<1>5. CASE ~st.ok
    <2>1. y = st
        BY <1>1, <1>5
    <2> QED
        BY <2>1 DEF y, Same
<1>6. CASE y = Fail(st)
    <2>1. y = [ok |-> FALSE, graph |-> g, counts |-> st.counts, row |-> st.row, path |-> st.path]
        BY <1>6, MakingFields, Zenon DEF Fail
    <2>2. IsMaking(n, y)
        BY <1>4, <2>1, MakingOf
    <2>3. y.graph = g /\ y.counts = st.counts
        BY <2>1
    <2> QED
        BY <2>2, <2>3 DEF y, Same
<1>7. CASE /\ st.ok
           /\ y = Counted(Counted(made, "relsCreated", 1), "propsSet", Len(pattern.props))
    <2> DEFINE h == WithNewEdge(g, edge)
               row == Bound(st.row, pattern.var, RelRef(edge.id))
    <2>1. ends[1] \in IdsOf(g.nodes) /\ ends[2] \in IdsOf(g.nodes)
        BY <1>3, <1>4, <1>7
    <2>2. IsEdge(edge)
        BY <1>2, <1>4 DEF IsEdge, Sound, IsGraph
    <2>3. Sound(h) /\ edge \notin g.edges
        BY <1>2, <1>4, <2>1, <2>2, NewEdgeSound
    <2> DEFINE counts == CountedNew(st.counts, "relsCreated", Len(pattern.props))
    <2>4. y = [ok |-> st.ok, graph |-> h, counts |-> counts, row |-> row, path |-> st.path]
        <3>1. made = [ok |-> st.ok, graph |-> h, counts |-> st.counts, row |-> row, path |-> st.path]
            <4>1. st = [ok |-> st.ok, graph |-> g, counts |-> st.counts, row |-> st.row, path |-> st.path]
                BY DEF IsMaking
            <4>2. g = [nodes |-> g.nodes, edges |-> g.edges, owned |-> g.owned,
                       nextNode |-> g.nextNode, nextEdge |-> g.nextEdge]
                BY <1>4 DEF Sound, IsGraph
            <4> QED
                <5>1. made = AddedEdge(st, edge, row)
                    BY Zenon DEF AddedEdge
                <5> HIDE DEF made, row
                <5> QED
                    BY <4>1, <4>2, <5>1, MadeEdge
        <3> DEFINE amount == Len(pattern.props)
        <3> HIDE DEF made, h, row, amount
        <3>2. Counted(Counted(made, "relsCreated", 1), "propsSet", amount) =
                [ok |-> st.ok, graph |-> h, counts |-> CountedNew(st.counts, "relsCreated", amount),
                 row |-> row, path |-> st.path]
            BY <3>1, CountedTwice
        <3> QED
            BY <1>7, <3>2 DEF amount
    <2>5. \A i \in 1..Len(st.path) : st.path[i] \in IdsOf(h.nodes)
        BY <1>4 DEF WithNewEdge
    <2> HIDE DEF h, row, counts
    <2>6. IsMaking(n, y)
        BY <1>4, <2>3, <2>4, <2>5, MakingOf
    <2>7. y.graph = h /\ y.counts = counts
        BY <2>4
    <2>8. \E e : e \notin g.edges /\ y.graph = WithNewEdge(g, e) /\ y.counts = counts
        BY <2>3, <2>7 DEF h
    <2> QED
        BY <2>6, <2>8 DEF y, counts
<1> QED
    BY <1>1, <1>5, <1>6, <1>7 DEF y

CreateNodeStep(c, x, y) == CreateNode(x, y)
CreateNodeGood(c, k, x) ==
    IsMaking(k, x) /\ BindsNodes(x) /\ Enlarged(c.graph, x.graph, x.counts)
CreateNodes == INSTANCE Folding WITH Step <- CreateNodeStep, Good <- CreateNodeGood

CreateRelStep(c, x, y) == CreateRel(x, c.rels[y], y)
CreateRelGood(c, k, x) == IsMaking(c.n, x) /\ Enlarged(c.graph, x.graph, x.counts)
CreateRels == INSTANCE Folding WITH Step <- CreateRelStep, Good <- CreateRelGood

LEMMA NothingEnlarged ==
    ASSUME NEW g, Sound(g)
    PROVE  Enlarged(g, g, NoCounts)
<1>1. Cardinality(g.nodes) \in Nat /\ Cardinality(g.edges) \in Nat
    BY SoundFinite, FS_CardinalityType
<1>2. IsCounts(NoCounts) /\ \A counter \in Counters : NoCounts[counter] = 0
    BY NothingCounted DEF IsCounts
<1>3. NoCounts.nodesCreated = 0 /\ NoCounts.relsCreated = 0
    BY <1>2 DEF Counters
<1> QED
    BY <1>1, <1>2, <1>3 DEF Enlarged, Within

StartMaking(g) == [ok |-> TRUE, graph |-> g, counts |-> NoCounts, row |-> NoRow, path |-> <<>>]
NodesMade(g, p) == FoldLeft(CreateNode, StartMaking(g), p.nodes)

\* The nodes of a path.
LEMMA NodesMadeMake ==
    ASSUME NEW g, Sound(g), NEW p, PathParsed(p)
    PROVE  /\ IsMaking(Len(p.nodes), NodesMade(g, p))
           /\ Enlarged(g, NodesMade(g, p).graph, NodesMade(g, p).counts)
<1> DEFINE n == Len(p.nodes)
           c == [graph |-> g]
<1>1. /\ n \in Nat /\ DOMAIN p.nodes = 1..n /\ c.graph = g
      /\ \A k \in 1..n : IsFiniteSet(p.nodes[k].labels) /\ Len(p.nodes[k].props) \in Nat
    <2>1. IsList(p.nodes) /\ \A x \in ToSet(p.nodes) : IsFiniteSet(x.labels) /\ IsList(x.props)
        BY DEF PathParsed
    <2> QED
        BY <2>1, ListLen DEF ToSet
<1>2. NodesMade(g, p) = CreateNodes!Fold(c, StartMaking(g), p.nodes)
    BY DEF NodesMade, CreateNodes!Fold, CreateNodeStep, FoldLeft, MapThenFoldSet, Max,
           CreateNodes!LastOf
<1> HIDE DEF c, n
<1>3. CreateNodeGood(c, 0, StartMaking(g))
    <2> DEFINE y == StartMaking(g)
               ok == TRUE
               path == << >>
    <2>1. y = [ok |-> ok, graph |-> g, counts |-> NoCounts, row |-> NoRow, path |-> path]
        BY DEF StartMaking
    <2>2. IsList(path) /\ Len(path) = 0 /\ ok \in BOOLEAN
        BY DEF IsList
    <2> HIDE DEF y, ok, path
    <2>3. IsMaking(0, y)
        BY <2>1, <2>2, MakingOf
    <2>4. DOMAIN NoRow = {} /\ y.row = NoRow /\ y.graph = g /\ y.counts = NoCounts
        BY <2>1 DEF NoRow
    <2>5. Enlarged(g, g, NoCounts)
        BY NothingEnlarged
    <2> QED
        BY <1>1, <2>3, <2>4, <2>5 DEF CreateNodeGood, BindsNodes, y
<1>4. ASSUME NEW k \in 1..n, NEW x, CreateNodeGood(c, k - 1, x)
      PROVE  CreateNodeGood(c, k, CreateNodeStep(c, x, p.nodes[k]))
    <2> DEFINE y == CreateNode(x, p.nodes[k])
               amount == Len(p.nodes[k].props)
    <2>1. /\ k \in Nat \ {0} /\ IsMaking(k - 1, x) /\ BindsNodes(x) /\ IsFiniteSet(p.nodes[k].labels)
          /\ Enlarged(g, x.graph, x.counts) /\ amount \in Nat
        BY <1>1, <1>4 DEF CreateNodeGood
    <2>2. /\ IsMaking(k, y) /\ BindsNodes(y)
          /\ \/ Same(x, y)
             \/ \E n_ : /\ n_ \notin x.graph.nodes /\ y.graph = WithNewNode(x.graph, n_)
                        /\ y.counts = CountedNew(x.counts, "nodesCreated", amount)
        BY <2>1, CreateNodeMakes
    <2> HIDE DEF y, amount
    <2>3. Sound(x.graph)
        BY <2>1 DEF IsMaking
    <2>4. Enlarged(g, y.graph, y.counts)
        BY <2>1, <2>2, <2>3, NewNodeEnlarges DEF Same
    <2> QED
        BY <1>1, <2>2, <2>4 DEF CreateNodeGood, CreateNodeStep, y
<1>5. CreateNodeGood(c, n, CreateNodes!Fold(c, StartMaking(g), p.nodes))
    BY <1>1, <1>3, <1>4, AllNumbers, CreateNodes!FoldKeeps DEF CreateNodes!Inductive
<1> QED
    BY <1>1, <1>2, <1>5 DEF CreateNodeGood, n

\* create_pattern keeps a graph sound, whether it succeeds or not.
LEMMA CreatedSound ==
    ASSUME NEW g, Sound(g), NEW p, PathParsed(p)
    PROVE  /\ IsMaking(Len(p.nodes), Created(g, p))
           /\ Enlarged(g, Created(g, p).graph, Created(g, p).counts)
<1> DEFINE n == Len(p.nodes)
           m == Len(p.rels)
           c == [n |-> n, rels |-> p.rels, graph |-> g]
           ks == [k \in DOMAIN p.rels |-> k]
<1>1. n \in Nat /\ m \in Nat /\ n = m + 1 /\ DOMAIN ks = 1..m /\ c.n = n /\ c.rels = p.rels
      /\ c.graph = g
    BY ListLen DEF PathParsed
<1>a. \A k \in 1..m : Len(p.rels[k].props) \in Nat
    <2>1. IsList(p.rels) /\ \A x \in ToSet(p.rels) : IsList(x.props)
        BY DEF PathParsed
    <2> QED
        BY <2>1, ListLen DEF ToSet
<1>2. Created(g, p) = CreateRels!Fold(c, NodesMade(g, p), ks)
    BY DEF Created, NodesMade, StartMaking, CreateRels!Fold, CreateRelStep, FoldLeft, MapThenFoldSet,
           Max, CreateRels!LastOf
<1>3. \A k \in 1..m : ks[k] = k
    BY <1>1
<1> HIDE DEF c, n, m, ks
<1>4. CreateRelGood(c, 0, NodesMade(g, p))
    BY <1>1, NodesMadeMake DEF CreateRelGood, n
<1>5. ASSUME NEW k \in 1..m, NEW x, CreateRelGood(c, k - 1, x)
      PROVE  CreateRelGood(c, k, CreateRelStep(c, x, ks[k]))
    <2> DEFINE y == CreateRel(x, p.rels[k], k)
               amount == Len(p.rels[k].props)
    <2>1. /\ IsMaking(n, x) /\ k \in Nat \ {0} /\ k + 1 <= n /\ ks[k] = k
          /\ Enlarged(g, x.graph, x.counts) /\ amount \in Nat
        BY <1>1, <1>a, <1>3, <1>5 DEF CreateRelGood
    <2>2. /\ IsMaking(n, y)
          /\ \/ Same(x, y)
             \/ \E e : /\ e \notin x.graph.edges /\ y.graph = WithNewEdge(x.graph, e)
                       /\ y.counts = CountedNew(x.counts, "relsCreated", amount)
        <3> n \in Nat
            BY <1>1
        <3> QED
            BY <2>1, CreateRelMakes
    <2> HIDE DEF y, amount
    <2>3. Sound(x.graph)
        BY <2>1 DEF IsMaking
    <2>4. Enlarged(g, y.graph, y.counts)
        BY <2>1, <2>2, <2>3, NewEdgeEnlarges DEF Same
    <2> QED
        BY <1>1, <2>1, <2>2, <2>4 DEF CreateRelGood, CreateRelStep, y
<1>6. CreateRelGood(c, m, CreateRels!Fold(c, NodesMade(g, p), ks))
    BY <1>1, <1>4, <1>5, AllNumbers, CreateRels!FoldKeeps DEF CreateRels!Inductive
<1> QED
    BY <1>1, <1>2, <1>6 DEF CreateRelGood, n

---------------------------------------------------------------------------
(* Statements *)

\* What a projection returns is of no consequence to the graph.
LEMMA ReturnedGraph ==
    ASSUME NEW st, "graph" \in DOMAIN st, NEW rows, NEW projection
    PROVE  Returned(st, rows, projection).graph = st.graph
<1>1. \A s, keys, records : Outcome(s, keys, records).graph = s.graph
    BY DEF Outcome
<1>2. \A v : [st EXCEPT !.ok = v].graph = st.graph
    OBVIOUS
<1>3. CASE ~st.ok \/ projection = NoProjection
    BY <1>1, <1>3 DEF Returned
<1>4. CASE ~(~st.ok \/ projection = NoProjection)
    <2> DEFINE p == Projected(st.graph, rows, projection)
    <2>1. Returned(st, rows, projection) =
            Outcome([st EXCEPT !.ok = p.ok], Keys(projection), p.records)
        BY <1>4, Zenon DEF Returned
    <2> HIDE DEF p
    <2> QED
        BY <1>1, <1>2, <2>1
<1> QED
    BY <1>3, <1>4

\* Nor to the counters; it may make a statement fail.
LEMMA ReturnedCounts ==
    ASSUME NEW st, "counts" \in DOMAIN st, NEW rows, NEW projection
    PROVE  /\ Returned(st, rows, projection).counts = st.counts
           /\ Returned(st, rows, projection).ok => st.ok
<1>1. \A s, keys, records : /\ Outcome(s, keys, records).counts = s.counts
                            /\ Outcome(s, keys, records).ok = s.ok
    BY DEF Outcome
<1>2. \A v : [st EXCEPT !.ok = v].counts = st.counts
    OBVIOUS
<1>3. CASE ~st.ok \/ projection = NoProjection
    BY <1>1, <1>3 DEF Returned
<1>4. CASE ~(~st.ok \/ projection = NoProjection)
    <2> DEFINE p == Projected(st.graph, rows, projection)
    <2>1. Returned(st, rows, projection) =
            Outcome([st EXCEPT !.ok = p.ok], Keys(projection), p.records)
        BY <1>4, Zenon DEF Returned
    <2> HIDE DEF p
    <2> QED
        BY <1>1, <1>2, <1>4, <2>1
<1> QED
    BY <1>3, <1>4

LEMMA StartGraph ==
    ASSUME NEW g
    PROVE  /\ Start(g).graph = g /\ "graph" \in DOMAIN Start(g)
           /\ Fail(Start(g)).graph = g /\ "graph" \in DOMAIN Fail(Start(g))
BY DEF Start, Fail

LEMMA FailedGraph ==
    ASSUME NEW g
    PROVE  Outcome(Fail(Start(g)), << >>, << >>).graph = g
BY StartGraph DEF Outcome

\* A statement of its own, or a branch.
PartParsed(s) ==
    \/ s.kind = "return"
    \/ s.kind = "match" /\ MatchParsed(s)
    \/ s.kind \in {"create", "merge"} /\ PathParsed(s.pattern)

\* The rows of a match and what is done for them.
LEMMA ActedSound ==
    ASSUME NEW g, Sound(g), NEW s, MatchParsed(s), NEW rows, AreRows(g, rows)
    PROVE  Sound(Acted(g, rows, s.action).graph)
<1> DEFINE action == s.action
<1>1. action.kind \in {"return", "update", "delete"}
    BY DEF MatchParsed
<1>2. CASE action.kind = "return"
    <2>1. Acted(g, rows, action) = Returned(Start(g), rows, action.projection)
        BY <1>2 DEF Acted
    <2> QED
        BY <2>1, ReturnedGraph, StartGraph
<1>3. CASE action.kind = "update"
    <2>1. ItemsParsed(action.set) /\ ItemsParsed(action.remove)
        BY <1>3 DEF MatchParsed, ItemsParsed
    <2>2. IsState(g, Updated(g, rows, action))
        BY <2>1, UpdatedState
    <2> DEFINE st == Updated(g, rows, action)
    <2> HIDE DEF st
    <2>3. Sound(st.graph) /\ "graph" \in DOMAIN st
        BY <2>2 DEF IsState, st
    <2>4. Acted(g, rows, action) = Returned(st, rows, action.projection)
        BY <1>3 DEF Acted, st
    <2> QED
        BY <2>3, <2>4, ReturnedGraph
<1>4. CASE action.kind = "delete"
    <2>1. action.detach \in BOOLEAN
        BY <1>4 DEF MatchParsed
    <2>2. Sound(Deleted(g, rows, action).graph)
        BY <2>1, DeletedGraph
    <2>3. Acted(g, rows, action) = Outcome(Deleted(g, rows, action), << >>, << >>)
        BY <1>4 DEF Acted
    <2> QED
        BY <2>2, <2>3 DEF Outcome
<1> QED
    BY <1>1, <1>2, <1>3, <1>4

LEMMA ExecuteMatchSound ==
    ASSUME NEW g, Sound(g), NEW s, MatchParsed(s)
    PROVE  Sound(ExecuteMatch(g, s).graph)
<1>1. AreRows(g, MatchedRows(g, s).rows)
    BY MatchedRowsBind
<1>2. \/ ExecuteMatch(g, s) = Outcome(Fail(Start(g)), << >>, << >>)
      \/ ExecuteMatch(g, s) = Acted(g, MatchedRows(g, s).rows, s.action)
    BY DEF ExecuteMatch, ActedOn
<1> QED
    BY <1>1, <1>2, ActedSound, FailedGraph

LEMMA ExecuteCreateSound ==
    ASSUME NEW g, Sound(g), NEW s, PathParsed(s.pattern)
    PROVE  Sound(ExecuteCreate(g, s).graph)
<1> DEFINE st == Created(g, s.pattern)
<1>1. IsMaking(Len(s.pattern.nodes), st)
    BY CreatedSound
<1>2. ExecuteCreate(g, s) = Returned(st, <<st.row>>, s.projection)
    BY DEF ExecuteCreate, ReturnRow
<1> HIDE DEF st
<1>3. Sound(st.graph) /\ "graph" \in DOMAIN st
    BY <1>1 DEF IsMaking
<1> QED
    BY <1>2, <1>3, ReturnedGraph

LEMMA ExecuteMergeSound ==
    ASSUME NEW g, Sound(g), NEW s, PathParsed(s.pattern)
    PROVE  Sound(ExecuteMerge(g, s).graph)
<1> DEFINE found == MatchPattern(g, s.pattern)
<1>1. \/ ExecuteMerge(g, s) = Outcome(Fail(Start(g)), << >>, << >>)
      \/ ExecuteMerge(g, s) = Returned(Start(g), <<found.rows[1]>>, s.projection)
      \/ ExecuteMerge(g, s) = ExecuteCreate(g, s)
    BY DEF ExecuteMerge, FoundOrCreated
<1> HIDE DEF found
<1>2. Returned(Start(g), <<found.rows[1]>>, s.projection).graph = g
    BY ReturnedGraph, StartGraph
<1> QED
    BY <1>1, <1>2, ExecuteCreateSound, FailedGraph

\* execute_query, but for a union.
LEMMA ExecuteOneSound ==
    ASSUME NEW g, Sound(g), NEW s, PartParsed(s), NEW writable \in BOOLEAN
    PROVE  Sound(ExecuteOne(g, s, writable).graph)
<1>1. CASE Writes(s) /\ ~writable
    <2>1. ExecuteOne(g, s, writable) = Outcome(Fail(Start(g)), << >>, << >>)
        BY <1>1 DEF ExecuteOne, Writes
    <2> QED
        BY <2>1, FailedGraph
<1>2. CASE ~(Writes(s) /\ ~writable) /\ s.kind = "return"
    <2>1. ExecuteOne(g, s, writable) = Returned(Start(g), <<NoRow>>, s.projection)
        BY <1>2 DEF ExecuteOne
    <2> QED
        BY <2>1, ReturnedGraph, StartGraph
<1>3. CASE ~(Writes(s) /\ ~writable) /\ s.kind = "match"
    <2>1. ExecuteOne(g, s, writable) = ExecuteMatch(g, s) /\ MatchParsed(s)
        BY <1>3 DEF ExecuteOne, PartParsed
    <2> QED
        BY <2>1, ExecuteMatchSound
<1>4. CASE ~(Writes(s) /\ ~writable) /\ s.kind = "create"
    <2>1. ExecuteOne(g, s, writable) = ExecuteCreate(g, s) /\ PathParsed(s.pattern)
        BY <1>4 DEF ExecuteOne, PartParsed, Writes
    <2> QED
        BY <2>1, ExecuteCreateSound
<1>5. CASE ~(Writes(s) /\ ~writable) /\ s.kind = "merge"
    <2>1. ExecuteOne(g, s, writable) = ExecuteMerge(g, s) /\ PathParsed(s.pattern)
        BY <1>5 DEF ExecuteOne, PartParsed, Writes
    <2> QED
        BY <2>1, ExecuteMergeSound
<1>6. s.kind \in {"return", "match", "create", "merge"}
    BY DEF PartParsed
<1> QED
    BY <1>1, <1>2, <1>3, <1>4, <1>5, <1>6

IsOutcome(r) ==
    /\ r = [ok |-> r.ok, graph |-> r.graph, keys |-> r.keys, records |-> r.records,
            counts |-> r.counts]
    /\ Sound(r.graph)

UnionStep(c, x, y) == NextBranch(x, y = 1, c.branches[y], c.writable)
UnionGood(c, k, x) == IsOutcome(x) /\ x.graph = c.graph /\ x.counts = NoCounts
Branches == INSTANCE Folding WITH Step <- UnionStep, Good <- UnionGood

\* A statement that only reads leaves the graph as it is.
LEMMA ReadLeaves ==
    ASSUME NEW g, NEW s, PartParsed(s), ~Writes(s), NEW writable \in BOOLEAN
    PROVE  ExecuteOne(g, s, writable).graph = g
<1>1. CASE s.kind = "return"
    <2>1. ExecuteOne(g, s, writable) = Returned(Start(g), <<NoRow>>, s.projection)
        BY <1>1 DEF ExecuteOne
    <2> QED
        BY <2>1, ReturnedGraph, StartGraph
<1>2. CASE s.kind = "match" /\ s.action.kind = "return"
    <2>1. ExecuteOne(g, s, writable) = ExecuteMatch(g, s)
        BY <1>2 DEF ExecuteOne
    <2>2. \/ ExecuteMatch(g, s) = Outcome(Fail(Start(g)), << >>, << >>)
          \/ ExecuteMatch(g, s) = Acted(g, MatchedRows(g, s).rows, s.action)
        BY DEF ExecuteMatch, ActedOn
    <2>3. \A rows : Acted(g, rows, s.action) = Returned(Start(g), rows, s.action.projection)
        BY <1>2 DEF Acted
    <2> QED
        BY <2>1, <2>2, <2>3, ReturnedGraph, StartGraph, FailedGraph
<1> QED
    BY <1>1, <1>2 DEF PartParsed, Writes

\* One more branch of a union.
LEMMA AndThenOutcome ==
    ASSUME NEW all, IsOutcome(all), NEW first, NEW branch, branch.graph = all.graph
    PROVE  LET y == AndThen(all, first, branch) IN
           IsOutcome(y) /\ y.graph = all.graph /\ y.counts = all.counts
<1> DEFINE y == AndThen(all, first, branch)
<1>1. CASE ~all.ok
    BY <1>1 DEF AndThen
<1>2. CASE all.ok
    <2>1. PICK ok, keys : y = [all EXCEPT !.graph = branch.graph, !.ok = ok, !.keys = keys,
                                          !.records = @ \o branch.records]
        BY <1>2, Zenon DEF AndThen
    <2> HIDE DEF y
    <2>2. PICK records : y = [ok |-> ok, graph |-> branch.graph, keys |-> keys,
                              records |-> records, counts |-> all.counts]
        BY <2>1 DEF IsOutcome
    <2>3. IsOutcome(y) /\ y.graph = all.graph /\ y.counts = all.counts
        BY <2>2 DEF IsOutcome
    <2> QED
        BY <2>3 DEF y
<1> QED
    BY <1>1, <1>2

\* A union of statements that read.
LEMMA ExecuteUnionReads ==
    ASSUME NEW g, Sound(g), NEW branches, IsList(branches),
           \A k \in 1..Len(branches) : PartParsed(branches[k]) /\ ~Writes(branches[k]),
           NEW writable \in BOOLEAN
    PROVE  LET r == ExecuteUnion(g, branches, writable) IN r.graph = g /\ r.counts = NoCounts
<1> DEFINE c == [branches |-> branches, writable |-> writable, graph |-> g]
           n == Len(branches)
           ks == [k \in DOMAIN branches |-> k]
           base == Outcome(Start(g), << >>, << >>)
<1>1. /\ n \in Nat /\ DOMAIN ks = 1..n
      /\ c.branches = branches /\ c.writable = writable /\ c.graph = g
    BY ListLen
<1>2. \A k \in 1..n : ks[k] = k
    BY <1>1
<1>3. ExecuteUnion(g, branches, writable) = Branches!Fold(c, base, ks)
    BY DEF ExecuteUnion, Branches!Fold, UnionStep, FoldLeft, MapThenFoldSet,
           Max, Branches!LastOf
<1>4. UnionGood(c, 0, base)
    <2>1. IsOutcome(base) /\ base.graph = g /\ base.counts = NoCounts
        BY DEF IsOutcome, Outcome, Start
    <2> HIDE DEF base, c
    <2> QED
        BY <1>1, <2>1 DEF UnionGood
<1> HIDE DEF c, ks, base
<1>5. ASSUME NEW k \in 1..n, NEW x, UnionGood(c, k - 1, x)
      PROVE  UnionGood(c, k, UnionStep(c, x, ks[k]))
    <2>1. /\ IsOutcome(x) /\ x.graph = g /\ x.counts = NoCounts
          /\ ks[k] = k /\ PartParsed(branches[k]) /\ ~Writes(branches[k])
        BY <1>1, <1>2, <1>5 DEF UnionGood
    <2> DEFINE branch == ExecuteOne(x.graph, branches[k], writable)
               first == (ks[k] = 1)
               y == AndThen(x, first, branch)
    <2>2. branch.graph = x.graph
        BY <2>1, ReadLeaves
    <2>3. UnionStep(c, x, ks[k]) = y
        BY <1>1, <2>1, Zenon DEF UnionStep, NextBranch
    <2> HIDE DEF branch, first
    <2>4. IsOutcome(y) /\ y.graph = x.graph /\ y.counts = x.counts
        BY <2>1, <2>2, AndThenOutcome
    <2> HIDE DEF y
    <2> QED
        BY <1>1, <2>1, <2>3, <2>4 DEF UnionGood
<1>6. UnionGood(c, n, Branches!Fold(c, base, ks))
    BY <1>1, <1>4, <1>5, AllNumbers, Branches!FoldKeeps DEF Branches!Inductive
<1> QED
    BY <1>1, <1>3, <1>6 DEF UnionGood

\* The branches of a parsed union only read.
LEMMA UnionParsed ==
    ASSUME NEW s, Parses(s), s.kind = "union"
    PROVE  /\ IsList(s.branches)
           /\ \A k \in 1..Len(s.branches) : PartParsed(s.branches[k]) /\ ~Writes(s.branches[k])
<1>1. /\ IsList(s.branches)
      /\ \A part \in ToSet(s.branches) : PartParsed(part) /\ ~Writes(part)
    BY DEF Parses, Parts, PartParsed, IsWrite
<1>2. \A k \in 1..Len(s.branches) : s.branches[k] \in ToSet(s.branches)
    BY <1>1, ListLen DEF ToSet
<1> QED
    BY <1>1, <1>2

\* Every statement keeps a graph sound, whether it succeeds or not.
LEMMA ExecuteSound ==
    ASSUME NEW g, Sound(g), NEW s \in Statement, NEW writable \in BOOLEAN
    PROVE  Sound(Execute(g, s, writable).graph)
<1>1. Parses(s)
    BY StatementAssumption
<1>2. CASE s.kind = "union"
    <2>1. ExecuteUnion(g, s.branches, writable).graph = g
        BY <1>1, <1>2, UnionParsed, ExecuteUnionReads
    <2> QED
        BY <1>2, <2>1 DEF Execute
<1>3. CASE s.kind # "union"
    <2>1. PartParsed(s)
        BY <1>1, <1>3 DEF Parses, Parts, PartParsed
    <2>2. Sound(ExecuteOne(g, s, writable).graph)
        BY <2>1, ExecuteOneSound
    <2> QED
        BY <1>3, <2>2 DEF Execute
<1> QED
    BY <1>2, <1>3

---------------------------------------------------------------------------
(* What statements count *)

Accounts(g, r) == r.ok => Accounted(r.counts, g, r.graph)

LEMMA UnchangedAccounts ==
    ASSUME NEW g, Sound(g)
    PROVE  Accounted(NoCounts, g, g)
BY TalliedNone, TalliedAccounts

LEMMA FailedAccounts ==
    ASSUME NEW g
    PROVE  Accounts(g, Outcome(Fail(Start(g)), << >>, << >>))
<1>1. Fail(Start(g)).ok = FALSE
    BY DEF Start, Fail
<1> QED
    BY <1>1 DEF Accounts, Outcome

LEMMA ReadAccounts ==
    ASSUME NEW g, Sound(g), NEW rows, NEW projection
    PROVE  Accounts(g, Returned(Start(g), rows, projection))
<1>1. "counts" \in DOMAIN Start(g) /\ Start(g).counts = NoCounts
    BY DEF Start
<1>2. Returned(Start(g), rows, projection).counts = NoCounts
    BY <1>1, ReturnedCounts
<1>3. Returned(Start(g), rows, projection).graph = g
    BY ReturnedGraph, StartGraph
<1> QED
    BY <1>2, <1>3, UnchangedAccounts DEF Accounts

\* What a match is for.
LEMMA ActedAccounts ==
    ASSUME NEW g, Sound(g), NEW s, MatchParsed(s), NEW rows, AreRows(g, rows)
    PROVE  Accounts(g, Acted(g, rows, s.action))
<1> DEFINE action == s.action
<1>1. action.kind \in {"return", "update", "delete"}
    BY DEF MatchParsed
<1>2. CASE action.kind = "return"
    <2>1. Acted(g, rows, action) = Returned(Start(g), rows, action.projection)
        BY <1>2 DEF Acted
    <2> QED
        BY <2>1, ReadAccounts
<1>3. CASE action.kind = "update"
    <2>1. ItemsParsed(action.set) /\ ItemsParsed(action.remove)
        BY <1>3 DEF MatchParsed, ItemsParsed
    <2>2. IsState(g, Updated(g, rows, action))
        BY <2>1, UpdatedState
    <2> DEFINE st == Updated(g, rows, action)
    <2> HIDE DEF st
    <2>3. /\ Sound(st.graph) /\ SameIds(g, st.graph) /\ Tallied(g, st.graph, st.counts)
          /\ "graph" \in DOMAIN st /\ "counts" \in DOMAIN st
        BY <2>2 DEF IsState, st
    <2>4. Acted(g, rows, action) = Returned(st, rows, action.projection)
        BY <1>3 DEF Acted, st
    <2>5. Accounted(st.counts, g, st.graph)
        BY <2>3, TalliedAccounts DEF SameIds
    <2>6. /\ Returned(st, rows, action.projection).graph = st.graph
          /\ Returned(st, rows, action.projection).counts = st.counts
        BY <2>3, ReturnedGraph, ReturnedCounts
    <2> QED
        BY <2>4, <2>5, <2>6 DEF Accounts
<1>4. CASE action.kind = "delete"
    <2>1. action.detach \in BOOLEAN
        BY <1>4 DEF MatchParsed
    <2> DEFINE st == Deleted(g, rows, action)
    <2>2. st.ok => Accounted(st.counts, g, st.graph)
        BY <2>1, DeletedGraph
    <2>3. Acted(g, rows, action) = Outcome(st, << >>, << >>)
        BY <1>4 DEF Acted
    <2> HIDE DEF st
    <2> QED
        BY <2>2, <2>3 DEF Outcome, Accounts
<1> QED
    BY <1>1, <1>2, <1>3, <1>4

LEMMA ExecuteMatchAccounts ==
    ASSUME NEW g, Sound(g), NEW s, MatchParsed(s)
    PROVE  Accounts(g, ExecuteMatch(g, s))
<1>1. AreRows(g, MatchedRows(g, s).rows)
    BY MatchedRowsBind
<1>2. \/ ExecuteMatch(g, s) = Outcome(Fail(Start(g)), << >>, << >>)
      \/ ExecuteMatch(g, s) = Acted(g, MatchedRows(g, s).rows, s.action)
    BY DEF ExecuteMatch, ActedOn
<1> QED
    BY <1>1, <1>2, ActedAccounts, FailedAccounts

LEMMA ExecuteCreateAccounts ==
    ASSUME NEW g, Sound(g), NEW s, PathParsed(s.pattern)
    PROVE  Accounts(g, ExecuteCreate(g, s))
<1> DEFINE st == Created(g, s.pattern)
<1>1. IsMaking(Len(s.pattern.nodes), st) /\ Enlarged(g, st.graph, st.counts)
    BY CreatedSound
<1>2. ExecuteCreate(g, s) = Returned(st, <<st.row>>, s.projection)
    BY DEF ExecuteCreate, ReturnRow
<1> HIDE DEF st
<1>3. Sound(st.graph) /\ "graph" \in DOMAIN st /\ "counts" \in DOMAIN st
    BY <1>1 DEF IsMaking
<1>4. Accounted(st.counts, g, st.graph)
    BY <1>1, <1>3, CreatedAccounts
<1>5. /\ Returned(st, <<st.row>>, s.projection).graph = st.graph
      /\ Returned(st, <<st.row>>, s.projection).counts = st.counts
    BY <1>3, ReturnedGraph, ReturnedCounts
<1> QED
    BY <1>2, <1>4, <1>5 DEF Accounts

LEMMA ExecuteMergeAccounts ==
    ASSUME NEW g, Sound(g), NEW s, PathParsed(s.pattern)
    PROVE  Accounts(g, ExecuteMerge(g, s))
<1> DEFINE found == MatchPattern(g, s.pattern)
<1>1. \/ ExecuteMerge(g, s) = Outcome(Fail(Start(g)), << >>, << >>)
      \/ ExecuteMerge(g, s) = Returned(Start(g), <<found.rows[1]>>, s.projection)
      \/ ExecuteMerge(g, s) = ExecuteCreate(g, s)
    BY DEF ExecuteMerge, FoundOrCreated
<1> HIDE DEF found
<1> QED
    BY <1>1, ReadAccounts, ExecuteCreateAccounts, FailedAccounts

LEMMA ExecuteOneAccounts ==
    ASSUME NEW g, Sound(g), NEW s, PartParsed(s)
    PROVE  Accounts(g, ExecuteOne(g, s, TRUE))
<1>1. CASE s.kind = "return"
    <2>1. ExecuteOne(g, s, TRUE) = Returned(Start(g), <<NoRow>>, s.projection)
        BY <1>1 DEF ExecuteOne
    <2> QED
        BY <2>1, ReadAccounts
<1>2. CASE s.kind = "match"
    <2>1. ExecuteOne(g, s, TRUE) = ExecuteMatch(g, s) /\ MatchParsed(s)
        BY <1>2 DEF ExecuteOne, PartParsed
    <2> QED
        BY <2>1, ExecuteMatchAccounts
<1>3. CASE s.kind = "create"
    <2>1. ExecuteOne(g, s, TRUE) = ExecuteCreate(g, s) /\ PathParsed(s.pattern)
        BY <1>3 DEF ExecuteOne, PartParsed
    <2> QED
        BY <2>1, ExecuteCreateAccounts
<1>4. CASE s.kind = "merge"
    <2>1. ExecuteOne(g, s, TRUE) = ExecuteMerge(g, s) /\ PathParsed(s.pattern)
        BY <1>4 DEF ExecuteOne, PartParsed
    <2> QED
        BY <2>1, ExecuteMergeAccounts
<1> QED
    BY <1>1, <1>2, <1>3, <1>4 DEF PartParsed

LEMMA ExecuteAccounts ==
    ASSUME NEW g, Sound(g), NEW s \in Statement
    PROVE  Accounts(g, Execute(g, s, TRUE))
<1>1. Parses(s)
    BY StatementAssumption
<1>2. CASE s.kind = "union"
    <2> DEFINE r == ExecuteUnion(g, s.branches, TRUE)
    <2>1. r.graph = g /\ r.counts = NoCounts
        BY <1>1, <1>2, UnionParsed, ExecuteUnionReads
    <2>2. Execute(g, s, TRUE) = r
        BY <1>2 DEF Execute
    <2> QED
        BY <2>1, <2>2, UnchangedAccounts DEF Accounts
<1>3. CASE s.kind # "union"
    <2>1. PartParsed(s)
        BY <1>1, <1>3 DEF Parses, Parts, PartParsed
    <2> QED
        BY <1>3, <2>1, ExecuteOneAccounts DEF Execute
<1> QED
    BY <1>2, <1>3

---------------------------------------------------------------------------
(* Sessions *)

\* The graph of the handle and the transaction's are sound.
IInv ==
    /\ Sound(core)
    /\ tx = [active |-> tx.active, write |-> tx.write, staged |-> tx.staged,
             current |-> tx.current, ran |-> tx.ran]
    /\ tx.write \in BOOLEAN
    /\ Sound(tx.staged)

\* Which nodes own variables does not matter to that.
LEMMA OwnedSound ==
    ASSUME NEW g, Sound(g), NEW owned
    PROVE  Sound([g EXCEPT !.owned = owned])
<1> DEFINE h == [g EXCEPT !.owned = owned]
<1>1. g = [nodes |-> g.nodes, edges |-> g.edges, owned |-> g.owned,
           nextNode |-> g.nextNode, nextEdge |-> g.nextEdge]
    BY DEF Sound, IsGraph
<1>2. h = [nodes |-> g.nodes, edges |-> g.edges, owned |-> owned,
           nextNode |-> g.nextNode, nextEdge |-> g.nextEdge]
    BY <1>1
<1> HIDE DEF h
<1>3. /\ h = [nodes |-> h.nodes, edges |-> h.edges, owned |-> h.owned,
              nextNode |-> h.nextNode, nextEdge |-> h.nextEdge]
      /\ h.nodes = g.nodes /\ h.edges = g.edges
      /\ h.nextNode = g.nextNode /\ h.nextEdge = g.nextEdge
    BY <1>2
<1>4. Consistent(h)
    BY <1>3 DEF Sound, Consistent, IdsUnique, NamesUnique, EndpointsExist
<1>5. Sound(h)
    BY <1>3, <1>4 DEF Sound, IsGraph
<1> QED
    BY <1>5 DEF h

LEMMA EmptySound ==
    /\ Sound(NoGraph)
    /\ IdleTx = [active |-> IdleTx.active, write |-> IdleTx.write, staged |-> IdleTx.staged,
                 current |-> IdleTx.current, ran |-> IdleTx.ran]
    /\ IdleTx.write \in BOOLEAN
    /\ Sound(IdleTx.staged)
<1>1. Sound(NoGraph)
    BY DEF Sound, IsGraph, NoGraph, Consistent, IdsUnique, NamesUnique, EndpointsExist
<1>2. IdleTx.staged = NoGraph
    BY DEF IdleTx
<1> QED
    BY <1>1, <1>2 DEF IdleTx

LEMMA IInvInit == Init => IInv
BY EmptySound DEF Init, IInv

LEMMA IInvStep == IInv /\ [Next]_vars => IInv'
<1> SUFFICES ASSUME IInv, [Next]_vars
             PROVE  IInv'
    OBVIOUS
<1>1. ASSUME NEW s \in Statement, Autocommit(s)
      PROVE  IInv'
    <2> DEFINE r == Execute(core, s, IsWrite(s))
    <2>1. Sound(r.graph)
        <3>1. IsWrite(s) \in BOOLEAN
            BY DEF IsWrite, Writes
        <3> QED
            BY <3>1, ExecuteSound DEF IInv
    <2>2. Publish(r, IsWrite(s))
        BY <1>1 DEF Autocommit
    <2> HIDE DEF r
    <2>3. core' \in {core, r.graph}
        BY <2>2 DEF Publish
    <2>4. tx' \in {tx, [tx EXCEPT !.current = FALSE]}
        BY <2>2 DEF Publish
    <2> QED
        BY <2>1, <2>3, <2>4 DEF IInv
<1>2. ASSUME NEW s \in Statement, Run(s)
      PROVE  IInv'
    <2> DEFINE r == Execute(tx.staged, s, tx.write)
    <2>1. Sound(r.graph)
        BY ExecuteSound DEF IInv
    <2>2. Stage(r)
        BY <1>2 DEF Run
    <2> HIDE DEF r
    <2>3. PICK g \in {tx.staged, r.graph} : tx' = [tx EXCEPT !.staged = g, !.ran = @ + 1]
        BY <2>2 DEF Stage
    <2>4. core' = core
        BY <2>2 DEF Stage
    <2> QED
        BY <2>1, <2>3, <2>4 DEF IInv
<1>3. CASE Begin
    BY <1>3 DEF Begin, IInv
<1>4. CASE Commit
    <2>1. core' \in {core, [tx.staged EXCEPT !.owned = core.owned]} /\ tx' = IdleTx
        BY <1>4 DEF Commit
    <2>2. Sound([tx.staged EXCEPT !.owned = core.owned])
        BY OwnedSound DEF IInv
    <2> QED
        BY <2>1, <2>2, EmptySound, Zenon DEF IInv
<1>5. CASE Rollback
    BY <1>5, EmptySound DEF Rollback, IInv
<1>6. ASSUME NEW owner, AddVariable(owner)
      PROVE  IInv'
    <2> DEFINE owned == core.owned \cup {[id |-> Cardinality(core.owned), owner |-> owner]}
    <2>1. core' = [core EXCEPT !.owned = owned] /\ tx' = tx
        BY <1>6 DEF AddVariable
    <2> HIDE DEF owned
    <2>2. Sound([core EXCEPT !.owned = owned])
        BY OwnedSound DEF IInv
    <2> QED
        BY <2>1, <2>2 DEF IInv
<1>7. CASE UNCHANGED vars
    BY <1>7 DEF vars, IInv
<1> QED
    BY <1>1, <1>2, <1>3, <1>4, <1>5, <1>6, <1>7 DEF Next

LEMMA Invariance == Spec => []IInv
BY IInvInit, IInvStep, PTL DEF Spec

\* What statements see is sound.
LEMMA HereSound == IInv => Sound(Here)
BY DEF IInv, Here

\* No sequence of statements, in or out of a transaction, failed ones included,
\* leaves a graph with two nodes of one name, an edge without its ends, or an id
\* that the next record would reuse (execute_update, execute_delete, create_pattern,
\* src/src/cypher/mod.rs:580-1009).
THEOREM StatementsKeepGraphsSound == Spec => []GraphsSound
<1>1. IInv => GraphsSound
    <2>1. ASSUME NEW g, Sound(g)
          PROVE  /\ Consistent(g)
                 /\ NextAfter(IdsOf(g.nodes)) <= g.nextNode
                 /\ NextAfter(IdsOf(g.edges)) <= g.nextEdge
        BY <2>1, SoundIds DEF Sound
    <2>2. IInv => \A g \in {core, Here} : Sound(g)
        BY HereSound DEF IInv
    <2> QED
        BY <2>1, <2>2 DEF GraphsSound
<1> QED
    BY <1>1, Invariance, PTL

\* The counters that a statement returns in a reachable graph account for the
\* difference it made to it: records created and deleted one for one, the labels
\* of what was there before and after, and no property more than was set; counters
\* that are all zero mean that nothing was changed (src/src/cypher/mod.rs:580-1009).
THEOREM CountsAreTrue == Spec => []CountsTrue
<1>1. IInv => CountsTrue
    <2> SUFFICES ASSUME IInv, NEW s \in Statement
                 PROVE  CountsAccountFor(Execute(Here, s, TRUE))
        BY DEF CountsTrue
    <2>1. Accounts(Here, Execute(Here, s, TRUE))
        BY HereSound, ExecuteAccounts
    <2> QED
        BY <2>1 DEF Accounts, CountsAccountFor
<1> QED
    BY <1>1, Invariance, PTL

\* A DELETE in a reachable graph removes the nodes and edges that its rows bind and,
\* with DETACH, the edges at the nodes; it fails exactly if without DETACH an edge
\* would lose an end (execute_delete, src/src/cypher/mod.rs:834-879).
THEOREM DeletesAreExact == Spec => []DeletesExact
<1>1. IInv => DeletesExact
    <2> SUFFICES ASSUME IInv, NEW s \in Statement, s.kind = "match", s.action.kind = "delete",
                        ActionValid(s), MatchedRows(Here, s).ok
                 PROVE  DeletedFrom(Here, MatchedRows(Here, s).rows, s.action, ExecuteMatch(Here, s))
        BY Zenon DEF DeletesExact
    <2> DEFINE g == Here
               rows == MatchedRows(g, s).rows
               V == NodeVars(s.patterns) \cup RelVars(s.patterns)
               st == Deleted(g, rows, s.action)
    <2>1. MatchParsed(s)
        BY StatementAssumption DEF Parses, Parts
    <2>2. Sound(g)
        BY HereSound
    <2>3. ~s.optional /\ s.action.detach \in BOOLEAN
        BY <2>1 DEF MatchParsed
    <2>4. AreRows(g, rows) /\ Bind(rows, V)
        BY <2>1, <2>2, <2>3, MatchedRowsBind
    <2>5. ToSet(s.action.vars) \subseteq V
        BY DEF ActionValid
    <2> HIDE DEF V, g
    <2>6. ExecuteMatch(g, s) = Outcome(st, << >>, << >>)
        BY DEF ExecuteMatch, ActedOn, Acted, g
    <2> HIDE DEF rows
    <2>7. \A i \in 1..Len(rows) : ToSet(s.action.vars) \subseteq DOMAIN rows[i]
        BY <2>4, <2>5 DEF Bind
    <2>8. DeletedFrom(g, rows, s.action, st)
        BY <2>2, <2>3, <2>4, <2>7, DeletedGraph
    <2> HIDE DEF st
    <2> DEFINE r == ExecuteMatch(g, s)
    <2>9. r.ok = st.ok /\ r.graph = st.graph
        BY <2>6 DEF Outcome
    <2> HIDE DEF r
    <2>10. DeletedFrom(g, rows, s.action, r)
        BY <2>8, <2>9, Zenon DEF DeletedFrom, Gone
    <2> QED
        BY <2>10 DEF g, rows, r
<1> QED
    BY <1>1, Invariance, PTL

---------------------------------------------------------------------------
(* Lists of a set: each of its elements stands for one place of the list *)

Lists(t, L, h) ==
    \E f \in Bijection(1..Len(t), L) : \A i \in 1..Len(t) : t[i] = h[f[i]]

\* What a bijection is, element by element.
LEMMA BijectionMeans ==
    ASSUME NEW S, NEW T, NEW f, f = [x \in S |-> f[x]]
    PROVE  f \in Bijection(S, T) <=>
                /\ \A x \in S : f[x] \in T
                /\ \A x, y \in S : f[x] = f[y] => x = y
                /\ \A z \in T : \E x \in S : f[x] = z
BY DEF Bijection, Injection, Surjection, IsInjective

\* What is not used of a bijection is not needed.
LEMMA BijectionHas ==
    ASSUME NEW S, NEW T, NEW f \in Bijection(S, T)
    PROVE  /\ f = [x \in S |-> f[x]]
           /\ \A x \in S : f[x] \in T
           /\ \A x, y \in S : f[x] = f[y] => x = y
           /\ \A z \in T : \E x \in S : f[x] = z
BY DEF Bijection, Injection, Surjection, IsInjective

\* The same elements under other names.
LEMMA ListsRenamed ==
    ASSUME NEW t, NEW L, NEW h, Lists(t, L, h), NEW M, NEW k, NEW r \in Bijection(L, M),
           \A l \in L : h[l] = k[r[l]]
    PROVE  Lists(t, M, k)
<1> DEFINE D == 1..Len(t)
<1>1. PICK f \in Bijection(D, L) : \A i \in D : t[i] = h[f[i]]
    BY DEF Lists
<1> DEFINE q == [i \in D |-> r[f[i]]]
<1>2. /\ \A i \in D : f[i] \in L
      /\ \A i, j \in D : f[i] = f[j] => i = j
      /\ \A l \in L : \E i \in D : f[i] = l
    BY <1>1, BijectionHas
<1>3. /\ \A l \in L : r[l] \in M
      /\ \A l, m \in L : r[l] = r[m] => l = m
      /\ \A z \in M : \E l \in L : r[l] = z
    BY BijectionHas
<1>4. q = [i \in D |-> q[i]] /\ \A i \in D : q[i] = r[f[i]]
    OBVIOUS
<1> HIDE DEF q, D
<1>5. \A z \in M : \E i \in D : q[i] = z
    BY <1>2, <1>3, <1>4
<1>6. q \in Bijection(D, M)
    BY <1>2, <1>3, <1>4, <1>5, BijectionMeans
<1>7. \A i \in D : t[i] = k[q[i]]
    BY <1>1, <1>2, <1>4
<1> QED
    BY <1>6, <1>7 DEF Lists, D

\* What is kept of a list.
LEMMA ListsKept ==
    ASSUME NEW t, IsList(t), NEW L, NEW h, Lists(t, L, h), NEW S
    PROVE  Lists(Kept(t, S), {l \in L : h[l] \in S}, h)
<1> DEFINE D == 1..Len(t)
           u == Kept(t, S)
           C == 1..Len(u)
           P == {i \in D : t[i] \in S}
           M == {l \in L : h[l] \in S}
<1>1. PICK f \in Bijection(D, L) : \A i \in D : t[i] = h[f[i]]
    BY DEF Lists
<1>2. /\ \A i \in D : f[i] \in L
      /\ \A i, j \in D : f[i] = f[j] => i = j
      /\ \A l \in L : \E i \in D : f[i] = l
    BY <1>1, BijectionHas
<1>a. Takes(u, t, P)
    BY KeptAre, Zenon
<1> HIDE DEF u
<1>3. PICK p \in Bijection(C, P) : \A i \in C : u[i] = t[p[i]]
    BY <1>a, Zenon DEF Takes
<1> HIDE DEF D, C, P, M
<1>4. /\ \A i \in C : p[i] \in P
      /\ \A i, j \in C : p[i] = p[j] => i = j
      /\ \A z \in P : \E i \in C : p[i] = z
    BY <1>3, BijectionHas
<1> DEFINE q == [i \in C |-> f[p[i]]]
<1>5. q = [i \in C |-> q[i]] /\ \A i \in C : q[i] = f[p[i]]
    OBVIOUS
<1>6. /\ \A i \in P : i \in D /\ h[f[i]] \in S /\ f[i] \in M
      /\ \A z \in M : \E i \in P : f[i] = z
    BY <1>1, <1>2 DEF P, M
<1> HIDE DEF q
<1>7. \A i \in C : q[i] \in M
    BY <1>4, <1>5, <1>6
<1>8. \A i, j \in C : q[i] = q[j] => i = j
    BY <1>2, <1>4, <1>5, <1>6
<1>9. \A z \in M : \E i \in C : q[i] = z
    BY <1>4, <1>5, <1>6
<1>10. q \in Bijection(C, M)
    BY <1>5, <1>7, <1>8, <1>9, BijectionMeans
<1>11. \A i \in C : u[i] = h[q[i]]
    BY <1>1, <1>3, <1>4, <1>5, <1>6
<1> QED
    BY <1>10, <1>11 DEF Lists, C, M, u

\* Lists of sets, one for each element of a set that is listed, and the pairs of an
\* element of it and one of its set.
AreLists(s) == IsList(s) /\ \A i \in 1..Len(s) : IsList(s[i])
ListEach(s, f, M, h) == \A i \in 1..Len(s) : Lists(s[i], M[f[i]], h[f[i]])
ArePairs(E, L, M) == \A y : y \in E <=> y = <<y[1], y[2]>> /\ y[1] \in L /\ y[2] \in M[y[1]]
AreValues(val, E, h) == \A y \in E : val[y] = h[y[1]][y[2]]

\* Taken together they list the pairs.
LEMMA ListsFlattened ==
    ASSUME NEW s, AreLists(s), NEW L, NEW f \in Bijection(1..Len(s), L), NEW M, NEW h,
           ListEach(s, f, M, h), NEW E, ArePairs(E, L, M), NEW val, AreValues(val, E, h)
    PROVE  Lists(FlattenSeq(s), E, val)
<1> DEFINE D == 1..Len(s)
           t == FlattenSeq(s)
           C == 1..Len(t)
           P == PlacesIn(s, Len(s))
           Fits(i, b) == /\ b \in Bijection(1..Len(s[i]), M[f[i]])
                         /\ \A j \in 1..Len(s[i]) : s[i][j] = h[f[i]][b[j]]
           B == [i \in D |-> CHOOSE b : Fits(i, b)]
<1>1. /\ \A i \in D : f[i] \in L
      /\ \A i, j \in D : f[i] = f[j] => i = j
      /\ \A l \in L : \E i \in D : f[i] = l
    BY BijectionHas
<1>2. \A i \in D : Fits(i, B[i])
    <2>1. \A i \in D : \E b : Fits(i, b)
        BY DEF Lists, ListEach
    <2> HIDE DEF Fits, D
    <2> QED
        BY <2>1
<1>3. PICK p \in Bijection(C, P) : \A k \in C : t[k] = s[p[k][1]][p[k][2]]
    BY Flattened DEF Flat, AreLists
<1>4. /\ \A k \in C : p[k] \in P
      /\ \A j, k \in C : p[j] = p[k] => j = k
      /\ \A z \in P : \E k \in C : p[k] = z
    BY <1>3, BijectionHas
<1>5. /\ \A x \in P : x = <<x[1], x[2]>> /\ x[1] \in D /\ x[2] \in 1..Len(s[x[1]])
      /\ \A i \in D : \A j \in 1..Len(s[i]) : <<i, j>> \in P
    <2>1. Len(s) \in Nat /\ \A i \in D : Len(s[i]) \in Nat
        BY ListLen DEF AreLists
    <2> QED
        BY <2>1 DEF PlacesIn
<1>6. ASSUME NEW i \in D
      PROVE  /\ \A j \in 1..Len(s[i]) : B[i][j] \in M[f[i]] /\ s[i][j] = h[f[i]][B[i][j]]
             /\ \A j, k \in 1..Len(s[i]) : B[i][j] = B[i][k] => j = k
             /\ \A z \in M[f[i]] : \E j \in 1..Len(s[i]) : B[i][j] = z
    <2>1. /\ B[i] \in Bijection(1..Len(s[i]), M[f[i]])
          /\ \A j \in 1..Len(s[i]) : s[i][j] = h[f[i]][B[i][j]]
        BY <1>2
    <2> DEFINE b == B[i]
               Q == M[f[i]]
               K == 1..Len(s[i])
    <2> HIDE DEF b, Q, K
    <2>2. b \in Bijection(K, Q)
        BY <2>1 DEF b, Q, K
    <2>3. /\ \A j \in K : b[j] \in Q
          /\ \A j, k \in K : b[j] = b[k] => j = k
          /\ \A z \in Q : \E j \in K : b[j] = z
        BY <2>2, BijectionHas
    <2> QED
        BY <2>1, <2>3 DEF b, Q, K
<1>7. /\ \A l \in L : \A m \in M[l] : <<l, m>> \in E
      /\ \A x \in E : x = <<x[1], x[2]>> /\ x[1] \in L /\ x[2] \in M[x[1]] /\ val[x] = h[x[1]][x[2]]
    <2>1. ASSUME NEW l \in L, NEW m \in M[l]
          PROVE  <<l, m>> \in E
        <3> DEFINE y == <<l, m>>
        <3>1. y = <<y[1], y[2]>> /\ y[1] \in L /\ y[2] \in M[y[1]]
            OBVIOUS
        <3> HIDE DEF y
        <3>2. y \in E
            BY <3>1 DEF ArePairs
        <3> QED
            BY <3>2 DEF y
    <2>2. ASSUME NEW x \in E
          PROVE  x = <<x[1], x[2]>> /\ x[1] \in L /\ x[2] \in M[x[1]] /\ val[x] = h[x[1]][x[2]]
        BY Zenon DEF ArePairs, AreValues
    <2> QED
        BY <2>1, <2>2, Zenon
<1> HIDE DEF D, t, C, P, B, Fits
<1> DEFINE q == [k \in C |-> <<f[p[k][1]], B[p[k][1]][p[k][2]]>>]
<1>8. q = [k \in C |-> q[k]] /\ \A k \in C : q[k] = <<f[p[k][1]], B[p[k][1]][p[k][2]]>>
    OBVIOUS
<1> HIDE DEF q
<1>9. ASSUME NEW k \in C
      PROVE  /\ p[k][1] \in D /\ p[k][2] \in 1..Len(s[p[k][1]]) /\ q[k] \in E
             /\ t[k] = val[q[k]]
    <2>1. p[k][1] \in D /\ p[k][2] \in 1..Len(s[p[k][1]])
        BY <1>4, <1>5
    <2>a. f[p[k][1]] \in L
        BY <1>1, <2>1
    <2>b. B[p[k][1]][p[k][2]] \in M[f[p[k][1]]] /\ s[p[k][1]][p[k][2]] = h[f[p[k][1]]][B[p[k][1]][p[k][2]]]
        <3> DEFINE i == p[k][1]
                   j == p[k][2]
        <3>1. i \in D /\ j \in 1..Len(s[i])
            BY <2>1
        <3> HIDE DEF i, j
        <3>2. B[i][j] \in M[f[i]] /\ s[i][j] = h[f[i]][B[i][j]]
            BY <1>6, <3>1
        <3> QED
            BY <3>2 DEF i, j
    <2>c. <<f[p[k][1]], B[p[k][1]][p[k][2]]>> \in E
        BY <1>7, <2>a, <2>b, Zenon
    <2>2. q[k] \in E
        BY <1>8, <2>c, Zenon
    <2>3. q[k][1] = f[p[k][1]] /\ q[k][2] = B[p[k][1]][p[k][2]]
        BY <1>8
    <2>4. t[k] = h[f[p[k][1]]][B[p[k][1]][p[k][2]]]
        BY <1>3, <2>b
    <2>5. val[q[k]] = h[q[k][1]][q[k][2]]
        BY <1>7, <2>2
    <2> QED
        BY <2>1, <2>2, <2>3, <2>4, <2>5
<1>10. ASSUME NEW j \in C, NEW k \in C, q[j] = q[k]
       PROVE  j = k
    <2>1. f[p[j][1]] = f[p[k][1]] /\ B[p[j][1]][p[j][2]] = B[p[k][1]][p[k][2]]
        BY <1>8, <1>10
    <2>2. p[j][1] = p[k][1]
        BY <1>1, <1>9, <2>1
    <2>3. p[j][2] = p[k][2]
        BY <1>6, <1>9, <2>1, <2>2
    <2>4. p[j] = p[k]
        BY <1>4, <1>5, <2>2, <2>3
    <2> QED
        BY <1>4, <2>4
<1>11. ASSUME NEW x \in E
       PROVE  \E k \in C : q[k] = x
    <2>1. x = <<x[1], x[2]>> /\ x[1] \in L /\ x[2] \in M[x[1]]
        BY <1>7
    <2>2. PICK i \in D : f[i] = x[1]
        BY <1>1, <2>1
    <2>3. PICK j \in 1..Len(s[i]) : B[i][j] = x[2]
        BY <1>6, <2>1, <2>2
    <2>4. PICK k \in C : p[k] = <<i, j>>
        BY <1>4, <1>5
    <2>5. p[k][1] = i /\ p[k][2] = j
        BY <2>4
    <2>6. q[k] = <<x[1], x[2]>>
        BY <1>8, <2>2, <2>3, <2>5
    <2> QED
        BY <2>1, <2>6
<1>12. q \in Bijection(C, E)
    BY <1>8, <1>9, <1>10, <1>11, BijectionMeans
<1>13. Lists(t, E, val)
    BY <1>9, <1>12 DEF Lists, C
<1> QED
    BY <1>13 DEF t

\* The elements of a list, each made into something else.
LEMMA ListsMapped ==
    ASSUME NEW t, IsList(t), NEW L, NEW h, Lists(t, L, h), NEW u, IsList(u), Len(u) = Len(t),
           NEW k, \A i \in 1..Len(t) : \A l \in L : t[i] = h[l] => u[i] = k[l]
    PROVE  Lists(u, L, k)
<1>1. PICK f \in Bijection(1..Len(t), L) : \A i \in 1..Len(t) : t[i] = h[f[i]]
    BY DEF Lists
<1>2. \A i \in 1..Len(t) : f[i] \in L
    BY <1>1, BijectionHas
<1>3. \A i \in 1..Len(u) : u[i] = k[f[i]]
    BY <1>1, <1>2
<1> QED
    BY <1>1, <1>3 DEF Lists

---------------------------------------------------------------------------
(* Pairs and rows *)

Standing(var, ref) == Named({<<var, ref>>})
AllNamed(Q) == \A q \in Q : q[1] # NoVar

\* The row of pairs that are unambiguous.
LEMMA RowOfPairs ==
    ASSUME NEW Q, Unambiguous(Q)
    PROVE  /\ RowOf(Q) = [v \in DOMAIN RowOf(Q) |-> RowOf(Q)[v]]
           /\ DOMAIN RowOf(Q) = {q[1] : q \in Q}
           /\ \A q \in Q : RowOf(Q)[q[1]] = q[2]
<1> DEFINE V == {q[1] : q \in Q}
<1>1. RowOf(Q) = [v \in V |-> (CHOOSE q \in Q : q[1] = v)[2]]
    BY DEF RowOf
<1>2. ASSUME NEW q \in Q
      PROVE  RowOf(Q)[q[1]] = q[2]
    <2>1. q[1] \in V
        OBVIOUS
    <2> DEFINE c == CHOOSE x \in Q : x[1] = q[1]
    <2>2. c \in Q /\ c[1] = q[1]
        OBVIOUS
    <2>3. RowOf(Q)[q[1]] = c[2]
        BY <1>1, <2>1
    <2> HIDE DEF c
    <2> QED
        BY <2>2, <2>3 DEF Unambiguous
<1> QED
    BY <1>1, <1>2

\* Fewer pairs, and the part of the row that is theirs.
LEMMA RowOfPart ==
    ASSUME NEW R, Unambiguous(R), NEW Q \in SUBSET R
    PROVE  /\ Unambiguous(Q)
           /\ \A q \in Q : /\ q[1] \in DOMAIN RowOf(Q) /\ q[1] \in DOMAIN RowOf(R)
                           /\ RowOf(Q)[q[1]] = RowOf(R)[q[1]]
<1>1. Unambiguous(Q)
    BY DEF Unambiguous
<1>2. /\ DOMAIN RowOf(Q) = {q[1] : q \in Q} /\ DOMAIN RowOf(R) = {q[1] : q \in R}
      /\ \A q \in Q : RowOf(Q)[q[1]] = q[2]
      /\ \A q \in R : RowOf(R)[q[1]] = q[2]
    BY <1>1, RowOfPairs
<1>3. ASSUME NEW q \in Q
      PROVE  /\ q[1] \in DOMAIN RowOf(Q) /\ q[1] \in DOMAIN RowOf(R)
             /\ RowOf(Q)[q[1]] = RowOf(R)[q[1]]
    <2>1. q \in R
        OBVIOUS
    <2>2. q[1] \in {x[1] : x \in Q} /\ q[1] \in {x[1] : x \in R}
        BY <2>1
    <2> QED
        BY <1>2, <2>1, <2>2
<1> QED
    BY <1>1, <1>3

\* One more variable bound.
LEMMA RowOneMore ==
    ASSUME NEW Q, Unambiguous(Q), AllNamed(Q), NEW var, NEW ref
    PROVE  LET R == Q \cup Standing(var, ref) IN
           /\ AllNamed(R)
           /\ Unambiguous(R) <=> Bindable(RowOf(Q), var, ref)
           /\ Unambiguous(R) => RowOf(R) = Bound(RowOf(Q), var, ref)
<1> DEFINE R == Q \cup Standing(var, ref)
<1>1. /\ RowOf(Q) = [v \in DOMAIN RowOf(Q) |-> RowOf(Q)[v]]
      /\ DOMAIN RowOf(Q) = {q[1] : q \in Q}
      /\ \A q \in Q : RowOf(Q)[q[1]] = q[2]
    BY RowOfPairs
<1>2. CASE var = NoVar
    <2>1. Standing(var, ref) = {}
        BY <1>2 DEF Standing, Named
    <2>2. R = Q
        BY <2>1
    <2> QED
        BY <1>2, <2>2 DEF Bindable, Bound
<1>3. CASE var # NoVar
    <2>1. Standing(var, ref) = {<<var, ref>>}
        BY <1>3 DEF Standing, Named
    <2>2. \A q \in R : q \in Q \/ (q[1] = var /\ q[2] = ref)
        BY <2>1
    <2>3. <<var, ref>> \in R /\ Q \subseteq R
        BY <2>1
    <2> HIDE DEF R
    <2>4. AllNamed(R)
        BY <1>3, <2>2 DEF AllNamed
    <2>5. ASSUME Unambiguous(R)
          PROVE  Bindable(RowOf(Q), var, ref) /\ RowOf(R) = Bound(RowOf(Q), var, ref)
        <3>1. ASSUME NEW q \in Q, q[1] = var
              PROVE  q[2] = ref
            <4>1. q \in R /\ <<var, ref>>[1] = q[1] /\ <<var, ref>>[2] = ref
                BY <2>3, <3>1
            <4> QED
                BY <2>3, <2>5, <4>1 DEF Unambiguous
        <3>2. Bindable(RowOf(Q), var, ref)
            BY <1>1, <3>1 DEF Bindable
        <3> DEFINE b == Bound(RowOf(Q), var, ref)
        <3>3. /\ b = [v \in DOMAIN RowOf(Q) \cup {var} |-> IF v = var THEN ref ELSE RowOf(Q)[v]]
            BY <1>3 DEF Bound
        <3>4. /\ RowOf(R) = [v \in DOMAIN RowOf(R) |-> RowOf(R)[v]]
              /\ DOMAIN RowOf(R) = {q[1] : q \in R}
              /\ \A q \in R : RowOf(R)[q[1]] = q[2]
            BY <2>5, RowOfPairs
        <3>5. {q[1] : q \in R} = {q[1] : q \in Q} \cup {var}
            BY <2>2, <2>3
        <3>6. ASSUME NEW v \in DOMAIN RowOf(R)
              PROVE  RowOf(R)[v] = b[v]
            <4>1. PICK q \in R : q[1] = v
                BY <3>4
            <4>2. RowOf(R)[v] = q[2] /\ v \in DOMAIN RowOf(Q) \cup {var}
                BY <1>1, <3>4, <3>5, <4>1
            <4>3. CASE v = var
                BY <2>2, <3>1, <3>3, <4>1, <4>2, <4>3
            <4>4. CASE v # var
                <5>1. q \in Q
                    BY <2>2, <4>1, <4>4
                <5>2. b[v] = RowOf(Q)[v]
                    BY <3>3, <4>2, <4>4
                <5> QED
                    BY <1>1, <4>1, <4>2, <5>1, <5>2
            <4> QED
                BY <4>3, <4>4
        <3>7. DOMAIN b = DOMAIN RowOf(R) /\ b = [v \in DOMAIN b |-> b[v]]
            BY <1>1, <3>3, <3>4, <3>5
        <3> HIDE DEF b
        <3>8. RowOf(R) = b
            BY <3>4, <3>6, <3>7
        <3> QED
            BY <3>2, <3>8 DEF b
    <2>6. ASSUME Bindable(RowOf(Q), var, ref)
          PROVE  Unambiguous(R)
        <3>1. \A q \in Q : q[1] = var => q[2] = ref
            BY <1>1, <1>3, <2>6 DEF Bindable
        <3>2. SUFFICES ASSUME NEW q \in R, NEW r \in R, q[1] = r[1]
                       PROVE  q[2] = r[2]
            BY DEF Unambiguous
        <3> QED
            BY <2>2, <3>1, <3>2 DEF Unambiguous
    <2> QED
        BY <2>4, <2>5, <2>6 DEF R
<1> QED
    BY <1>2, <1>3

\* Two rows that bind some variables to the same.
SameFor(a, b, V) ==
    \A v \in V : (v \in DOMAIN a <=> v \in DOMAIN b) /\ (v \in DOMAIN a => a[v] = b[v])

\* Pairs that have something for each of the variables.
Have(Q, V) == \A v \in V : v = NoVar \/ \E q \in Q : q[1] = v

\* The row of some pairs and of more.
LEMMA SameForMore ==
    ASSUME NEW R, Unambiguous(R), AllNamed(R), NEW Q \in SUBSET R, NEW V, Have(Q, V)
    PROVE  SameFor(RowOf(Q), RowOf(R), V)
<1>1. Unambiguous(Q)
    BY DEF Unambiguous
<1>2. DOMAIN RowOf(Q) = {q[1] : q \in Q} /\ DOMAIN RowOf(R) = {q[1] : q \in R}
    BY <1>1, RowOfPairs
<1>3. SUFFICES ASSUME NEW v \in V
               PROVE  /\ v \in DOMAIN RowOf(Q) <=> v \in DOMAIN RowOf(R)
                      /\ v \in DOMAIN RowOf(Q) => RowOf(Q)[v] = RowOf(R)[v]
    BY DEF SameFor
<1>4. CASE v = NoVar
    BY <1>2, <1>4 DEF AllNamed
<1>5. CASE \E q \in Q : q[1] = v
    BY <1>2, <1>5, RowOfPart
<1> QED
    BY <1>4, <1>5 DEF Have

\* An expression asks a row for its variables only.
LEMMA EvalSame ==
    ASSUME NEW g, NEW a, NEW b, NEW expr, SameFor(a, b, VarsOf(expr))
    PROVE  Eval(g, a, expr) = Eval(g, b, expr)
<1>1. CASE expr[1] = "property"
    <2>1. SameFor(a, b, {expr[2]})
        BY <1>1 DEF VarsOf
    <2>2. PropertyOf(g, a, expr[2], expr[3]) = PropertyOf(g, b, expr[2], expr[3])
        BY <2>1 DEF SameFor, PropertyOf
    <2> QED
        BY <1>1, <2>2 DEF Eval
<1>2. CASE expr[1] = "id"
    <2>1. SameFor(a, b, {expr[2]})
        BY <1>2 DEF VarsOf
    <2> QED
        BY <1>2, <2>1 DEF SameFor, Eval
<1>3. CASE expr[1] = "variable"
    <2>1. SameFor(a, b, {expr[2]})
        BY <1>3 DEF VarsOf
    <2> QED
        BY <1>3, <2>1 DEF SameFor, Eval
<1>4. CASE expr[1] \notin {"property", "id", "variable"}
    BY <1>4 DEF Eval
<1> QED
    BY <1>1, <1>2, <1>3, <1>4

\* So do the properties of a pattern.
LEMMA VerdictsSame ==
    ASSUME NEW g, NEW a, NEW b, NEW pattern, SameFor(a, b, Uses(pattern.props))
    PROVE  /\ \A n : NodeVerdict(g, a, pattern, n) = NodeVerdict(g, b, pattern, n)
           /\ \A e : RelVerdict(g, a, pattern, e) = RelVerdict(g, b, pattern, e)
<1>1. ASSUME NEW k \in DOMAIN pattern.props
      PROVE  Eval(g, a, pattern.props[k][2]) = Eval(g, b, pattern.props[k][2])
    <2>1. VarsOf(pattern.props[k][2]) \subseteq Uses(pattern.props)
        BY DEF Uses
    <2>2. SameFor(a, b, VarsOf(pattern.props[k][2]))
        BY <2>1 DEF SameFor
    <2> QED
        BY <2>2, EvalSame
<1>2. ASSUME NEW n
      PROVE  NodeVerdict(g, a, pattern, n) = NodeVerdict(g, b, pattern, n)
    <2>1. [k \in DOMAIN pattern.props |->
                Compared(NodeValue(n, pattern.props[k][1]), Eval(g, a, pattern.props[k][2]))]
            = [k \in DOMAIN pattern.props |->
                Compared(NodeValue(n, pattern.props[k][1]), Eval(g, b, pattern.props[k][2]))]
        BY <1>1
    <2> QED
        BY <2>1 DEF NodeVerdict
<1>3. ASSUME NEW e
      PROVE  RelVerdict(g, a, pattern, e) = RelVerdict(g, b, pattern, e)
    <2>1. [k \in DOMAIN pattern.props |->
                Compared(RelValue(e, pattern.props[k][1]), Eval(g, a, pattern.props[k][2]))]
            = [k \in DOMAIN pattern.props |->
                Compared(RelValue(e, pattern.props[k][1]), Eval(g, b, pattern.props[k][2]))]
        BY <1>1
    <2> QED
        BY <2>1 DEF RelVerdict
<1> QED
    BY <1>2, <1>3

---------------------------------------------------------------------------
(* A pattern laid as far as some relationship *)

PairsTo(p, k, ns, es) ==
    Named({<<p.nodes[j].var, NodeRef(ns[j])>> : j \in 1..(k + 1)}
            \cup {<<p.rels[j].var, RelRef(es[j])>> : j \in 1..k})

LeadsTo(g, p, k, ns, es) ==
    \A j \in 1..k : Leads(RecordWith(g.edges, es[j]), p.rels[j].direction, ns[j], ns[j + 1])

NodesFit(g, p, k, row, ns) ==
    \A j \in 1..(k + 1) : NodeVerdict(g, row, p.nodes[j], RecordWith(g.nodes, ns[j])) = "match"
RelsFit(g, p, k, row, es) ==
    \A j \in 1..k : RelVerdict(g, row, p.rels[j], RecordWith(g.edges, es[j])) = "match"

LiesTo(g, p, k, ns, es) ==
    /\ LeadsTo(g, p, k, ns, es)
    /\ Unambiguous(PairsTo(p, k, ns, es))
    /\ NodesFit(g, p, k, RowOf(PairsTo(p, k, ns, es)), ns)
    /\ RelsFit(g, p, k, RowOf(PairsTo(p, k, ns, es)), es)

\* As far as the last one it is laid as a whole.
LEMMA LiesWhole ==
    ASSUME NEW g, NEW p, PathParsed(p), NEW ns, NEW es
    PROVE  /\ Named(Pairs(p, ns, es)) = PairsTo(p, Len(p.rels), ns, es)
           /\ Lies(g, p, ns, es) <=> LiesTo(g, p, Len(p.rels), ns, es)
<1> DEFINE m == Len(p.rels)
<1>1. /\ DOMAIN p.nodes = 1..(m + 1) /\ DOMAIN p.rels = 1..m
      /\ \A k \in 1..m : p.rels[k].direction \in {"out", "in", "both"}
    BY PathLists
<1> HIDE DEF m
<1>2. Named(Pairs(p, ns, es)) = PairsTo(p, m, ns, es)
    BY <1>1 DEF Pairs, PairsTo
<1>3. ASSUME NEW k \in 1..m
      PROVE  LET e == RecordWith(g.edges, es[k]) IN
             (\/ p.rels[k].direction # "in" /\ <<e.src, e.dst>> = <<ns[k], ns[k + 1]>>
              \/ p.rels[k].direction # "out" /\ <<e.dst, e.src>> = <<ns[k], ns[k + 1]>>)
             <=> Leads(e, p.rels[k].direction, ns[k], ns[k + 1])
    <2>1. p.rels[k].direction \in {"out", "in", "both"}
        BY <1>1
    <2> QED
        BY <2>1 DEF Leads
<1> DEFINE Led(k) == LET e == RecordWith(g.edges, es[k]) IN
             (\/ p.rels[k].direction # "in" /\ <<e.src, e.dst>> = <<ns[k], ns[k + 1]>>
              \/ p.rels[k].direction # "out" /\ <<e.dst, e.src>> = <<ns[k], ns[k + 1]>>)
           row == RowOf(PairsTo(p, m, ns, es))
<1>4. Lies(g, p, ns, es) <=>
        /\ \A k \in DOMAIN p.rels : Led(k)
        /\ Unambiguous(PairsTo(p, m, ns, es))
        /\ \A k \in DOMAIN p.nodes :
                NodeVerdict(g, row, p.nodes[k], RecordWith(g.nodes, ns[k])) = "match"
        /\ \A k \in DOMAIN p.rels :
                RelVerdict(g, row, p.rels[k], RecordWith(g.edges, es[k])) = "match"
    BY <1>2, Zenon DEF Lies
<1>5. (\A k \in 1..m : Led(k)) <=> LeadsTo(g, p, m, ns, es)
    BY <1>3, Zenon DEF LeadsTo
<1> HIDE DEF Led, row
<1>6. Lies(g, p, ns, es) <=> LiesTo(g, p, m, ns, es)
    BY <1>1, <1>4, <1>5, Zenon DEF LiesTo, NodesFit, RelsFit, row
<1> QED
    BY <1>2, <1>6 DEF m

\* The numbers up to one more.
LEMMA OneMore ==
    ASSUME NEW k \in Nat, k # 0
    PROVE  /\ k - 1 \in Nat /\ (k - 1) + 1 = k
           /\ 1..k = 1..(k - 1) \cup {k} /\ 1..(k + 1) = 1..((k - 1) + 1) \cup {k + 1}
           /\ 1 \in 1..k
OBVIOUS

\* The pairs as far as one relationship more.
LEMMA PairsOneMore ==
    ASSUME NEW p, NEW k \in Nat, k # 0, NEW ns, NEW es
    PROVE  /\ AllNamed(PairsTo(p, k - 1, ns, es)) /\ AllNamed(PairsTo(p, k, ns, es))
           /\ PairsTo(p, k, ns, es) =
                (PairsTo(p, k - 1, ns, es) \cup Standing(p.rels[k].var, RelRef(es[k])))
                    \cup Standing(p.nodes[k + 1].var, NodeRef(ns[k + 1]))
<1> DEFINE N(K) == {<<p.nodes[j].var, NodeRef(ns[j])>> : j \in K}
           E(K) == {<<p.rels[j].var, RelRef(es[j])>> : j \in K}
<1>1. /\ (k - 1) + 1 = k
      /\ 1..k = 1..(k - 1) \cup {k} /\ 1..(k + 1) = 1..((k - 1) + 1) \cup {k + 1}
    BY OneMore
<1>2. N(1..(k + 1)) = N(1..((k - 1) + 1)) \cup {<<p.nodes[k + 1].var, NodeRef(ns[k + 1])>>}
    BY <1>1
<1>3. E(1..k) = E(1..(k - 1)) \cup {<<p.rels[k].var, RelRef(es[k])>>}
    BY <1>1
<1>4. /\ PairsTo(p, k, ns, es) = Named(N(1..(k + 1)) \cup E(1..k))
      /\ PairsTo(p, k - 1, ns, es) = Named(N(1..((k - 1) + 1)) \cup E(1..(k - 1)))
    BY DEF PairsTo
<1> HIDE DEF N, E
<1>5. \A A, B : Named(A \cup B) = Named(A) \cup Named(B)
    BY DEF Named
<1>6. \A A : AllNamed(Named(A))
    BY DEF AllNamed, Named
<1> DEFINE a == N(1..((k - 1) + 1))
           b == E(1..(k - 1))
           c == {<<p.nodes[k + 1].var, NodeRef(ns[k + 1])>>}
           d == {<<p.rels[k].var, RelRef(es[k])>>}
<1>7. /\ PairsTo(p, k, ns, es) = Named((a \cup c) \cup (b \cup d))
      /\ PairsTo(p, k - 1, ns, es) = Named(a \cup b)
      /\ Standing(p.rels[k].var, RelRef(es[k])) = Named(d)
      /\ Standing(p.nodes[k + 1].var, NodeRef(ns[k + 1])) = Named(c)
    BY <1>2, <1>3, <1>4 DEF Standing
<1> HIDE DEF a, b, c, d
<1>8. (a \cup c) \cup (b \cup d) = ((a \cup b) \cup d) \cup c
    OBVIOUS
<1>9. Named(((a \cup b) \cup d) \cup c) = (Named(a \cup b) \cup Named(d)) \cup Named(c)
    <2>1. Named(((a \cup b) \cup d) \cup c) = Named((a \cup b) \cup d) \cup Named(c)
        BY <1>5, Zenon
    <2>2. Named((a \cup b) \cup d) = Named(a \cup b) \cup Named(d)
        BY <1>5, Zenon
    <2> QED
        BY <2>1, <2>2
<1> QED
    BY <1>6, <1>7, <1>8, <1>9

\* What a property of a pattern asks about is bound before.
LEMMA AsksBefore ==
    ASSUME NEW p, PathParsed(p), LeftToRightIn(p), NEW k \in 0..Len(p.rels), NEW ns, NEW es
    PROVE  /\ \A j \in 1..(k + 1) : Have(PairsTo(p, k, ns, es), Uses(p.nodes[j].props))
           /\ \A j \in 1..k : Have(PairsTo(p, k, ns, es), Uses(p.rels[j].props))
<1>1. /\ DOMAIN p.nodes = 1..(Len(p.rels) + 1) /\ DOMAIN p.rels = 1..Len(p.rels)
      /\ Len(p.rels) \in Nat /\ k \in Nat /\ k <= Len(p.rels)
    BY PathLists
<1>a. /\ \A j \in DOMAIN p.nodes : Uses(p.nodes[j].props) \subseteq
                {p.nodes[i].var : i \in 1..j} \cup {p.rels[i].var : i \in 1..(j - 1)}
      /\ \A j \in DOMAIN p.rels : Uses(p.rels[j].props) \subseteq
                {p.nodes[i].var : i \in 1..j} \cup {p.rels[i].var : i \in 1..j}
    BY Zenon DEF LeftToRightIn
<1> DEFINE Q == PairsTo(p, k, ns, es)
<1>2. ASSUME NEW j \in 1..(k + 1), p.nodes[j].var # NoVar
      PROVE  \E q \in Q : q[1] = p.nodes[j].var
    <2>1. <<p.nodes[j].var, NodeRef(ns[j])>> \in Q
        BY <1>2 DEF PairsTo, Named
    <2> QED
        BY <2>1
<1>3. ASSUME NEW j \in 1..k, p.rels[j].var # NoVar
      PROVE  \E q \in Q : q[1] = p.rels[j].var
    <2>1. <<p.rels[j].var, RelRef(es[j])>> \in Q
        BY <1>3 DEF PairsTo, Named
    <2> QED
        BY <2>1
<1> HIDE DEF Q
<1>4. ASSUME NEW j \in 1..(k + 1), NEW v \in Uses(p.nodes[j].props)
      PROVE  v = NoVar \/ \E q \in Q : q[1] = v
    <2>1. v \in {p.nodes[i].var : i \in 1..j} \cup {p.rels[i].var : i \in 1..(j - 1)}
        <3>1. j \in DOMAIN p.nodes
            BY <1>1
        <3> QED
            BY <1>a, <3>1
    <2>2. 1..j \subseteq 1..(k + 1) /\ 1..(j - 1) \subseteq 1..k
        BY <1>1
    <2> QED
        BY <1>2, <1>3, <2>1, <2>2
<1>5. ASSUME NEW j \in 1..k, NEW v \in Uses(p.rels[j].props)
      PROVE  v = NoVar \/ \E q \in Q : q[1] = v
    <2>1. v \in {p.nodes[i].var : i \in 1..j} \cup {p.rels[i].var : i \in 1..j}
        <3>1. j \in DOMAIN p.rels
            BY <1>1
        <3> QED
            BY <1>a, <3>1
    <2>2. 1..j \subseteq 1..(k + 1) /\ 1..j \subseteq 1..k
        BY <1>1
    <2> QED
        BY <1>2, <1>3, <2>1, <2>2
<1> QED
    BY <1>4, <1>5 DEF Have, Q

\* What an edge is asked about is bound before or is the edge itself.
LEMMA EdgeAsksBefore ==
    ASSUME NEW p, PathParsed(p), LeftToRightIn(p), NEW k \in 1..Len(p.rels), NEW ns, NEW es
    PROVE  Have(PairsTo(p, k - 1, ns, es) \cup Standing(p.rels[k].var, RelRef(es[k])),
                Uses(p.rels[k].props))
<1>1. /\ DOMAIN p.nodes = 1..(Len(p.rels) + 1) /\ DOMAIN p.rels = 1..Len(p.rels)
      /\ Len(p.rels) \in Nat
    BY PathLists
<1>2. k \in Nat /\ k # 0 /\ (k - 1) + 1 = k /\ 1..k = 1..(k - 1) \cup {k}
    BY <1>1
<1> DEFINE Q == PairsTo(p, k - 1, ns, es)
           R == Standing(p.rels[k].var, RelRef(es[k]))
<1>b. SUFFICES ASSUME NEW v \in Uses(p.rels[k].props)
               PROVE  v = NoVar \/ \E q \in Q \cup R : q[1] = v
    BY DEF Have
<1>a. \A j \in DOMAIN p.rels : Uses(p.rels[j].props) \subseteq
            {p.nodes[i].var : i \in 1..j} \cup {p.rels[i].var : i \in 1..j}
    BY Zenon DEF LeftToRightIn
<1>3. v \in {p.nodes[i].var : i \in 1..k} \cup {p.rels[i].var : i \in 1..k}
    <2>1. k \in DOMAIN p.rels
        BY <1>1
    <2> QED
        BY <1>a, <2>1
<1>4. ASSUME NEW i \in 1..k, v = p.nodes[i].var, v # NoVar
      PROVE  \E q \in Q : q[1] = v
    <2>1. <<p.nodes[i].var, NodeRef(ns[i])>> \in Q
        BY <1>2, <1>4 DEF PairsTo, Named
    <2> QED
        BY <1>4, <2>1
<1>5. ASSUME NEW i \in 1..(k - 1), v = p.rels[i].var, v # NoVar
      PROVE  \E q \in Q : q[1] = v
    <2>1. <<p.rels[i].var, RelRef(es[i])>> \in Q
        BY <1>5 DEF PairsTo, Named
    <2> QED
        BY <1>5, <2>1
<1>6. ASSUME v = p.rels[k].var, v # NoVar
      PROVE  \E q \in R : q[1] = v
    <2>1. <<p.rels[k].var, RelRef(es[k])>> \in R
        BY <1>6 DEF Standing, Named
    <2> QED
        BY <1>6, <2>1
<1> HIDE DEF Q, R
<1>7. CASE \E i \in 1..k : v = p.nodes[i].var
    BY <1>4, <1>7
<1>8. CASE \E i \in 1..k : v = p.rels[i].var
    BY <1>2, <1>5, <1>6, <1>8
<1> QED
    BY <1>3, <1>7, <1>8

\* What it takes to fit through an edge.
LEMMA ThroughEdgeFits ==
    ASSUME NEW g, NEW p, NEW k, NEW e, NEW far, NEW row
    PROVE  LET rel      == p.rels[k]
               node     == p.nodes[k + 1]
               withRel  == Bound(row, rel.var, RelRef(e.id))
               withNode == Bound(withRel, node.var, NodeRef(far))
               next     == ThroughEdge(g, p, k, e, far, row)
           IN  /\ next.fits = "match" <=>
                    /\ Bindable(row, rel.var, RelRef(e.id))
                    /\ RelVerdict(g, withRel, rel, e) = "match"
                    /\ Bindable(withRel, node.var, NodeRef(far))
                    /\ NodeVerdict(g, withNode, node, RecordWith(g.nodes, far)) = "match"
               /\ next = Way(next.fits, withNode, far)
<1> DEFINE rel      == p.rels[k]
           node     == p.nodes[k + 1]
           withRel  == Bound(row, rel.var, RelRef(e.id))
           withNode == Bound(withRel, node.var, NodeRef(far))
           relFits  == RelVerdict(g, withRel, rel, e)
           nodeFits == NodeVerdict(g, withNode, node, RecordWith(g.nodes, far))
           first    == Bindable(row, rel.var, RelRef(e.id))
           second   == Bindable(withRel, node.var, NodeRef(far))
           verdict  == IF ~first THEN "differ"
                       ELSE IF relFits # "match" THEN relFits
                       ELSE IF ~second THEN "differ"
                       ELSE nodeFits
           next     == ThroughEdge(g, p, k, e, far, row)
<1>1. next = Way(verdict, withNode, far)
    BY DEF ThroughEdge
<1> HIDE DEF first, second, relFits, nodeFits, withNode, next
<1>2. verdict = "match" <=> first /\ relFits = "match" /\ second /\ nodeFits = "match"
    OBVIOUS
<1> HIDE DEF verdict
<1>3. next.fits = verdict
    BY <1>1, WayFields
<1> QED
    BY <1>1, <1>2, <1>3 DEF first, second, relFits, nodeFits, withNode, next

\* Laid as far as an edge is laid as far as the one before, and the edge fits.
LEMMA LiesOneMore ==
    ASSUME NEW g, NEW p, PathParsed(p), LeftToRightIn(p), NEW k \in 1..Len(p.rels),
           NEW ns, NEW es, RecordWith(g.edges, es[k]).id = es[k]
    PROVE  LET e    == RecordWith(g.edges, es[k])
               next == ThroughEdge(g, p, k, e, ns[k + 1], RowOf(PairsTo(p, k - 1, ns, es)))
           IN  /\ LiesTo(g, p, k, ns, es) <=>
                    /\ LiesTo(g, p, k - 1, ns, es)
                    /\ Leads(e, p.rels[k].direction, ns[k], ns[k + 1])
                    /\ next.fits = "match"
               /\ LiesTo(g, p, k, ns, es) =>
                    next = Way("match", RowOf(PairsTo(p, k, ns, es)), ns[k + 1])
<1>a. k - 1 \in 0..Len(p.rels)
    BY PathLists
<1>b. /\ \A j \in 1..((k - 1) + 1) : Have(PairsTo(p, k - 1, ns, es), Uses(p.nodes[j].props))
      /\ \A j \in 1..(k - 1) : Have(PairsTo(p, k - 1, ns, es), Uses(p.rels[j].props))
    BY <1>a, AsksBefore
<1>c. Have(PairsTo(p, k - 1, ns, es) \cup Standing(p.rels[k].var, RelRef(es[k])),
           Uses(p.rels[k].props))
    BY EdgeAsksBefore
<1> DEFINE rel  == p.rels[k]
           node == p.nodes[k + 1]
           e    == RecordWith(g.edges, es[k])
           far  == ns[k + 1]
           Q    == PairsTo(p, k - 1, ns, es)
           Q1   == Q \cup Standing(rel.var, RelRef(es[k]))
           Q2   == PairsTo(p, k, ns, es)
           withRel  == Bound(RowOf(Q), rel.var, RelRef(e.id))
           withNode == Bound(withRel, node.var, NodeRef(far))
           next == ThroughEdge(g, p, k, e, far, RowOf(Q))
           led  == Leads(e, rel.direction, ns[k], far)
<1>1. /\ Len(p.rels) \in Nat /\ k \in Nat /\ k # 0 /\ k - 1 \in 0..Len(p.rels) /\ k \in 0..Len(p.rels)
      /\ (k - 1) + 1 = k /\ 1..k = 1..(k - 1) \cup {k}
      /\ 1..(k + 1) = 1..((k - 1) + 1) \cup {k + 1} /\ k \in 1..k /\ k + 1 \in 1..(k + 1)
    BY PathLists
<1>2. /\ AllNamed(Q) /\ AllNamed(Q2)
      /\ Q2 = Q1 \cup Standing(node.var, NodeRef(far))
    <2>1. k \in Nat /\ k # 0
        BY <1>1
    <2> QED
        BY <2>1, PairsOneMore, Zenon
<1>3. e.id = es[k]
    OBVIOUS
<1>4. /\ next.fits = "match" <=>
            /\ Bindable(RowOf(Q), rel.var, RelRef(e.id))
            /\ RelVerdict(g, withRel, rel, e) = "match"
            /\ Bindable(withRel, node.var, NodeRef(far))
            /\ NodeVerdict(g, withNode, node, RecordWith(g.nodes, far)) = "match"
      /\ next = Way(next.fits, withNode, far)
    BY ThroughEdgeFits
<1>5. Unambiguous(Q) =>
        /\ AllNamed(Q1)
        /\ Unambiguous(Q1) <=> Bindable(RowOf(Q), rel.var, RelRef(e.id))
        /\ Unambiguous(Q1) => RowOf(Q1) = withRel
    BY <1>2, <1>3, RowOneMore
<1>6. Unambiguous(Q) /\ Unambiguous(Q1) =>
        /\ Unambiguous(Q2) <=> Bindable(withRel, node.var, NodeRef(far))
        /\ Unambiguous(Q2) => RowOf(Q2) = withNode
    BY <1>2, <1>5, RowOneMore
<1>7. Q \subseteq Q1 /\ Q1 \subseteq Q2
    BY <1>2
<1>8. Unambiguous(Q2) => Unambiguous(Q1) /\ Unambiguous(Q)
    BY <1>7, RowOfPart
<1>9. /\ \A j \in 1..((k - 1) + 1) : Have(Q, Uses(p.nodes[j].props))
      /\ \A j \in 1..(k - 1) : Have(Q, Uses(p.rels[j].props))
      /\ Have(Q1, Uses(rel.props))
    BY <1>b, <1>c
<1>10. /\ LeadsTo(g, p, k, ns, es) <=> LeadsTo(g, p, k - 1, ns, es) /\ led
    BY <1>1 DEF LeadsTo
<1>11. /\ \A row : NodesFit(g, p, k, row, ns) <=>
                NodesFit(g, p, k - 1, row, ns)
                    /\ NodeVerdict(g, row, node, RecordWith(g.nodes, far)) = "match"
       /\ \A row : RelsFit(g, p, k, row, es) <=>
                RelsFit(g, p, k - 1, row, es) /\ RelVerdict(g, row, rel, e) = "match"
    BY <1>1 DEF NodesFit, RelsFit
<1> HIDE DEF Q, Q1, Q2, withRel, withNode, next, led, e, far, rel, node
<1>12. ASSUME Unambiguous(Q2)
       PROVE  /\ NodesFit(g, p, k - 1, RowOf(Q2), ns) <=> NodesFit(g, p, k - 1, RowOf(Q), ns)
              /\ RelsFit(g, p, k - 1, RowOf(Q2), es) <=> RelsFit(g, p, k - 1, RowOf(Q), es)
              /\ RelVerdict(g, RowOf(Q2), rel, e) = RelVerdict(g, RowOf(Q1), rel, e)
    <2>1. ASSUME NEW j \in 1..((k - 1) + 1)
          PROVE  \A n : NodeVerdict(g, RowOf(Q), p.nodes[j], n) = NodeVerdict(g, RowOf(Q2), p.nodes[j], n)
        <3>1. SameFor(RowOf(Q), RowOf(Q2), Uses(p.nodes[j].props))
            BY <1>2, <1>7, <1>9, <1>12, SameForMore
        <3> DEFINE pattern == p.nodes[j]
                   row == RowOf(Q)
                   row2 == RowOf(Q2)
        <3> HIDE DEF pattern, row, row2
        <3>2. SameFor(row, row2, Uses(pattern.props))
            BY <3>1 DEF pattern, row, row2
        <3>3. \A n : NodeVerdict(g, row, pattern, n) = NodeVerdict(g, row2, pattern, n)
            BY <3>2, VerdictsSame
        <3> QED
            BY <3>3 DEF pattern, row, row2
    <2>2. ASSUME NEW j \in 1..(k - 1)
          PROVE  \A x : RelVerdict(g, RowOf(Q), p.rels[j], x) = RelVerdict(g, RowOf(Q2), p.rels[j], x)
        <3>1. SameFor(RowOf(Q), RowOf(Q2), Uses(p.rels[j].props))
            BY <1>2, <1>7, <1>9, <1>12, SameForMore
        <3> DEFINE pattern == p.rels[j]
                   row == RowOf(Q)
                   row2 == RowOf(Q2)
        <3> HIDE DEF pattern, row, row2
        <3>2. SameFor(row, row2, Uses(pattern.props))
            BY <3>1 DEF pattern, row, row2
        <3>3. \A x : RelVerdict(g, row, pattern, x) = RelVerdict(g, row2, pattern, x)
            BY <3>2, VerdictsSame
        <3> QED
            BY <3>3 DEF pattern, row, row2
    <2>3. SameFor(RowOf(Q1), RowOf(Q2), Uses(rel.props))
        BY <1>2, <1>7, <1>9, <1>12, SameForMore
    <2>4. RelVerdict(g, RowOf(Q1), rel, e) = RelVerdict(g, RowOf(Q2), rel, e)
        BY <2>3, VerdictsSame
    <2> QED
        BY <2>1, <2>2, <2>4, Zenon DEF NodesFit, RelsFit
<1>13. LiesTo(g, p, k, ns, es) <=>
            /\ LeadsTo(g, p, k, ns, es) /\ Unambiguous(Q2)
            /\ NodesFit(g, p, k, RowOf(Q2), ns) /\ RelsFit(g, p, k, RowOf(Q2), es)
    BY DEF LiesTo, Q2
<1>14. LiesTo(g, p, k - 1, ns, es) <=>
            /\ LeadsTo(g, p, k - 1, ns, es) /\ Unambiguous(Q)
            /\ NodesFit(g, p, k - 1, RowOf(Q), ns) /\ RelsFit(g, p, k - 1, RowOf(Q), es)
    BY DEF LiesTo, Q
<1>15. LiesTo(g, p, k, ns, es) <=> LiesTo(g, p, k - 1, ns, es) /\ led /\ next.fits = "match"
    <2>1. CASE Unambiguous(Q2)
        <3>1. Unambiguous(Q) /\ Unambiguous(Q1) /\ RowOf(Q1) = withRel /\ RowOf(Q2) = withNode
            BY <1>5, <1>6, <1>8, <2>1
        <3>2. RelVerdict(g, RowOf(Q2), rel, e) = RelVerdict(g, withRel, rel, e)
            BY <1>12, <2>1, <3>1
        <3>3. next.fits = "match" <=>
                /\ RelVerdict(g, RowOf(Q2), rel, e) = "match"
                /\ NodeVerdict(g, RowOf(Q2), node, RecordWith(g.nodes, far)) = "match"
            BY <1>4, <1>5, <1>6, <2>1, <3>1, <3>2
        <3> QED
            BY <1>10, <1>11, <1>12, <1>13, <1>14, <2>1, <3>1, <3>3
    <2>2. CASE ~Unambiguous(Q2)
        <3>1. ~(Unambiguous(Q) /\ next.fits = "match")
            BY <1>4, <1>5, <1>6, <2>2
        <3> QED
            BY <1>13, <1>14, <2>2, <3>1
    <2> QED
        BY <2>1, <2>2
<1>16. ASSUME LiesTo(g, p, k, ns, es)
       PROVE  next = Way("match", RowOf(Q2), far)
    <2>1. Unambiguous(Q2) /\ next.fits = "match"
        BY <1>13, <1>15, <1>16
    <2>2. RowOf(Q2) = withNode
        BY <1>5, <1>6, <1>8, <2>1
    <2> QED
        BY <1>4, <2>1, <2>2
<1> QED
    BY <1>15, <1>16 DEF Q, Q2, next, led, e, far, rel

---------------------------------------------------------------------------
(* The ways found are the layings so far *)

LayingsTo(g, p, k) ==
    {l \in [1..(k + 1) -> IdsOf(g.nodes)] \X [1..k -> IdsOf(g.edges)] : LiesTo(g, p, k, l[1], l[2])}

WaysTo(g, p, k) ==
    [l \in LayingsTo(g, p, k) |-> Way("match", RowOf(PairsTo(p, k, l[1], l[2])), l[1][k + 1])]

\* The same records, as far as the k-th relationship.
SameTo(k, ns, es, ms, ds) ==
    (\A j \in 1..(k + 1) : ns[j] = ms[j]) /\ (\A j \in 1..k : es[j] = ds[j])

\* What is laid as far as some relationship does not look further.
LEMMA LiesLooks ==
    ASSUME NEW g, NEW p, NEW k \in Nat, NEW ns, NEW es, NEW ms, NEW ds,
           SameTo(k, ns, es, ms, ds)
    PROVE  /\ PairsTo(p, k, ns, es) = PairsTo(p, k, ms, ds)
           /\ LiesTo(g, p, k, ns, es) <=> LiesTo(g, p, k, ms, ds)
<1> USE DEF SameTo
<1>1. PairsTo(p, k, ns, es) = PairsTo(p, k, ms, ds)
    <2>1. {<<p.nodes[j].var, NodeRef(ns[j])>> : j \in 1..(k + 1)}
            = {<<p.nodes[j].var, NodeRef(ms[j])>> : j \in 1..(k + 1)}
        OBVIOUS
    <2>2. {<<p.rels[j].var, RelRef(es[j])>> : j \in 1..k}
            = {<<p.rels[j].var, RelRef(ds[j])>> : j \in 1..k}
        OBVIOUS
    <2> QED
        BY <2>1, <2>2 DEF PairsTo
<1>2. LeadsTo(g, p, k, ns, es) <=> LeadsTo(g, p, k, ms, ds)
    <2>1. \A j \in 1..k : j \in 1..(k + 1) /\ j + 1 \in 1..(k + 1)
        OBVIOUS
    <2>2. \A j \in 1..k : ns[j] = ms[j] /\ ns[j + 1] = ms[j + 1] /\ es[j] = ds[j]
        BY <2>1
    <2> QED
        BY <2>2, Zenon DEF LeadsTo
<1>3. \A row : NodesFit(g, p, k, row, ns) <=> NodesFit(g, p, k, row, ms)
    BY Zenon DEF NodesFit
<1>4. \A row : RelsFit(g, p, k, row, es) <=> RelsFit(g, p, k, row, ds)
    BY Zenon DEF RelsFit
<1> QED
    BY <1>1, <1>2, <1>3, <1>4, Zenon DEF LiesTo

\* A laying and one step further; the laying before the last step.
Grown(k, l, x) ==
    <<[j \in 1..(k + 1) |-> IF j = k + 1 THEN x[2] ELSE l[1][j]],
      [j \in 1..k |-> IF j = k THEN x[1].id ELSE l[2][j]]>>
Cut(k, l) == <<[j \in 1..k |-> l[1][j]], [j \in 1..(k - 1) |-> l[2][j]]>>

\* What a laying is.
LEMMA LayingIs ==
    ASSUME NEW g, NEW p, NEW k, NEW l
    PROVE  l \in LayingsTo(g, p, k) <=>
                /\ l = <<l[1], l[2]>> /\ LiesTo(g, p, k, l[1], l[2])
                /\ l[1] \in [1..(k + 1) -> IdsOf(g.nodes)] /\ l[2] \in [1..k -> IdsOf(g.edges)]
BY DEF LayingsTo

\* A record is the one with its id.
LEMMA EdgeWithId ==
    ASSUME NEW g, Sound(g)
    PROVE  /\ \A e \in g.edges : e.id \in IdsOf(g.edges) /\ RecordWith(g.edges, e.id) = e
           /\ \A i \in IdsOf(g.edges) : RecordWith(g.edges, i) \in g.edges /\ RecordWith(g.edges, i).id = i
<1>1. IdsUnique(g.edges)
    BY DEF Sound, Consistent
<1>2. ASSUME NEW e \in g.edges
      PROVE  e.id \in IdsOf(g.edges) /\ RecordWith(g.edges, e.id) = e
    <2>1. e.id \in IdsOf(g.edges)
        BY DEF IdsOf
    <2> QED
        BY <1>1, <2>1, RecordWithId DEF IdsUnique
<1>3. ASSUME NEW i \in IdsOf(g.edges)
      PROVE  RecordWith(g.edges, i) \in g.edges /\ RecordWith(g.edges, i).id = i
    BY <1>1, RecordWithId
<1> QED
    BY <1>2, <1>3

\* The steps that fit are the layings one relationship longer.
LEMMA GrownLayings ==
    ASSUME NEW g, Sound(g), NEW p, PathParsed(p), LeftToRightIn(p), NEW k \in 1..Len(p.rels),
           NEW l \in LayingsTo(g, p, k - 1),
           NEW x \in StepSet(g, p.rels[k].direction, l[1][k])
    PROVE  LET next == ThroughEdge(g, p, k, x[1], x[2], RowOf(PairsTo(p, k - 1, l[1], l[2]))) IN
           /\ Grown(k, l, x) \in LayingsTo(g, p, k) <=> next.fits = "match"
           /\ next.fits = "match" => next = WaysTo(g, p, k)[Grown(k, l, x)]
           /\ Cut(k, Grown(k, l, x)) = l
           /\ Grown(k, l, x)[1][k + 1] = x[2] /\ Grown(k, l, x)[2][k] = x[1].id
<1> DEFINE G == Grown(k, l, x)
           ns == G[1]
           es == G[2]
           row == RowOf(PairsTo(p, k - 1, l[1], l[2]))
           next == ThroughEdge(g, p, k, x[1], x[2], row)
<1>1. Len(p.rels) \in Nat /\ k \in Nat /\ k # 0 /\ k - 1 \in Nat /\ (k - 1) + 1 = k
    BY PathLists
<1>2. /\ l = <<l[1], l[2]>> /\ LiesTo(g, p, k - 1, l[1], l[2])
      /\ l[1] \in [1..k -> IdsOf(g.nodes)] /\ l[2] \in [1..(k - 1) -> IdsOf(g.edges)]
    BY <1>1, LayingIs
<1>3. /\ x[1] \in g.edges /\ x[2] \in IdsOf(g.nodes)
      /\ Leads(x[1], p.rels[k].direction, l[1][k], x[2])
    BY DEF StepSet
<1>4. x[1].id \in IdsOf(g.edges) /\ RecordWith(g.edges, x[1].id) = x[1]
    BY <1>3, EdgeWithId
<1>5. /\ ns = [j \in 1..(k + 1) |-> IF j = k + 1 THEN x[2] ELSE l[1][j]]
      /\ es = [j \in 1..k |-> IF j = k THEN x[1].id ELSE l[2][j]]
      /\ G = <<ns, es>>
    BY DEF Grown
<1> HIDE DEF G, ns, es
<1>6. ns \in [1..(k + 1) -> IdsOf(g.nodes)] /\ es \in [1..k -> IdsOf(g.edges)]
    BY <1>1, <1>2, <1>3, <1>4, <1>5
<1>7. /\ \A j \in 1..((k - 1) + 1) : ns[j] = l[1][j]
      /\ \A j \in 1..(k - 1) : es[j] = l[2][j]
      /\ ns[k + 1] = x[2] /\ es[k] = x[1].id /\ ns[k] = l[1][k]
    BY <1>1, <1>5
<1>8. /\ PairsTo(p, k - 1, ns, es) = PairsTo(p, k - 1, l[1], l[2])
      /\ LiesTo(g, p, k - 1, ns, es)
    <2> DEFINE i == k - 1
    <2>1. SameTo(i, l[1], l[2], ns, es) /\ i \in Nat
        BY <1>1, <1>7 DEF SameTo
    <2>2. LiesTo(g, p, i, l[1], l[2])
        BY <1>2
    <2> HIDE DEF i
    <2>3. /\ PairsTo(p, i, l[1], l[2]) = PairsTo(p, i, ns, es)
          /\ LiesTo(g, p, i, ns, es)
        BY <2>1, <2>2, LiesLooks
    <2> QED
        BY <2>3 DEF i
<1>9. RecordWith(g.edges, es[k]) = x[1] /\ RecordWith(g.edges, es[k]).id = es[k]
    BY <1>4, <1>7
<1>10. /\ LiesTo(g, p, k, ns, es) <=>
            /\ LiesTo(g, p, k - 1, ns, es)
            /\ Leads(x[1], p.rels[k].direction, ns[k], ns[k + 1])
            /\ next.fits = "match"
       /\ LiesTo(g, p, k, ns, es) => next = Way("match", RowOf(PairsTo(p, k, ns, es)), ns[k + 1])
    <2>1. ThroughEdge(g, p, k, RecordWith(g.edges, es[k]), ns[k + 1], RowOf(PairsTo(p, k - 1, ns, es))) = next
        BY <1>7, <1>8, <1>9
    <2> HIDE DEF next
    <2> QED
        BY <1>9, <2>1, LiesOneMore
<1> HIDE DEF next
<1>11. LiesTo(g, p, k, ns, es) <=> next.fits = "match"
    BY <1>3, <1>7, <1>8, <1>10
<1>12. G[1] = ns /\ G[2] = es
    BY <1>5
<1>13. G \in LayingsTo(g, p, k) <=> next.fits = "match"
    <2>1. G \in LayingsTo(g, p, k) <=>
                /\ G = <<G[1], G[2]>> /\ LiesTo(g, p, k, G[1], G[2])
                /\ G[1] \in [1..(k + 1) -> IdsOf(g.nodes)] /\ G[2] \in [1..k -> IdsOf(g.edges)]
        BY LayingIs
    <2>2. G = <<G[1], G[2]>>
        BY <1>5, <1>12
    <2> QED
        BY <1>6, <1>11, <1>12, <2>1, <2>2
<1>14. ASSUME next.fits = "match"
       PROVE  next = WaysTo(g, p, k)[G]
    <2>1. G \in LayingsTo(g, p, k)
        BY <1>13, <1>14
    <2>2. WaysTo(g, p, k)[G] = Way("match", RowOf(PairsTo(p, k, G[1], G[2])), G[1][k + 1])
        BY <2>1 DEF WaysTo
    <2> QED
        BY <1>10, <1>11, <1>12, <1>14, <2>2
<1>15. Cut(k, G) = l
    <2>1. /\ [j \in 1..k |-> ns[j]] = l[1]
          /\ [j \in 1..(k - 1) |-> es[j]] = l[2]
        BY <1>1, <1>2, <1>7
    <2>2. Cut(k, G) = <<[j \in 1..k |-> ns[j]], [j \in 1..(k - 1) |-> es[j]]>>
        BY <1>12 DEF Cut
    <2> QED
        BY <1>2, <2>1, <2>2
<1> QED
    BY <1>7, <1>12, <1>13, <1>14, <1>15 DEF G, next

\* Every laying comes from one that is shorter, by a step.
LEMMA CutLayings ==
    ASSUME NEW g, Sound(g), NEW p, PathParsed(p), LeftToRightIn(p), NEW k \in 1..Len(p.rels),
           NEW m \in LayingsTo(g, p, k)
    PROVE  LET l == Cut(k, m)
               x == <<RecordWith(g.edges, m[2][k]), m[1][k + 1]>>
           IN  /\ l \in LayingsTo(g, p, k - 1)
               /\ x \in StepSet(g, p.rels[k].direction, l[1][k])
               /\ Grown(k, l, x) = m
<1> DEFINE l == Cut(k, m)
           e == RecordWith(g.edges, m[2][k])
           far == m[1][k + 1]
<1>1. /\ Len(p.rels) \in Nat /\ k \in Nat /\ k # 0 /\ k - 1 \in Nat /\ (k - 1) + 1 = k
      /\ k \in 1..k /\ k + 1 \in 1..(k + 1) /\ k \in 1..(k + 1)
    BY PathLists
<1>2. /\ m = <<m[1], m[2]>> /\ LiesTo(g, p, k, m[1], m[2])
      /\ m[1] \in [1..(k + 1) -> IdsOf(g.nodes)] /\ m[2] \in [1..k -> IdsOf(g.edges)]
    BY LayingIs
<1>3. m[2][k] \in IdsOf(g.edges) /\ far \in IdsOf(g.nodes)
    BY <1>1, <1>2
<1>4. e \in g.edges /\ e.id = m[2][k]
    BY <1>3, EdgeWithId
<1>5. /\ LiesTo(g, p, k - 1, m[1], m[2])
      /\ Leads(e, p.rels[k].direction, m[1][k], far)
    BY <1>2, <1>4, LiesOneMore
<1>6. l[1] = [j \in 1..k |-> m[1][j]] /\ l[2] = [j \in 1..(k - 1) |-> m[2][j]] /\ l = <<l[1], l[2]>>
    BY DEF Cut
<1> HIDE DEF l, e, far
<1>7. l[1] \in [1..((k - 1) + 1) -> IdsOf(g.nodes)] /\ l[2] \in [1..(k - 1) -> IdsOf(g.edges)]
    BY <1>1, <1>2, <1>6
<1>8. /\ \A j \in 1..((k - 1) + 1) : l[1][j] = m[1][j]
      /\ \A j \in 1..(k - 1) : l[2][j] = m[2][j]
      /\ l[1][k] = m[1][k]
    BY <1>1, <1>6
<1>9. LiesTo(g, p, k - 1, l[1], l[2])
    <2> DEFINE i == k - 1
    <2>1. SameTo(i, m[1], m[2], l[1], l[2]) /\ i \in Nat
        BY <1>1, <1>8 DEF SameTo
    <2>2. LiesTo(g, p, i, m[1], m[2])
        BY <1>5
    <2> HIDE DEF i
    <2>3. LiesTo(g, p, i, l[1], l[2])
        BY <2>1, <2>2, LiesLooks
    <2> QED
        BY <2>3 DEF i
<1>10. l \in LayingsTo(g, p, k - 1)
    BY <1>6, <1>7, <1>9, LayingIs
<1>11. <<e, far>> \in StepSet(g, p.rels[k].direction, l[1][k])
    <2>1. Leads(e, p.rels[k].direction, l[1][k], far)
        BY <1>5, <1>8
    <2> QED
        BY <1>3, <1>4, <2>1 DEF StepSet
<1>12. Grown(k, l, <<e, far>>) = m
    <2>1. <<e, far>>[1] = e /\ <<e, far>>[2] = far
        OBVIOUS
    <2>2. [j \in 1..(k + 1) |-> IF j = k + 1 THEN far ELSE l[1][j]] = m[1]
        <3>1. \A j \in 1..(k + 1) : (IF j = k + 1 THEN far ELSE l[1][j]) = m[1][j]
            BY <1>1, <1>8 DEF far
        <3> QED
            BY <1>2, <3>1
    <2>3. [j \in 1..k |-> IF j = k THEN e.id ELSE l[2][j]] = m[2]
        <3>1. \A j \in 1..k : (IF j = k THEN e.id ELSE l[2][j]) = m[2][j]
            BY <1>1, <1>4, <1>8
        <3> QED
            BY <1>2, <3>1
    <2>4. Grown(k, l, <<e, far>>) = <<m[1], m[2]>>
        BY <2>1, <2>2, <2>3 DEF Grown
    <2> QED
        BY <1>2, <2>4
<1> QED
    BY <1>10, <1>11, <1>12 DEF l, e, far

---------------------------------------------------------------------------
(* Matching a pattern finds its layings, once each *)

\* The ways that fit, under the names of those that do.
LEMMA ListsFit ==
    ASSUME NEW t, IsList(t), NEW L, NEW h, Lists(t, L, h)
    PROVE  Lists(Fit(t), {l \in L : h[l].fits = "match"}, h)
<1> DEFINE S == {way \in ToSet(t) : way.fits = "match"}
<1>1. Fit(t) = Kept(t, S)
    BY DEF Fit
<1>2. \A l \in L : h[l] \in ToSet(t)
    <2>1. PICK f \in Bijection(1..Len(t), L) : \A i \in 1..Len(t) : t[i] = h[f[i]]
        BY DEF Lists
    <2>2. \A l \in L : \E i \in 1..Len(t) : f[i] = l
        BY BijectionHas
    <2>3. DOMAIN t = 1..Len(t)
        BY ListLen
    <2> QED
        BY <2>1, <2>2, <2>3 DEF ToSet
<1>3. {l \in L : h[l] \in S} = {l \in L : h[l].fits = "match"}
    BY <1>2
<1> HIDE DEF S
<1>4. Lists(Kept(t, S), {l \in L : h[l] \in S}, h)
    BY ListsKept
<1> QED
    BY <1>1, <1>3, <1>4

\* A node is the one with its id.
LEMMA NodeWithId ==
    ASSUME NEW g, Sound(g)
    PROVE  /\ \A n \in g.nodes : n.id \in IdsOf(g.nodes) /\ RecordWith(g.nodes, n.id) = n
           /\ \A i \in IdsOf(g.nodes) : RecordWith(g.nodes, i) \in g.nodes /\ RecordWith(g.nodes, i).id = i
<1>1. IdsUnique(g.nodes)
    BY DEF Sound, Consistent
<1>2. ASSUME NEW n \in g.nodes
      PROVE  n.id \in IdsOf(g.nodes) /\ RecordWith(g.nodes, n.id) = n
    <2>1. n.id \in IdsOf(g.nodes)
        BY DEF IdsOf
    <2> QED
        BY <1>1, <2>1, RecordWithId DEF IdsUnique
<1>3. ASSUME NEW i \in IdsOf(g.nodes)
      PROVE  RecordWith(g.nodes, i) \in g.nodes /\ RecordWith(g.nodes, i).id = i
    BY <1>1, RecordWithId
<1> QED
    BY <1>2, <1>3

\* Laid as far as the first node.
LEMMA LiesFirst ==
    ASSUME NEW g, NEW p, NEW ns, NEW es
    PROVE  LET row == Bound(NoRow, p.nodes[1].var, NodeRef(ns[1])) IN
           /\ RowOf(PairsTo(p, 0, ns, es)) = row
           /\ LiesTo(g, p, 0, ns, es)
                <=> NodeVerdict(g, row, p.nodes[1], RecordWith(g.nodes, ns[1])) = "match"
<1> DEFINE var == p.nodes[1].var
           ref == NodeRef(ns[1])
           Q == PairsTo(p, 0, ns, es)
<1>1. 1..(0 + 1) = {1} /\ 1..0 = {}
    OBVIOUS
<1>2. Q = {} \cup Standing(var, ref)
    BY <1>1 DEF PairsTo, Standing, Named
<1>3. LeadsTo(g, p, 0, ns, es)
    BY <1>1 DEF LeadsTo
<1>4. \A row : RelsFit(g, p, 0, row, es)
    BY <1>1 DEF RelsFit
<1>5. \A row : NodesFit(g, p, 0, row, ns) <=>
                NodeVerdict(g, row, p.nodes[1], RecordWith(g.nodes, ns[1])) = "match"
    BY <1>1 DEF NodesFit
<1> HIDE DEF var, ref
<1>6. RowOf({}) = NoRow /\ DOMAIN NoRow = {}
    BY DEF RowOf, NoRow
<1>7. Unambiguous({}) /\ AllNamed({})
    BY DEF Unambiguous, AllNamed
<1>8. /\ Unambiguous(Q) <=> Bindable(RowOf({}), var, ref)
      /\ Unambiguous(Q) => RowOf(Q) = Bound(RowOf({}), var, ref)
    <2> DEFINE E == {}
    <2>1. Unambiguous(E) /\ AllNamed(E)
        BY <1>7
    <2>2. Q = E \cup Standing(var, ref)
        BY <1>2
    <2> HIDE DEF E, Q
    <2>3. /\ Unambiguous(Q) <=> Bindable(RowOf(E), var, ref)
          /\ Unambiguous(Q) => RowOf(Q) = Bound(RowOf(E), var, ref)
        BY <2>1, <2>2, RowOneMore
    <2> QED
        BY <2>3 DEF E
<1>9. Bindable(NoRow, var, ref)
    BY <1>6 DEF Bindable
<1>10. Unambiguous(Q) /\ RowOf(Q) = Bound(NoRow, var, ref)
    BY <1>6, <1>8, <1>9
<1>11. LiesTo(g, p, 0, ns, es) <=> NodesFit(g, p, 0, RowOf(Q), ns)
    BY <1>3, <1>4, <1>10 DEF LiesTo
<1> HIDE DEF Q
<1>12. LiesTo(g, p, 0, ns, es)
        <=> NodeVerdict(g, Bound(NoRow, var, ref), p.nodes[1], RecordWith(g.nodes, ns[1])) = "match"
    BY <1>5, <1>10, <1>11
<1> QED
    BY <1>10, <1>12 DEF Q, var, ref

\* A laying of the first node alone.
StartsAt(n) == <<[j \in 1..1 |-> n.id], [j \in 1..0 |-> n.id]>>

\* The start of each.
StartWay(g, p, n) ==
    Way(NodeVerdict(g, Bound(NoRow, p.nodes[1].var, NodeRef(n.id)), p.nodes[1], n),
        Bound(NoRow, p.nodes[1].var, NodeRef(n.id)), n.id)

\* The nodes that fit are the layings of the first node.
LEMMA StartLayings ==
    ASSUME NEW g, Sound(g), NEW p, NEW n \in g.nodes
    PROVE  /\ StartsAt(n) \in LayingsTo(g, p, 0) <=> StartWay(g, p, n).fits = "match"
           /\ StartWay(g, p, n).fits = "match" => StartWay(g, p, n) = WaysTo(g, p, 0)[StartsAt(n)]
           /\ StartsAt(n)[1][1] = n.id
<1> DEFINE l == StartsAt(n)
           ns == l[1]
           es == l[2]
           row == Bound(NoRow, p.nodes[1].var, NodeRef(n.id))
           verdict == NodeVerdict(g, row, p.nodes[1], n)
<1>1. l = <<ns, es>> /\ ns = [j \in 1..1 |-> n.id] /\ es = [j \in 1..0 |-> n.id]
    BY DEF StartsAt
<1>2. n.id \in IdsOf(g.nodes) /\ RecordWith(g.nodes, n.id) = n
    BY NodeWithId
<1> HIDE DEF l
<1>3. ns \in [1..1 -> IdsOf(g.nodes)] /\ es \in [1..0 -> IdsOf(g.edges)] /\ ns[1] = n.id
    BY <1>1, <1>2
<1> HIDE DEF ns, es
<1>4. /\ RowOf(PairsTo(p, 0, ns, es)) = row
      /\ LiesTo(g, p, 0, ns, es) <=> verdict = "match"
    <2>1. LET new == Bound(NoRow, p.nodes[1].var, NodeRef(ns[1])) IN
           /\ RowOf(PairsTo(p, 0, ns, es)) = new
           /\ LiesTo(g, p, 0, ns, es)
                <=> NodeVerdict(g, new, p.nodes[1], RecordWith(g.nodes, ns[1])) = "match"
        BY LiesFirst
    <2> QED
        BY <1>2, <1>3, <2>1
<1> HIDE DEF row, verdict
<1>5. StartWay(g, p, n) = Way(verdict, row, n.id) /\ StartWay(g, p, n).fits = verdict
    BY WayFields DEF StartWay, row, verdict
<1>6. l[1] = ns /\ l[2] = es
    BY DEF ns, es
<1>7. l \in LayingsTo(g, p, 0) <=> verdict = "match"
    <2>1. l \in LayingsTo(g, p, 0) <=>
                /\ l = <<l[1], l[2]>> /\ LiesTo(g, p, 0, l[1], l[2])
                /\ l[1] \in [1..(0 + 1) -> IdsOf(g.nodes)] /\ l[2] \in [1..0 -> IdsOf(g.edges)]
        BY LayingIs
    <2>2. 0 + 1 = 1
        OBVIOUS
    <2> QED
        BY <1>1, <1>3, <1>4, <1>6, <2>1, <2>2
<1>8. ASSUME verdict = "match"
      PROVE  StartWay(g, p, n) = WaysTo(g, p, 0)[l]
    <2>1. l \in LayingsTo(g, p, 0)
        BY <1>7, <1>8
    <2>2. WaysTo(g, p, 0)[l] = Way("match", RowOf(PairsTo(p, 0, l[1], l[2])), l[1][0 + 1])
        BY <2>1 DEF WaysTo
    <2>3. 0 + 1 = 1
        OBVIOUS
    <2> QED
        BY <1>3, <1>4, <1>5, <1>6, <1>8, <2>2, <2>3
<1> QED
    BY <1>3, <1>5, <1>6, <1>7, <1>8 DEF l

\* A laying of the first node is of some node.
LEMMA StartOf ==
    ASSUME NEW g, Sound(g), NEW p, NEW l \in LayingsTo(g, p, 0)
    PROVE  RecordWith(g.nodes, l[1][1]) \in g.nodes /\ StartsAt(RecordWith(g.nodes, l[1][1])) = l
<1> DEFINE n == RecordWith(g.nodes, l[1][1])
<1>1. l = <<l[1], l[2]>> /\ l[1] \in [1..(0 + 1) -> IdsOf(g.nodes)] /\ l[2] \in [1..0 -> IdsOf(g.edges)]
    BY LayingIs
<1>2. 0 + 1 = 1 /\ 1..0 = {} /\ 1..1 = {1}
    OBVIOUS
<1>3. l[1][1] \in IdsOf(g.nodes) /\ l[1] = [j \in 1..1 |-> l[1][1]] /\ l[2] = [j \in 1..0 |-> l[1][1]]
    BY <1>1, <1>2
<1>4. n \in g.nodes /\ n.id = l[1][1]
    BY <1>3, NodeWithId
<1> HIDE DEF n
<1>5. StartsAt(n) = <<l[1], l[2]>>
    BY <1>3, <1>4 DEF StartsAt
<1> QED
    BY <1>1, <1>4, <1>5 DEF n

\* The search starts at every node that fits, once.
LEMMA StartListed ==
    ASSUME NEW g, Sound(g), NEW p
    PROVE  Lists(StartMatch(g, p).ways, LayingsTo(g, p, 0), WaysTo(g, p, 0))
<1> DEFINE nodes == InIdOrder(g.nodes)
           tried == StartTried(g, p)
           N == g.nodes
           L == LayingsTo(g, p, 0)
           W == WaysTo(g, p, 0)
           h == [n \in N |-> StartWay(g, p, n)]
           M == {n \in N : h[n].fits = "match"}
           r == [n \in M |-> StartsAt(n)]
<1>1. nodes \in Bijection(1..Len(nodes), N)
    BY SoundLists
<1>2. /\ IsList(tried) /\ Len(tried) = Len(nodes)
      /\ \A i \in 1..Len(nodes) : nodes[i] \in N /\ tried[i] = StartWay(g, p, nodes[i])
    BY StartTriedAre DEF StartWay
<1>3. StartMatch(g, p).ways = Fit(tried)
    BY StartTriedAre DEF Fitting, Fit
<1>4. \A i \in 1..Len(nodes) : tried[i] = h[nodes[i]]
    BY <1>2
<1>5. \A n \in N : h[n] = StartWay(g, p, n)
    OBVIOUS
<1>6. r = [n \in M |-> r[n]] /\ \A n \in M : r[n] = StartsAt(n) /\ n \in N /\ h[n].fits = "match"
    OBVIOUS
<1>7. \A n \in N : h[n].fits = "match" => n \in M
    OBVIOUS
<1> HIDE DEF nodes, tried, h
<1>8. Lists(tried, N, h)
    BY <1>1, <1>2, <1>4 DEF Lists
<1>9. Lists(Fit(tried), M, h)
    BY <1>2, <1>8, ListsFit
<1> HIDE DEF M, r, L, W, N
<1>10. \A n \in M : r[n] \in L /\ h[n] = W[r[n]] /\ r[n][1][1] = n.id
    BY <1>5, <1>6, StartLayings DEF N, L, W
<1>11. \A n, m \in M : r[n] = r[m] => n = m
    <2>1. \A n \in M : RecordWith(g.nodes, n.id) = n
        BY <1>6, NodeWithId DEF N
    <2> QED
        BY <1>10, <2>1
<1>12. \A l \in L : \E n \in M : r[n] = l
    <2>1. SUFFICES ASSUME NEW l \in L
                   PROVE  \E n \in M : r[n] = l
        OBVIOUS
    <2>2. PICK n \in N : StartsAt(n) = l
        BY StartOf DEF L, N
    <2>3. h[n].fits = "match"
        BY <1>5, <2>2, StartLayings DEF L, N
    <2> QED
        BY <1>6, <1>7, <2>2, <2>3
<1>13. r \in Bijection(M, L)
    BY <1>6, <1>10, <1>11, <1>12, BijectionMeans
<1>14. Lists(Fit(tried), L, W)
    BY <1>9, <1>10, <1>13, ListsRenamed
<1> QED
    BY <1>3, <1>14 DEF L, W

\* The ways tried from one way are the steps from its node.
LEMMA TriedListed ==
    ASSUME NEW g, Sound(g), NEW p, NEW k, NEW row, NEW at
    PROVE  LET steps == StepSet(g, p.rels[k].direction, at) IN
           Lists(Tried(g, p, k, Way("match", row, at)), steps,
                 [x \in steps |-> ThroughEdge(g, p, k, x[1], x[2], row)])
<1> DEFINE way == Way("match", row, at)
           dir == p.rels[k].direction
           D == StepSet(g, dir, at)
           steps == Steps(g, dir, at)
           tried == Tried(g, p, k, way)
           h == [x \in D |-> ThroughEdge(g, p, k, x[1], x[2], row)]
<1>1. way.at = at /\ way.row = row
    BY WayFields
<1>2. steps \in Bijection(1..Len(steps), D)
    BY StepsAre
<1>3. /\ Len(tried) = Len(steps)
      /\ \A j \in 1..Len(steps) : tried[j] = ThroughEdge(g, p, k, steps[j][1], steps[j][2], row)
    <2> HIDE DEF way
    <2>1. LET s == Steps(g, p.rels[k].direction, way.at) IN
           /\ Len(Tried(g, p, k, way)) = Len(s)
           /\ \A j \in 1..Len(s) :
                Tried(g, p, k, way)[j] = ThroughEdge(g, p, k, s[j][1], s[j][2], way.row)
        BY TriedAre
    <2> QED
        BY <1>1, <2>1
<1>4. \A j \in 1..Len(steps) : steps[j] \in D
    BY <1>2, BijectionHas
<1>5. \A x \in D : h[x] = ThroughEdge(g, p, k, x[1], x[2], row)
    OBVIOUS
<1> HIDE DEF steps, tried, h, D, way
<1>6. \A j \in 1..Len(steps) : tried[j] = h[steps[j]]
    BY <1>3, <1>4, <1>5
<1>7. Lists(tried, D, h)
    BY <1>2, <1>3, <1>6 DEF Lists
<1> QED
    BY <1>7 DEF tried, way, D, h

\* The layings as far as an edge are those before, with a step that fits.
LEMMA GrownOnce ==
    ASSUME NEW g, Sound(g), NEW p, PathParsed(p), LeftToRightIn(p), NEW k \in 1..Len(p.rels),
           NEW F,
           \A y : y \in F <=>
                /\ y = <<y[1], y[2]>> /\ y[1] \in LayingsTo(g, p, k - 1)
                /\ y[2] \in StepSet(g, p.rels[k].direction, y[1][1][k])
                /\ ThroughEdge(g, p, k, y[2][1], y[2][2],
                               RowOf(PairsTo(p, k - 1, y[1][1], y[1][2]))).fits = "match"
    PROVE  [y \in F |-> Grown(k, y[1], y[2])] \in Bijection(F, LayingsTo(g, p, k))
<1> DEFINE r == [y \in F |-> Grown(k, y[1], y[2])]
           L == LayingsTo(g, p, k)
<1>1. r = [y \in F |-> r[y]] /\ \A y \in F : r[y] = Grown(k, y[1], y[2])
    OBVIOUS
<1>2. ASSUME NEW y \in F
      PROVE  /\ r[y] \in L /\ Cut(k, r[y]) = y[1] /\ y = <<y[1], y[2]>>
             /\ r[y][1][k + 1] = y[2][2] /\ r[y][2][k] = y[2][1].id
             /\ y[2] = <<y[2][1], y[2][2]>> /\ y[2][1] \in g.edges
    <2> DEFINE l == y[1]
               x == y[2]
    <2>1. /\ y = <<y[1], y[2]>> /\ l \in LayingsTo(g, p, k - 1)
          /\ x \in StepSet(g, p.rels[k].direction, l[1][k])
          /\ ThroughEdge(g, p, k, x[1], x[2], RowOf(PairsTo(p, k - 1, l[1], l[2]))).fits = "match"
        OBVIOUS
    <2>2. r[y] = Grown(k, l, x)
        OBVIOUS
    <2>3. x = <<x[1], x[2]>> /\ x[1] \in g.edges
        BY <2>1 DEF StepSet
    <2> HIDE DEF l, x, r
    <2>4. /\ Grown(k, l, x) \in LayingsTo(g, p, k)
          /\ Cut(k, Grown(k, l, x)) = l
          /\ Grown(k, l, x)[1][k + 1] = x[2] /\ Grown(k, l, x)[2][k] = x[1].id
        BY <2>1, GrownLayings
    <2> QED
        BY <2>1, <2>2, <2>3, <2>4 DEF l, x
<1>3. ASSUME NEW m \in L
      PROVE  \E y \in F : r[y] = m
    <2> DEFINE l == Cut(k, m)
               x == <<RecordWith(g.edges, m[2][k]), m[1][k + 1]>>
               y == <<l, x>>
    <2>1. /\ l \in LayingsTo(g, p, k - 1)
          /\ x \in StepSet(g, p.rels[k].direction, l[1][k])
          /\ Grown(k, l, x) = m
        BY CutLayings
    <2> HIDE DEF l, x
    <2>2. ThroughEdge(g, p, k, x[1], x[2], RowOf(PairsTo(p, k - 1, l[1], l[2]))).fits = "match"
        BY <2>1, GrownLayings
    <2>3. y = <<y[1], y[2]>> /\ y[1] = l /\ y[2] = x
        OBVIOUS
    <2> HIDE DEF y, r
    <2>4. y \in F
        BY <2>1, <2>2, <2>3
    <2>5. r[y] = m
        BY <1>1, <2>1, <2>3, <2>4
    <2> QED
        BY <2>4, <2>5
<1> HIDE DEF r, L
<1>4. \A e \in g.edges : RecordWith(g.edges, e.id) = e
    BY EdgeWithId
<1>5. ASSUME NEW y \in F, NEW z \in F, r[y] = r[z]
      PROVE  y = z
    <2>1. y[1] = z[1] /\ y[2][2] = z[2][2] /\ y[2][1].id = z[2][1].id
        BY <1>2, <1>5
    <2>2. y[2][1] = z[2][1]
        BY <1>2, <1>4, <2>1
    <2>3. y[2] = z[2]
        BY <1>2, <2>1, <2>2
    <2> QED
        BY <1>2, <2>1, <2>3
<1>6. r \in Bijection(F, L)
    BY <1>1, <1>2, <1>3, <1>5, BijectionMeans
<1> QED
    BY <1>6 DEF r, L

\* One relationship further, the search has the layings one relationship longer.
LEMMA ExpandListed ==
    ASSUME NEW g, Sound(g), NEW p, PathParsed(p), LeftToRightIn(p), NEW k \in 1..Len(p.rels),
           NEW found, IsList(found.ways),
           Lists(found.ways, LayingsTo(g, p, k - 1), WaysTo(g, p, k - 1))
    PROVE  Lists(ExpandMatch(g, p, found, k).ways, LayingsTo(g, p, k), WaysTo(g, p, k))
<1> DEFINE ways == found.ways
           lists == AllTried(g, p, found, k)
           tried == FlattenSeq(lists)
           L == LayingsTo(g, p, k - 1)
           W == WaysTo(g, p, k - 1)
           dir == p.rels[k].direction
           row(l) == RowOf(PairsTo(p, k - 1, l[1], l[2]))
           M == [l \in L |-> StepSet(g, dir, l[1][k])]
           h == [l \in L |-> [x \in M[l] |-> ThroughEdge(g, p, k, x[1], x[2], row(l))]]
           E == {y \in L \X UNION {M[l] : l \in L} : y[2] \in M[y[1]]}
           val == [y \in E |-> h[y[1]][y[2]]]
           F == {y \in E : val[y].fits = "match"}
           r == [y \in F |-> Grown(k, y[1], y[2])]
<1>1. Len(p.rels) \in Nat /\ k \in Nat /\ k # 0 /\ (k - 1) + 1 = k
    BY PathLists
<1>2. PICK f \in Bijection(1..Len(ways), L) : \A i \in 1..Len(ways) : ways[i] = W[f[i]]
    BY DEF Lists
<1>3. \A i \in 1..Len(ways) : f[i] \in L
    BY <1>2, BijectionHas
<1>4. /\ IsList(lists) /\ Len(lists) = Len(ways)
      /\ \A i \in 1..Len(ways) : lists[i] = Tried(g, p, k, ways[i]) /\ IsList(lists[i])
    BY AllTriedAre
<1>5. ASSUME NEW i \in 1..Len(lists)
      PROVE  Lists(lists[i], M[f[i]], h[f[i]])
    <2> DEFINE l == f[i]
               at == l[1][k]
               rowOf == row(l)
    <2>1. l \in L
        BY <1>3, <1>4
    <2>2. W[l] = Way("match", RowOf(PairsTo(p, k - 1, l[1], l[2])), l[1][(k - 1) + 1])
        BY <2>1 DEF WaysTo
    <2>3. ways[i] = Way("match", rowOf, at)
        BY <1>1, <1>2, <1>4, <2>2
    <2>4. M[l] = StepSet(g, dir, at) /\ h[l] = [x \in M[l] |-> ThroughEdge(g, p, k, x[1], x[2], rowOf)]
        BY <2>1
    <2>5. lists[i] = Tried(g, p, k, Way("match", rowOf, at))
        BY <1>4, <2>3
    <2> HIDE DEF l, at, rowOf, M, h, lists
    <2>6. Lists(Tried(g, p, k, Way("match", rowOf, at)), StepSet(g, p.rels[k].direction, at),
                 [x \in StepSet(g, p.rels[k].direction, at) |-> ThroughEdge(g, p, k, x[1], x[2], rowOf)])
        BY TriedListed
    <2>7. Lists(lists[i], M[l], h[l])
        BY <2>4, <2>5, <2>6
    <2> QED
        BY <2>7 DEF l
<1>6. \A l \in L : M[l] = StepSet(g, dir, l[1][k])
    OBVIOUS
<1>7. \A l \in L : \A x \in M[l] : h[l][x] = ThroughEdge(g, p, k, x[1], x[2], row(l))
    OBVIOUS
<1> HIDE DEF M, h
<1>8. \A y : y \in E <=> y = <<y[1], y[2]>> /\ y[1] \in L /\ y[2] \in M[y[1]]
    <2>1. ASSUME NEW y, y \in E
          PROVE  y = <<y[1], y[2]>> /\ y[1] \in L /\ y[2] \in M[y[1]]
        BY <2>1
    <2>2. ASSUME NEW y, y = <<y[1], y[2]>>, y[1] \in L, y[2] \in M[y[1]]
          PROVE  y \in E
        <3>1. y[2] \in UNION {M[l] : l \in L}
            BY <2>2
        <3> QED
            BY <2>2, <3>1
    <2> QED
        BY <2>1, <2>2
<1>9. \A y \in E : val[y] = h[y[1]][y[2]]
    OBVIOUS
<1>10. \A y : y \in F <=> y \in E /\ val[y].fits = "match"
    OBVIOUS
<1>11. r = [y \in F |-> Grown(k, y[1], y[2])] /\ \A y \in F : r[y] = Grown(k, y[1], y[2])
    OBVIOUS
<1>12. Lists(tried, E, val)
    <2> HIDE DEF lists, L, W, ways, E, val, F, r
    <2>1. AreLists(lists) /\ f \in Bijection(1..Len(lists), L)
        BY <1>2, <1>4 DEF AreLists
    <2>2. ListEach(lists, f, M, h)
        BY <1>5 DEF ListEach
    <2>3. ArePairs(E, L, M) /\ AreValues(val, E, h)
        BY <1>8, <1>9 DEF ArePairs, AreValues
    <2> HIDE DEF row, dir
    <2> QED
        BY <2>1, <2>2, <2>3, ListsFlattened
<1>13. IsList(tried)
    BY <1>4, Flattened
<1>14. ExpandMatch(g, p, found, k).ways = Fit(tried)
    BY DEF ExpandMatch, AllTried, Fitting, Fit
<1> HIDE DEF tried, lists, val, E
<1>15. Lists(Fit(tried), F, val)
    BY <1>12, <1>13, ListsFit
<1> HIDE DEF F, L
<1>16. \A y \in F : /\ y = <<y[1], y[2]>> /\ y[1] \in L /\ y[2] \in StepSet(g, dir, y[1][1][k])
                    /\ val[y] = ThroughEdge(g, p, k, y[2][1], y[2][2], row(y[1]))
                    /\ val[y].fits = "match"
    BY <1>6, <1>7, <1>8, <1>9, <1>10
<1>17. \A y : y \in F <=>
                /\ y = <<y[1], y[2]>> /\ y[1] \in L /\ y[2] \in StepSet(g, dir, y[1][1][k])
                /\ ThroughEdge(g, p, k, y[2][1], y[2][2], row(y[1])).fits = "match"
    BY <1>6, <1>7, <1>8, <1>9, <1>10
<1>18. r \in Bijection(F, LayingsTo(g, p, k))
    BY <1>11, <1>17, GrownOnce DEF L
<1> HIDE DEF r
<1>19. \A y \in F : val[y] = WaysTo(g, p, k)[r[y]]
    <2>1. SUFFICES ASSUME NEW y \in F
                   PROVE  val[y] = WaysTo(g, p, k)[r[y]]
        OBVIOUS
    <2> DEFINE l == y[1]
               x == y[2]
    <2>2. /\ l \in LayingsTo(g, p, k - 1) /\ x \in StepSet(g, p.rels[k].direction, l[1][k])
          /\ val[y] = ThroughEdge(g, p, k, x[1], x[2], RowOf(PairsTo(p, k - 1, l[1], l[2])))
          /\ val[y].fits = "match" /\ r[y] = Grown(k, l, x)
        BY <1>11, <1>16 DEF L
    <2> HIDE DEF l, x
    <2>3. LET next == ThroughEdge(g, p, k, x[1], x[2], RowOf(PairsTo(p, k - 1, l[1], l[2]))) IN
           next.fits = "match" => next = WaysTo(g, p, k)[Grown(k, l, x)]
        BY <2>2, GrownLayings
    <2> QED
        BY <2>2, <2>3
<1>20. Lists(Fit(tried), LayingsTo(g, p, k), WaysTo(g, p, k))
    BY <1>15, <1>18, <1>19, ListsRenamed
<1> QED
    BY <1>14, <1>20

LayGood(c, k, x) == /\ IsFound(c[1], c[2], k, x)
                    /\ Lists(x.ways, LayingsTo(c[1], c[2], k), WaysTo(c[1], c[2], k))
LayingOut == INSTANCE Folding WITH Step <- ExpandStep, Good <- LayGood

\* What the search of a pattern has in the end.
LEMMA ExpandedListed ==
    ASSUME NEW g, Sound(g), NEW p, PathParsed(p), LeftToRightIn(p)
    PROVE  /\ IsList(Expanded(g, p).ways)
           /\ Lists(Expanded(g, p).ways, LayingsTo(g, p, Len(p.rels)), WaysTo(g, p, Len(p.rels)))
<1> DEFINE c == <<g, p>>
           n == Len(p.rels)
           ks == [k \in DOMAIN p.rels |-> k]
<1>1. n \in Nat /\ DOMAIN ks = 1..n /\ \A k \in 1..n : ks[k] = k
    BY PathLists
<1>2. c[1] = g /\ c[2] = p
    OBVIOUS
<1>3. Expanded(g, p) = LayingOut!Fold(c, StartMatch(g, p), ks)
    BY DEF Expanded, Expanding!Fold, LayingOut!Fold, ExpandStep, FoldLeft, MapThenFoldSet, Max,
           Expanding!LastOf,
           LayingOut!LastOf
<1> HIDE DEF c
<1>4. LayGood(c, 0, StartMatch(g, p))
    BY <1>2, StartMatchFound, StartListed DEF LayGood
<1>5. ASSUME NEW k \in 1..n, NEW x, LayGood(c, k - 1, x)
      PROVE  LayGood(c, k, ExpandStep(c, x, ks[k]))
    <2>1. IsFound(g, p, k - 1, x) /\ Lists(x.ways, LayingsTo(g, p, k - 1), WaysTo(g, p, k - 1))
        BY <1>2, <1>5 DEF LayGood
    <2>2. IsFound(g, p, k, ExpandMatch(g, p, x, k))
        BY <2>1, ExpandMatchFound
    <2>3. Lists(ExpandMatch(g, p, x, k).ways, LayingsTo(g, p, k), WaysTo(g, p, k))
        BY <2>1, ExpandListed DEF IsFound
    <2> QED
        BY <1>1, <1>2, <2>2, <2>3 DEF LayGood, ExpandStep
<1> HIDE DEF ks
<1>6. LayGood(c, n, LayingOut!Fold(c, StartMatch(g, p), ks))
    BY <1>1, <1>4, <1>5, AllNumbers, LayingOut!FoldKeeps DEF LayingOut!Inductive
<1> QED
    BY <1>3, <1>2, <1>6 DEF LayGood, IsFound

\* The row of each laying.
LaidRows(g, p) == [l \in Layings(g, p) |-> RowOf(Named(Pairs(p, l[1], l[2])))]

\* Matching a pattern gives the row of each of its layings, once.
LEMMA MatchListed ==
    ASSUME NEW g, Sound(g), NEW p, PathParsed(p), LeftToRightIn(p)
    PROVE  Lists(MatchPattern(g, p).rows, Layings(g, p), LaidRows(g, p))
<1> DEFINE ways == Expanded(g, p).ways
           rows == [i \in DOMAIN ways |-> ways[i].row]
           m == Len(p.rels)
           L == LayingsTo(g, p, m)
           W == WaysTo(g, p, m)
           R == [l \in L |-> RowOf(Named(Pairs(p, l[1], l[2])))]
<1>1. IsList(ways) /\ Lists(ways, L, W)
    BY ExpandedListed
<1>2. MatchPattern(g, p).rows = rows
    BY MatchPatternExpands
<1>3. Layings(g, p) = L
    <2>1. DOMAIN p.nodes = 1..(m + 1) /\ DOMAIN p.rels = 1..m
        BY PathLists
    <2>2. \A ns, es : Lies(g, p, ns, es) <=> LiesTo(g, p, m, ns, es)
        BY LiesWhole
    <2> HIDE DEF m
    <2> QED
        BY <2>1, <2>2 DEF Layings, LayingsTo
<1>4. LaidRows(g, p) = R
    BY <1>3 DEF LaidRows
<1>5. ASSUME NEW l \in L
      PROVE  W[l].row = R[l]
    <2>1. Named(Pairs(p, l[1], l[2])) = PairsTo(p, m, l[1], l[2])
        BY LiesWhole
    <2>2. W[l] = Way("match", RowOf(PairsTo(p, m, l[1], l[2])), l[1][m + 1])
        BY DEF WaysTo
    <2> QED
        BY <2>1, <2>2, WayFields
<1> HIDE DEF ways, R, W
<1>6. Len(ways) \in Nat /\ DOMAIN ways = 1..Len(ways)
    BY <1>1, ListLen
<1>7. rows = [i \in 1..Len(ways) |-> rows[i]] /\ \A i \in 1..Len(ways) : rows[i] = ways[i].row
    BY <1>6
<1> HIDE DEF rows, L
<1>8. IsList(rows) /\ Len(rows) = Len(ways)
    BY <1>6, <1>7, MakesList
<1>9. \A i \in 1..Len(ways) : \A l \in L : ways[i] = W[l] => rows[i] = R[l]
    BY <1>5, <1>7
<1>10. Lists(rows, L, R)
    BY <1>1, <1>8, <1>9, ListsMapped
<1> QED
    BY <1>2, <1>3, <1>4, <1>10

---------------------------------------------------------------------------
(* Matching several patterns finds the combinations of their layings, once each *)

\* The first k patterns: what their variables stand for, the combinations of
\* layings of theirs, and the row of each.
PairsOf(patterns, k, c) == UNION {Named(Pairs(patterns[j], c[j][1], c[j][2])) : j \in 1..k}

CombinationsTo(g, patterns, k) ==
    {c \in [1..k -> UNION {Layings(g, patterns[j]) : j \in 1..k}] :
        (\A j \in 1..k : c[j] \in Layings(g, patterns[j])) /\ Unambiguous(PairsOf(patterns, k, c))}

RowsTo(g, patterns, k) ==
    [c \in CombinationsTo(g, patterns, k) |-> RowOf(PairsOf(patterns, k, c))]

\* What a combination is.
LEMMA CombinationIs ==
    ASSUME NEW g, NEW patterns, NEW k, NEW c
    PROVE  c \in CombinationsTo(g, patterns, k) <=>
                /\ c = [j \in 1..k |-> c[j]]
                /\ \A j \in 1..k : c[j] \in Layings(g, patterns[j])
                /\ Unambiguous(PairsOf(patterns, k, c))
<1>1. ASSUME c = [j \in 1..k |-> c[j]], \A j \in 1..k : c[j] \in Layings(g, patterns[j])
      PROVE  c \in [1..k -> UNION {Layings(g, patterns[j]) : j \in 1..k}]
    <2>1. \A j \in 1..k : c[j] \in UNION {Layings(g, patterns[i]) : i \in 1..k}
        BY <1>1
    <2> QED
        BY <1>1, <2>1
<1>2. ASSUME c \in [1..k -> UNION {Layings(g, patterns[j]) : j \in 1..k}]
      PROVE  c = [j \in 1..k |-> c[j]]
    BY <1>2
<1> QED
    BY <1>1, <1>2 DEF CombinationsTo

\* Rows agree exactly when what they come from is unambiguous together, and then
\* they make its row.
LEMMA AgreeingRows ==
    ASSUME NEW A, Unambiguous(A), NEW B, Unambiguous(B)
    PROVE  /\ Agree(RowOf(A), RowOf(B)) <=> Unambiguous(A \cup B)
           /\ Unambiguous(A \cup B) => Merged(RowOf(A), RowOf(B)) = RowOf(A \cup B)
<1> DEFINE a == RowOf(A)
           b == RowOf(B)
           m == RowOf(A \cup B)
           n == Merged(a, b)
<1>1. DOMAIN a = {q[1] : q \in A} /\ \A q \in A : a[q[1]] = q[2]
    BY RowOfPairs
<1>2. DOMAIN b = {q[1] : q \in B} /\ \A q \in B : b[q[1]] = q[2]
    BY RowOfPairs
<1> HIDE DEF a, b
<1>3. ASSUME Agree(a, b), NEW q \in A \cup B, NEW r \in A \cup B, q[1] = r[1]
      PROVE  q[2] = r[2]
    <2>1. \A x, y \in A : x[1] = y[1] => x[2] = y[2]
        BY DEF Unambiguous
    <2>2. \A x, y \in B : x[1] = y[1] => x[2] = y[2]
        BY DEF Unambiguous
    <2>3. ASSUME NEW x \in A, NEW y \in B, x[1] = y[1]
          PROVE  x[2] = y[2]
        <3>1. x[1] \in DOMAIN a /\ x[1] \in DOMAIN b
            BY <1>1, <1>2, <2>3
        <3>2. a[x[1]] = b[x[1]]
            BY <1>3, <3>1 DEF Agree
        <3> QED
            BY <1>1, <1>2, <2>3, <3>2
    <2> QED
        BY <1>3, <2>1, <2>2, <2>3
<1>4. ASSUME Unambiguous(A \cup B), NEW v \in DOMAIN a \cap DOMAIN b
      PROVE  a[v] = b[v]
    <2>1. PICK q \in A : q[1] = v
        BY <1>1
    <2>2. PICK r \in B : r[1] = v
        BY <1>2
    <2>3. q[2] = r[2]
        BY <1>4, <2>1, <2>2 DEF Unambiguous
    <2> QED
        BY <1>1, <1>2, <2>1, <2>2, <2>3
<1>5. Agree(a, b) <=> Unambiguous(A \cup B)
    BY <1>3, <1>4 DEF Agree, Unambiguous
<1>6. ASSUME Unambiguous(A \cup B)
      PROVE  n = m
    <2>1. /\ m = [v \in DOMAIN m |-> m[v]] /\ DOMAIN m = {q[1] : q \in A \cup B}
          /\ \A q \in A \cup B : m[q[1]] = q[2]
        BY <1>6, RowOfPairs
    <2>2. /\ n = [v \in DOMAIN n |-> n[v]] /\ DOMAIN n = DOMAIN a \cup DOMAIN b
          /\ \A v \in DOMAIN n : n[v] = IF v \in DOMAIN a THEN a[v] ELSE b[v]
        BY DEF Merged
    <2> HIDE DEF n, m
    <2>3. DOMAIN n = DOMAIN m
        BY <1>1, <1>2, <2>1, <2>2
    <2>4. ASSUME NEW v \in DOMAIN a
          PROVE  n[v] = m[v]
        <3>1. PICK q \in A : q[1] = v
            BY <1>1, <2>4
        <3> QED
            BY <1>1, <2>1, <2>2, <2>4, <3>1
    <2>5. ASSUME NEW v \in DOMAIN b, v \notin DOMAIN a
          PROVE  n[v] = m[v]
        <3>1. PICK q \in B : q[1] = v
            BY <1>2, <2>5
        <3> QED
            BY <1>2, <2>1, <2>2, <2>5, <3>1
    <2>6. \A v \in DOMAIN n : n[v] = m[v]
        BY <2>2, <2>4, <2>5
    <2> QED
        BY <2>1, <2>2, <2>3, <2>6
<1> QED
    BY <1>5, <1>6 DEF a, b, n, m

\* A combination and a laying of the next pattern; the combination without it.
Extended(k, c, l) == [j \in 1..(k + 1) |-> IF j = k + 1 THEN l ELSE c[j]]
Shortened(k, c) == [j \in 1..k |-> c[j]]

\* What the variables of the pairs of a laid pattern stand for is unambiguous.
LEMMA LaidOnce ==
    ASSUME NEW g, NEW p, NEW l \in Layings(g, p)
    PROVE  Unambiguous(Named(Pairs(p, l[1], l[2])))
BY DEF Layings, Lies

\* The same layings of the first k patterns.
Alike(k, c, d) == \A j \in 1..k : c[j] = d[j]

\* Combinations do not look at further patterns.
LEMMA PairsOfMore ==
    ASSUME NEW patterns, NEW k \in Nat, NEW c, NEW d, Alike(k, c, d)
    PROVE  /\ PairsOf(patterns, k, c) = PairsOf(patterns, k, d)
           /\ PairsOf(patterns, k + 1, d) =
                PairsOf(patterns, k, c)
                    \cup Named(Pairs(patterns[k + 1], d[k + 1][1], d[k + 1][2]))
<1>1. 1..(k + 1) = 1..k \cup {k + 1}
    OBVIOUS
<1> DEFINE N(x, j) == Named(Pairs(patterns[j], x[j][1], x[j][2]))
<1>2. \A j \in 1..k : N(c, j) = N(d, j)
    BY DEF Alike
<1>3. /\ PairsOf(patterns, k, c) = UNION {N(c, j) : j \in 1..k}
      /\ PairsOf(patterns, k, d) = UNION {N(d, j) : j \in 1..k}
      /\ PairsOf(patterns, k + 1, d) = UNION {N(d, j) : j \in 1..(k + 1)}
    BY DEF PairsOf
<1> HIDE DEF N
<1>4. {N(c, j) : j \in 1..k} = {N(d, j) : j \in 1..k}
    BY <1>2
<1>5. UNION {N(d, j) : j \in 1..(k + 1)} = (UNION {N(d, j) : j \in 1..k}) \cup N(d, k + 1)
    BY <1>1
<1> QED
    BY <1>3, <1>4, <1>5 DEF N

\* The combinations that agree with a laying are those one pattern longer.
LEMMA ExtendedCombinations ==
    ASSUME NEW g, NEW patterns, NEW k \in Nat, NEW c \in CombinationsTo(g, patterns, k),
           NEW l \in Layings(g, patterns[k + 1])
    PROVE  LET row  == RowsTo(g, patterns, k)[c]
               own  == LaidRows(g, patterns[k + 1])[l]
               more == Extended(k, c, l)
           IN  /\ more \in CombinationsTo(g, patterns, k + 1) <=> Agree(row, own)
               /\ Agree(row, own) => Merged(row, own) = RowsTo(g, patterns, k + 1)[more]
               /\ Shortened(k, more) = c /\ more[k + 1] = l
<1> DEFINE more == Extended(k, c, l)
           A == PairsOf(patterns, k, c)
           B == Named(Pairs(patterns[k + 1], l[1], l[2]))
<1>1. k + 1 \in 1..(k + 1) /\ \A j \in 1..k : j \in 1..(k + 1) /\ j # k + 1
    OBVIOUS
<1>2. /\ more = [j \in 1..(k + 1) |-> more[j]] /\ more[k + 1] = l
      /\ \A j \in 1..k : c[j] = more[j]
    BY <1>1 DEF Extended
<1>3. /\ c = [j \in 1..k |-> c[j]] /\ Unambiguous(A)
      /\ \A j \in 1..k : c[j] \in Layings(g, patterns[j])
    BY CombinationIs
<1>4. Unambiguous(B)
    BY LaidOnce
<1>5. RowsTo(g, patterns, k)[c] = RowOf(A) /\ LaidRows(g, patterns[k + 1])[l] = RowOf(B)
    BY DEF RowsTo, LaidRows
<1> HIDE DEF more
<1>6. PairsOf(patterns, k + 1, more) = A \cup B
    <2> HIDE DEF A, B
    <2>1. PairsOf(patterns, k + 1, more) =
            PairsOf(patterns, k, c) \cup Named(Pairs(patterns[k + 1], more[k + 1][1], more[k + 1][2]))
        <3>1. Alike(k, c, more)
            BY <1>2 DEF Alike
        <3> QED
            BY <3>1, PairsOfMore
    <2> QED
        BY <1>2, <2>1 DEF A, B
<1>7. \A j \in 1..(k + 1) : more[j] \in Layings(g, patterns[j])
    <2>1. ASSUME NEW j \in 1..(k + 1)
          PROVE  more[j] \in Layings(g, patterns[j])
        <3>1. CASE j = k + 1
            BY <1>2, <3>1
        <3>2. CASE j # k + 1
            <4>1. j \in 1..k
                BY <3>2
            <4> QED
                BY <1>2, <1>3, <4>1
        <3> QED
            BY <3>1, <3>2
    <2> QED
        BY <2>1
<1> HIDE DEF A, B
<1>8. more \in CombinationsTo(g, patterns, k + 1) <=> Unambiguous(A \cup B)
    <2> DEFINE n == k + 1
    <2> HIDE DEF n
    <2>1. more \in CombinationsTo(g, patterns, n) <=>
                /\ more = [j \in 1..n |-> more[j]]
                /\ \A j \in 1..n : more[j] \in Layings(g, patterns[j])
                /\ Unambiguous(PairsOf(patterns, n, more))
        BY CombinationIs
    <2> QED
        BY <1>2, <1>6, <1>7, <2>1 DEF n
<1>9. /\ Agree(RowOf(A), RowOf(B)) <=> Unambiguous(A \cup B)
      /\ Unambiguous(A \cup B) => Merged(RowOf(A), RowOf(B)) = RowOf(A \cup B)
    BY <1>3, <1>4, AgreeingRows
<1>10. more \in CombinationsTo(g, patterns, k + 1) =>
            RowsTo(g, patterns, k + 1)[more] = RowOf(A \cup B)
    BY <1>6 DEF RowsTo
<1>11. Shortened(k, more) = c
    BY <1>2, <1>3 DEF Shortened
<1> QED
    BY <1>2, <1>5, <1>8, <1>9, <1>10, <1>11 DEF more

\* Every combination extends the one without its last laying.
LEMMA ShortenedCombinations ==
    ASSUME NEW g, NEW patterns, NEW k \in Nat, NEW d \in CombinationsTo(g, patterns, k + 1)
    PROVE  /\ Shortened(k, d) \in CombinationsTo(g, patterns, k)
           /\ d[k + 1] \in Layings(g, patterns[k + 1])
           /\ Extended(k, Shortened(k, d), d[k + 1]) = d
<1> DEFINE c == Shortened(k, d)
           n == k + 1
<1>1. n \in 1..n /\ 1..n = 1..k \cup {n} /\ \A j \in 1..k : j \in 1..n /\ j # n
    OBVIOUS
<1>2. /\ d = [j \in 1..n |-> d[j]] /\ Unambiguous(PairsOf(patterns, n, d))
      /\ \A j \in 1..n : d[j] \in Layings(g, patterns[j])
    <2> HIDE DEF n
    <2> QED
        BY CombinationIs DEF n
<1>3. c = [j \in 1..k |-> c[j]] /\ \A j \in 1..k : c[j] = d[j]
    BY DEF Shortened
<1> HIDE DEF c
<1>4. PairsOf(patterns, n, d) = PairsOf(patterns, k, c) \cup Named(Pairs(patterns[n], d[n][1], d[n][2]))
    <2>1. Alike(k, c, d)
        BY <1>3 DEF Alike
    <2> QED
        BY <2>1, PairsOfMore
<1>5. Unambiguous(PairsOf(patterns, k, c))
    <2> DEFINE Q == PairsOf(patterns, k, c)
               R == PairsOf(patterns, n, d)
    <2>1. Q \in SUBSET R /\ Unambiguous(R)
        BY <1>2, <1>4
    <2> HIDE DEF Q, R
    <2>2. Unambiguous(Q)
        BY <2>1, RowOfPart
    <2> QED
        BY <2>2 DEF Q
<1>6. c \in CombinationsTo(g, patterns, k)
    BY <1>1, <1>2, <1>3, <1>5, CombinationIs
<1>7. Extended(k, c, d[n]) = d
    <2>1. \A j \in 1..n : (IF j = n THEN d[n] ELSE c[j]) = d[j]
        BY <1>1, <1>3
    <2> QED
        BY <1>2, <2>1 DEF Extended
<1> QED
    BY <1>1, <1>2, <1>6, <1>7 DEF c

\* One row lists what there is one of.
LEMMA ListsOne ==
    ASSUME NEW x, NEW e, NEW L, L = {e}, NEW h, h[e] = x
    PROVE  Lists(<<x>>, L, h)
<1> DEFINE t == <<x>>
           f == [i \in 1..1 |-> e]
<1>1. Len(t) = 1 /\ t[1] = x
    OBVIOUS
<1>2. f = [i \in 1..1 |-> f[i]] /\ \A i \in 1..1 : f[i] = e /\ i = 1
    OBVIOUS
<1> HIDE DEF f
<1>3. f \in Bijection(1..1, L)
    BY <1>2, BijectionMeans
<1> HIDE DEF t
<1>4. Lists(t, L, h)
    BY <1>1, <1>2, <1>3 DEF Lists
<1> QED
    BY <1>4 DEF t

\* No pattern has one combination, that of no laying.
LEMMA NoPatternListed ==
    ASSUME NEW g, NEW patterns
    PROVE  Lists(<<NoRow>>, CombinationsTo(g, patterns, 0), RowsTo(g, patterns, 0))
<1> DEFINE e == [j \in 1..0 |-> NoRow]
<1>1. 1..0 = {}
    OBVIOUS
<1>2. \A c : PairsOf(patterns, 0, c) = {}
    BY <1>1 DEF PairsOf
<1>3. Unambiguous({}) /\ RowOf({}) = NoRow
    BY DEF Unambiguous, RowOf, NoRow
<1>4. e = [j \in 1..0 |-> e[j]] /\ \A c : c = [j \in 1..0 |-> c[j]] => c = e
    BY <1>1
<1> HIDE DEF e
<1>5. \A c : c \in CombinationsTo(g, patterns, 0) <=> c = e
    <2>1. \A c : c \in CombinationsTo(g, patterns, 0) <=>
                /\ c = [j \in 1..0 |-> c[j]]
                /\ \A j \in 1..0 : c[j] \in Layings(g, patterns[j])
                /\ Unambiguous(PairsOf(patterns, 0, c))
        BY CombinationIs
    <2>2. \A c : Unambiguous(PairsOf(patterns, 0, c))
        BY <1>2, <1>3
    <2>3. \A c : \A j \in 1..0 : c[j] \in Layings(g, patterns[j])
        BY <1>1
    <2> QED
        BY <1>4, <2>1, <2>2, <2>3
<1>6. CombinationsTo(g, patterns, 0) = {e}
    BY <1>5
<1>7. RowsTo(g, patterns, 0)[e] = NoRow
    <2>1. RowsTo(g, patterns, 0)[e] = RowOf(PairsOf(patterns, 0, e))
        BY <1>5 DEF RowsTo
    <2>2. PairsOf(patterns, 0, e) = {}
        BY <1>2
    <2> QED
        BY <1>3, <2>1, <2>2
<1> QED
    BY <1>6, <1>7, ListsOne

\* The layings whose rows agree with a row, and what the row makes with them.
Agreeing(M, L, row, R) == \A l : l \in M <=> l \in L /\ Agree(row, R[l])
MergedWith(h, M, row, R) == \A l \in M : h[l] = Merged(row, R[l])

\* What a row is joined to, under the names of the layings that agree with it.
LEMMA JoinedListed ==
    ASSUME NEW left, IsList(left), NEW right, IsList(right), NEW L, NEW R, Lists(right, L, R),
           NEW i \in 1..Len(left), NEW row, row = left[i],
           NEW M, Agreeing(M, L, row, R), NEW h, MergedWith(h, M, row, R)
    PROVE  Lists(JoinedLists(left, right)[i], M, h)
<1> DEFINE S == {r \in ToSet(right) : Agree(left[i], r)}
           fitting == Partners(left, right, i)
           list == JoinedLists(left, right)[i]
<1>1. /\ IsList(list) /\ IsList(fitting) /\ Len(list) = Len(fitting)
      /\ \A j \in 1..Len(list) : list[j] = Merged(left[i], fitting[j])
    BY JoinedListsAre
<1>2. fitting = Kept(right, S)
    BY DEF Partners
<1>3. \A l \in L : R[l] \in ToSet(right)
    <2>1. PICK f \in Bijection(1..Len(right), L) : \A j \in 1..Len(right) : right[j] = R[f[j]]
        BY DEF Lists
    <2>2. \A l \in L : \E j \in 1..Len(right) : f[j] = l
        BY BijectionHas
    <2>3. DOMAIN right = 1..Len(right)
        BY ListLen
    <2> QED
        BY <2>1, <2>2, <2>3 DEF ToSet
<1>4. {l \in L : R[l] \in S} = M
    BY <1>3 DEF Agreeing
<1> HIDE DEF S, fitting, list
<1>5. Lists(Kept(right, S), {l \in L : R[l] \in S}, R)
    BY ListsKept
<1>6. Lists(fitting, M, R)
    BY <1>2, <1>4, <1>5
<1>7. \A j \in 1..Len(fitting) : \A l \in M : fitting[j] = R[l] => list[j] = h[l]
    BY <1>1 DEF MergedWith
<1>8. Lists(list, M, h)
    BY <1>1, <1>6, <1>7, ListsMapped
<1> QED
    BY <1>8 DEF list

\* What is extended can be taken apart again.
LEMMA ExtendedAgain ==
    ASSUME NEW k \in Nat, NEW c, c = [j \in 1..k |-> c[j]], NEW l
    PROVE  Shortened(k, Extended(k, c, l)) = c /\ Extended(k, c, l)[k + 1] = l
<1> DEFINE d == Extended(k, c, l)
<1>1. k + 1 \in 1..(k + 1) /\ \A j \in 1..k : j \in 1..(k + 1) /\ j # k + 1
    OBVIOUS
<1>2. d[k + 1] = l /\ \A j \in 1..k : d[j] = c[j]
    BY <1>1 DEF Extended
<1> HIDE DEF d
<1>3. Shortened(k, d) = c
    BY <1>2 DEF Shortened
<1> QED
    BY <1>2, <1>3 DEF d

\* The combinations one pattern longer are those before, with a laying that agrees.
LEMMA ExtendedOnce ==
    ASSUME NEW g, NEW patterns, NEW k \in Nat, NEW E,
           \A y : y \in E <=>
                /\ y = <<y[1], y[2]>> /\ y[1] \in CombinationsTo(g, patterns, k)
                /\ y[2] \in Layings(g, patterns[k + 1])
                /\ Agree(RowsTo(g, patterns, k)[y[1]], LaidRows(g, patterns[k + 1])[y[2]])
    PROVE  [y \in E |-> Extended(k, y[1], y[2])] \in Bijection(E, CombinationsTo(g, patterns, k + 1))
<1> DEFINE r == [y \in E |-> Extended(k, y[1], y[2])]
           L == CombinationsTo(g, patterns, k + 1)
<1>1. r = [y \in E |-> r[y]] /\ \A y \in E : r[y] = Extended(k, y[1], y[2])
    OBVIOUS
<1>2. ASSUME NEW y \in E
      PROVE  /\ r[y] \in L /\ Shortened(k, r[y]) = y[1] /\ y = <<y[1], y[2]>>
             /\ r[y][k + 1] = y[2]
    <2> DEFINE c == y[1]
               l == y[2]
    <2>1. /\ y = <<y[1], y[2]>> /\ c \in CombinationsTo(g, patterns, k)
          /\ l \in Layings(g, patterns[k + 1])
          /\ Agree(RowsTo(g, patterns, k)[c], LaidRows(g, patterns[k + 1])[l])
        OBVIOUS
    <2>2. r[y] = Extended(k, c, l)
        OBVIOUS
    <2> HIDE DEF c, l, r, L
    <2>a. Extended(k, c, l) \in CombinationsTo(g, patterns, k + 1)
        BY <2>1, ExtendedCombinations
    <2>b. c = [j \in 1..k |-> c[j]]
        BY <2>1, CombinationIs
    <2>c. Shortened(k, Extended(k, c, l)) = c /\ Extended(k, c, l)[k + 1] = l
        BY <2>b, ExtendedAgain
    <2>3. /\ Extended(k, c, l) \in CombinationsTo(g, patterns, k + 1)
          /\ Shortened(k, Extended(k, c, l)) = c
          /\ Extended(k, c, l)[k + 1] = l
        BY <2>a, <2>c
    <2> QED
        BY <2>1, <2>2, <2>3 DEF c, l, L
<1>3. ASSUME NEW d \in L
      PROVE  \E y \in E : r[y] = d
    <2> DEFINE c == Shortened(k, d)
               l == d[k + 1]
               y == <<c, l>>
    <2>1. /\ c \in CombinationsTo(g, patterns, k) /\ l \in Layings(g, patterns[k + 1])
          /\ Extended(k, c, l) = d
        BY ShortenedCombinations
    <2> HIDE DEF c, l
    <2>2. Agree(RowsTo(g, patterns, k)[c], LaidRows(g, patterns[k + 1])[l])
        BY <2>1, ExtendedCombinations
    <2>3. y = <<y[1], y[2]>> /\ y[1] = c /\ y[2] = l
        OBVIOUS
    <2> HIDE DEF y, r
    <2>4. y \in E
        BY <2>1, <2>2, <2>3
    <2>5. r[y] = d
        BY <1>1, <2>1, <2>3, <2>4
    <2> QED
        BY <2>4, <2>5
<1> HIDE DEF r, L
<1>4. ASSUME NEW y \in E, NEW z \in E, r[y] = r[z]
      PROVE  y = z
    <2>1. y[1] = z[1] /\ y[2] = z[2]
        BY <1>2, <1>4
    <2> QED
        BY <1>2, <2>1
<1>5. r \in Bijection(E, L)
    BY <1>1, <1>2, <1>3, <1>4, BijectionMeans
<1> QED
    BY <1>5 DEF r, L

\* Rows joined to those of the next pattern are the combinations with it.
LEMMA JoinListed ==
    ASSUME NEW g, NEW patterns, NEW k \in Nat, NEW left, IsList(left), NEW right, IsList(right),
           Lists(left, CombinationsTo(g, patterns, k), RowsTo(g, patterns, k)),
           Lists(right, Layings(g, patterns[k + 1]), LaidRows(g, patterns[k + 1]))
    PROVE  Lists(Joined(left, right), CombinationsTo(g, patterns, k + 1), RowsTo(g, patterns, k + 1))
<1> DEFINE lists == JoinedLists(left, right)
           C == CombinationsTo(g, patterns, k)
           W == RowsTo(g, patterns, k)
           N == Layings(g, patterns[k + 1])
           R == LaidRows(g, patterns[k + 1])
           M == [c \in C |-> {l \in N : Agree(W[c], R[l])}]
           h == [c \in C |-> [l \in M[c] |-> Merged(W[c], R[l])]]
           E == {y \in C \X N : y[2] \in M[y[1]]}
           val == [y \in E |-> h[y[1]][y[2]]]
           r == [y \in E |-> Extended(k, y[1], y[2])]
<1>1. PICK f \in Bijection(1..Len(left), C) : \A i \in 1..Len(left) : left[i] = W[f[i]]
    BY DEF Lists
<1>2. \A i \in 1..Len(left) : f[i] \in C
    BY <1>1, BijectionHas
<1>3. /\ Joined(left, right) = FlattenSeq(lists)
      /\ IsList(lists) /\ Len(lists) = Len(left) /\ \A i \in 1..Len(left) : IsList(lists[i])
    BY JoinedListsAre
<1>4. \A c \in C : M[c] = {l \in N : Agree(W[c], R[l])}
    OBVIOUS
<1>5. \A c \in C : \A l \in M[c] : h[c][l] = Merged(W[c], R[l])
    OBVIOUS
<1>6. \A y : y \in E <=> y = <<y[1], y[2]>> /\ y[1] \in C /\ y[2] \in M[y[1]]
    <2>1. ASSUME NEW y, y = <<y[1], y[2]>>, y[1] \in C, y[2] \in M[y[1]]
          PROVE  y \in E
        BY <2>1
    <2>2. ASSUME NEW y, y \in E
          PROVE  y = <<y[1], y[2]>> /\ y[1] \in C /\ y[2] \in M[y[1]]
        BY <2>2
    <2> QED
        BY <2>1, <2>2
<1>7. \A y \in E : val[y] = h[y[1]][y[2]]
    OBVIOUS
<1>8. r = [y \in E |-> Extended(k, y[1], y[2])] /\ \A y \in E : r[y] = Extended(k, y[1], y[2])
    OBVIOUS
<1> HIDE DEF M, h, E, val, lists, C, W, N, R
<1>9. ASSUME NEW i \in 1..Len(lists)
      PROVE  Lists(lists[i], M[f[i]], h[f[i]])
    <2> DEFINE c == f[i]
               row == W[c]
               Mc == M[c]
               hc == h[c]
    <2>1. i \in 1..Len(left) /\ row = left[i]
        BY <1>1, <1>3
    <2>2. Agreeing(Mc, N, row, R) /\ MergedWith(hc, Mc, row, R)
        BY <1>2, <1>4, <1>5, <2>1 DEF Agreeing, MergedWith
    <2>3. Lists(right, N, R)
        BY DEF N, R
    <2> HIDE DEF c, row, Mc, hc, r
    <2>4. Lists(JoinedLists(left, right)[i], Mc, hc)
        BY <2>1, <2>2, <2>3, JoinedListed
    <2> QED
        BY <2>4 DEF lists, Mc, hc, c
<1>10. AreLists(lists) /\ f \in Bijection(1..Len(lists), C) /\ ListEach(lists, f, M, h)
    BY <1>1, <1>3, <1>9 DEF AreLists, ListEach
<1>11. ArePairs(E, C, M) /\ AreValues(val, E, h)
    BY <1>6, <1>7 DEF ArePairs, AreValues
<1>12. Lists(FlattenSeq(lists), E, val)
    BY <1>10, <1>11, ListsFlattened
<1>13. \A y : y \in E <=>
                /\ y = <<y[1], y[2]>> /\ y[1] \in C /\ y[2] \in N /\ Agree(W[y[1]], R[y[2]])
    BY <1>4, <1>6
<1> HIDE DEF r
<1>14. r \in Bijection(E, CombinationsTo(g, patterns, k + 1))
    BY <1>8, <1>13, ExtendedOnce DEF C, W, N, R
<1>15. \A y \in E : val[y] = RowsTo(g, patterns, k + 1)[r[y]]
    <2>1. SUFFICES ASSUME NEW y \in E
                   PROVE  val[y] = RowsTo(g, patterns, k + 1)[r[y]]
        OBVIOUS
    <2> DEFINE c == y[1]
               l == y[2]
    <2>2. /\ c \in CombinationsTo(g, patterns, k) /\ l \in Layings(g, patterns[k + 1])
          /\ Agree(RowsTo(g, patterns, k)[c], LaidRows(g, patterns[k + 1])[l])
        BY <1>13 DEF C, W, N, R
    <2>3. val[y] = Merged(RowsTo(g, patterns, k)[c], LaidRows(g, patterns[k + 1])[l])
        BY <1>5, <1>6, <1>7 DEF W, R
    <2>4. r[y] = Extended(k, c, l)
        BY <1>8
    <2> HIDE DEF c, l
    <2>5. Merged(RowsTo(g, patterns, k)[c], LaidRows(g, patterns[k + 1])[l])
            = RowsTo(g, patterns, k + 1)[Extended(k, c, l)]
        BY <2>2, ExtendedCombinations
    <2> QED
        BY <2>3, <2>4, <2>5
<1>16. Lists(FlattenSeq(lists), CombinationsTo(g, patterns, k + 1), RowsTo(g, patterns, k + 1))
    <2> DEFINE D == CombinationsTo(g, patterns, k + 1)
               V == RowsTo(g, patterns, k + 1)
    <2>1. r \in Bijection(E, D) /\ \A y \in E : val[y] = V[r[y]]
        BY <1>14, <1>15
    <2> HIDE DEF D, V
    <2>2. Lists(FlattenSeq(lists), D, V)
        BY <1>12, <2>1, ListsRenamed
    <2> QED
        BY <2>2 DEF D, V
<1> QED
    BY <1>3, <1>16

\* The empty list is of nothing.
LEMMA ListsNone ==
    ASSUME NEW L, NEW h
    PROVE  Lists(<<>>, L, h) <=> L = {}
<1> DEFINE t == <<>>
<1>1. Len(t) = 0 /\ 1..0 = {}
    OBVIOUS
<1> HIDE DEF t
<1>2. ASSUME Lists(t, L, h)
      PROVE  L = {}
    <2>1. PICK f \in Bijection(1..Len(t), L) : TRUE
        BY <1>2 DEF Lists
    <2>2. \A l \in L : \E i \in 1..Len(t) : f[i] = l
        BY BijectionHas
    <2> QED
        BY <1>1, <2>2
<1>3. ASSUME L = {}
      PROVE  Lists(t, L, h)
    <2> DEFINE f == [i \in 1..Len(t) |-> 0]
    <2>1. f = [i \in 1..Len(t) |-> f[i]] /\ 1..Len(t) = {}
        BY <1>1
    <2> HIDE DEF f
    <2>2. f \in Bijection(1..Len(t), L)
        BY <1>3, <2>1, BijectionMeans
    <2> QED
        BY <2>1, <2>2 DEF Lists
<1> QED
    BY <1>2, <1>3 DEF t

\* What is found of the first k patterns, unless it failed: their combinations.
Listed(g, patterns, k, found) ==
    found.ok => Lists(found.rows, CombinationsTo(g, patterns, k), RowsTo(g, patterns, k))

\* One pattern more, one laying more.
LEMMA WithPatternListed ==
    ASSUME NEW g, Sound(g), NEW patterns, NEW k \in Nat, PathParsed(patterns[k + 1]),
           LeftToRightIn(patterns[k + 1]),
           NEW found, AreMatched(g, patterns, k, found), Listed(g, patterns, k, found)
    PROVE  Listed(g, patterns, k + 1, WithPattern(found, MatchPattern(g, patterns[k + 1])))
<1> DEFINE p == patterns[k + 1]
           own == MatchPattern(g, p)
           C == CombinationsTo(g, patterns, k + 1)
           W == RowsTo(g, patterns, k + 1)
<1>1. IsList(own.rows) /\ Lists(own.rows, Layings(g, p), LaidRows(g, p))
    <2> HIDE DEF p
    <2>1. PathParsed(p) /\ LeftToRightIn(p)
        BY DEF p
    <2>2. IsList(MatchPattern(g, p).rows)
        BY <2>1, MatchPatternRows DEF AreRows
    <2> QED
        BY <2>1, <2>2, MatchListed
<1>2. found = [ok |-> found.ok, rows |-> found.rows] /\ IsList(found.rows)
    BY DEF AreMatched, AreRows
<1>3. found.ok =>
        Lists(found.rows, CombinationsTo(g, patterns, k), RowsTo(g, patterns, k))
    BY DEF Listed
<1>4. found.ok => Lists(Joined(found.rows, own.rows), C, W)
    <2> DEFINE left == found.rows
               right == own.rows
    <2>1. IsList(left) /\ IsList(right)
        BY <1>1, <1>2
    <2>2. Lists(right, Layings(g, patterns[k + 1]), LaidRows(g, patterns[k + 1]))
        BY <1>1
    <2>3. found.ok => Lists(left, CombinationsTo(g, patterns, k), RowsTo(g, patterns, k))
        BY <1>3
    <2> HIDE DEF left, right, own, p
    <2>4. found.ok => Lists(Joined(left, right), CombinationsTo(g, patterns, k + 1),
                            RowsTo(g, patterns, k + 1))
        BY <2>1, <2>2, <2>3, JoinListed
    <2> QED
        BY <2>4 DEF left, right
<1>5. ASSUME found.ok, found.rows = <<>>
      PROVE  Lists(found.rows, C, W)
    <2>1. CombinationsTo(g, patterns, k) = {}
        BY <1>3, <1>5, ListsNone
    <2>2. C = {}
        BY <2>1, ShortenedCombinations
    <2> HIDE DEF C, W
    <2> QED
        BY <1>5, <2>2, ListsNone
<1> HIDE DEF own, C, W
<1> DEFINE next == WithPattern(found, own)
<1>6. next.ok => Lists(next.rows, C, W)
    <2>1. CASE ~found.ok
        BY <2>1 DEF WithPattern
    <2>2. CASE found.ok /\ found.rows = <<>>
        BY <1>5, <2>2 DEF WithPattern
    <2>3. CASE found.ok /\ found.rows # <<>> /\ ~own.ok
        <3>1. next = [ok |-> FALSE, rows |-> found.rows]
            BY <1>2, <2>3 DEF WithPattern
        <3> QED
            BY <3>1
    <2>4. CASE found.ok /\ found.rows # <<>> /\ own.ok
        <3>1. next = [ok |-> found.ok, rows |-> Joined(found.rows, own.rows)]
            BY <1>2, <2>4 DEF WithPattern
        <3> QED
            BY <1>4, <2>4, <3>1
    <2> QED
        BY <2>1, <2>2, <2>3, <2>4
<1> HIDE DEF next
<1>7. Listed(g, patterns, k + 1, next)
    BY <1>6 DEF Listed, C, W
<1> QED
    BY <1>7 DEF next, own

CombinationGood(c, k, x) == AreMatched(c[1], c[2], k, x) /\ Listed(c[1], c[2], k, x)
Combining == INSTANCE Folding WITH Step <- PatternStep, Good <- CombinationGood

\* Matching a list of patterns finds their combinations.
LEMMA MatchPatternsListed ==
    ASSUME NEW g, Sound(g), NEW patterns, IsList(patterns),
           \A k \in 1..Len(patterns) : PathParsed(patterns[k]) /\ LeftToRightIn(patterns[k])
    PROVE  Listed(g, patterns, Len(patterns), MatchPatterns(g, patterns))
<1> DEFINE c == <<g, patterns>>
           n == Len(patterns)
           base == [ok |-> TRUE, rows |-> <<NoRow>>]
<1>1. n \in Nat /\ DOMAIN patterns = 1..n /\ c[1] = g /\ c[2] = patterns
    BY ListLen
<1> HIDE DEF c
<1>2. CombinationGood(c, 0, base)
    <2>1. AreRows(g, <<NoRow>>) /\ Bind(<<NoRow>>, {})
        BY OneRow
    <2>2. PatternsVars(patterns, 0) = {}
        BY DEF PatternsVars
    <2>3. AreMatched(g, patterns, 0, base)
        BY <2>1, <2>2 DEF AreMatched
    <2>4. Listed(g, patterns, 0, base)
        BY NoPatternListed DEF Listed
    <2> QED
        BY <1>1, <2>3, <2>4 DEF CombinationGood
<1> HIDE DEF base
<1>3. ASSUME NEW k \in 1..n, NEW x, CombinationGood(c, k - 1, x)
      PROVE  CombinationGood(c, k, PatternStep(c, x, patterns[k]))
    <2> DEFINE i == k - 1
    <2>1. i \in Nat /\ k = i + 1 /\ k \in Nat \ {0}
        BY <1>1
    <2>2. AreMatched(g, patterns, k - 1, x) /\ AreMatched(g, patterns, i, x) /\ Listed(g, patterns, i, x)
        BY <1>1, <1>3 DEF CombinationGood
    <2> HIDE DEF i
    <2>3. AreMatched(g, patterns, k, WithPattern(x, MatchPattern(g, patterns[k])))
        BY <2>1, <2>2, WithPatternMatched
    <2>4. PathParsed(patterns[i + 1]) /\ LeftToRightIn(patterns[i + 1])
        BY <2>1
    <2>5. Listed(g, patterns, i + 1, WithPattern(x, MatchPattern(g, patterns[i + 1])))
        BY <2>1, <2>2, <2>4, WithPatternListed
    <2> QED
        BY <1>1, <2>1, <2>3, <2>5 DEF CombinationGood, PatternStep
<1>4. CombinationGood(c, n, Combining!Fold(c, base, patterns))
    BY <1>1, <1>2, <1>3, AllNumbers, Combining!FoldKeeps DEF Combining!Inductive
<1>5. Combining!Fold(c, base, patterns) = MatchPatterns(g, patterns)
    BY <1>1 DEF base, MatchPatterns, Combining!Fold, PatternStep, FoldLeft, MapThenFoldSet, Max,
                Combining!LastOf
<1> QED
    BY <1>1, <1>4, <1>5 DEF CombinationGood

\* Every row is as often in a list as it is the value of an element.
EachCounted(t, L, h) ==
    \A row : Cardinality({k \in DOMAIN t : t[k] = row}) = Cardinality({l \in L : h[l] = row})

\* A list has each row as often as the set it lists has elements that give it.
LEMMA ListsCounted ==
    ASSUME NEW t, IsList(t), NEW L, NEW h, Lists(t, L, h)
    PROVE  Len(t) = Cardinality(L) /\ EachCounted(t, L, h)
<1> DEFINE n == Len(t)
           D == 1..n
<1>1. n \in Nat /\ DOMAIN t = D
    BY ListLen
<1>2. PICK f \in Bijection(D, L) : \A i \in D : t[i] = h[f[i]]
    BY DEF Lists
<1>3. IsFiniteSet(D)
    BY <1>1, FS_Interval
<1>4. n = Cardinality(L)
    <2>1. ExistsBijection(D, L)
        BY <1>2 DEF ExistsBijection
    <2> QED
        BY <1>1, <2>1, FS_CountingElements
<1>5. /\ \A i \in D : f[i] \in L
      /\ \A i, j \in D : f[i] = f[j] => i = j
      /\ \A l \in L : \E i \in D : f[i] = l
    BY <1>2, BijectionHas
<1>6. ASSUME NEW row
      PROVE  Cardinality({k \in D : t[k] = row}) = Cardinality({l \in L : h[l] = row})
    <2> DEFINE K == {k \in D : t[k] = row}
               M == {l \in L : h[l] = row}
               r == [k \in K |-> f[k]]
    <2>1. IsFiniteSet(K)
        BY <1>3, FS_Subset
    <2>2. r = [k \in K |-> r[k]] /\ \A k \in K : r[k] = f[k] /\ k \in D
        OBVIOUS
    <2>3. \A k \in K : f[k] \in M
        BY <1>2, <1>5
    <2>4. \A l \in M : \E k \in K : f[k] = l
        BY <1>2, <1>5
    <2> HIDE DEF K, M, r, D
    <2>5. r \in Bijection(K, M)
        BY <1>5, <2>2, <2>3, <2>4, BijectionMeans
    <2>6. ExistsBijection(K, M)
        BY <2>5 DEF ExistsBijection
    <2>7. Cardinality(M) = Cardinality(K)
        BY <2>1, <2>6, FS_Bijection
    <2> QED
        BY <2>7 DEF K, M
<1>7. EachCounted(t, L, h)
    BY <1>1, <1>6 DEF EachCounted
<1> QED
    BY <1>4, <1>7

\* So the rows of a list of patterns are those of its combinations, once each.
LEMMA PatternsFoundOnce ==
    ASSUME NEW g, Sound(g), NEW patterns, IsList(patterns),
           \A k \in 1..Len(patterns) : PathParsed(patterns[k]) /\ LeftToRightIn(patterns[k])
    PROVE  FoundOnce(MatchPatterns(g, patterns), patterns, Combinations(g, patterns))
<1> DEFINE n == Len(patterns)
           found == MatchPatterns(g, patterns)
           all == Combinations(g, patterns)
           W == RowsTo(g, patterns, n)
<1>1. DOMAIN patterns = 1..n
    BY ListLen
<1>2. IsList(found.rows)
    BY MatchPatternsMatched DEF AreMatched, AreRows
<1>3. found.ok => Lists(found.rows, CombinationsTo(g, patterns, n), W)
    BY MatchPatternsListed DEF Listed
<1>4. \A c : AllPairs(patterns, c) = PairsOf(patterns, n, c)
    BY <1>1 DEF AllPairs, PairsOf
<1>5. all = CombinationsTo(g, patterns, n)
    <2> HIDE DEF n
    <2> DEFINE layings == [k \in DOMAIN patterns |-> Layings(g, patterns[k])]
    <2>1. \A k \in 1..n : layings[k] = Layings(g, patterns[k])
        BY <1>1
    <2>2. all = {c \in [DOMAIN patterns -> UNION {layings[k] : k \in DOMAIN patterns}] :
                    (\A k \in DOMAIN patterns : c[k] \in layings[k])
                        /\ Unambiguous(AllPairs(patterns, c))}
        BY DEF Combinations
    <2> HIDE DEF layings, all
    <2>3. {layings[k] : k \in DOMAIN patterns} = {Layings(g, patterns[k]) : k \in 1..n}
        BY <1>1, <2>1
    <2>4. ASSUME NEW c
          PROVE  c \in all <=> c \in CombinationsTo(g, patterns, n)
        <3>1. c \in all <=>
                /\ c \in [DOMAIN patterns -> UNION {layings[k] : k \in DOMAIN patterns}]
                /\ \A k \in DOMAIN patterns : c[k] \in layings[k]
                /\ Unambiguous(AllPairs(patterns, c))
            BY <2>2
        <3>2. c \in CombinationsTo(g, patterns, n) <=>
                /\ c \in [1..n -> UNION {Layings(g, patterns[j]) : j \in 1..n}]
                /\ \A j \in 1..n : c[j] \in Layings(g, patterns[j])
                /\ Unambiguous(PairsOf(patterns, n, c))
            BY DEF CombinationsTo
        <3> QED
            BY <1>1, <1>4, <2>1, <2>3, <3>1, <3>2
    <2> QED
        BY <2>4
<1>6. \A c \in all : W[c] = RowFrom(patterns, c)
    <2> HIDE DEF n, all
    <2> QED
        BY <1>4, <1>5 DEF RowsTo, RowFrom
<1> HIDE DEF n, found, all, W
<1>7. ASSUME found.ok
      PROVE  /\ Len(found.rows) = Cardinality(all)
             /\ \A row : Cardinality({k \in DOMAIN found.rows : found.rows[k] = row})
                            = Cardinality({c \in all : RowFrom(patterns, c) = row})
    <2>1. Lists(found.rows, all, W)
        BY <1>3, <1>5, <1>7
    <2>2. Len(found.rows) = Cardinality(all) /\ EachCounted(found.rows, all, W)
        BY <1>2, <2>1, ListsCounted
    <2>3. ASSUME NEW row
          PROVE  Cardinality({k \in DOMAIN found.rows : found.rows[k] = row})
                    = Cardinality({c \in all : RowFrom(patterns, c) = row})
        <3>1. {c \in all : W[c] = row} = {c \in all : RowFrom(patterns, c) = row}
            BY <1>6
        <3>2. Cardinality({k \in DOMAIN found.rows : found.rows[k] = row})
                = Cardinality({c \in all : W[c] = row})
            BY <2>2, Zenon DEF EachCounted
        <3> QED
            BY <3>1, <3>2
    <2> QED
        BY <2>2, <2>3
<1>8. FoundOnce(found, patterns, all)
    BY <1>7 DEF FoundOnce
<1> QED
    BY <1>8 DEF found, all

\* In every session, and for every graph and every statement whose properties only
\* ask about what is bound before: matching that does not fail finds each way to lay
\* the patterns over the graph exactly once, with the row it binds (match_pattern,
\* expand_match, merge_bindings, mod.rs:1011-1202).
THEOREM RowsAreExact == Spec => []RowsExact
<1>1. IInv => RowsExact
    <2> SUFFICES ASSUME IInv, NEW s \in Statement, s.kind = "match", LeftToRight(s.patterns)
                 PROVE  FoundOnce(MatchPatterns(Here, s.patterns), s.patterns,
                                  Combinations(Here, s.patterns))
        BY DEF RowsExact
    <2> DEFINE g == Here
               patterns == s.patterns
    <2>1. MatchParsed(s)
        BY StatementAssumption DEF Parses, Parts
    <2>2. Sound(g)
        BY HereSound
    <2>3. IsList(patterns) /\ \A p \in ToSet(patterns) : PathParsed(p) /\ LeftToRightIn(p)
        BY <2>1 DEF MatchParsed, LeftToRight
    <2> HIDE DEF g, patterns
    <2>4. \A k \in 1..Len(patterns) : PathParsed(patterns[k]) /\ LeftToRightIn(patterns[k])
        BY <2>3, ListLen DEF ToSet
    <2>5. FoundOnce(MatchPatterns(g, patterns), patterns, Combinations(g, patterns))
        BY <2>2, <2>3, <2>4, PatternsFoundOnce
    <2> QED
        BY <2>5 DEF g, patterns
<1> QED
    BY <1>1, Invariance, PTL
=============================================================================
