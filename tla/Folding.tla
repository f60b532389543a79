------------------------------ MODULE Folding ------------------------------
(***************************************************************************)
(* Induction over the elements of a sequence.  The provers cannot          *)
(* instantiate a theorem that takes an operator; here the operators are    *)
(* constants, and a module that folds a Step of its own instantiates this  *)
(* one with it and with the property Good to show.  The first argument of  *)
(* both is whatever else they depend on.                                   *)
(*                                                                         *)
(* Every instance copies all that this module extends, hence so little of  *)
(* it: Fold is spelled out, and that numbers can be counted up to is       *)
(* stated here and proved once where the instances are.                    *)
(***************************************************************************)
EXTENDS Integers

CONSTANTS
    Step(_, _, _),  \* what an element makes of the result so far
    Good(_, _, _)   \* what holds of the result of the first k elements

\* A set of numbers that has 0, and with a number the next, has them all.
Inductive == \A S : 0 \in S /\ (\A k \in Nat : k \in S => k + 1 \in S) => Nat \subseteq S

LastOf(t) == CHOOSE x \in t : \A y \in t : x >= y

\* FoldLeft of SequencesExt, expanded: it takes the elements from the last
\* back, and its function is one of the sets of indices that are left.
Fold(c, base, s) ==
    LET iter[t \in SUBSET (DOMAIN s)] ==
            IF t = {} THEN base
            ELSE LET x == LastOf(t) IN Step(c, iter[t \ {x}], s[x])
    IN  iter[DOMAIN s]

IsFold(F, c, base, s, m) ==
    F = [t \in SUBSET (1..m) |->
            IF t = {} THEN base ELSE Step(c, F[t \ {LastOf(t)}], s[LastOf(t)])]

\* A set of indices that has the last one loses it first.
LEMMA LastOfFirst ==
    ASSUME NEW m \in Nat, NEW t \in SUBSET (1..(m + 1)), m + 1 \in t
    PROVE  LastOf(t) = m + 1 /\ t \ {LastOf(t)} \in SUBSET (1..m)
<1>1. \A y \in t : m + 1 >= y
    OBVIOUS
<1>2. \A x \in t : (\A y \in t : x >= y) => x = m + 1
    OBVIOUS
<1>3. LastOf(t) = m + 1
    BY <1>1, <1>2 DEF LastOf
<1> QED
    BY <1>3

\* The subsets of an initial piece are those of the last one and those with it.
LEMMA LastOfOthers ==
    ASSUME NEW m \in Nat, NEW t \in SUBSET (1..(m + 1))
    PROVE  t \in SUBSET (1..m) \/ m + 1 \in t
OBVIOUS

\* There is such a function for every length.
LEMMA FoldExists ==
    ASSUME NEW c, NEW base, NEW s, NEW n \in Nat, Inductive
    PROVE  \E F : IsFold(F, c, base, s, n)
<1> DEFINE S == {m \in Nat : \E F : IsFold(F, c, base, s, m)}
<1>1. 0 \in S
    <2>1. SUBSET (1..0) = {{}}
        OBVIOUS
    <2>2. IsFold([t \in SUBSET (1..0) |-> base], c, base, s, 0)
        BY <2>1 DEF IsFold
    <2> QED
        BY <2>2
<1>2. ASSUME NEW m \in Nat, m \in S
      PROVE  m + 1 \in S
    <2>1. PICK F : IsFold(F, c, base, s, m)
        BY <1>2
    <2> DEFINE H == [t \in SUBSET (1..(m + 1)) |->
                        IF t \in SUBSET (1..m) THEN F[t]
                        ELSE Step(c, F[t \ {m + 1}], s[m + 1])]
    <2>2. ASSUME NEW t \in SUBSET (1..(m + 1))
          PROVE  H[t] = IF t = {} THEN base
                        ELSE Step(c, H[t \ {LastOf(t)}], s[LastOf(t)])
        <3>1. CASE t \in SUBSET (1..m)
            <4>1. t \ {LastOf(t)} \in SUBSET (1..m)
                BY <3>1
            <4>2. H[t] = F[t] /\ H[t \ {LastOf(t)}] = F[t \ {LastOf(t)}]
                BY <3>1, <4>1
            <4> QED
                BY <2>1, <3>1, <4>2 DEF IsFold
        <3>2. CASE ~(t \in SUBSET (1..m))
            <4>1. LastOf(t) = m + 1 /\ t \ {LastOf(t)} \in SUBSET (1..m) /\ t # {}
                BY <3>2, LastOfFirst, LastOfOthers
            <4>2. H[t] = Step(c, F[t \ {m + 1}], s[m + 1])
                BY <3>2
            <4>3. H[t \ {m + 1}] = F[t \ {m + 1}]
                BY <4>1
            <4> QED
                BY <4>1, <4>2, <4>3
        <3> QED
            BY <3>1, <3>2
    <2>3. H = [t \in SUBSET (1..(m + 1)) |-> H[t]]
        OBVIOUS
    <2> HIDE DEF H
    <2>4. IsFold(H, c, base, s, m + 1)
        BY <2>2, <2>3 DEF IsFold
    <2> QED
        BY <2>4
<1> HIDE DEF S
<1>3. Nat \subseteq S
    BY <1>1, <1>2 DEF Inductive
<1> QED
    BY <1>3 DEF S

\* A fold keeps what each of its steps passes on.
THEOREM FoldKeeps ==
    ASSUME NEW c, NEW base, NEW s, NEW n \in Nat, DOMAIN s = 1..n, Inductive, Good(c, 0, base),
           \A k \in 1..n : \A x : Good(c, k - 1, x) => Good(c, k, Step(c, x, s[k]))
    PROVE  Good(c, n, Fold(c, base, s))
<1> DEFINE F == CHOOSE F : IsFold(F, c, base, s, n)
           S == {k \in Nat : k <= n => Good(c, k, F[1..k])}
<1>1. IsFold(F, c, base, s, n)
    BY FoldExists
<1>2. Fold(c, base, s) = F[1..n]
    BY DEF Fold, IsFold
<1> HIDE DEF F
<1>3. F[1..0] = base
    <2>1. 1..0 = {} /\ 1..0 \in SUBSET (1..n)
        OBVIOUS
    <2> QED
        BY <1>1, <2>1 DEF IsFold
<1>4. ASSUME NEW k \in 1..n
      PROVE  F[1..k] = Step(c, F[1..(k - 1)], s[k])
    <2>1. k - 1 \in Nat /\ (k - 1) + 1 = k /\ 1..k \in SUBSET (1..n) /\ k \in 1..k
        OBVIOUS
    <2>2. LastOf(1..k) = k
        BY <2>1, LastOfFirst
    <2>3. (1..k) \ {k} = 1..(k - 1)
        OBVIOUS
    <2> QED
        BY <1>1, <2>1, <2>2, <2>3 DEF IsFold
<1>5. 0 \in S
    BY <1>3
<1>6. ASSUME NEW k \in Nat, k \in S
      PROVE  k + 1 \in S
    <2>1. SUFFICES ASSUME k + 1 <= n
                   PROVE  Good(c, k + 1, F[1..(k + 1)])
        OBVIOUS
    <2>2. Good(c, k, F[1..k]) /\ k + 1 \in 1..n /\ (k + 1) - 1 = k
        BY <1>6, <2>1
    <2> QED
        BY <2>2, <1>4
<1> HIDE DEF S
<1>7. Nat \subseteq S
    BY <1>5, <1>6 DEF Inductive
<1> QED
    BY <1>2, <1>7 DEF S
=============================================================================
