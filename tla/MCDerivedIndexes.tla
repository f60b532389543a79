-------------------------- MODULE MCDerivedIndexes --------------------------
(* Instances of DerivedIndexes and IndexSearch for TLC. *)
EXTENDS DerivedIndexes, IndexSearch
LOCAL INSTANCE TLC

Char == <<"a", "b", Blank, Underscore, Mark>>

\* A text, by its characters.
Text(codes) == [k \in DOMAIN codes |-> Char[codes[k]]]

\* Words, an underscore and a mark inside words and an underscore alone, uneven
\* blanks, nothing at all.
MCTexts ==
    {Text(<<1, 2, 3, 1>>), Text(<<2, 4, 1, 2>>), Text(<<1, 3, 3, 2, 5, 2>>),
     Text(<<1, 2, 1, 3, 2, 2, 1>>), Text(<<2, 3, 4>>), Text(<<3>>)}

MCQueryTexts ==
    {Text(<<1>>), Text(<<1, 2>>), Text(<<2, 4>>), Text(<<1, 3, 2>>), Text(<<3, 2, 1, 3, 1>>),
     Text(<<1, 2, 1, 3, 2, 2, 1>>), Text(<<1, 2, 1>>), Text(<<1, 3, 4>>), Text(<<4>>)}

\* Records with one field or with both, of two labels.
MCTextQuestion ==
    {[records |-> {[id |-> 0, label |-> "x", fields |-> [title |-> a]],
                   [id |-> 1, label |-> "y", fields |-> [title |-> b, body |-> a]],
                   [id |-> 2, label |-> "x", fields |-> [body |-> b]]},
      fields |-> <<"body", "title">>, tokenizer |-> tokenizer, mode |-> mode,
      text |-> text, label |-> label] :
        a \in MCTexts, b \in MCTexts, tokenizer \in {"unicode61", "trigram"},
        mode \in {"all", "any", "phrase", "prefix"}, text \in MCQueryTexts,
        label \in {AnyLabel, "x"}}

MCVectorQuestion ==
    {[records |-> {[id |-> i, label |-> IF i = 1 THEN "y" ELSE "x", vector |-> vectors[i]] : i \in 0..2},
      metric |-> metric, vector |-> vector, label |-> label, least |-> least] :
        vectors \in [0..2 -> {<<1, 0>>, <<1, 2>>}], metric \in {"dot", "euclidean"},
        vector \in {<<1, 1>>, <<2, -1>>}, label \in {AnyLabel, "x"}, least \in {-10, 0}}

Symmetry == Permutations(Process)

\* Bound: two of a transaction, a fault and a load.
Small == counts.tx + counts.faults + counts.loads <= 2

\* Either the processes act or a question is answered.
MCInit == Init /\ (asked = NotAsked \/ InitAsked)
MCNext == asked = NotAsked /\ Next /\ Small' /\ UNCHANGED asked
MCSpec == MCInit /\ [][MCNext]_<<vars, asked>>
=============================================================================
