--------------------------- MODULE MCGraphHandles ---------------------------
(***************************************************************************)
(* Instances of GraphHandles for TLC: external ids are strings, as in the  *)
(* code, so that a given id may be the default name of a later node.       *)
(***************************************************************************)
EXTENDS GraphHandles, TLC

MCDefaultName(i) == "node:" \o ToString(i)

\* The default names, which a client may also ask for.
MCDefaultNames == {MCDefaultName(i) : i \in 0..(MaxNodes - 1)}

Symmetric == Permutations(Handle) \cup Permutations(Tx)
=============================================================================
