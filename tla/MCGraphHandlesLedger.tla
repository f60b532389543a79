------------------------ MODULE MCGraphHandlesLedger ------------------------
(* Instances of GraphHandlesLedger for TLC, with names as strings. *)
EXTENDS GraphHandlesLedger, TLC

MCDefaultName(i) == "node:" \o ToString(i)

\* The default names of the run's ids.
MCDefaultNames == {MCDefaultName(i) : i \in 0..(MaxNodes - 1)}

Symmetric == Permutations(Handle) \cup Permutations(Tx)
=============================================================================
