-------------------------- MODULE MCGraphProcesses --------------------------
(* Instances of GraphProcesses for TLC. *)
EXTENDS GraphProcesses, TLC

MCDefaultName(i) == "node:" \o ToString(i)
MCDefaultNames == {MCDefaultName(i) : i \in 0..(MaxNodes - 1)}

Symmetric == Permutations(Process)
=============================================================================
