--------------------------- MODULE MC_NodeHealth ---------------------------
(* Instances of NodeHealth for TLC. *)
EXTENDS NodeHealth, TLC

Symmetry == Permutations(Nodes) \cup Permutations(Handlers)
============================================================================
