--------------------------- MODULE MC_PolicySync ---------------------------
(* Instances of PolicySync for TLC. *)
EXTENDS PolicySync, TLC

Symmetry == Permutations(Changes) \cup Permutations(Requests)
============================================================================
