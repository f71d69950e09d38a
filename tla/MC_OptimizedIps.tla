-------------------------- MODULE MC_OptimizedIps --------------------------
(* Instances of OptimizedIps for TLC. *)
EXTENDS OptimizedIps, TLC

Symmetry == Permutations(NodeIds) \cup Permutations(Names) \cup Permutations(Ips)
===========================================================================
