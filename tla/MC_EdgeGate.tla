---------------------------- MODULE MC_EdgeGate ----------------------------
(* Instances of EdgeGate for TLC: nothing tells its sets' members apart. *)
EXTENDS EdgeGate, TLC

Symmetry ==
    Permutations(Sessions) \cup Permutations(Isolates) \cup Permutations(Addresses)
===========================================================================
