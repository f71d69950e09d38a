------------------------- MODULE MC_NodeEnrollment -------------------------
(* Instances of NodeEnrollment for TLC. *)
EXTENDS NodeEnrollment, TLC

Symmetry == Permutations(Enrollments) \cup Permutations(Calls)
============================================================================
