---------------------------- MODULE MC_Accounts ----------------------------
(* Instances of Accounts for TLC. *)
EXTENDS Accounts, TLC

Symmetry == Permutations(UserIds) \cup Permutations(Claims)
            \cup Permutations(Handlers)
===========================================================================
