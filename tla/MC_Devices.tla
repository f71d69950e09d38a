---------------------------- MODULE MC_Devices ----------------------------
(* Instances of Devices for TLC. *)
EXTENDS Devices, TLC

Symmetry == Permutations(NewDevices) \cup Permutations(Hardware)
            \cup Permutations(Requests)
===========================================================================
