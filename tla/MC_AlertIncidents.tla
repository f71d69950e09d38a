------------------------- MODULE MC_AlertIncidents -------------------------
(* Instances of AlertIncidents for TLC. *)
EXTENDS AlertIncidents
===========================================================================
