--------------------------- MODULE MC_LandingKeys ---------------------------
(* Instances of LandingKeys for TLC. *)
EXTENDS LandingKeys, TLC

\* No field, a connection, alone or while disabling, a switch, a wider scope.
OneOrTwoFields ==
  {input \in Input :
     /\ input.secret # None => input.enabled # TRUE /\ input.scope = None
     /\ input.scope # None => input.scope = {} /\ input.enabled = None}

Symmetry == Permutations(Landings) \union Permutations(Secrets) \union
            Permutations(Handlers)
=============================================================================
