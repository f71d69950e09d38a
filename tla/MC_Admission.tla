--------------------------- MODULE MC_Admission ---------------------------
(* Model-checking instances of Admission.                                  *)
EXTENDS Admission, TLC

\* Addresses and handlers are interchangeable.
Symmetry == Permutations(Ips) \union Permutations(Handlers)
===========================================================================
