-------------------------- MODULE MC_AdminRequests --------------------------
EXTENDS AdminRequests, TLC

Symmetry == Permutations(Requests) \cup Permutations(Handlers)
=============================================================================
