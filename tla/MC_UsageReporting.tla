------------------------- MODULE MC_UsageReporting -------------------------
(* Model-checking instances of UsageReporting.  Flush calls are not made    *)
(* symmetric: a liveness property is checked.                               *)
EXTENDS UsageReporting
============================================================================
