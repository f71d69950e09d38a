---------------------------- MODULE UsageLedger ----------------------------
(***************************************************************************)
(* What metering promises for one subscriber: a report that may be sent    *)
(* many times is added to the account's usage at most once per accounting  *)
(* period, only reports an edge session really issued are added, and       *)
(* nothing else but what other sessions report.                            *)
(* UsageReporting implements this with event ids.                          *)
(***************************************************************************)
EXTENDS Integers, FiniteSets, FiniteSetsExt

CONSTANT Events  \* reports: records with the bytes they stand for

VARIABLES
  issued,    \* reports the session has issued
  credited,  \* those added to the usage since it was last reset
  others,    \* what other sessions added since then
  total      \* the account's usage

ledger == <<issued, credited, others, total>>

Bytes(S) == MapThenSumSet(LAMBDA e : e.bytes, S)

Init == issued = {} /\ credited = {} /\ others = 0 /\ total = 0

Issue ==
  /\ issued \subseteq issued' /\ issued' \subseteq Events
  /\ UNCHANGED <<credited, others, total>>

Credit == \E S \in SUBSET (issued \ credited) :
  /\ credited' = credited \union S
  /\ total' = total + Bytes(S)
  /\ UNCHANGED <<issued, others>>

Elsewhere ==
  /\ others' - others \in Nat
  /\ total' = total + (others' - others)
  /\ UNCHANGED <<issued, credited>>

Reset == credited' = {} /\ others' = 0 /\ total' = 0 /\ UNCHANGED issued

Next == Issue \/ Credit \/ Elsewhere \/ Reset

Spec == Init /\ [][Next]_ledger
=============================================================================
