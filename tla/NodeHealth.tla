---------------------------- MODULE NodeHealth ----------------------------
(***************************************************************************)
(* External health probes of the edge nodes and the removal of a node from *)
(* subscriptions (packages/control-plane/src/node-health.ts, its handler   *)
(* in index.ts), fed by one probe job at a time                            *)
(* (infra/scripts/healthcheck-nodes.sh, whose workflow is serialised by a  *)
(* concurrency group).  The job repeats a report that was not answered,    *)
(* so several handlers may hold the same report; a new run starts when     *)
(* none of them is left.                                                   *)
(***************************************************************************)
EXTENDS Naturals, Sequences

CONSTANTS Nodes,
          Handlers,            \* report handlers that may be in flight
          MaxRuns,             \* bound on the number of probe runs
          None,
          FailureThreshold,    \* NODE_FAILURE_THRESHOLD = 3
          RecoveryThreshold    \* NODE_RECOVERY_THRESHOLD = 2

ASSUME HealthAssumption ==
    /\ MaxRuns \in Nat
    /\ FailureThreshold \in Nat \ {0} /\ RecoveryThreshold \in Nat \ {0}

\* A probe of a node: direct and landing succeed, only the landing fails, or
\* the direct probe fails.
Outcomes == {"ok", "landing", "down"}

VARIABLES health,   \* nodes.health
          failures, \* node_health_state.consecutive_failures
          successes,\* node_health_state.consecutive_successes
          recorded, \* run ids in node_health_runs
          run,      \* the probe run being reported: its id and outcomes
          provisioningAllowed, \* COMPLIANCE_PROXY_ALLOWED = "1", fixed by deployment
          handler,  \* where each report handler is, with the rows it read
          history   \* ghost: outcomes that took effect, oldest first

vars == <<health, failures, successes, recorded, run, provisioningAllowed, handler,
          history>>

rows == <<health, failures, successes, recorded>>

Statuses == {"unknown", "healthy", "degraded", "banned"}

NodeRow == [health : Statuses, failures : Nat, successes : Nat]

Idle == [at |-> "idle", read |-> None]

Init ==
    /\ health \in [Nodes -> {"unknown", "healthy"}]
    /\ failures = [n \in Nodes |-> 0] /\ successes = [n \in Nodes |-> 0]
    /\ recorded = {}
    /\ run = [id |-> 0, outcome |-> [n \in Nodes |-> "ok"]]
    /\ provisioningAllowed \in BOOLEAN
    /\ handler = [h \in Handlers |-> Idle]
    /\ history = [n \in Nodes |-> <<>>]

----------------------------------------------------------------------------
\* The probe job measures every node and gives the run a fresh id.
Probe(outcome) ==
    /\ run.id < MaxRuns
    /\ \A h \in Handlers : handler[h] = Idle
    /\ run' = [id |-> run.id + 1, outcome |-> outcome]
    /\ UNCHANGED <<rows, handler, history>>

\* The job sends its report, the first time or again.
Receive(h) ==
    /\ run.id > 0 /\ handler[h] = Idle
    /\ handler' = [handler EXCEPT ![h].at = "gate"]
    /\ UNCHANGED <<rows, run, history>>

\* Mutant of Gate: the lock is not asked.
GateOpen(h) ==
    /\ handler[h].at = "gate"
    /\ handler' = [handler EXCEPT ![h].at = "duplicate"]
    /\ UNCHANGED <<rows, run, history>>

\* While provisioning is locked a report that would recover a node is refused.
Gate(h) ==
    /\ handler[h].at = "gate"
    /\ handler' = [handler EXCEPT ![h] =
            IF /\ ~provisioningAllowed
               /\ \E n \in Nodes : health[n] = "banned" /\ run.outcome[n] # "down"
            THEN Idle ELSE [Idle EXCEPT !.at = "duplicate"]]
    /\ UNCHANGED <<rows, run, history>>

CheckDuplicate(h) ==
    /\ handler[h].at = "duplicate"
    /\ handler' = [handler EXCEPT ![h] =
            IF run.id \in recorded THEN Idle ELSE [Idle EXCEPT !.at = "read"]]
    /\ UNCHANGED <<rows, run, history>>

ReadNodes(h) ==
    /\ handler[h].at = "read"
    /\ handler' = [handler EXCEPT ![h] =
            [at |-> "commit",
             read |-> [n \in Nodes |-> [health |-> health[n], failures |-> failures[n],
                                        successes |-> successes[n]]]]]
    /\ UNCHANGED <<rows, run, history>>

RecoveringLonger(row) ==  \* mutant: off by one
    row.health = "banned" /\ row.successes < RecoveryThreshold

\* A good probe that is not enough yet for a removed node to return.
Recovering(row) == row.health = "banned" /\ row.successes + 1 < RecoveryThreshold

\* Mutant of AfterProbe: a success does not reset the failures.
AfterProbeKeepingFailures(row, outcome) ==
    IF outcome = "down"
    THEN [health |-> IF row.failures + 1 >= FailureThreshold
                     THEN "banned" ELSE "degraded",
          failures |-> row.failures + 1, successes |-> 0]
    ELSE [health |-> IF Recovering(row) THEN "banned" ELSE "healthy",
          failures |-> row.failures, successes |-> row.successes + 1]

\* The row a probe leads to, from the row that was read.
AfterProbe(row, outcome) ==
    IF outcome = "down"
    THEN [health |-> IF row.failures + 1 >= FailureThreshold
                     THEN "banned" ELSE "degraded",
          failures |-> row.failures + 1, successes |-> 0]
    ELSE [health |-> CASE Recovering(row) -> "banned"
                       [] ~Recovering(row) /\ outcome = "landing" -> "degraded"
                       [] ~Recovering(row) /\ outcome = "ok" -> "healthy",
          failures |-> 0, successes |-> row.successes + 1]

\* One batch; the primary key of node_health_runs aborts it for a second
\* handler of the same run.
Fresh == run.id \notin recorded

Commit(h) ==
    LET next == [n \in Nodes |-> AfterProbe(handler[h].read[n], run.outcome[n])]
    IN  /\ handler[h].at = "commit"
        /\ IF Fresh
           THEN /\ recorded' = recorded \cup {run.id}
                /\ health' = [n \in Nodes |-> next[n].health]
                /\ failures' = [n \in Nodes |-> next[n].failures]
                /\ successes' = [n \in Nodes |-> next[n].successes]
                /\ history' = [n \in Nodes |-> Append(history[n], run.outcome[n])]
           ELSE UNCHANGED <<rows, history>>
        /\ handler' = [handler EXCEPT ![h] = Idle]
        /\ UNCHANGED run

\* upsertNode: registering gives an unprobed node its first status.
Register(n) ==
    /\ health[n] = "unknown"
    /\ health' = [health EXCEPT ![n] = "healthy"]
    /\ UNCHANGED <<failures, successes, recorded, run, handler, history>>

Step == \/ \E outcome \in [Nodes -> Outcomes] : Probe(outcome)
        \/ \E h \in Handlers : \/ Receive(h) \/ Gate(h) \/ CheckDuplicate(h)
                               \/ ReadNodes(h) \/ Commit(h)
        \/ \E n \in Nodes : Register(n)

Next == Step /\ UNCHANGED provisioningAllowed

Spec == Init /\ [][Next]_vars

----------------------------------------------------------------------------
(* Properties *)

TypeOK ==
    /\ health \in [Nodes -> Statuses]
    /\ failures \in [Nodes -> Nat] /\ successes \in [Nodes -> Nat]
    /\ \A n \in Nodes : failures[n] = 0 \/ successes[n] = 0
    /\ recorded \subseteq 1..run.id /\ provisioningAllowed \in BOOLEAN
    /\ run \in [id : 0..MaxRuns, outcome : [Nodes -> Outcomes]]
    /\ handler \in [Handlers -> [at : {"idle", "gate", "duplicate", "read", "commit"},
                                 read : [Nodes -> NodeRow] \cup {None}]]
    /\ history \in [Nodes -> Seq(Outcomes)]

Reached(n) == Len(history[n])

\* The last k outcomes of n that took effect are all failures.
LastDown(n, k) ==
    k <= Reached(n) /\ \A i \in Reached(n) - k + 1..Reached(n) : history[n][i] = "down"

\* FailureThreshold failures in a row, and after them k good probes, end s.
EndsRemoved(s, k) ==
    /\ k + FailureThreshold <= Len(s)
    /\ \A i \in Len(s) - k + 1..Len(s) : s[i] # "down"
    /\ \A i \in Len(s) - k - FailureThreshold + 1..Len(s) - k : s[i] = "down"
Removed(s) == \E k \in 0..RecoveryThreshold - 1 : EndsRemoved(s, k)

\* Which probes keep a node out of the subscriptions: it is out exactly while
\* the probes that took effect end in FailureThreshold failures in a row and
\* fewer good ones than RecoveryThreshold after them, whatever reports were
\* repeated or overtook each other.  So it does not return before its time but
\* in one way: a failure after a good probe starts a new count of failures, and
\* the node, one failure old, is degraded (node-health.ts:226, 233), in the
\* subscriptions again after no two good probes in a row.
ThresholdsDecide == \A n \in Nodes : health[n] = "banned" <=> Removed(history[n])

\* A node is only ever taken out after three failed probes in a row.
BanNeedsFailures ==
    [][\A n \in Nodes : health'[n] = "banned" /\ health[n] # "banned"
            => LastDown(n, FailureThreshold)']_vars

\* One run counts at most once, however often its report is sent.
RunCountsOnce == \A n \in Nodes : Reached(n) <= run.id

\* While provisioning is locked a good probe never brings a banned node back.
LockedBanHolds ==
    [][\A n \in Nodes :
        ~provisioningAllowed /\ health[n] = "banned" /\ run.outcome[n] # "down"
            => health'[n] = "banned"]_vars

\* What repeated and overlapping reports leave behind (node-health.ts:175-290):
\* counters that fit, nodes that are out exactly while the sequence of probes
\* says so, and no run counted twice.
ThresholdsHold == TypeOK /\ ThresholdsDecide /\ RunCountsOnce
=============================================================================
