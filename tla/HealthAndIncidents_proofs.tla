----------------------- MODULE HealthAndIncidents_proofs -----------------------
(***************************************************************************)
(* Proofs about NodeHealth and about AlertIncidents, for every value of    *)
(* their constants.  NodeHealth: whatever reports are repeated, the        *)
(* thresholds decide who is out.  AlertIncidents: whatever overviews       *)
(* overlap, incidents rest on what was seen.                               *)
(***************************************************************************)
EXTENDS NodeHealth, AlertIncidents, TLAPS

(***************************************************************************)
(* NodeHealth.  Inv says that each counter is the length of the streak of  *)
(* like outcomes that took effect last, and that a handler about to write  *)
(* a run nobody has recorded yet holds the rows as they are.               *)
(***************************************************************************)

\* The last k outcomes, and no more, are failures (successes).
DownStreak(s, k) ==
  /\ k \in 0..Len(s)
  /\ \A i \in Len(s) - k + 1..Len(s) : s[i] = "down"
  /\ k < Len(s) => s[Len(s) - k] # "down"
UpStreak(s, k) ==
  /\ k \in 0..Len(s)
  /\ \A i \in Len(s) - k + 1..Len(s) : s[i] # "down"
  /\ k < Len(s) => s[Len(s) - k] = "down"

HandlerState == [at : {"idle", "gate", "duplicate", "read", "commit"},
                 read : [Nodes -> NodeRow] \cup {None}]

\* A row that was read, as far as AfterProbe looks at it.
Current(row, n) == /\ row \in NodeRow
                   /\ row.failures = failures[n] /\ row.successes = successes[n]
                   /\ row.health = "banned" <=> health[n] = "banned"

RunFits ==
  /\ run \in [id : 0..MaxRuns, outcome : [Nodes -> Outcomes]]
  /\ recorded \subseteq 1..run.id /\ provisioningAllowed \in BOOLEAN

NodesFit ==
  /\ health \in [Nodes -> Statuses]
  /\ failures \in [Nodes -> Nat] /\ successes \in [Nodes -> Nat]
  /\ history \in [Nodes -> Seq(Outcomes)]
  /\ \A n \in Nodes :
       /\ failures[n] = 0 \/ successes[n] = 0
       /\ DownStreak(history[n], failures[n]) /\ UpStreak(history[n], successes[n])
       /\ health[n] = "banned" <=> Removed(history[n])
       /\ Len(history[n]) <= run.id
       /\ Fresh /\ run.id > 0 => Len(history[n]) < run.id

\* Under the lock no report that would recover a node is past the gate.
Gated == ~provisioningAllowed /\ Fresh =>
           \A n \in Nodes : health[n] = "banned" => run.outcome[n] = "down"

HandlerFits(h) ==
  /\ handler[h].at # "idle" => run.id > 0
  /\ handler[h].at \in {"duplicate", "read", "commit"} => Gated
  /\ handler[h].at = "commit" =>
       /\ handler[h].read \in [Nodes -> NodeRow]
       /\ Fresh => \A n \in Nodes : Current(handler[h].read[n], n)

HandlersFit == /\ handler \in [Handlers -> HandlerState]
               /\ \A h \in Handlers : HandlerFits(h)

Inv == RunFits /\ NodesFit /\ HandlersFit

----------------------------------------------------------------------------
LEMMA Constants ==
  MaxRuns \in Nat /\ FailureThreshold \in Nat \ {0} /\ RecoveryThreshold \in Nat \ {0}
  BY HealthAssumption

\* An outcome prolongs one streak and ends the other.
LEMMA StreaksGrow ==
  ASSUME NEW s \in Seq(Outcomes), NEW o \in Outcomes, NEW k, NEW j,
         DownStreak(s, k), UpStreak(s, j)
  PROVE  /\ Append(s, o) \in Seq(Outcomes) /\ Len(Append(s, o)) = Len(s) + 1
         /\ o = "down" => DownStreak(Append(s, o), k + 1) /\ UpStreak(Append(s, o), 0)
         /\ o # "down" => DownStreak(Append(s, o), 0) /\ UpStreak(Append(s, o), j + 1)
<1> DEFINE t == Append(s, o)
<1>1. /\ t \in Seq(Outcomes) /\ Len(s) \in Nat /\ Len(t) = Len(s) + 1 /\ t[Len(t)] = o
      /\ \A i \in 1..Len(s) : t[i] = s[i]
  OBVIOUS
<1>2. k \in 0..Len(s) /\ j \in 0..Len(s)
  BY DEF DownStreak, UpStreak
<1> HIDE DEF t
<1>3. ASSUME o = "down" PROVE DownStreak(t, k + 1) /\ UpStreak(t, 0)
  <2>1. k + 1 \in 0..Len(t) /\ 0 \in 0..Len(t)
    BY <1>1, <1>2
  <2>2. ASSUME NEW i \in Len(t) - (k + 1) + 1..Len(t) PROVE t[i] = "down"
    <3>1. i = Len(t) \/ (i \in 1..Len(s) /\ i \in Len(s) - k + 1..Len(s))
      BY <1>1, <1>2
    <3> QED BY <3>1, <1>1, <1>3 DEF DownStreak
  <2>3. ASSUME k + 1 < Len(t) PROVE t[Len(t) - (k + 1)] # "down"
    <3>1. k < Len(s) /\ Len(t) - (k + 1) = Len(s) - k /\ Len(s) - k \in 1..Len(s)
      BY <1>1, <1>2, <2>3
    <3> QED BY <3>1, <1>1 DEF DownStreak
  <2>4. t[Len(t) - 0] = "down"
    BY <1>1, <1>3
  <2> QED BY <1>1, <2>1, <2>2, <2>3, <2>4 DEF DownStreak, UpStreak
<1>4. ASSUME o # "down" PROVE DownStreak(t, 0) /\ UpStreak(t, j + 1)
  <2>1. j + 1 \in 0..Len(t) /\ 0 \in 0..Len(t)
    BY <1>1, <1>2
  <2>2. ASSUME NEW i \in Len(t) - (j + 1) + 1..Len(t) PROVE t[i] # "down"
    <3>1. i = Len(t) \/ (i \in 1..Len(s) /\ i \in Len(s) - j + 1..Len(s))
      BY <1>1, <1>2
    <3> QED BY <3>1, <1>1, <1>4 DEF UpStreak
  <2>3. ASSUME j + 1 < Len(t) PROVE t[Len(t) - (j + 1)] = "down"
    <3>1. j < Len(s) /\ Len(t) - (j + 1) = Len(s) - j /\ Len(s) - j \in 1..Len(s)
      BY <1>1, <1>2, <2>3
    <3> QED BY <3>1, <1>1 DEF UpStreak
  <2>4. t[Len(t) - 0] # "down"
    BY <1>1, <1>4
  <2> QED BY <1>1, <2>1, <2>2, <2>3, <2>4 DEF DownStreak, UpStreak
<1> QED BY <1>1, <1>3, <1>4 DEF t

\* After a failure only the length of its streak counts.
LEMMA RemovedByFailure ==
  ASSUME NEW s \in Seq(Outcomes), NEW k, DownStreak(s, k), k > 0
  PROVE  Removed(s) <=> k >= FailureThreshold
<1>1. /\ Len(s) \in Nat /\ k \in 1..Len(s) /\ s[Len(s)] = "down"
      /\ \A i \in Len(s) - k + 1..Len(s) : s[i] = "down"
      /\ k < Len(s) => s[Len(s) - k] # "down"
  BY DEF DownStreak
<1>2. ASSUME Removed(s) PROVE k >= FailureThreshold
  <2>1. PICK m \in 0..RecoveryThreshold - 1 : EndsRemoved(s, m)
    BY <1>2 DEF Removed
  <2>2. m = 0
    <3> SUFFICES ASSUME m # 0 PROVE FALSE
      OBVIOUS
    <3>1. Len(s) \in Len(s) - m + 1..Len(s)
      BY <1>1, <2>1, Constants
    <3> QED BY <1>1, <2>1, <3>1 DEF EndsRemoved
  <2>3. /\ FailureThreshold <= Len(s)
        /\ \A i \in Len(s) - FailureThreshold + 1..Len(s) : s[i] = "down"
    BY <1>1, <2>1, <2>2, Constants DEF EndsRemoved
  <2> SUFFICES ASSUME k < FailureThreshold PROVE FALSE
    BY <1>1, Constants
  <2>4. Len(s) - k \in Len(s) - FailureThreshold + 1..Len(s) /\ k < Len(s)
    BY <1>1, <2>3, Constants
  <2> QED BY <1>1, <2>3, <2>4
<1>3. ASSUME k >= FailureThreshold PROVE Removed(s)
  <2>1. EndsRemoved(s, 0)
    BY <1>1, <1>3, Constants DEF EndsRemoved
  <2> QED BY <2>1, Constants DEF Removed
<1> QED BY <1>2, <1>3

\* A good probe, the j-th in a row, brings a node back when j is enough.
LEMMA RemovedAfterSuccess ==
  ASSUME NEW s \in Seq(Outcomes), NEW j, UpStreak(s, j), NEW o \in Outcomes, o # "down"
  PROVE  Removed(Append(s, o)) <=> Removed(s) /\ j + 1 < RecoveryThreshold
<1> DEFINE t == Append(s, o)
<1>1. /\ t \in Seq(Outcomes) /\ Len(s) \in Nat /\ Len(t) = Len(s) + 1 /\ t[Len(t)] = o
      /\ \A i \in 1..Len(s) : t[i] = s[i]
  OBVIOUS
<1>2. /\ j \in 0..Len(s) /\ \A i \in Len(s) - j + 1..Len(s) : s[i] # "down"
      /\ j < Len(s) => s[Len(s) - j] = "down"
  BY DEF UpStreak
<1> HIDE DEF t
<1>3. ASSUME NEW m \in Nat, EndsRemoved(s, m) PROVE m = j
  <2>1. /\ m + FailureThreshold <= Len(s) /\ s[Len(s) - m] = "down"
        /\ \A i \in Len(s) - m + 1..Len(s) : s[i] # "down"
    <3>1. Len(s) - m \in Len(s) - m - FailureThreshold + 1..Len(s) - m
      BY <1>1, Constants
    <3> QED BY <1>3, <3>1 DEF EndsRemoved
  <2>2. CASE m < j
    <3>1. Len(s) - m \in Len(s) - j + 1..Len(s)
      BY <1>1, <1>2, <2>2
    <3> QED BY <1>2, <2>1, <3>1
  <2>3. CASE m > j
    <3>1. Len(s) - j \in Len(s) - m + 1..Len(s) /\ j < Len(s)
      BY <1>1, <1>2, <2>1, <2>3, Constants
    <3> QED BY <1>2, <2>1, <3>1
  <2> QED BY <1>2, <2>2, <2>3
<1>4. ASSUME NEW m \in Nat PROVE EndsRemoved(t, m + 1) <=> EndsRemoved(s, m)
  <2>1. /\ m + 1 + FailureThreshold <= Len(t) <=> m + FailureThreshold <= Len(s)
        /\ Len(t) - (m + 1) + 1 = Len(s) - m + 1 /\ Len(t) - (m + 1) = Len(s) - m
        /\ Len(t) - (m + 1) - FailureThreshold + 1 = Len(s) - m - FailureThreshold + 1
    BY <1>1, Constants
  <2>2. ASSUME m + FailureThreshold <= Len(s)
        PROVE  /\ (\A i \in Len(s) - m + 1..Len(t) : t[i] # "down")
                    <=> (\A i \in Len(s) - m + 1..Len(s) : s[i] # "down")
               /\ (\A i \in Len(s) - m - FailureThreshold + 1..Len(s) - m : t[i] = "down")
                    <=> (\A i \in Len(s) - m - FailureThreshold + 1..Len(s) - m : s[i] = "down")
    <3>1. \A i \in Len(s) - m + 1..Len(t) : i = Len(t) \/ i \in Len(s) - m + 1..Len(s)
      BY <1>1
    <3>2. \A i \in Len(s) - m + 1..Len(s) : t[i] = s[i] /\ i \in Len(s) - m + 1..Len(t)
      BY <1>1, <2>2, Constants
    <3>3. \A i \in Len(s) - m - FailureThreshold + 1..Len(s) - m : t[i] = s[i]
      BY <1>1, <2>2, Constants
    <3> QED BY <1>1, <3>1, <3>2, <3>3
  <2> QED BY <2>1, <2>2 DEF EndsRemoved
<1>5. ASSUME Removed(t) PROVE Removed(s) /\ j + 1 < RecoveryThreshold
  <2>1. PICK m \in 0..RecoveryThreshold - 1 : EndsRemoved(t, m)
    BY <1>5 DEF Removed
  <2>2. m # 0
    <3> SUFFICES ASSUME m = 0 PROVE FALSE
      OBVIOUS
    <3>1. Len(t) \in Len(t) - m - FailureThreshold + 1..Len(t) - m
      BY <1>1, Constants
    <3> QED BY <1>1, <2>1, <3>1 DEF EndsRemoved
  <2>3. m - 1 \in Nat /\ m - 1 + 1 = m /\ m - 1 \in 0..RecoveryThreshold - 1
    BY <2>2, Constants
  <2>4. EndsRemoved(s, m - 1)
    BY <1>4, <2>1, <2>3
  <2>5. m - 1 = j
    BY <1>3, <2>3, <2>4
  <2> QED BY <2>1, <2>3, <2>4, <2>5, Constants DEF Removed
<1>6. ASSUME Removed(s), j + 1 < RecoveryThreshold PROVE Removed(t)
  <2>1. PICK m \in 0..RecoveryThreshold - 1 : EndsRemoved(s, m)
    BY <1>6 DEF Removed
  <2>2. m = j /\ EndsRemoved(t, m + 1)
    BY <1>3, <1>4, <2>1, Constants
  <2>3. m + 1 \in 0..RecoveryThreshold - 1
    BY <1>6, <2>2, Constants
  <2> QED BY <2>2, <2>3 DEF Removed
<1> QED BY <1>5, <1>6 DEF t

LEMMA InitFits == Init => Inv
<1> SUFFICES ASSUME Init PROVE Inv
  OBVIOUS
<1>1. RunFits
  BY Constants DEF Init, RunFits, Outcomes
<1>2. NodesFit
  <2>1. DownStreak(<<>>, 0) /\ UpStreak(<<>>, 0) /\ Len(<<>>) = 0
    BY DEF DownStreak, UpStreak
  <2>2. health \in [Nodes -> Statuses] /\ \A n \in Nodes : health[n] # "banned"
    BY DEF Init, Statuses
  <2>4. ~Removed(<<>>)
    BY <2>1, Constants DEF Removed, EndsRemoved
  <2>3. /\ \A n \in Nodes : failures[n] = 0 /\ successes[n] = 0 /\ history[n] = <<>>
        /\ failures \in [Nodes -> Nat] /\ successes \in [Nodes -> Nat]
        /\ history \in [Nodes -> Seq(Outcomes)] /\ run.id = 0
    BY DEF Init
  <2> QED BY <2>1, <2>2, <2>3, <2>4 DEF NodesFit
<1>3. HandlersFit
  <2>1. Idle \in HandlerState /\ Idle.at = "idle"
    BY DEF Idle, HandlerState
  <2> QED BY <2>1 DEF Init, HandlersFit, HandlerFits
<1> QED BY <1>1, <1>2, <1>3 DEF Inv

\* A handler moves on without writing.
LEMMA HandlerMoves ==
  ASSUME Inv, NEW h \in Handlers, NEW s \in HandlerState,
         handler' = [handler EXCEPT ![h] = s],
         UNCHANGED <<rows, run, history, provisioningAllowed>>,
         s.at # "idle" => run.id > 0,
         s.at \in {"duplicate", "read", "commit"} => Gated,
         s.at = "commit" => /\ s.read \in [Nodes -> NodeRow]
                            /\ Fresh => \A n \in Nodes : Current(s.read[n], n)
  PROVE  Inv'
<1>1. RunFits' /\ NodesFit'
  BY DEF Inv, RunFits, NodesFit, Fresh, rows
<1>2. handler' \in [Handlers -> HandlerState]
  BY DEF Inv, HandlersFit
<1>3. handler'[h] = s /\ \A g \in Handlers \ {h} : handler'[g] = handler[g]
  BY DEF Inv, HandlersFit
<1>4. Gated' = Gated /\ Fresh' = Fresh /\ \A row, n : Current(row, n)' = Current(row, n)
  BY DEF Gated, Fresh, Current, rows
<1>5. \A g \in Handlers : HandlerFits(g)'
  <2>1. HandlerFits(h)'
    BY <1>3, <1>4 DEF HandlerFits
  <2>2. \A g \in Handlers \ {h} : HandlerFits(g)'
    BY <1>3, <1>4 DEF Inv, HandlersFit, HandlerFits
  <2> QED BY <2>1, <2>2
<1> QED BY <1>1, <1>2, <1>5 DEF Inv, HandlersFit

LEMMA ReadingFits ==
  ASSUME Inv, NEW h \in Handlers, UNCHANGED provisioningAllowed,
         Receive(h) \/ Gate(h) \/ CheckDuplicate(h) \/ ReadNodes(h)
  PROVE  Inv'
<1>0. /\ Idle \in HandlerState /\ Idle.at = "idle"
      /\ [Idle EXCEPT !.at = "gate"] \in HandlerState
      /\ [Idle EXCEPT !.at = "duplicate"] \in HandlerState
      /\ [Idle EXCEPT !.at = "read"] \in HandlerState
      /\ [Idle EXCEPT !.at = "gate"].at = "gate"
      /\ [Idle EXCEPT !.at = "duplicate"].at = "duplicate"
      /\ [Idle EXCEPT !.at = "read"].at = "read"
      /\ HandlerFits(h) /\ handler \in [Handlers -> HandlerState]
  BY DEF Idle, HandlerState, Inv, HandlersFit
<1>1. CASE Receive(h)
  <2> PICK s : s = [Idle EXCEPT !.at = "gate"]
    OBVIOUS
  <2>1. run.id > 0 /\ handler' = [handler EXCEPT ![h] = s]
    BY <1>1, <1>0 DEF Receive
  <2> QED BY <1>1, <1>0, <2>1, HandlerMoves DEF Receive
<1>2. CASE Gate(h)
  <2>1. run.id > 0
    BY <1>2, <1>0 DEF Gate, HandlerFits
  <2>2. CASE handler' = [handler EXCEPT ![h] = Idle]
    <3> PICK s : s = Idle
      OBVIOUS
    <3> QED BY <1>2, <1>0, <2>2, HandlerMoves DEF Gate
  <2>3. CASE /\ provisioningAllowed \/ ~\E n \in Nodes : health[n] = "banned" /\ run.outcome[n] # "down"
             /\ handler' = [handler EXCEPT ![h] = [Idle EXCEPT !.at = "duplicate"]]
    <3> PICK s : s = [Idle EXCEPT !.at = "duplicate"]
      OBVIOUS
    <3>1. Gated
      BY <2>3 DEF Gated
    <3> QED BY <1>2, <1>0, <2>1, <2>3, <3>1, HandlerMoves DEF Gate
  <2> QED BY <1>2, <2>2, <2>3 DEF Gate
<1>3. CASE CheckDuplicate(h)
  <2>1. run.id > 0 /\ Gated
    BY <1>3, <1>0 DEF CheckDuplicate, HandlerFits
  <2>2. PICK s \in {Idle, [Idle EXCEPT !.at = "read"]} : handler' = [handler EXCEPT ![h] = s]
    BY <1>3 DEF CheckDuplicate
  <2> QED BY <1>3, <1>0, <2>1, <2>2, HandlerMoves DEF CheckDuplicate
<1>4. CASE ReadNodes(h)
  <2> PICK s : s = [at |-> "commit",
             read |-> [n \in Nodes |-> [health |-> health[n], failures |-> failures[n],
                                        successes |-> successes[n]]]]
    OBVIOUS
  <2>1. run.id > 0 /\ Gated
    BY <1>4, <1>0 DEF ReadNodes, HandlerFits
  <2>2. s.at = "commit" /\ s.read \in [Nodes -> NodeRow]
    BY DEF Inv, NodesFit, NodeRow
  <2>3. \A n \in Nodes : Current(s.read[n], n)
    BY <2>2 DEF Current
  <2>4. s \in HandlerState
    BY <2>2 DEF HandlerState
  <2> QED BY <1>4, <2>1, <2>2, <2>3, <2>4, HandlerMoves DEF ReadNodes
<1> QED BY <1>1, <1>2, <1>3, <1>4

\* The next row of a node, from the row that is current.
LEMMA AfterProbeFits ==
  ASSUME Inv, NEW n \in Nodes, NEW row, Current(row, n), NEW o \in Outcomes
  PROVE  LET next == AfterProbe(row, o) IN
         /\ next \in NodeRow
         /\ o = "down" => next.failures = failures[n] + 1 /\ next.successes = 0
         /\ o # "down" => next.failures = 0 /\ next.successes = successes[n] + 1
         /\ o = "down" => (next.health = "banned" <=> next.failures >= FailureThreshold)
         /\ o # "down" => (next.health = "banned" <=>
                             health[n] = "banned" /\ next.successes < RecoveryThreshold)
         /\ next.health = "banned" /\ health[n] # "banned" =>
              o = "down" /\ next.failures >= FailureThreshold
<1> DEFINE next == AfterProbe(row, o)
<1>1. /\ row \in NodeRow /\ row.failures = failures[n] /\ row.successes = successes[n]
      /\ row.health = "banned" <=> health[n] = "banned"
      /\ failures[n] \in Nat /\ successes[n] \in Nat
  BY DEF Current, Inv, NodesFit
<1>2. CASE o = "down"
  <2>1. /\ next = [health |-> IF row.failures + 1 >= FailureThreshold
                              THEN "banned" ELSE "degraded",
                   failures |-> row.failures + 1, successes |-> 0]
    BY <1>2 DEF AfterProbe
  <2> HIDE DEF next
  <2>2. next \in NodeRow
    BY <1>1, <2>1 DEF NodeRow, Statuses
  <2>3. /\ next.failures = failures[n] + 1 /\ next.successes = 0
        /\ next.health = "banned" <=> next.failures >= FailureThreshold
    BY <1>1, <2>1
  <2> QED BY <1>1, <1>2, <2>2, <2>3, Constants DEF next
<1>3. CASE o # "down"
  <2>1. o = "ok" \/ o = "landing"
    BY <1>3 DEF Outcomes
  <2>2. /\ next.failures = 0 /\ next.successes = row.successes + 1
        /\ next = [health |-> next.health, failures |-> 0, successes |-> row.successes + 1]
        /\ next.health = IF Recovering(row) THEN "banned"
                         ELSE IF o = "landing" THEN "degraded" ELSE "healthy"
    BY <1>3, <2>1 DEF AfterProbe
  <2> HIDE DEF next
  <2>3. next.health \in {"banned", "degraded", "healthy"} /\ (next.health = "banned" <=> Recovering(row))
    BY <2>2
  <2>4. next \in NodeRow
    BY <1>1, <2>2, <2>3 DEF NodeRow, Statuses
  <2>5. next.health = "banned" <=> health[n] = "banned" /\ next.successes < RecoveryThreshold
    BY <1>1, <2>2, <2>3 DEF Recovering
  <2> QED BY <1>1, <1>3, <2>2, <2>4, <2>5, Constants DEF next
<1> QED BY <1>2, <1>3

\* The batch of a run nobody has recorded.
LEMMA CommitWrites ==
  ASSUME Inv, NEW h \in Handlers, Commit(h), Fresh, NEW n \in Nodes
  PROVE  LET next == AfterProbe(handler[h].read[n], run.outcome[n]) IN
         /\ run.outcome[n] \in Outcomes /\ Current(handler[h].read[n], n)
         /\ health'[n] = next.health /\ failures'[n] = next.failures
         /\ successes'[n] = next.successes
         /\ history'[n] = Append(history[n], run.outcome[n])
         /\ next \in NodeRow
<1>1. run.outcome[n] \in Outcomes
  BY DEF Inv, RunFits
<1>2. Current(handler[h].read[n], n)
  BY DEF Commit, Inv, HandlersFit, HandlerFits
<1> QED BY <1>1, <1>2, AfterProbeFits DEF Commit

LEMMA CommitFits ==
  ASSUME Inv, NEW h \in Handlers, UNCHANGED provisioningAllowed, Commit(h)
  PROVE  Inv'
<1>0. /\ handler[h].at = "commit" /\ handler' = [handler EXCEPT ![h] = Idle]
      /\ run' = run /\ run.id > 0 /\ run.id \in Nat
      /\ Idle \in HandlerState /\ Idle.at = "idle"
  BY DEF Commit, Inv, HandlersFit, HandlerFits, RunFits, Idle, HandlerState
<1>1. CASE ~Fresh
  <2>1. UNCHANGED <<rows, history>>
    BY <1>1 DEF Commit
  <2> QED BY <1>0, <2>1, HandlerMoves
<1>2. CASE Fresh
  <2>1. recorded' = recorded \cup {run.id} /\ ~Fresh'
    BY <1>2, <1>0 DEF Commit, Fresh
  <2>2. RunFits'
    <3>1. run.id \in 1..run.id /\ recorded \subseteq 1..run.id
      BY <1>0 DEF Inv, RunFits
    <3>2. recorded' \subseteq 1..run'.id
      BY <3>1, <2>1, <1>0
    <3> QED BY <3>2, <1>0 DEF Inv, RunFits
  <2>3. NodesFit'
    <3>1. /\ health' = [n \in Nodes |-> health'[n]] /\ failures' = [n \in Nodes |-> failures'[n]]
          /\ successes' = [n \in Nodes |-> successes'[n]]
          /\ history' = [n \in Nodes |-> history'[n]]
      BY <1>2 DEF Commit
    <3>2. ASSUME NEW n \in Nodes
          PROVE  /\ health'[n] \in Statuses /\ failures'[n] \in Nat /\ successes'[n] \in Nat
                 /\ history'[n] \in Seq(Outcomes) /\ Len(history'[n]) = Len(history[n]) + 1
                 /\ failures'[n] = 0 \/ successes'[n] = 0
                 /\ DownStreak(history'[n], failures'[n]) /\ UpStreak(history'[n], successes'[n])
                 /\ health'[n] = "banned" <=> Removed(history'[n])
      <4> DEFINE next == AfterProbe(handler[h].read[n], run.outcome[n])
      <4>1. /\ run.outcome[n] \in Outcomes /\ Current(handler[h].read[n], n)
            /\ health'[n] = next.health /\ failures'[n] = next.failures
            /\ successes'[n] = next.successes
            /\ history'[n] = Append(history[n], run.outcome[n]) /\ next \in NodeRow
        BY <1>2, CommitWrites
      <4>2. /\ run.outcome[n] = "down" => next.failures = failures[n] + 1 /\ next.successes = 0
            /\ run.outcome[n] # "down" => next.failures = 0 /\ next.successes = successes[n] + 1
            /\ run.outcome[n] = "down" =>
                 (next.health = "banned" <=> next.failures >= FailureThreshold)
            /\ run.outcome[n] # "down" =>
                 (next.health = "banned" <=>
                    health[n] = "banned" /\ next.successes < RecoveryThreshold)
        BY <4>1, AfterProbeFits
      <4> HIDE DEF next
      <4>3. /\ history[n] \in Seq(Outcomes) /\ DownStreak(history[n], failures[n])
            /\ UpStreak(history[n], successes[n]) /\ failures[n] \in Nat
            /\ health[n] = "banned" <=> Removed(history[n])
        BY DEF Inv, NodesFit
      <4>4. /\ history'[n] \in Seq(Outcomes) /\ Len(history'[n]) = Len(history[n]) + 1
            /\ DownStreak(history'[n], failures'[n]) /\ UpStreak(history'[n], successes'[n])
        BY <4>1, <4>2, <4>3, StreaksGrow
      <4>5. next.health \in Statuses /\ next.failures \in Nat /\ next.successes \in Nat
        BY <4>1 DEF NodeRow
      <4>6. CASE run.outcome[n] = "down"
        <5>1. failures'[n] = failures[n] + 1
          BY <4>1, <4>2, <4>6
        <5>2. Removed(history'[n]) <=> failures'[n] >= FailureThreshold
          BY <4>3, <4>4, <5>1, RemovedByFailure
        <5> QED BY <4>1, <4>2, <4>4, <4>5, <4>6, <5>2
      <4>7. CASE run.outcome[n] # "down"
        <5>1. Removed(history'[n]) <=>
                Removed(history[n]) /\ successes[n] + 1 < RecoveryThreshold
          BY <4>1, <4>3, <4>7, RemovedAfterSuccess
        <5> QED BY <4>1, <4>2, <4>3, <4>4, <4>5, <4>7, <5>1
      <4> QED BY <4>6, <4>7
    <3>3. \A n \in Nodes : Len(history'[n]) <= run.id
      <4> SUFFICES ASSUME NEW n \in Nodes PROVE Len(history'[n]) <= run.id
        OBVIOUS
      <4>1. Len(history[n]) < run.id /\ Len(history[n]) \in Nat
        BY <1>0, <1>2 DEF Inv, NodesFit
      <4> QED BY <4>1, <3>2, <1>0
    <3> QED BY <3>1, <3>2, <3>3, <2>1, <1>0 DEF NodesFit
  <2>4. HandlersFit'
    <3>1. handler' \in [Handlers -> HandlerState]
      BY <1>0 DEF Inv, HandlersFit
    <3>2. \A g \in Handlers : handler'[g] = handler[g] \/ handler'[g] = Idle
      BY <1>0 DEF Inv, HandlersFit
    <3>3. \A g \in Handlers : HandlerFits(g)'
      BY <3>2, <2>1, <1>0 DEF Inv, HandlersFit, HandlerFits, Gated
    <3> QED BY <3>1, <3>3 DEF HandlersFit
  <2> QED BY <2>2, <2>3, <2>4 DEF Inv
<1> QED BY <1>1, <1>2

\* A new run finds no handler of an earlier one.
LEMMA ProbeFits ==
  ASSUME Inv, NEW outcome \in [Nodes -> Outcomes], Probe(outcome), UNCHANGED provisioningAllowed
  PROVE  Inv'
<1>0. /\ run.id \in Nat /\ run.id < MaxRuns /\ run' = [id |-> run.id + 1, outcome |-> outcome]
      /\ UNCHANGED <<rows, handler, history>> /\ \A h \in Handlers : handler[h].at = "idle"
  BY DEF Probe, Inv, RunFits, Idle
<1>1. RunFits' /\ Fresh'
  <2>1. run' \in [id : 0..MaxRuns, outcome : [Nodes -> Outcomes]] /\ run'.id = run.id + 1
    BY <1>0, Constants
  <2> QED BY <1>0, <2>1 DEF Inv, RunFits, Fresh, rows
<1>2. NodesFit'
  <2>1. \A n \in Nodes : Len(history[n]) < run'.id /\ Len(history[n]) <= run'.id
    BY <1>0 DEF Inv, NodesFit
  <2> QED BY <1>0, <2>1 DEF Inv, NodesFit, rows
<1>3. HandlersFit'
  BY <1>0 DEF Inv, HandlersFit, HandlerFits
<1> QED BY <1>1, <1>2, <1>3 DEF Inv

LEMMA RegisterFits ==
  ASSUME Inv, NEW n \in Nodes, Register(n), UNCHANGED provisioningAllowed
  PROVE  Inv'
<1>1. /\ health' \in [Nodes -> Statuses]
      /\ \A m \in Nodes : health'[m] = "banned" <=> health[m] = "banned"
      /\ UNCHANGED <<failures, successes, recorded, run, handler, history>>
  BY DEF Register, Inv, NodesFit, Statuses
<1>2. RunFits'
  BY <1>1 DEF Inv, RunFits
<1>3. NodesFit'
  BY <1>1 DEF Inv, NodesFit, Fresh
<1>4. HandlersFit'
  BY <1>1 DEF Inv, HandlersFit, HandlerFits, Gated, Fresh, Current
<1> QED BY <1>2, <1>3, <1>4 DEF Inv

LEMMA NextFits == Inv /\ [Next]_vars => Inv'
<1> SUFFICES ASSUME Inv, [Next]_vars PROVE Inv'
  OBVIOUS
<1>1. CASE UNCHANGED vars
  BY <1>1 DEF vars, rows, Inv, RunFits, NodesFit, HandlersFit, HandlerFits, Gated, Fresh, Current
<1> QED BY <1>1, ReadingFits, CommitFits, ProbeFits, RegisterFits DEF Next, Step

LEMMA InvHolds == Spec => []Inv
<1> QED BY InitFits, NextFits, PTL DEF Spec

\* In every state the counters fit the health, a node is out exactly while the
\* probes that took effect end in enough failures and too few good ones, and no
\* run counted twice, however reports are repeated (node_health_runs' primary key).
THEOREM ThresholdsAlwaysHold == Spec => []ThresholdsHold
<1>1. Inv => ThresholdsHold
  <2> SUFFICES ASSUME Inv PROVE ThresholdsHold
    OBVIOUS
  <2>1. TypeOK
    BY DEF Inv, RunFits, NodesFit, HandlersFit, HandlerState, TypeOK
  <2>2. RunCountsOnce
    BY DEF Inv, NodesFit, RunCountsOnce, Reached
  <2>3. ThresholdsDecide
    BY DEF Inv, NodesFit, ThresholdsDecide
  <2> QED BY <2>1, <2>2, <2>3 DEF ThresholdsHold
<1> QED BY <1>1, InvHolds, PTL

\* A step that takes a node out is the write of its last of FailureThreshold
\* failures in a row (applyNodeHealthReport).
THEOREM BansAreEarned == Spec => BanNeedsFailures
<1> DEFINE Earned == \A n \in Nodes : health'[n] = "banned" /\ health[n] # "banned"
                       => LastDown(n, FailureThreshold)'
<1>1. Inv /\ [Next]_vars => [Earned]_vars
  <2> SUFFICES ASSUME Inv, Next, NEW n \in Nodes, health'[n] = "banned", health[n] # "banned"
               PROVE  LastDown(n, FailureThreshold)'
    BY Zenon
  <2>1. Inv'
    BY NextFits
  <2>2. PICK h \in Handlers : Commit(h) /\ Fresh
    BY DEF Next, Step, Probe, Receive, Gate, CheckDuplicate, ReadNodes, Register, Commit, rows,
           Inv, NodesFit
  <2>3. failures'[n] >= FailureThreshold
    BY <2>2, CommitWrites, AfterProbeFits
  <2>4. DownStreak(history[n], failures[n])' /\ Len(history'[n]) \in Nat
    BY <2>1 DEF Inv, NodesFit
  <2>5. \A i \in Len(history'[n]) - FailureThreshold + 1..Len(history'[n]) : history'[n][i] = "down"
    BY <2>3, <2>4, Constants DEF DownStreak
  <2>6. FailureThreshold <= Len(history'[n])
    BY <2>3, <2>4, Constants DEF DownStreak
  <2> QED BY <2>5, <2>6 DEF LastDown, Reached
<1> QED BY <1>1, InvHolds, PTL DEF Spec, BanNeedsFailures

\* Whatever reports pass the gate under the provisioning lock, none brings
\* back a node that is out.
THEOREM LockKeepsBans == Spec => LockedBanHolds
<1> DEFINE Kept == \A n \in Nodes :
        ~provisioningAllowed /\ health[n] = "banned" /\ run.outcome[n] # "down"
            => health'[n] = "banned"
<1>1. Inv /\ [Next]_vars => [Kept]_vars
  <2> SUFFICES ASSUME Inv, Next, NEW n \in Nodes,
                      ~provisioningAllowed, health[n] = "banned", run.outcome[n] # "down"
               PROVE  health'[n] = "banned"
    BY Zenon
  <2>1. ASSUME NEW h \in Handlers, Commit(h) PROVE ~Fresh
    BY <2>1 DEF Commit, Inv, HandlersFit, HandlerFits, Gated
  <2> QED BY <2>1 DEF Next, Step, Probe, Receive, Gate, CheckDuplicate, ReadNodes, Register,
                      Commit, rows, Inv, NodesFit
<1> QED BY <1>1, InvHolds, PTL DEF Spec, LockedBanHolds

(***************************************************************************)
(* AlertIncidents.  AlertsInv says what an overview in flight holds: of    *)
(* every key it has seen, at its time, whether there was an alert, and the *)
(* rows it read were open or belong to its alerts (OverviewFits).          *)
(***************************************************************************)

SourcesFit ==
  /\ Table(NodeIds, Node, nodes) /\ Table(LandingIds, Landing, landings)
  /\ Table(UserIds, User, users) /\ pool \subseteq PoolIds
  /\ clock \in Time /\ changes \in 0..MaxChanges
  /\ seen \in [Keys -> SUBSET (({Null} \cup Alert) \X Time)]

\* A row rests on what some overview saw of its key.
RowFits(k) ==
  /\ incidents[k] \in Row
  /\ IF incidents[k].status = "open"
     THEN /\ incidents[k].resolvedAt = Null
          /\ \E t \in Time : <<[severity |-> incidents[k].severity,
                                title |-> incidents[k].title], t>> \in seen[k]
     ELSE <<Null, incidents[k].resolvedAt>> \in seen[k]
RowsFit == DOMAIN incidents \subseteq Keys /\ \A k \in DOMAIN incidents : RowFits(k)

\* What an overview holds of the alerts was seen at its time, of each of keys.
AlertsFit(keys, alerts, now) ==
  /\ now \in Time /\ Table(Keys, Alert, alerts)
  /\ \A k \in keys : <<Saw(k, alerts), now>> \in seen[k]
\* It keeps the rows that were open and those of its alerts.
ReadFits(table, alerts) ==
  /\ DOMAIN table \subseteq Keys
  /\ \A k \in DOMAIN table : /\ table[k] \in Row
                             /\ table[k].status = "open" \/ k \in DOMAIN alerts
OverviewFits(h) ==
  \/ overview[h] = NoOverview
  \/ /\ overview[h].at = "pool"
     /\ AlertsFit(Keys \ PoolIds, overview[h].alerts, overview[h].now)
  \/ /\ overview[h].at = "rows"
     /\ AlertsFit(Keys, overview[h].alerts, overview[h].now)
  \/ /\ overview[h].at = "batch"
     /\ AlertsFit(Keys, overview[h].alerts, overview[h].now)
     /\ ReadFits(overview[h].rows, overview[h].alerts)
OverviewsFit == DOMAIN overview = Overviews /\ \A h \in Overviews : OverviewFits(h)

AlertsInv == SourcesFit /\ RowsFit /\ OverviewsFit

----------------------------------------------------------------------------
LEMMA AlertConstants ==
  /\ StaleAfter \in Nat /\ SoonAfter \in Nat /\ Retention \in Nat /\ MaxTime \in Nat
  /\ MaxChanges \in Nat /\ Null \notin Names /\ Null \notin Nat
  BY AlertsAssumption

\* A table stays one when a row is changed.
LEMMA TableSet ==
  ASSUME NEW ids, NEW T, NEW table, Table(ids, T, table), NEW k \in ids, NEW row \in T
  PROVE  Table(ids, T, [table EXCEPT ![k] = row])
  BY DEF Table

\* The alerts of the moment are of known keys, with a severity and a title.
LEMMA SourceAlertsTyped ==
  ASSUME SourcesFit
  PROVE  Table(Keys, Alert, SourceAlerts(clock))
<1> DEFINE raised == {k \in Keys : Severity(k, clock) # "healthy"}
<1>1. /\ DOMAIN SourceAlerts(clock) = raised
      /\ \A k \in raised :
           SourceAlerts(clock)[k] = [severity |-> Severity(k, clock), title |-> Title(k)]
  BY DEF SourceAlerts
<1>2. ASSUME NEW k \in raised PROVE Severity(k, clock) \in {"warning", "danger"}
  <2>1. Severity(k, clock) \in {"healthy", "warning", "danger"}
    <3>1. NodeSeverity(nodes[k], clock) \in {"healthy", "warning", "danger"}
      BY DEF NodeSeverity
    <3>2. LandingSeverity(landings[k], clock) \in {"healthy", "warning", "danger"}
      BY DEF LandingSeverity
    <3>3. UserSeverity(users[k], clock) \in {"healthy", "warning", "danger"}
      BY DEF UserSeverity
    <3> QED BY <3>1, <3>2, <3>3 DEF Severity
  <2> QED BY <2>1
<1>3. ASSUME NEW k \in Keys PROVE Title(k) \in Names \cup {Null}
  BY DEF Title, SourcesFit, Table, Node, Landing
<1> HIDE DEF raised
<1>4. ASSUME NEW k \in raised PROVE SourceAlerts(clock)[k] \in Alert
  <2>1. k \in Keys
    BY DEF raised
  <2> QED BY <1>1, <1>2, <1>3, <2>1 DEF Alert
<1>5. raised \subseteq Keys
  BY DEF raised
<1> QED BY <1>1, <1>4, <1>5 DEF Table

\* The alerts of the pool join the others as they are.
LEMMA PoolJoins ==
  ASSUME NEW found, Table(Keys, Alert, found), NEW ids \in SUBSET PoolIds
  PROVE  /\ Table(Keys, Alert, Alerts(found, ids))
         /\ \A k \in Keys \ PoolIds : Saw(k, Alerts(found, ids)) = Saw(k, found)
<1>1. \A k \in ids : k \in Keys
  BY DEF Keys
<1>2. \A k \in ids : PoolAlertOf(k) \in Alert
  BY DEF PoolAlertOf, Alert
<1>3. /\ DOMAIN Alerts(found, ids) = DOMAIN found \cup ids
      /\ \A k \in DOMAIN found \cup ids :
           Alerts(found, ids)[k] = IF k \in ids THEN PoolAlertOf(k) ELSE found[k]
  BY DEF Alerts
<1>4. Table(Keys, Alert, Alerts(found, ids))
  BY <1>1, <1>2, <1>3 DEF Table
<1>5. \A k \in Keys \ PoolIds : Saw(k, Alerts(found, ids)) = Saw(k, found)
  BY <1>3 DEF Saw
<1> QED BY <1>4, <1>5

\* The rows that are written of something new.
LEMMA NewSourcesTyped ==
  /\ \A name \in Names : NewNode(name) \in Node
  /\ \A name \in Names, enabled \in BOOLEAN : NewLanding(enabled, name) \in Landing
  /\ \A expireAt \in Time \cup {Null}, internal \in BOOLEAN : NewUser(expireAt, internal) \in User
<1>1. \A name \in Names : NewNode(name) \in Node
  BY DEF NewNode, Node
<1>2. \A name \in Names, enabled \in BOOLEAN : NewLanding(enabled, name) \in Landing
  BY DEF NewLanding, Landing
<1>3. \A expireAt \in Time \cup {Null}, internal \in BOOLEAN : NewUser(expireAt, internal) \in User
  BY DEF NewUser, User
<1> QED BY <1>1, <1>2, <1>3

LEMMA AlertsStartFit == AlertsInit => AlertsInv
<1> SUFFICES ASSUME AlertsInit PROVE AlertsInv
  OBVIOUS
<1>1. SourcesFit
  <2>1. 0 \in Time /\ 0 \in 0..MaxChanges
    BY AlertConstants DEF Time
  <2> PICK ids \in {{}, NodeIds \cup LandingIds \cup UserIds}, name \in Names :
        /\ nodes = [n \in ids \cap NodeIds |-> NewNode(name)]
        /\ landings = [l \in ids \cap LandingIds |->
               [NewLanding(TRUE, name) EXCEPT !.health = "healthy", !.checked = 0]]
        /\ \E internal \in BOOLEAN :
             users = [u \in ids \cap UserIds |-> NewUser(Null, internal)]
    BY DEF AlertsInit
  <2>2. Table(NodeIds, Node, nodes)
    BY NewSourcesTyped DEF Table
  <2>3. Table(LandingIds, Landing, landings)
    <3>1. [NewLanding(TRUE, name) EXCEPT !.health = "healthy", !.checked = 0] \in Landing
      BY <2>1 DEF NewLanding, Landing
    <3> QED BY <3>1 DEF Table
  <2>4. Table(UserIds, User, users)
    BY NewSourcesTyped DEF Table
  <2>5. seen \in [Keys -> SUBSET (({Null} \cup Alert) \X Time)]
    BY DEF AlertsInit
  <2> QED BY <2>1, <2>2, <2>3, <2>4, <2>5 DEF AlertsInit, SourcesFit
<1>2. RowsFit
  BY DEF AlertsInit, RowsFit, Restrict
<1>3. OverviewsFit
  BY DEF AlertsInit, OverviewsFit, OverviewFits
<1> QED BY <1>1, <1>2, <1>3 DEF AlertsInv

\* A step that leaves incidents, overviews and what was seen as they are.
LEMMA OthersChange ==
  ASSUME AlertsInv, SourcesFit', UNCHANGED <<incidents, overview, seen>>
  PROVE  AlertsInv'
<1>1. RowsFit'
  BY DEF AlertsInv, RowsFit, RowFits
<1>2. OverviewsFit'
  BY DEF AlertsInv, OverviewsFit, OverviewFits, AlertsFit
<1> QED BY <1>1, <1>2 DEF AlertsInv

\* A change of a source, of which one is made, that leaves the tables typed.
LEMMA ChangeFits ==
  ASSUME AlertsInv, Change, Table(NodeIds, Node, nodes'), Table(LandingIds, Landing, landings'),
         Table(UserIds, User, users'), pool' \subseteq PoolIds
  PROVE  AlertsInv'
<1>1. changes' \in 0..MaxChanges /\ UNCHANGED <<incidents, overview, clock, seen>>
  BY AlertConstants DEF AlertsInv, SourcesFit, Change
<1>2. SourcesFit'
  BY <1>1 DEF AlertsInv, SourcesFit
<1> QED BY <1>1, <1>2, OthersChange

LEMMA NodesChangeFit ==
  ASSUME AlertsInv, NEW n \in NodeIds,
         \/ \E status \in {"healthy", "degraded", "banned"} : CheckNode(n, status)
         \/ \E hostname \in Names : UpsertNode(n, hostname)
         \/ RevokeNode(n)
         \/ DeleteNode(n)
  PROVE  AlertsInv'
<1>0. Table(NodeIds, Node, nodes) /\ clock \in Time
  BY DEF AlertsInv, SourcesFit
<1>1. Table(NodeIds, Node, nodes')
  <2>1. CASE \E status \in {"healthy", "degraded", "banned"} : CheckNode(n, status)
    <3>1. PICK status \in {"healthy", "degraded", "banned"} :
            nodes' = [nodes EXCEPT ![n] = [@ EXCEPT !.health = status, !.checked = clock]]
      BY <2>1 DEF CheckNode
    <3>2. n \in DOMAIN nodes
      BY <2>1 DEF CheckNode
    <3>3. [nodes[n] EXCEPT !.health = status, !.checked = clock] \in Node
      BY <1>0, <3>2 DEF Table, Node
    <3>4. nodes' = [nodes EXCEPT ![n] = [nodes[n] EXCEPT !.health = status, !.checked = clock]]
      BY <3>1, <3>2
    <3> QED BY <1>0, <3>3, <3>4, TableSet
  <2>2. CASE \E hostname \in Names : UpsertNode(n, hostname)
    <3>1. PICK hostname \in Names : nodes' = [m \in DOMAIN nodes \cup {n} |->
            IF m # n THEN nodes[m]
            ELSE IF n \in DOMAIN nodes THEN [nodes[n] EXCEPT !.hostname = hostname]
            ELSE NewNode(hostname)]
      BY <2>2 DEF UpsertNode
    <3> PICK row : row = IF n \in DOMAIN nodes THEN [nodes[n] EXCEPT !.hostname = hostname]
                         ELSE NewNode(hostname)
      OBVIOUS
    <3>2. row \in Node
      <4>1. CASE n \in DOMAIN nodes
        <5>1. nodes[n] \in Node
          BY <1>0, <4>1 DEF Table
        <5> QED BY <4>1, <5>1 DEF Node
      <4> QED BY <4>1, NewSourcesTyped
    <3>3. nodes' = [m \in DOMAIN nodes \cup {n} |-> IF m # n THEN nodes[m] ELSE row]
      BY <3>1
    <3> QED BY <1>0, <3>2, <3>3 DEF Table
  <2>3. CASE RevokeNode(n)
    <3>1. n \in DOMAIN nodes /\ nodes' = [nodes EXCEPT ![n] = [nodes[n] EXCEPT !.enabled = FALSE]]
      BY <2>3 DEF RevokeNode
    <3>2. [nodes[n] EXCEPT !.enabled = FALSE] \in Node
      BY <1>0, <3>1 DEF Table, Node
    <3> QED BY <1>0, <3>1, <3>2, TableSet
  <2>4. CASE DeleteNode(n)
    <3>1. nodes' = Restrict(nodes, DOMAIN nodes \ {n})
      BY <2>4 DEF DeleteNode
    <3> QED BY <1>0, <3>1 DEF Table, Restrict
  <2> QED BY <2>1, <2>2, <2>3, <2>4
<1>2. Change /\ UNCHANGED <<landings, users, pool>>
  BY DEF CheckNode, UpsertNode, RevokeNode, DeleteNode
<1> QED BY <1>1, <1>2, ChangeFits DEF AlertsInv, SourcesFit

LEMMA LandingsChangeFit ==
  ASSUME AlertsInv, NEW l \in LandingIds,
         \/ \E enabled \in BOOLEAN, name \in Names : CreateLanding(l, enabled, name)
         \/ \E status \in {"healthy", "unhealthy"} : CheckLanding(l, status)
         \/ \E enabled, reconnect \in BOOLEAN, name \in Names :
              EditLanding(l, enabled, name, reconnect)
         \/ DeleteLanding(l)
  PROVE  AlertsInv'
<1>0. Table(LandingIds, Landing, landings) /\ clock \in Time
  BY DEF AlertsInv, SourcesFit
<1>1. Table(LandingIds, Landing, landings')
  <2>1. CASE \E enabled \in BOOLEAN, name \in Names : CreateLanding(l, enabled, name)
    <3>1. PICK enabled \in BOOLEAN, name \in Names : landings' =
            [m \in DOMAIN landings \cup {l} |->
               IF m = l THEN NewLanding(enabled, name) ELSE landings[m]]
      BY <2>1 DEF CreateLanding
    <3>2. NewLanding(enabled, name) \in Landing
      BY NewSourcesTyped
    <3> QED BY <1>0, <3>1, <3>2 DEF Table
  <2>2. CASE \E status \in {"healthy", "unhealthy"} : CheckLanding(l, status)
    <3>1. PICK status \in {"healthy", "unhealthy"} : landings' =
            [landings EXCEPT ![l] = [landings[l] EXCEPT !.health = status, !.checked = clock]]
      BY <2>2 DEF CheckLanding
    <3>2. l \in DOMAIN landings
      BY <2>2 DEF CheckLanding
    <3>3. [landings[l] EXCEPT !.health = status, !.checked = clock] \in Landing
      BY <1>0, <3>2 DEF Table, Landing
    <3> QED BY <1>0, <3>1, <3>3, TableSet
  <2>3. CASE \E enabled, reconnect \in BOOLEAN, name \in Names :
               EditLanding(l, enabled, name, reconnect)
    <3>1. PICK enabled \in BOOLEAN, reconnect \in BOOLEAN, name \in Names :
            /\ l \in DOMAIN landings
            /\ landings' = [landings EXCEPT ![l] = IF reconnect THEN NewLanding(enabled, name)
                     ELSE [landings[l] EXCEPT !.enabled = enabled, !.name = name]]
      BY <2>3 DEF EditLanding
    <3>2. [landings[l] EXCEPT !.enabled = enabled, !.name = name] \in Landing
      BY <1>0, <3>1 DEF Table, Landing
    <3>3. NewLanding(enabled, name) \in Landing
      BY NewSourcesTyped
    <3> QED BY <1>0, <3>1, <3>2, <3>3, TableSet
  <2>4. CASE DeleteLanding(l)
    <3>1. landings' = Restrict(landings, DOMAIN landings \ {l})
      BY <2>4 DEF DeleteLanding
    <3> QED BY <1>0, <3>1 DEF Table, Restrict
  <2> QED BY <2>1, <2>2, <2>3, <2>4
<1>2. Change /\ UNCHANGED <<nodes, users, pool>>
  BY DEF CreateLanding, CheckLanding, EditLanding, DeleteLanding
<1> QED BY <1>1, <1>2, ChangeFits DEF AlertsInv, SourcesFit

\* An edit of a user, or what the user's traffic and addresses do.
LEMMA EditTyped ==
  ASSUME AlertsInv, NEW u \in UserIds, NEW enabled, NEW full \in BOOLEAN,
         NEW used \in {"low", "near", "all"}, EditUser(u, enabled, used, full),
         enabled \in BOOLEAN
  PROVE  Table(UserIds, User, users')
<1>1. /\ Table(UserIds, User, users) /\ u \in DOMAIN users
      /\ users' = [users EXCEPT ![u] =
            [users[u] EXCEPT !.enabled = enabled, !.used = used, !.full = full]]
  BY DEF AlertsInv, SourcesFit, EditUser
<1>2. [users[u] EXCEPT !.enabled = enabled, !.used = used, !.full = full] \in User
  BY <1>1 DEF Table, User
<1> QED BY <1>1, <1>2, TableSet

LEMMA UsersChangeFit ==
  ASSUME AlertsInv, NEW u \in UserIds,
         \/ \E expireAt \in Time \cup {Null}, internal \in BOOLEAN : CreateUser(u, expireAt, internal)
         \/ \E enabled, full \in BOOLEAN, used \in {"low", "near", "all"} :
              EditUser(u, enabled, used, full)
         \/ \E full \in BOOLEAN, used \in {"low", "near", "all"} : UseAccount(u, used, full)
         \/ DeleteUser(u)
  PROVE  AlertsInv'
<1>0. Table(UserIds, User, users)
  BY DEF AlertsInv, SourcesFit
<1>1. Table(UserIds, User, users')
  <2>1. CASE \E expireAt \in Time \cup {Null}, internal \in BOOLEAN :
               CreateUser(u, expireAt, internal)
    <3>1. PICK expireAt \in Time \cup {Null}, internal \in BOOLEAN : users' =
            [v \in DOMAIN users \cup {u} |-> IF v = u THEN NewUser(expireAt, internal) ELSE users[v]]
      BY <2>1 DEF CreateUser
    <3>2. NewUser(expireAt, internal) \in User
      BY NewSourcesTyped
    <3> QED BY <1>0, <3>1, <3>2 DEF Table
  <2>2. CASE \E enabled, full \in BOOLEAN, used \in {"low", "near", "all"} :
               EditUser(u, enabled, used, full)
    BY <2>2, EditTyped
  <2>3. CASE \E full \in BOOLEAN, used \in {"low", "near", "all"} : UseAccount(u, used, full)
    <3>1. PICK full \in BOOLEAN, used \in {"low", "near", "all"} :
            u \in DOMAIN users /\ EditUser(u, users[u].enabled, used, full)
      BY <2>3 DEF UseAccount
    <3>2. users[u].enabled \in BOOLEAN
      BY <1>0, <3>1 DEF Table, User
    <3> QED BY <3>1, <3>2, EditTyped
  <2>4. CASE DeleteUser(u)
    <3>1. users' = Restrict(users, DOMAIN users \ {u})
      BY <2>4 DEF DeleteUser
    <3> QED BY <1>0, <3>1 DEF Table, Restrict
  <2> QED BY <2>1, <2>2, <2>3, <2>4
<1>2. Change /\ UNCHANGED <<nodes, landings, pool>>
  BY DEF CreateUser, EditUser, UseAccount, DeleteUser
<1> QED BY <1>1, <1>2, ChangeFits DEF AlertsInv, SourcesFit

LEMMA PoolChangeFits ==
  ASSUME AlertsInv, NEW ids \in SUBSET PoolIds, ChangePool(ids)
  PROVE  AlertsInv'
  BY ChangeFits DEF ChangePool, AlertsInv, SourcesFit

LEMMA ClockFit ==
  ASSUME AlertsInv, Tick
  PROVE  AlertsInv'
<1>1. clock' \in Time /\ UNCHANGED <<sources, incidents, overview, changes, seen>>
  BY AlertConstants DEF Tick, AlertsInv, SourcesFit, Time
<1>2. SourcesFit'
  BY <1>1 DEF AlertsInv, SourcesFit, sources
<1> QED BY <1>1, <1>2, OthersChange

----------------------------------------------------------------------------
\* A row of a key stays founded while what was seen only grows.
LEMMA RowsOutlive ==
  ASSUME NEW k \in Keys, RowFits(k), incidents'[k] = incidents[k], seen[k] \subseteq seen'[k]
  PROVE  RowFits(k)'
  BY DEF RowFits

\* What an overview saw is added to what was seen, which only grows.
LEMMA Witnessed ==
  ASSUME AlertsInv, NEW keys \in SUBSET Keys, NEW alerts, NEW now \in Time,
         Table(Keys, Alert, alerts), Witness(keys, alerts, now)
  PROVE  /\ seen' \in [Keys -> SUBSET (({Null} \cup Alert) \X Time)]
         /\ \A k \in Keys : seen[k] \subseteq seen'[k]
         /\ \A k \in keys : <<Saw(k, alerts), now>> \in seen'[k]
<1> DEFINE after(k) == IF k \in keys THEN seen[k] \cup {<<Saw(k, alerts), now>>} ELSE seen[k]
<1>1. seen' = [k \in Keys |-> after(k)]
  BY DEF Witness
<1>2. ASSUME NEW k \in Keys PROVE after(k) \in SUBSET (({Null} \cup Alert) \X Time)
  <2>1. Saw(k, alerts) \in {Null} \cup Alert
    BY DEF Saw, Table
  <2>2. seen[k] \in SUBSET (({Null} \cup Alert) \X Time)
    BY DEF AlertsInv, SourcesFit
  <2> QED BY <2>1, <2>2
<1>3. \A k \in Keys : seen[k] \subseteq seen'[k]
  BY <1>1
<1>4. \A k \in keys : <<Saw(k, alerts), now>> \in seen'[k]
  BY <1>1
<1> HIDE DEF after
<1> QED BY <1>1, <1>2, <1>3, <1>4

\* An overview reads on: it holds what fits, and what was seen only grows.
LEMMA OverviewReads ==
  ASSUME AlertsInv, NEW h \in Overviews, OverviewFits(h)',
         NEW held, overview' = [overview EXCEPT ![h] = held],
         UNCHANGED <<sources, incidents, clock, changes>>,
         seen' \in [Keys -> SUBSET (({Null} \cup Alert) \X Time)],
         \A k \in Keys : seen[k] \subseteq seen'[k]
  PROVE  AlertsInv'
<1>1. SourcesFit'
  BY DEF AlertsInv, SourcesFit, sources
<1>2. RowsFit'
  BY RowsOutlive DEF AlertsInv, RowsFit
<1>3. ASSUME NEW g \in Overviews \ {h} PROVE OverviewFits(g)'
  <2>1. overview'[g] = overview[g] /\ OverviewFits(g)
    BY DEF AlertsInv, OverviewsFit
  <2>2. ASSUME NEW keys \in SUBSET Keys, NEW alerts, NEW now, AlertsFit(keys, alerts, now)
        PROVE  AlertsFit(keys, alerts, now)'
    BY <2>2 DEF AlertsFit
  <2>3. Keys \ PoolIds \in SUBSET Keys /\ Keys \in SUBSET Keys
    OBVIOUS
  <2> QED BY <2>1, <2>2, <2>3 DEF OverviewFits
<1> QED BY <1>1, <1>2, <1>3 DEF AlertsInv, OverviewsFit

LEMMA ReadSourcesFits ==
  ASSUME AlertsInv, NEW h \in Overviews, ReadSources(h)
  PROVE  AlertsInv'
<1> PICK alerts : alerts = SourceAlerts(clock)
  OBVIOUS
<1> PICK now : now = clock
  OBVIOUS
<1> DEFINE held == [at |-> "pool", now |-> now, alerts |-> alerts]
<1>1. /\ DOMAIN overview = Overviews /\ UNCHANGED <<sources, incidents, clock, changes>>
      /\ overview' = [overview EXCEPT ![h] = held]
      /\ Witness(Keys \ PoolIds, alerts, now)
      /\ now \in Time
  BY DEF ReadSources, AlertsInv, SourcesFit, OverviewsFit
<1>2. Table(Keys, Alert, alerts)
  BY SourceAlertsTyped DEF AlertsInv
<1>3. /\ seen' \in [Keys -> SUBSET (({Null} \cup Alert) \X Time)]
      /\ \A k \in Keys : seen[k] \subseteq seen'[k]
      /\ \A k \in Keys \ PoolIds : <<Saw(k, alerts), now>> \in seen'[k]
  BY <1>1, <1>2, Witnessed
<1>4. /\ overview'[h].at = "pool" /\ overview'[h].alerts = alerts /\ overview'[h].now = now
  BY <1>1
<1>5. AlertsFit(Keys \ PoolIds, alerts, now)'
  BY <1>1, <1>2, <1>3 DEF AlertsFit
<1>6. OverviewFits(h)'
  BY <1>4, <1>5 DEF OverviewFits
<1> QED BY <1>1, <1>3, <1>6, OverviewReads

LEMMA ReadPoolFits ==
  ASSUME AlertsInv, NEW h \in Overviews, ReadPool(h)
  PROVE  AlertsInv'
<1> PICK found : found = overview[h].alerts
  OBVIOUS
<1> PICK now : now = overview[h].now
  OBVIOUS
<1> PICK alerts : alerts = Alerts(found, pool)
  OBVIOUS
<1> DEFINE held == [at |-> "rows", now |-> now, alerts |-> alerts]
<1>1. /\ DOMAIN overview = Overviews /\ UNCHANGED <<sources, incidents, clock, changes>>
      /\ overview' = [overview EXCEPT ![h] = held]
      /\ Witness(PoolIds, alerts, now) /\ overview[h].at = "pool"
  BY DEF ReadPool, AlertsInv, OverviewsFit
<1>2. AlertsFit(Keys \ PoolIds, found, now)
  BY <1>1 DEF AlertsInv, OverviewsFit, OverviewFits, NoOverview
<1>3. /\ Table(Keys, Alert, alerts)
      /\ \A k \in Keys \ PoolIds : Saw(k, alerts) = Saw(k, found)
  BY <1>2, PoolJoins DEF AlertsFit, AlertsInv, SourcesFit
<1>4. PoolIds \in SUBSET Keys /\ now \in Time
  BY <1>2 DEF Keys, AlertsFit
<1>5. /\ seen' \in [Keys -> SUBSET (({Null} \cup Alert) \X Time)]
      /\ \A k \in Keys : seen[k] \subseteq seen'[k]
      /\ \A k \in PoolIds : <<Saw(k, alerts), now>> \in seen'[k]
  BY <1>1, <1>3, <1>4, Witnessed
<1>6. \A k \in Keys \ PoolIds : <<Saw(k, alerts), now>> \in seen'[k]
  BY <1>2, <1>3, <1>5 DEF AlertsFit
<1>7. /\ overview'[h].at = "rows" /\ overview'[h].alerts = alerts /\ overview'[h].now = now
  BY <1>1
<1>8. AlertsFit(Keys, alerts, now)'
  BY <1>3, <1>4, <1>5, <1>6 DEF AlertsFit
<1>9. OverviewFits(h)'
  BY <1>7, <1>8 DEF OverviewFits
<1> QED BY <1>1, <1>5, <1>9, OverviewReads

\* An overview goes on while tables and sources stay as they are.
LEMMA OverviewMoves ==
  ASSUME AlertsInv, NEW h \in Overviews, NEW held, OverviewFits(h)',
         overview' = [overview EXCEPT ![h] = held],
         UNCHANGED <<sources, clock, changes, seen>>, RowsFit'
  PROVE  AlertsInv'
<1>1. SourcesFit'
  BY DEF AlertsInv, SourcesFit, sources
<1>2. DOMAIN overview' = Overviews
  BY DEF AlertsInv, OverviewsFit
<1>3. \A g \in Overviews \ {h} : OverviewFits(g)'
  BY <1>2 DEF AlertsInv, OverviewsFit, OverviewFits, AlertsFit
<1> QED BY <1>1, <1>2, <1>3 DEF AlertsInv, OverviewsFit

LEMMA FailFits ==
  ASSUME AlertsInv, NEW h \in Overviews, Fail(h)
  PROVE  AlertsInv'
<1>1. /\ overview' = [overview EXCEPT ![h] = NoOverview] /\ overview'[h] = NoOverview
      /\ UNCHANGED <<sources, incidents, clock, changes, seen>>
  BY DEF Fail, AlertsInv, OverviewsFit
<1>2. RowsFit' /\ OverviewFits(h)'
  BY <1>1 DEF AlertsInv, RowsFit, RowFits, OverviewFits
<1> QED BY <1>1, <1>2, OverviewMoves

LEMMA ReadRowsFits ==
  ASSUME AlertsInv, NEW h \in Overviews, ReadRows(h)
  PROVE  AlertsInv'
<1> PICK alerts : alerts = overview[h].alerts
  OBVIOUS
<1> PICK now : now = overview[h].now
  OBVIOUS
<1> PICK table : table = Restrict(incidents, {k \in DOMAIN incidents :
                 incidents[k].status = "open" \/ k \in DOMAIN overview[h].alerts})
  OBVIOUS
<1> DEFINE held == [at |-> "batch", now |-> now, alerts |-> alerts, rows |-> table]
<1>1. /\ overview[h].at = "rows"
      /\ overview' = [overview EXCEPT ![h] = held]
      /\ UNCHANGED <<sources, incidents, clock, changes, seen>>
  BY DEF ReadRows
<1>2. AlertsFit(Keys, alerts, now)
  BY <1>1 DEF AlertsInv, OverviewsFit, OverviewFits, NoOverview
<1>3. /\ DOMAIN table \subseteq DOMAIN incidents
      /\ \A k \in DOMAIN table : /\ table[k] = incidents[k]
                                 /\ incidents[k].status = "open" \/ k \in DOMAIN alerts
  BY DEF Restrict
<1>4. ReadFits(table, alerts)
  BY <1>3 DEF ReadFits, AlertsInv, RowsFit, RowFits
<1>5. /\ overview'[h].at = "batch" /\ overview'[h].alerts = alerts
      /\ overview'[h].now = now /\ overview'[h].rows = table
  BY <1>1 DEF AlertsInv, OverviewsFit
<1>6. AlertsFit(Keys, alerts, now)'
  BY <1>1, <1>2 DEF AlertsFit
<1>7. OverviewFits(h)'
  BY <1>4, <1>5, <1>6 DEF OverviewFits, ReadFits
<1>8. RowsFit'
  BY <1>1 DEF AlertsInv, RowsFit, RowFits
<1> QED BY <1>1, <1>7, <1>8, OverviewMoves

LEMMA MaintenanceFits ==
  ASSUME AlertsInv, RunDataMaintenance
  PROVE  AlertsInv'
<1>1. UNCHANGED <<sources, overview, clock, changes, seen>>
  BY DEF RunDataMaintenance
<1>2. /\ DOMAIN incidents' \subseteq DOMAIN incidents
      /\ \A k \in DOMAIN incidents' : incidents'[k] = incidents[k]
  BY DEF RunDataMaintenance, Restrict
<1>3. RowsFit'
  BY <1>1, <1>2, RowsOutlive DEF AlertsInv, RowsFit
<1>4. SourcesFit' /\ OverviewsFit'
  BY <1>1 DEF AlertsInv, SourcesFit, OverviewsFit, OverviewFits, AlertsFit, sources
<1> QED BY <1>3, <1>4 DEF AlertsInv

----------------------------------------------------------------------------
\* What an overview about to write holds.
LEMMA BatchHolds ==
  ASSUME AlertsInv, NEW h \in Overviews, Reconcile(h)
  PROVE  /\ AlertsFit(Keys, overview[h].alerts, overview[h].now)
         /\ ReadFits(overview[h].rows, overview[h].alerts)
         /\ overview' = [overview EXCEPT ![h] = NoOverview]
         /\ UNCHANGED <<sources, clock, changes, seen>>
  BY DEF Reconcile, AlertsInv, OverviewsFit, OverviewFits, NoOverview

\* The row each key has after the batch.
LEMMA RowWritten ==
  ASSUME AlertsInv, NEW h \in Overviews, Reconcile(h)
  PROVE  LET alerts == overview[h].alerts
             read == overview[h].rows
             inserted == DOMAIN alerts \ (DOMAIN read \cup DOMAIN incidents) IN
         /\ DOMAIN incidents' = DOMAIN incidents \cup inserted
         /\ \A k \in inserted : incidents'[k] = NewRow(alerts[k])
         /\ \A k \in DOMAIN incidents :
              incidents'[k] = RowAfter(k, alerts, read, overview[h].now)
<1> DEFINE alerts == overview[h].alerts
           read == overview[h].rows
           inserted == DOMAIN alerts \ (DOMAIN read \cup DOMAIN incidents)
           written(k) == IF k \in inserted THEN NewRow(alerts[k])
                         ELSE RowAfter(k, alerts, read, overview[h].now)
<1>1. incidents' = [k \in DOMAIN incidents \cup inserted |-> written(k)]
  BY DEF Reconcile
<1>2. \A k \in DOMAIN incidents : k \notin inserted
  OBVIOUS
<1>3. \A k \in DOMAIN incidents \cup inserted : incidents'[k] = written(k)
  BY <1>1
<1>4. DOMAIN incidents' = DOMAIN incidents \cup inserted
  BY <1>1
<1>5. \A k \in inserted : incidents'[k] = NewRow(alerts[k])
  BY <1>3
<1>6. \A k \in DOMAIN incidents : incidents'[k] = RowAfter(k, alerts, read, overview[h].now)
  BY <1>2, <1>3
<1> QED BY <1>4, <1>5, <1>6

LEMMA NewRowTyped ==
  ASSUME NEW alert \in Alert
  PROVE  /\ NewRow(alert) \in Row /\ NewRow(alert).status = "open"
         /\ NewRow(alert).severity = alert.severity /\ NewRow(alert).title = alert.title
         /\ NewRow(alert).resolvedAt = Null /\ NewRow(alert).count = 1
  BY DEF NewRow, Row, Alert

LEMMA ReopenedTyped ==
  ASSUME NEW alert \in Alert, NEW row \in Row
  PROVE  /\ Reopened(row, alert) \in Row /\ Reopened(row, alert).status = "open"
         /\ Reopened(row, alert).severity = alert.severity
         /\ Reopened(row, alert).title = alert.title
         /\ Reopened(row, alert).resolvedAt = Null
         /\ Reopened(row, alert).count = row.count + 1
<1>1. Reopened(row, alert) = [status |-> "open", severity |-> alert.severity,
        title |-> alert.title, resolvedAt |-> Null, count |-> row.count + 1]
  BY DEF Reopened, NewRow
<1>2. row.count + 1 \in Nat \ {0}
  BY DEF Row
<1> QED BY <1>1, <1>2 DEF Row, Alert

\* The three things the batch can do to a row that is there.
Rewrites(k, alerts, read) ==
  k \in DOMAIN read \cap DOMAIN alerts /\ StateChanged(read[k], alerts[k])
Resolves(k, alerts, read) ==
  /\ k \in DOMAIN read \ DOMAIN alerts
  /\ read[k].status = "open" /\ incidents[k].status = "open"
ResolvedRow(row, now) == [row EXCEPT !.status = "resolved", !.resolvedAt = now]

LEMMA RowRewritten ==
  ASSUME NEW k, NEW alerts, NEW read, NEW now, Rewrites(k, alerts, read)
  PROVE  RowAfter(k, alerts, read, now) = Reopened(read[k], alerts[k])
  BY DEF RowAfter, Rewrites

LEMMA RowResolved ==
  ASSUME NEW k, NEW alerts, NEW read, NEW now, Resolves(k, alerts, read)
  PROVE  RowAfter(k, alerts, read, now) = ResolvedRow(incidents[k], now)
  BY DEF RowAfter, Resolves, ResolvedRow

LEMMA RowKept ==
  ASSUME NEW k, NEW alerts, NEW read, NEW now,
         ~Rewrites(k, alerts, read), ~Resolves(k, alerts, read)
  PROVE  RowAfter(k, alerts, read, now) = incidents[k]
  BY DEF RowAfter, Rewrites, Resolves

\* A resolved row keeps its shape.
LEMMA ResolvedTyped ==
  ASSUME NEW row \in Row, NEW now \in Time
  PROVE  /\ ResolvedRow(row, now) \in Row /\ ResolvedRow(row, now).status = "resolved"
         /\ ResolvedRow(row, now).resolvedAt = now
  BY DEF Row, ResolvedRow

LEMMA ReconcileFits ==
  ASSUME AlertsInv, NEW h \in Overviews, Reconcile(h)
  PROVE  AlertsInv'
<1> PICK alerts : alerts = overview[h].alerts
  OBVIOUS
<1> PICK read : read = overview[h].rows
  OBVIOUS
<1> PICK now : now = overview[h].now
  OBVIOUS
<1> PICK inserted : inserted = DOMAIN alerts \ (DOMAIN read \cup DOMAIN incidents)
  OBVIOUS
<1>1. /\ AlertsFit(Keys, alerts, now) /\ ReadFits(read, alerts)
      /\ overview' = [overview EXCEPT ![h] = NoOverview]
      /\ UNCHANGED <<sources, clock, changes, seen>>
  BY BatchHolds
<1>2. /\ DOMAIN incidents' = DOMAIN incidents \cup inserted
      /\ \A k \in inserted : incidents'[k] = NewRow(alerts[k])
      /\ \A k \in DOMAIN incidents : incidents'[k] = RowAfter(k, alerts, read, now)
  BY RowWritten
<1>3. DOMAIN incidents' \subseteq Keys
  BY <1>1, <1>2 DEF AlertsInv, RowsFit, AlertsFit, Table
\* An alert that is open now was seen by the overview as it is written.
<1>4. ASSUME NEW k \in DOMAIN alerts
      PROVE  \E t \in Time :
               <<[severity |-> alerts[k].severity, title |-> alerts[k].title], t>> \in seen[k]
  <2>1. alerts[k] \in Alert /\ k \in Keys /\ now \in Time /\ <<Saw(k, alerts), now>> \in seen[k]
    BY <1>1 DEF AlertsFit, Table
  <2>2. Saw(k, alerts) = [severity |-> alerts[k].severity, title |-> alerts[k].title]
    BY <2>1 DEF Saw, Alert
  <2> QED BY <2>1, <2>2
<1>5. ASSUME NEW k \in inserted PROVE RowFits(k)'
  <2>1. k \in DOMAIN alerts /\ alerts[k] \in Alert
    BY <1>1 DEF AlertsFit, Table
  <2>2. /\ incidents'[k] \in Row /\ incidents'[k].status = "open"
        /\ incidents'[k].resolvedAt = Null /\ incidents'[k].severity = alerts[k].severity
        /\ incidents'[k].title = alerts[k].title
    BY <1>2, <2>1, NewRowTyped
  <2> QED BY <2>1, <2>2, <1>1, <1>4 DEF RowFits
<1>6. ASSUME NEW k \in DOMAIN incidents PROVE RowFits(k)'
  <2>0. RowFits(k) /\ k \in Keys /\ incidents'[k] = RowAfter(k, alerts, read, now)
    BY <1>2 DEF AlertsInv, RowsFit
  <2>1. CASE Rewrites(k, alerts, read)
    <3>1. k \in DOMAIN alerts /\ read[k] \in Row /\ alerts[k] \in Alert
      BY <2>1, <1>1 DEF AlertsFit, Table, ReadFits, Rewrites
    <3>2. incidents'[k] = Reopened(read[k], alerts[k])
      BY <2>0, <2>1, RowRewritten
    <3>3. /\ incidents'[k] \in Row /\ incidents'[k].status = "open"
          /\ incidents'[k].resolvedAt = Null /\ incidents'[k].severity = alerts[k].severity
          /\ incidents'[k].title = alerts[k].title
      BY <3>1, <3>2, ReopenedTyped
    <3> QED BY <3>1, <3>3, <1>1, <1>4 DEF RowFits
  <2>2. CASE Resolves(k, alerts, read)
    <3>1. now \in Time /\ <<Null, now>> \in seen[k] /\ incidents[k] \in Row
      BY <2>0, <2>2, <1>1 DEF AlertsFit, Saw, Resolves, RowFits
    <3>2. incidents'[k] = ResolvedRow(incidents[k], now)
      BY <2>0, <2>2, RowResolved
    <3>3. /\ incidents'[k] \in Row /\ incidents'[k].status = "resolved"
          /\ incidents'[k].resolvedAt = now
      BY <3>1, <3>2, ResolvedTyped
    <3> QED BY <3>1, <3>3, <1>1 DEF RowFits
  <2>3. CASE ~Rewrites(k, alerts, read) /\ ~Resolves(k, alerts, read)
    <3>1. incidents'[k] = incidents[k]
      BY <2>0, <2>3, RowKept
    <3> QED BY <2>0, <3>1, <1>1, RowsOutlive
  <2> QED BY <2>1, <2>2, <2>3
<1>7. RowsFit'
  BY <1>2, <1>3, <1>5, <1>6 DEF RowsFit
<1>8. OverviewFits(h)'
  BY <1>1 DEF OverviewFits, AlertsInv, OverviewsFit
<1> QED BY <1>1, <1>7, <1>8, OverviewMoves

LEMMA AlertsStepFits == AlertsInv /\ [AlertsNext]_alertsVars => AlertsInv'
<1> SUFFICES ASSUME AlertsInv, [AlertsNext]_alertsVars PROVE AlertsInv'
  OBVIOUS
<1>1. CASE UNCHANGED alertsVars
  BY <1>1 DEF alertsVars, sources, AlertsInv, SourcesFit, RowsFit, RowFits, OverviewsFit,
       OverviewFits, AlertsFit
<1> QED BY <1>1, NodesChangeFit, LandingsChangeFit, UsersChangeFit, PoolChangeFits, ClockFit,
           MaintenanceFits, ReadSourcesFits, ReadPoolFits, ReadRowsFits, ReconcileFits, FailFits DEF AlertsNext

LEMMA AlertsInvHolds == AlertsSpec => []AlertsInv
<1> QED BY AlertsStartFit, AlertsStepFits, PTL DEF AlertsSpec

----------------------------------------------------------------------------
\* Whatever order overlapping overviews and the maintenance write in, an
\* incident is open only if an overview saw its alert, and resolved at the time
\* of one that saw none (alert-incidents.ts, the statements of the batch).
THEOREM IncidentsStaySound == AlertsSpec => []RowsSound
<1>1. AlertsInv => RowsSound
  <2> SUFFICES ASSUME AlertsInv PROVE RowsSound
    OBVIOUS
  <2>1. AlertsTypeOK
    BY DEF AlertsInv, SourcesFit, RowsFit, RowFits, OverviewsFit, OverviewFits, AlertsFit,
           ReadFits, Table, AlertsTypeOK
  <2>2. RowsHaveEvidence
    BY DEF AlertsInv, RowsFit, RowFits, RowsHaveEvidence
  <2> QED BY <2>1, <2>2 DEF RowsSound
<1> QED BY <1>1, AlertsInvHolds, PTL

\* A batch makes an incident what its overview saw, or leaves all of a row that
\* others have written since it was read; in one nobody wrote since, a return and
\* a change of severity count once and a repeat never (alert-incidents.ts:107-190).
THEOREM OverviewsTakeEffect == AlertsSpec => MissesOnlyWhenOvertaken
<1> DEFINE Effect(alerts, k) == IF k \in DOMAIN alerts THEN IsOpenAs(incidents', k, alerts[k])
                                ELSE ~IsOpen(incidents', k)
    Counted(alerts, read, k) ==
      IF ~IsOpenAs(read, k, alerts[k]) THEN incidents'[k].count = read[k].count + 1
      ELSE read[k].title = alerts[k].title => SameRow(k)
    Good(h, alerts, read, k) ==
      /\ Effect(alerts, k) \/ (Overtaken(h, k) /\ SameRow(k))
      /\ k \in DOMAIN read \cap DOMAIN alerts /\ ~Overtaken(h, k) => Counted(alerts, read, k)
    Effects == \A h \in Overviews : Reconcile(h) => \A k \in Keys : TakesEffect(h, k)
<1>1. AlertsInv /\ [AlertsNext]_alertsVars => [Effects]_alertsVars
  <2> SUFFICES ASSUME AlertsInv, NEW h \in Overviews, Reconcile(h), NEW k \in Keys
               PROVE  TakesEffect(h, k)
    BY Zenon
  <2> PICK alerts : alerts = overview[h].alerts
    OBVIOUS
  <2> PICK read : read = overview[h].rows
    OBVIOUS
  <2> PICK now : now = overview[h].now
    OBVIOUS
  <2> PICK inserted : inserted = DOMAIN alerts \ (DOMAIN read \cup DOMAIN incidents)
    OBVIOUS
  <2>0. Overtaken(h, k) <=>
          IF k \in DOMAIN read THEN k \notin DOMAIN incidents \/ incidents[k] # read[k]
          ELSE k \in DOMAIN incidents /\ (k \in DOMAIN alerts \/ IsOpen(incidents, k))
    BY DEF Overtaken
  <2>1. /\ AlertsFit(Keys, alerts, now) /\ ReadFits(read, alerts)
        /\ DOMAIN incidents' = DOMAIN incidents \cup inserted
        /\ \A j \in inserted : incidents'[j] = NewRow(alerts[j])
        /\ \A j \in DOMAIN incidents : incidents'[j] = RowAfter(j, alerts, read, now)
    BY BatchHolds, RowWritten
  <2>2. k \in DOMAIN incidents => incidents[k] \in Row
    BY DEF AlertsInv, RowsFit, RowFits
  <2>3. SUFFICES Good(h, alerts, read, k)
    BY DEF TakesEffect
  <2> HIDE DEF Effect
\* A row that is there and is neither rewritten nor resolved is as it was.
  <2>4. ASSUME ~Rewrites(k, alerts, read), ~Resolves(k, alerts, read), k \notin inserted
        PROVE  SameRow(k)
    <3>1. k \in DOMAIN incidents <=> k \in DOMAIN incidents'
      BY <2>1, <2>4
    <3>2. k \in DOMAIN incidents => incidents'[k] = incidents[k]
      BY <2>1, <2>4, RowKept
    <3> QED BY <3>1, <3>2 DEF SameRow
  <2>5. CASE k \in inserted
    <3>1. alerts[k] \in Alert /\ k \in DOMAIN alerts /\ k \notin DOMAIN read
      BY <2>1, <2>5 DEF AlertsFit, Table
    <3>2. k \in DOMAIN incidents' /\ IsOpenAs(incidents', k, alerts[k])
      BY <2>1, <2>5, <3>1, NewRowTyped DEF IsOpenAs, IsOpen
    <3> QED BY <3>1, <3>2 DEF Effect
  <2>6. CASE k \notin inserted /\ k \notin DOMAIN read
    <3>1. SameRow(k)
      BY <2>4, <2>6 DEF Rewrites, Resolves
    <3>2. CASE Overtaken(h, k)
      BY <2>6, <3>1, <3>2
    <3>3. CASE ~Overtaken(h, k)
      <4>1. k \notin DOMAIN alerts /\ ~IsOpen(incidents, k)
        BY <2>0, <2>6, <3>3 DEF IsOpen
      <4>2. ~IsOpen(incidents', k)
        BY <4>1, <3>1 DEF IsOpen, SameRow
      <4> QED BY <2>6, <4>1, <4>2 DEF Effect
    <3> QED BY <3>2, <3>3
  <2>7. CASE k \in DOMAIN read \ DOMAIN alerts
    <3>1. read[k].status = "open" /\ k \notin inserted
      BY <2>1, <2>7 DEF ReadFits
    <3>2. ~IsOpen(incidents', k)
      <4>1. CASE Resolves(k, alerts, read) /\ k \in DOMAIN incidents
        <5>1. incidents'[k] = ResolvedRow(incidents[k], now)
          BY <2>1, <4>1, RowResolved
        <5>2. incidents'[k].status = "resolved"
          BY <2>1, <2>2, <4>1, <5>1, ResolvedTyped DEF AlertsFit
        <5> QED BY <5>2 DEF IsOpen
      <4>2. CASE ~Resolves(k, alerts, read)
        <5>1. SameRow(k)
          BY <2>4, <2>7, <3>1, <4>2 DEF Rewrites
        <5>2. ~IsOpen(incidents, k)
          BY <2>7, <3>1, <4>2 DEF Resolves, IsOpen
        <5> QED BY <5>1, <5>2 DEF SameRow, IsOpen
      <4>3. CASE k \notin DOMAIN incidents
        BY <2>1, <3>1, <4>3 DEF IsOpen
      <4> QED BY <4>1, <4>2, <4>3
    <3> QED BY <2>7, <3>2 DEF Effect
  <2>8. CASE k \in DOMAIN read \cap DOMAIN alerts
    <3>1. read[k] \in Row /\ alerts[k] \in Alert /\ k \notin inserted
          /\ ~Resolves(k, alerts, read)
      BY <2>1, <2>8 DEF ReadFits, AlertsFit, Table, Resolves
    <3>2. CASE k \notin DOMAIN incidents
      <4>1. SameRow(k)
        BY <2>1, <3>1, <3>2 DEF SameRow
      <4>2. Overtaken(h, k)
        BY <2>0, <2>8, <3>2
      <4> QED BY <4>1, <4>2
    <3>3. CASE k \in DOMAIN incidents /\ StateChanged(read[k], alerts[k])
      <4>1. Rewrites(k, alerts, read)
        BY <2>8, <3>3 DEF Rewrites
      <4>2. incidents'[k] = Reopened(read[k], alerts[k])
        BY <2>1, <3>3, <4>1, RowRewritten
      <4>3. /\ incidents'[k].status = "open" /\ incidents'[k].severity = alerts[k].severity
            /\ incidents'[k].count = read[k].count + 1 /\ k \in DOMAIN incidents'
        BY <2>1, <3>1, <3>3, <4>2, ReopenedTyped
      <4>4. IsOpenAs(incidents', k, alerts[k])
        BY <4>3 DEF IsOpenAs, IsOpen
      <4>5. IsOpenAs(read, k, alerts[k]) => read[k].title # alerts[k].title
        BY <2>8, <3>3 DEF StateChanged, IsOpenAs, IsOpen
      <4> QED BY <2>8, <4>3, <4>4, <4>5 DEF Effect
    <3>4. CASE k \in DOMAIN incidents /\ ~StateChanged(read[k], alerts[k])
      <4>1. SameRow(k)
        BY <2>4, <3>1, <3>4 DEF Rewrites
      <4>2. IsOpenAs(read, k, alerts[k])
        BY <2>8, <3>4 DEF StateChanged, IsOpenAs, IsOpen
      <4>3. CASE Overtaken(h, k)
        BY <4>1, <4>3
      <4>4. CASE ~Overtaken(h, k)
        <5>1. incidents'[k] = read[k] /\ k \in DOMAIN incidents'
          BY <2>0, <2>8, <3>4, <4>1, <4>4 DEF SameRow
        <5>2. IsOpenAs(incidents', k, alerts[k])
          BY <4>2, <5>1 DEF IsOpenAs, IsOpen
        <5> QED BY <2>8, <4>1, <4>2, <5>2 DEF Effect
      <4> QED BY <4>3, <4>4
    <3> QED BY <3>2, <3>3, <3>4
  <2> QED BY <2>5, <2>6, <2>7, <2>8
<1> QED BY <1>1, AlertsInvHolds, PTL DEF AlertsSpec, MissesOnlyWhenOvertaken
=============================================================================
