--------------------------- MODULE AlertIncidents ---------------------------
(***************************************************************************)
(* The alerts of the operations overview and the incidents it keeps of     *)
(* them (operations.ts, access-status.ts and alert-incidents.ts of         *)
(* packages/control-plane/src).                                            *)
(*                                                                         *)
(* There is no alert engine: loading the overview computes the alerts of   *)
(* the moment and reconciles table alert_incidents with them.  Overviews   *)
(* overlap, so an older one may write after a newer one.                   *)
(***************************************************************************)
EXTENDS Naturals, FiniteSets, Functions

CONSTANTS NodeIds, LandingIds, UserIds, \* disjoint: an incident's key is its kind and id
          PoolIds,    \* keys of the alerts about the pool of addresses
          PoolDanger, \* those of them that are dangers
          Overviews,  \* requests of /api/operations/overview that may be in flight
          Polled,     \* the one of them that a page left open keeps asking for
          Null,
          Names,      \* hostnames of nodes and names of landings
          StaleAfter, \* age of a check that counts as stale: 30 minutes
          SoonAfter,  \* an expiry this near is told: 3 days
          Retention,  \* resolved incidents are kept this long: 90 days
          MaxTime,    \* bound on the clock, in ticks
          MaxChanges  \* bound on changes of nodes, landings, users and the pool

ASSUME AlertsAssumption ==
    /\ NodeIds \cap LandingIds = {} /\ (NodeIds \cup LandingIds) \cap UserIds = {}
    /\ PoolIds \cap (NodeIds \cup LandingIds \cup UserIds) = {} /\ PoolDanger \subseteq PoolIds
    /\ {StaleAfter, SoonAfter, Retention, MaxTime, MaxChanges} \subseteq Nat
    /\ Null \notin Names \cup Nat /\ Polled \in Overviews

VARIABLES nodes, landings, users, \* tables: functions of the ids with a row
          pool,      \* the alerts the pool of addresses gives rise to
          incidents, \* table alert_incidents: a function of the keys with a row
          overview,  \* what each overview holds
          clock,
          changes,   \* changes made
          seen       \* ghost: what overviews saw of each key, and when

sources == <<nodes, landings, users, pool>>
alertsVars == <<sources, incidents, overview, clock, changes, seen>>

Keys == NodeIds \cup LandingIds \cup UserIds \cup PoolIds
Time == 0..MaxTime

Node == [enabled : BOOLEAN, health : {"healthy", "degraded", "banned"},
         checked : Time \cup {Null}, hostname : Names]
Landing == [enabled : BOOLEAN, health : {"healthy", "unhealthy", "unknown"},
            checked : Time \cup {Null}, name : Names]
\* used: the part of the traffic quota; full: one of the lists of addresses is.
User == [enabled : BOOLEAN, expireAt : Time \cup {Null}, used : {"low", "near", "all"},
         full : BOOLEAN, internal : BOOLEAN]

Alert == [severity : {"warning", "danger"}, title : Names \cup {Null}]
Row == [status : {"open", "resolved"}, severity : {"warning", "danger"},
        title : Names \cup {Null}, resolvedAt : Time \cup {Null}, count : Nat \ {0}]

NoOverview == [at |-> "idle"]

\* The row activateNodeEnrollment inserts: a new node was never probed.
NewNode(hostname) ==
    [enabled |-> TRUE, health |-> "healthy", checked |-> Null, hostname |-> hostname]
NewLanding(enabled, name) ==
    [enabled |-> enabled, health |-> "unknown", checked |-> Null, name |-> name]
\* Internal accounts are named "__...".
NewUser(expireAt, internal) ==
    [enabled |-> TRUE, expireAt |-> expireAt, used |-> "low", full |-> FALSE,
     internal |-> internal]

\* A new control plane, or one in use.
AlertsInit ==
    /\ \E ids \in {{}, NodeIds \cup LandingIds \cup UserIds}, name \in Names :
         /\ nodes = [n \in ids \cap NodeIds |-> NewNode(name)]
         /\ landings = [l \in ids \cap LandingIds |->
                [NewLanding(TRUE, name) EXCEPT !.health = "healthy", !.checked = 0]]
         /\ \E internal \in BOOLEAN :
              users = [u \in ids \cap UserIds |-> NewUser(Null, internal)]
    /\ pool = {}
    /\ incidents = Restrict(nodes, {})
    /\ overview = [h \in Overviews |-> NoOverview]
    /\ clock = 0 /\ changes = 0
    /\ seen = [k \in Keys |-> {}]

----------------------------------------------------------------------------
\* Was the last check missing or too long ago?
Unchecked(checked, now) ==
    \/ checked = Null
    \/ checked # Null /\ now > checked + StaleAfter

\* evaluateAccessStatus: what blocks a user comes before what only warns.
Blocked(u, now) ==
    \/ ~u.enabled
    \/ u.expireAt # Null /\ u.expireAt <= now
    \/ u.used = "all"
Warned(u, now) ==
    \/ u.full
    \/ u.used = "near"
    \/ u.expireAt # Null /\ u.expireAt <= now + SoonAfter
UserSeverity(u, now) ==
    IF Blocked(u, now) THEN "danger" ELSE IF Warned(u, now) THEN "warning" ELSE "healthy"

NodeSeverity(n, now) ==
    IF n.enabled /\ n.health = "healthy" /\ ~Unchecked(n.checked, now) THEN "healthy"
    ELSE IF n.health = "banned" THEN "danger" ELSE "warning"

\* A landing that is switched off is no alert.
LandingSeverity(l, now) ==
    IF ~l.enabled \/ (l.health = "healthy" /\ ~Unchecked(l.checked, now)) THEN "healthy"
    ELSE IF l.health = "unhealthy" THEN "danger" ELSE "warning"

\* A source without a row, and an internal user, raise no alert.
Severity(k, now) ==
    IF k \in DOMAIN nodes THEN NodeSeverity(nodes[k], now)
    ELSE IF k \in DOMAIN landings THEN LandingSeverity(landings[k], now)
    ELSE IF k \in DOMAIN users /\ ~users[k].internal THEN UserSeverity(users[k], now)
    ELSE "healthy"

\* Names of users do not change; hostnames and names of landings do.
Title(k) ==
    IF k \in DOMAIN nodes THEN nodes[k].hostname
    ELSE IF k \in DOMAIN landings THEN landings[k].name ELSE Null

\* The alerts of nodes, landings and users.
SourceAlerts(now) ==
    [k \in {k \in Keys : Severity(k, now) # "healthy"} |->
        [severity |-> Severity(k, now), title |-> Title(k)]]

\* Those of the pool: a title of their own each, which module OptimizedIps has.
PoolAlertOf(k) ==
    [severity |-> IF k \in PoolDanger THEN "danger" ELSE "warning", title |-> Null]

\* The alerts handed to the incidents.
Alerts(found, ids) ==
    [k \in DOMAIN found \cup ids |-> IF k \in ids THEN PoolAlertOf(k) ELSE found[k]]

----------------------------------------------------------------------------
\* What other components do to what the overview reads.
Change ==
    /\ changes < MaxChanges
    /\ changes' = changes + 1
    /\ UNCHANGED <<incidents, overview, clock, seen>>

\* recordNodeHealth; a report is at most 15 minutes old, which is no tick.
CheckNode(n, health) ==
    /\ n \in DOMAIN nodes
    /\ nodes' = [nodes EXCEPT ![n].health = health, ![n].checked = clock]
    /\ UNCHANGED <<landings, users, pool>> /\ Change

\* upsertNode: a registration inserts the node or respells its hostname.
UpsertNode(n, hostname) ==
    /\ nodes' = [m \in DOMAIN nodes \cup {n} |->
            IF m # n THEN nodes[m]
            ELSE IF n \in DOMAIN nodes THEN [nodes[n] EXCEPT !.hostname = hostname]
            ELSE NewNode(hostname)]
    /\ UNCHANGED <<landings, users, pool>> /\ Change

\* A node is switched off for good when its credential is revoked.
RevokeNode(n) ==
    /\ n \in DOMAIN nodes
    /\ nodes' = [nodes EXCEPT ![n].enabled = FALSE]
    /\ UNCHANGED <<landings, users, pool>> /\ Change

DeleteNode(n) ==
    /\ n \in DOMAIN nodes
    /\ nodes' = Restrict(nodes, DOMAIN nodes \ {n})
    /\ UNCHANGED <<landings, users, pool>> /\ Change

CreateLanding(l, enabled, name) ==
    /\ l \notin DOMAIN landings
    /\ landings' = [m \in DOMAIN landings \cup {l} |->
            IF m = l THEN NewLanding(enabled, name) ELSE landings[m]]
    /\ UNCHANGED <<nodes, users, pool>> /\ Change

CheckLanding(l, health) ==
    /\ l \in DOMAIN landings
    /\ landings' = [landings EXCEPT ![l].health = health, ![l].checked = clock]
    /\ UNCHANGED <<nodes, users, pool>> /\ Change

\* updateLanding: one edit may do several things.  One of the connection
\* (hostname, port or credentials) has the landing checked again.
EditLanding(l, enabled, name, reconnect) ==
    /\ l \in DOMAIN landings
    /\ landings' = [landings EXCEPT ![l] =
            IF reconnect THEN NewLanding(enabled, name)
            ELSE [@ EXCEPT !.enabled = enabled, !.name = name]]
    /\ UNCHANGED <<nodes, users, pool>> /\ Change

DeleteLanding(l) ==
    /\ l \in DOMAIN landings
    /\ landings' = Restrict(landings, DOMAIN landings \ {l})
    /\ UNCHANGED <<nodes, users, pool>> /\ Change

CreateUser(u, expireAt, internal) ==
    /\ u \notin DOMAIN users
    /\ users' = [v \in DOMAIN users \cup {u} |->
            IF v = u THEN NewUser(expireAt, internal) ELSE users[v]]
    /\ UNCHANGED <<nodes, landings, pool>> /\ Change

\* The limits of an edit decide what the same traffic and addresses amount to.
EditUser(u, enabled, used, full) ==
    /\ u \in DOMAIN users
    /\ users' = [users EXCEPT ![u].enabled = enabled, ![u].used = used, ![u].full = full]
    /\ UNCHANGED <<nodes, landings, pool>> /\ Change

\* Traffic is reported and addresses come and go.
UseAccount(u, used, full) == u \in DOMAIN users /\ EditUser(u, users[u].enabled, used, full)

DeleteUser(u) ==
    /\ u \in DOMAIN users
    /\ users' = Restrict(users, DOMAIN users \ {u})
    /\ UNCHANGED <<nodes, landings, pool>> /\ Change

\* The pool is published, expires or loses its nodes: PoolAlerts of module
\* OptimizedIps, of which only the keys matter here.
ChangePool(ids) ==
    /\ pool' = ids
    /\ UNCHANGED <<nodes, landings, users>> /\ Change

Tick ==
    /\ clock < MaxTime
    /\ clock' = clock + 1
    /\ UNCHANGED <<sources, incidents, overview, changes, seen>>

----------------------------------------------------------------------------
\* What an overview that took its time at now saw of each of some keys.
Saw(k, alerts) == IF k \in DOMAIN alerts THEN alerts[k] ELSE Null
Witness(keys, alerts, now) ==
    seen' = [k \in Keys |->
        IF k \in keys THEN seen[k] \cup {<<Saw(k, alerts), now>>} ELSE seen[k]]

\* operationsOverview: the time is taken, then the tables are read at once ...
ReadSources(h) ==
    /\ overview[h] = NoOverview
    /\ overview' = [overview EXCEPT ![h] =
            [at |-> "pool", now |-> clock, alerts |-> SourceAlerts(clock)]]
    /\ Witness(Keys \ PoolIds, SourceAlerts(clock), clock)
    /\ UNCHANGED <<sources, incidents, clock, changes>>

\* ... then the pool.
ReadPool(h) ==
    /\ overview[h].at = "pool"
    /\ LET alerts == Alerts(overview[h].alerts, pool) IN
       /\ overview' = [overview EXCEPT ![h] =
               [at |-> "rows", now |-> overview[h].now, alerts |-> alerts]]
       /\ Witness(PoolIds, alerts, overview[h].now)
    /\ UNCHANGED <<sources, incidents, clock, changes>>

\* reconcileAlertIncidents reads the open incidents and those of its alerts.
ReadRows(h) ==
    /\ overview[h].at = "rows"
    /\ LET rows == Restrict(incidents, {k \in DOMAIN incidents :
                 incidents[k].status = "open" \/ k \in DOMAIN overview[h].alerts}) IN
       overview' = [overview EXCEPT ![h] =
            [at |-> "batch", now |-> overview[h].now, alerts |-> overview[h].alerts,
             rows |-> rows]]
    /\ UNCHANGED <<sources, incidents, clock, changes, seen>>

\* Mutant of StateChanged: an incident that comes back is taken for the old one.
StateChangedButStatus(row, alert) ==
    row.severity # alert.severity \/ row.title # alert.title
\* Details alone, such as minutes since a check, are no change.
StateChanged(row, alert) ==
    row.status # "open" \/ row.severity # alert.severity \/ row.title # alert.title

NewRow(alert) ==
    [status |-> "open", severity |-> alert.severity, title |-> alert.title,
     resolvedAt |-> Null, count |-> 1]

\* Mutant of Reopened: the count is not kept.
ReopenedAnew(row, alert) == NewRow(alert)
\* The count is one more than it was when the row was read.
Reopened(row, alert) == [NewRow(alert) EXCEPT !.count = row.count + 1]

\* Mutant of RowAfter: resolves whatever was open, current or not.
RowAfterResolvingAll(k, alerts, rows, now) ==
    IF k \in DOMAIN rows /\ rows[k].status = "open"
    THEN [incidents[k] EXCEPT !.status = "resolved", !.resolvedAt = now]
    ELSE incidents[k]

\* The statement for a key that still has its row when the batch runs: an
\* UPDATE to the alert, or to resolved if the incident is open by then.
RowAfter(k, alerts, rows, now) ==
    IF k \in DOMAIN rows \cap DOMAIN alerts /\ StateChanged(rows[k], alerts[k])
    THEN Reopened(rows[k], alerts[k])
    ELSE IF /\ k \in DOMAIN rows \ DOMAIN alerts
            /\ rows[k].status = "open" /\ incidents[k].status = "open"
    THEN [incidents[k] EXCEPT !.status = "resolved", !.resolvedAt = now]
    ELSE incidents[k]

\* The batch.  INSERT OR IGNORE adds a row where there was none and is none;
\* UPDATE of a row that was purged since does nothing.
Reconcile(h) ==
    /\ overview[h].at = "batch"
    /\ LET alerts == overview[h].alerts
           rows == overview[h].rows
           inserted == DOMAIN alerts \ (DOMAIN rows \cup DOMAIN incidents) IN
       incidents' = [k \in DOMAIN incidents \cup inserted |->
            IF k \in inserted THEN NewRow(alerts[k])
            ELSE RowAfter(k, alerts, rows, overview[h].now)]
    /\ overview' = [overview EXCEPT ![h] = NoOverview]
    /\ UNCHANGED <<sources, clock, changes, seen>>

Fail(h) ==
    /\ overview[h] # NoOverview
    /\ overview' = [overview EXCEPT ![h] = NoOverview]
    /\ UNCHANGED <<sources, incidents, clock, changes, seen>>

\* runDataMaintenance drops incidents that were resolved long ago.
RunDataMaintenance ==
    /\ incidents' = Restrict(incidents, {k \in DOMAIN incidents :
            ~(incidents[k].status = "resolved" /\ clock > incidents[k].resolvedAt + Retention)})
    /\ incidents' # incidents
    /\ UNCHANGED <<sources, overview, clock, changes, seen>>

AlertsNext ==
    \/ \E n \in NodeIds :
         \/ \E health \in {"healthy", "degraded", "banned"} : CheckNode(n, health)
         \/ \E hostname \in Names : UpsertNode(n, hostname)
         \/ RevokeNode(n)
         \/ DeleteNode(n)
    \/ \E l \in LandingIds :
         \/ \E enabled \in BOOLEAN, name \in Names : CreateLanding(l, enabled, name)
         \/ \E health \in {"healthy", "unhealthy"} : CheckLanding(l, health)
         \/ \E enabled, reconnect \in BOOLEAN, name \in Names :
              EditLanding(l, enabled, name, reconnect)
         \/ DeleteLanding(l)
    \/ \E u \in UserIds :
         \/ \E expireAt \in Time \cup {Null}, internal \in BOOLEAN : CreateUser(u, expireAt, internal)
         \/ \E enabled, full \in BOOLEAN, used \in {"low", "near", "all"} :
              EditUser(u, enabled, used, full)
         \/ \E full \in BOOLEAN, used \in {"low", "near", "all"} : UseAccount(u, used, full)
         \/ DeleteUser(u)
    \/ \E ids \in SUBSET PoolIds : ChangePool(ids)
    \/ Tick
    \/ RunDataMaintenance
    \/ \E h \in Overviews :
         \/ ReadSources(h)
         \/ ReadPool(h)
         \/ ReadRows(h)
         \/ Reconcile(h)
         \/ Fail(h)

\* Someone keeps one operations page open, which loads the overview every 30
\* seconds, and not every load fails.
Fairness ==
    /\ WF_alertsVars(Tick)
    /\ WF_alertsVars(ReadSources(Polled)) /\ SF_alertsVars(ReadPool(Polled))
    /\ SF_alertsVars(ReadRows(Polled)) /\ SF_alertsVars(Reconcile(Polled))

AlertsSpec == AlertsInit /\ [][AlertsNext]_alertsVars /\ Fairness

----------------------------------------------------------------------------
\* Every variable has its type.
Table(ids, rowType, table) ==
    DOMAIN table \subseteq ids /\ \A k \in DOMAIN table : table[k] \in rowType
AlertsTypeOK ==
    /\ Table(NodeIds, Node, nodes) /\ Table(LandingIds, Landing, landings)
    /\ Table(UserIds, User, users) /\ pool \subseteq PoolIds
    /\ Table(Keys, Row, incidents)
    /\ \A h \in Overviews : overview[h] # NoOverview =>
         /\ overview[h].at \in {"pool", "rows", "batch"} /\ overview[h].now \in Time
         /\ Table(Keys, Alert, overview[h].alerts)
         /\ overview[h].at = "batch" => Table(Keys, Row, overview[h].rows)
    /\ clock \in Time /\ changes \in 0..MaxChanges
    /\ seen \in [Keys -> SUBSET (({Null} \cup Alert) \X Time)]

\* Whatever order overlapping overviews write in, an open incident shows a
\* severity and a title that one overview saw together, and a resolved one the
\* time of an overview that saw no alert.
RowsHaveEvidence ==
    \A k \in DOMAIN incidents :
        LET row == incidents[k] IN
        IF row.status = "open"
        THEN /\ row.resolvedAt = Null
             /\ \E t \in Time :
                  <<[severity |-> row.severity, title |-> row.title], t>> \in seen[k]
        ELSE <<Null, row.resolvedAt>> \in seen[k]

IsOpen(table, k) == k \in DOMAIN table /\ table[k].status = "open"

\* The row of k is not as overview h read it, which keeps the rows that are
\* open and those of its alerts.
Overtaken(h, k) ==
    LET read == overview[h].rows IN
    IF k \in DOMAIN read THEN k \notin DOMAIN incidents \/ incidents[k] # read[k]
    ELSE k \in DOMAIN incidents /\ (k \in DOMAIN overview[h].alerts \/ IsOpen(incidents, k))

SameRow(k) ==
    /\ k \in DOMAIN incidents <=> k \in DOMAIN incidents'
    /\ k \in DOMAIN incidents => incidents'[k] = incidents[k]

IsOpenAs(table, k, alert) == IsOpen(table, k) /\ table[k].severity = alert.severity

TakesEffect(h, k) ==
    LET alerts == overview[h].alerts
        read == overview[h].rows IN
    /\ \/ IF k \in DOMAIN alerts THEN IsOpenAs(incidents', k, alerts[k])
          ELSE ~IsOpen(incidents', k)
       \/ Overtaken(h, k) /\ SameRow(k)
    /\ k \in DOMAIN read \cap DOMAIN alerts /\ ~Overtaken(h, k) =>
         IF ~IsOpenAs(read, k, alerts[k]) THEN incidents'[k].count = read[k].count + 1
         ELSE read[k].title = alerts[k].title => SameRow(k)

\* A batch makes an incident what its overview saw, or, where another overview
\* or the maintenance has written the row since it was read, may leave all of
\* that row: the two are never mixed.  In a row nobody wrote since, a return
\* and a change of severity count once, and what is as it was is not written
\* (docs/P6.7-ALERT-HISTORY-LOW-WRITE.md:11-20; that a new title alone is
\* written and counted too is code that the document does not have).
MissesOnlyWhenOvertaken ==
    [][\A h \in Overviews : Reconcile(h) => \A k \in Keys : TakesEffect(h, k)]_alertsVars

\* Once nodes, landings, users and the pool rest, the open incidents become the
\* alerts of the moment, and stay so, whatever older overviews wrote before.
Matches ==
    LET alerts == Alerts(SourceAlerts(clock), pool) IN
    \A k \in Keys :
        /\ IsOpen(incidents, k) <=> k \in DOMAIN alerts
        /\ IsOpen(incidents, k) => /\ incidents[k].severity = alerts[k].severity
                                   /\ incidents[k].title = alerts[k].title
IncidentsSettle == <>[]Matches

\* The rows of alert_incidents after any order of overlapping batches
\* (alert-incidents.ts:66-195): each has its type, and its status rests on what
\* some overview read.
RowsSound == AlertsTypeOK /\ RowsHaveEvidence
=============================================================================
