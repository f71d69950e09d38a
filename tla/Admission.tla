----------------------------- MODULE Admission -----------------------------
(***************************************************************************)
(* Connection admission of one subscriber (control plane, usage.ts).       *)
(*                                                                         *)
(* An edge node asks POST /api/nodes/admission for every new connection    *)
(* and every two minutes of a long one.  The handler reads Date.now(),     *)
(* resolves the credential's owner with separate queries, and only then    *)
(* commits one D1 batch: expired leases and forgotten IPs of the user are  *)
(* deleted, a lease row for the IP is inserted or renewed when the account *)
(* and its two limits allow it, and the IP history follows.  Handlers of   *)
(* several nodes overlap, so a batch may commit with a "now" that other    *)
(* batches have already overtaken, and the administrator, the cleanup job  *)
(* and the six-hourly maintenance write the same tables in between.        *)
(*                                                                         *)
(* Every query of this code is keyed by user_id, so one user is modelled.  *)
(* A table is a function whose domain is the set of keys that have a row.  *)
(***************************************************************************)
EXTENDS Integers, FiniteSets

CONSTANTS
  Ips,           \* HMAC fingerprints of the public addresses in use
  Handlers,      \* requests the control plane may be serving at once
  LeaseTtl,      \* LEASE_TTL_MS, five minutes
  Day,           \* DAY_MS, the churn window
  HistoryKeep,   \* what maintenance keeps of ip_history, 25 hours
  SignWindow,    \* SIGN_WINDOW_MS, how old a signed request may be
  DeviceLimits,  \* values an administrator gives device_limit
  IpLimits,      \* values an administrator gives ip_limit_24h
  Expiries,      \* values an administrator gives expire_at
  MaxClock       \* bound of the model: the clock stops here

ASSUME AdmissionAssumption ==
  /\ IsFiniteSet(Ips)
  /\ LeaseTtl \in Nat /\ Day \in Nat /\ HistoryKeep \in Nat
  /\ SignWindow \in Nat /\ MaxClock \in Nat
  /\ LeaseTtl <= Day /\ Day <= HistoryKeep
  /\ DeviceLimits \subseteq Nat \ {0} /\ IpLimits \subseteq Nat \ {0}
  /\ Expiries \subseteq Nat

VARIABLES
  clock,     \* Date.now(), the same for all isolates
  account,   \* the user's row of users and user_limits
  leases,    \* active_leases: ip_hash -> row
  history,   \* ip_history: ip_hash -> last_seen
  handler,   \* the request each handler is serving
  grantedAt, \* ghost: when an ip was last granted, since leases were cleared
  goodUntil  \* ghost: the latest time the account was good for, -1: never

vars == <<clock, account, leases, history, handler, grantedAt, goodUntil>>

-----------------------------------------------------------------------------
(* Rows and their readings.                                                *)

Account == [enabled : BOOLEAN, expireAt : Expiries, quotaLeft : BOOLEAN,
            deviceLimit : DeviceLimits, ipLimit24h : IpLimits]
Lease == [lastSeen : Nat, expiresAt : Nat]
Request == [pc : {"resolve", "batch"}, ip : Ips, signedAt : Nat, now : Nat]
Idle == [pc |-> "idle"]
IsTable(t, Values) == DOMAIN t \subseteq Ips /\ t \in [DOMAIN t -> Values]

\* Rows a query with the given "now" counts as live, or as recent.
LiveLeases(now) == {ip \in DOMAIN leases : leases[ip].expiresAt > now}
RecentIps(now) == {ip \in DOMAIN history : history[ip] > now - Day}

\* expire_at 0 stands for NULL: the account never expires.
Unexpired(now) == account.expireAt = 0 \/ account.expireAt > now
Entitled(now) == account.enabled /\ Unexpired(now) /\ account.quotaLeft

\* Ghost: the latest time up to t for which account row a is entitled.
LastGood(a, t) ==
  IF ~(a.enabled /\ a.quotaLeft) THEN -1
  ELSE IF a.expireAt = 0 \/ a.expireAt > t THEN t ELSE a.expireAt - 1

\* Mutants of Admits: a limit compared with <=, no churn limit, and renewals
\* that ask nothing about the account.
AdmitsOneTooMany(ip, now) ==
  /\ Entitled(now)
  /\ \/ ip \in LiveLeases(now)
     \/ /\ Cardinality(LiveLeases(now)) <= account.deviceLimit
        /\ \/ ip \in RecentIps(now)
           \/ Cardinality(RecentIps(now)) < account.ipLimit24h
AdmitsAnyIp(ip, now) ==
  /\ Entitled(now)
  /\ \/ ip \in LiveLeases(now)
     \/ Cardinality(LiveLeases(now)) < account.deviceLimit

AdmitsAnyRenewal(ip, now) ==
  \/ ip \in LiveLeases(now)
  \/ /\ Entitled(now)
     /\ Cardinality(LiveLeases(now)) < account.deviceLimit
     /\ ip \in RecentIps(now) \/ Cardinality(RecentIps(now)) < account.ipLimit24h

\* The WHERE clause of the lease insert.  The batch has just deleted every
\* other row, so LiveLeases and RecentIps are all that is left of the tables.
Admits(ip, now) ==
  /\ Entitled(now)
  /\ \/ ip \in LiveLeases(now)
     \/ /\ Cardinality(LiveLeases(now)) < account.deviceLimit
        /\ \/ ip \in RecentIps(now)
           \/ Cardinality(RecentIps(now)) < account.ipLimit24h

Later(a, b) == IF a >= b THEN a ELSE b

\* Mutant of RenewedLease: DO UPDATE without MAX.
RenewedLeaseOverwritten(ip, now) == [lastSeen |-> now, expiresAt |-> now + LeaseTtl]

\* The row after INSERT ... ON CONFLICT DO UPDATE: both times only grow.
RenewedLease(ip, now) ==
  IF ip \in LiveLeases(now)
  THEN [lastSeen  |-> Later(leases[ip].lastSeen, now),
        expiresAt |-> Later(leases[ip].expiresAt, now + LeaseTtl)]
  ELSE [lastSeen |-> now, expiresAt |-> now + LeaseTtl]

-----------------------------------------------------------------------------
Init ==
  /\ clock = 0
  /\ account \in Account
  /\ leases = <<>>
  /\ history = <<>>
  /\ handler = [h \in Handlers |-> Idle]
  /\ grantedAt = <<>>
  /\ goodUntil = LastGood(account, clock)

\* A request signed at most SignWindow ago arrives.  Any such request may:
\* the network delays it, and nothing stores a nonce for it.
Receive(h, ip, signedAt) ==
  /\ handler[h] = Idle
  /\ clock - signedAt <= SignWindow
  /\ handler' = [handler EXCEPT ![h] =
       [pc |-> "resolve", ip |-> ip, signedAt |-> signedAt, now |-> clock]]
  /\ UNCHANGED <<clock, account, leases, history, grantedAt, goodUntil>>

\* resolveAuthorizedCredentialOwner: an owner is found only while the account
\* is enabled and unexpired; otherwise the handler throws and answers 400.
ResolveOwner(h) ==
  /\ handler[h].pc = "resolve"
  /\ handler' = [handler EXCEPT ![h] =
       IF account.enabled /\ Unexpired(handler[h].now)
       THEN [handler[h] EXCEPT !.pc = "batch"]
       ELSE Idle]
  /\ UNCHANGED <<clock, account, leases, history, grantedAt, goodUntil>>

\* The leases the batch leaves: those it keeps and the one it may add.
Granted(ip, now) == IF Admits(ip, now) THEN {ip} ELSE {}
Leased(ip, now) == LiveLeases(now) \union Granted(ip, now)

\* The D1 batch: one transaction, with the "now" read when the request came.
\* The history upsert selects from active_leases, granted or not.
Commit(ip, now) ==
  /\ leases' = [i \in Leased(ip, now) |->
       IF i \in Granted(ip, now) THEN RenewedLease(ip, now) ELSE leases[i]]
  /\ history' = [i \in RecentIps(now) \union ({ip} \intersect Leased(ip, now)) |->
       IF i \notin RecentIps(now) THEN now
       ELSE IF i = ip /\ ip \in Leased(ip, now) THEN Later(history[i], now)
       ELSE history[i]]
  /\ grantedAt' = [i \in DOMAIN grantedAt \union Granted(ip, now) |->
       IF i \notin DOMAIN grantedAt THEN now
       ELSE IF i \in Granted(ip, now) THEN Later(grantedAt[i], now)
       ELSE grantedAt[i]]

CommitBatch(h) ==
  /\ handler[h].pc = "batch"
  /\ Commit(handler[h].ip, handler[h].now)
  /\ handler' = [handler EXCEPT ![h] = Idle]
  /\ UNCHANGED <<clock, account, goodUntil>>

-----------------------------------------------------------------------------
(* Everybody else who writes the same rows.                                *)

\* The administrator edits the user, or other sessions' usage is counted and
\* the quota runs out, or the usage is reset.
UpdateAccount(a) ==
  /\ a # account
  /\ account' = a
  /\ goodUntil' = Later(goodUntil, LastGood(a, clock))
  /\ UNCHANGED <<clock, leases, history, handler, grantedAt>>

\* clearUserLeases: forgets leases and IP history together.
ClearUserLeases ==
  /\ leases' = <<>>
  /\ history' = <<>>
  /\ grantedAt' = <<>>
  /\ UNCHANGED <<clock, account, handler, goodUntil>>

\* runDataMaintenance, the part that concerns these tables.
RunDataMaintenance ==
  LET keptLeases == {ip \in DOMAIN leases : leases[ip].expiresAt >= clock}
      keptIps == {ip \in DOMAIN history : history[ip] >= clock - HistoryKeep}
  IN
  /\ leases' = [ip \in keptLeases |-> leases[ip]]
  /\ history' = [ip \in keptIps |-> history[ip]]
  /\ UNCHANGED <<clock, account, handler, grantedAt, goodUntil>>

Tick ==
  /\ clock < MaxClock
  /\ clock' = clock + 1
  /\ goodUntil' = Later(goodUntil, LastGood(account, clock + 1))
  /\ UNCHANGED <<account, leases, history, handler, grantedAt>>

Next ==
  \/ \E h \in Handlers :
       \/ \E ip \in Ips, signedAt \in Later(0, clock - SignWindow) .. clock :
            Receive(h, ip, signedAt)
       \/ ResolveOwner(h)
       \/ CommitBatch(h)
  \/ \E a \in Account : UpdateAccount(a)
  \/ ClearUserLeases
  \/ RunDataMaintenance
  \/ Tick

Spec == Init /\ [][Next]_vars

-----------------------------------------------------------------------------
(* Properties.                                                             *)

\* Every row, request and time has its type; a table is a function on ips.
TypeOK ==
  /\ clock \in Nat
  /\ goodUntil \in Nat \union {-1}
  /\ account \in Account
  /\ IsTable(leases, Lease) /\ IsTable(history, Nat) /\ IsTable(grantedAt, Nat)
  /\ handler \in [Handlers -> Request \union {Idle}]
  /\ \A h \in Handlers : handler[h] # Idle => handler[h].now <= clock

\* The subscriber never has more live addresses than some device_limit the
\* administrator may have set (all of them equal: than the limit), whatever
\* order overlapping batches of several nodes commit in (usage.ts:134-201).
LiveWithinLimit ==
  \E limit \in DeviceLimits : Cardinality(LiveLeases(clock)) <= limit

\* Over any day, distinct addresses that were granted a connection stay
\* within ip_limit_24h, although renewals skip that check, rows are purged by
\* two different jobs, and a batch may carry an old "now".
ChurnWithinLimit ==
  \E limit \in IpLimits :
    Cardinality({ip \in DOMAIN grantedAt : grantedAt[ip] > clock - Day}) <= limit

\* The renewal branch of the insert consults active_leases only.  That is no
\* way round the churn limit because a lease always has a history row at
\* least as recent, and a granted ip keeps it for the whole day.
LeaseIsRemembered ==
  /\ \A ip \in DOMAIN leases :
       ip \in DOMAIN history /\ history[ip] >= leases[ip].lastSeen
  /\ \A ip \in DOMAIN grantedAt :
       grantedAt[ip] > clock - Day =>
         ip \in DOMAIN history /\ history[ip] >= grantedAt[ip]

\* The leases of an account that is disabled, expired or over its quota run
\* out: none of them, renewed ones included, ends later than LeaseTtl after the
\* last time the account was good for.  The owner is resolved (usage.ts:126)
\* before the batch (:134) and without its quota, renewals skip both limits, and
\* batches commit with an older "now": none of this prolongs a lease.
RefusalRunsOut ==
  \A ip \in DOMAIN leases : leases[ip].expiresAt <= goodUntil + LeaseTtl

\* Unless the administrator clears it, an unexpired lease never loses time:
\* an overtaken batch, or the purge of another one, cannot shorten it.
LeasesNeverShrink ==
  [][\/ ClearUserLeases
     \/ \A ip \in LiveLeases(clock) :
          /\ ip \in DOMAIN leases'
          /\ leases'[ip].expiresAt >= leases[ip].expiresAt]_vars

\* The inductive invariant behind them: rows, not only live ones, stay within
\* the limits, because a batch inserts after deleting what its "now" outdates;
\* lease times are tied so that a live lease is always a recent ip; and goodUntil
\* covers every time the account is good for now.
AdmissionInvariant ==
  /\ TypeOK
  /\ \E limit \in DeviceLimits : Cardinality(DOMAIN leases) <= limit
  /\ \E limit \in IpLimits : Cardinality(DOMAIN history) <= limit
  /\ \A ip \in DOMAIN leases :
       leases[ip].expiresAt <= leases[ip].lastSeen + LeaseTtl
  /\ LeaseIsRemembered
  /\ goodUntil >= LastGood(account, clock)
  /\ RefusalRunsOut

=============================================================================
