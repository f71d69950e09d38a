--------------------- MODULE DevicesAndAdmission_proofs ---------------------
(***************************************************************************)
(* Proofs about Admission and about Devices, for every value of their      *)
(* constants.  Admission: the sharing limits hold whatever the order in    *)
(* which overlapping admission batches, maintenance and the administrator's*)
(* edits commit.  Devices: the rows of a subscriber's devices stay sound   *)
(* and what is decided on them holds, whatever comes between the awaits.   *)
(***************************************************************************)
EXTENDS Admission, Devices, FiniteSetTheorems, TLAPS

(***************************************************************************)
(* Admission.                                                              *)
(***************************************************************************)

LEMMA LaterFacts ==
  ASSUME NEW a \in Int, NEW b \in Int
  PROVE  /\ Later(a, b) \in {a, b}
         /\ Later(a, b) >= a /\ Later(a, b) >= b
BY DEF Later

LEMMA LimitsAreNatural ==
  /\ \A limit \in DeviceLimits : limit \in Nat /\ limit >= 0
  /\ \A limit \in IpLimits : limit \in Nat /\ limit >= 0
<1>1. DeviceLimits \subseteq Nat /\ IpLimits \subseteq Nat
  BY AdmissionAssumption
<1>2. QED
  BY <1>1

\* A committing handler holds a well-typed request no newer than the clock.
LEMMA RequestTyped ==
  ASSUME TypeOK, NEW h \in Handlers, CommitBatch(h)
  PROVE  /\ handler[h].ip \in Ips
         /\ handler[h].now \in Nat
         /\ handler[h].now <= clock
<1>1. handler[h] # Idle /\ handler[h] \in Request
  BY DEF TypeOK, CommitBatch, Idle
<1>2. QED
  BY <1>1 DEF Request, TypeOK

\* What a batch may grant, and that it reads only rows of the tables.
LEMMA GrantFacts ==
  ASSUME NEW ip \in Ips, NEW now \in Nat
  PROVE  /\ Granted(ip, now) \subseteq {ip}
         /\ Leased(ip, now) = LiveLeases(now) \union Granted(ip, now)
         /\ LiveLeases(now) \subseteq DOMAIN leases
         /\ RecentIps(now) \subseteq DOMAIN history
BY DEF Granted, Leased, LiveLeases, RecentIps

LEMMA CommitTyped ==
  ASSUME TypeOK, NEW ip \in Ips, NEW now \in Nat, Commit(ip, now)
  PROVE  IsTable(leases, Lease)' /\ IsTable(history, Nat)' /\ IsTable(grantedAt, Nat)'
<1> USE GrantFacts
<1>1. /\ IsTable(leases, Lease) /\ IsTable(history, Nat) /\ IsTable(grantedAt, Nat)
      /\ LeaseTtl \in Nat
  BY AdmissionAssumption DEF TypeOK
<1>2. RenewedLease(ip, now) \in Lease
  BY <1>1, LaterFacts DEF RenewedLease, Lease, IsTable, LiveLeases, Later
<1>3. IsTable(leases, Lease)'
  BY <1>1, <1>2 DEF Commit, IsTable
<1>4. IsTable(history, Nat)'
  BY <1>1 DEF Commit, IsTable, Later
<1>5. IsTable(grantedAt, Nat)'
  BY <1>1 DEF Commit, IsTable, Later
<1>6. QED
  BY <1>3, <1>4, <1>5

\* The latest good time of an account row is a time up to t, or -1.
LEMMA LastGoodTyped ==
  ASSUME NEW a \in Account, NEW t \in Nat
  PROVE  LastGood(a, t) \in Nat \union {-1}
<1>1. a.expireAt \in Nat
  BY AdmissionAssumption DEF Account
<1>2. QED
  BY <1>1 DEF LastGood

\* The ghost covers the row as it is, and only grows.
LEMMA GoodUntilGrows ==
  ASSUME NEW old \in Nat \union {-1}, NEW a \in Account, NEW t \in Nat
  PROVE  /\ Later(old, LastGood(a, t)) \in Nat \union {-1}
         /\ Later(old, LastGood(a, t)) >= LastGood(a, t)
         /\ Later(old, LastGood(a, t)) >= old
<1>1. LastGood(a, t) \in Nat \union {-1}
  BY LastGoodTyped
<1>2. QED
  BY <1>1 DEF Later

LEMMA TypeInit == Init => TypeOK
<1> SUFFICES ASSUME Init PROVE TypeOK
  OBVIOUS
<1>1. \A V : IsTable(<<>>, V)
  BY DEF IsTable
<1>2. handler \in [Handlers -> Request \union {Idle}]
  BY DEF Init
<1>3. \A h \in Handlers : handler[h] = Idle
  BY DEF Init
<1>4. goodUntil \in Nat \union {-1}
  BY LastGoodTyped DEF Init
<1>5. QED
  BY <1>1, <1>2, <1>3, <1>4 DEF Init, TypeOK

LEMMA TypeNext == TypeOK /\ [Next]_vars => TypeOK'
<1> SUFFICES ASSUME TypeOK, [Next]_vars PROVE TypeOK'
  OBVIOUS
<1> USE DEF TypeOK
<1>1. ASSUME NEW h \in Handlers, NEW ip \in Ips,
             NEW signedAt \in Later(0, clock - SignWindow) .. clock,
             Receive(h, ip, signedAt)
      PROVE  TypeOK'
  <2>1. signedAt \in Nat
    BY AdmissionAssumption DEF Later
  <2>2. [pc |-> "resolve", ip |-> ip, signedAt |-> signedAt, now |-> clock] \in Request
    BY <2>1 DEF Request
  <2>3. QED
    BY <1>1, <2>2 DEF Receive, IsTable
<1>2. ASSUME NEW h \in Handlers, ResolveOwner(h)
      PROVE  TypeOK'
  <2>1. handler[h] \in Request
    BY <1>2 DEF ResolveOwner, Idle
  <2>2. [handler[h] EXCEPT !.pc = "batch"] \in Request
    BY <2>1 DEF Request
  <2>3. /\ [handler[h] EXCEPT !.pc = "batch"].now = handler[h].now
        /\ handler[h] # Idle
    BY <2>1, <1>2 DEF Request, ResolveOwner, Idle
  <2>4. QED
    BY <1>2, <2>2, <2>3 DEF ResolveOwner, IsTable
<1>3. ASSUME NEW h \in Handlers, CommitBatch(h)
      PROVE  TypeOK'
  <2>1. IsTable(leases, Lease)' /\ IsTable(history, Nat)' /\ IsTable(grantedAt, Nat)'
    BY <1>3, RequestTyped, CommitTyped DEF CommitBatch
  <2>2. QED
    BY <1>3, <2>1 DEF CommitBatch
<1>4. ASSUME NEW a \in Account, UpdateAccount(a)
      PROVE  TypeOK'
  BY <1>4, GoodUntilGrows DEF UpdateAccount, IsTable
<1>5. CASE ClearUserLeases
  BY <1>5 DEF ClearUserLeases, IsTable
<1>6. CASE RunDataMaintenance
  BY <1>6 DEF RunDataMaintenance, IsTable
<1>7. CASE Tick
  <2>1. \A h \in Handlers : handler[h] # Idle => handler[h].now \in Nat
    BY DEF Request
  <2>2. clock' \in Nat /\ clock' >= clock
    BY <1>7 DEF Tick
  <2>3. \A h \in Handlers : handler'[h] # Idle => handler'[h].now <= clock'
    BY <1>7, <2>1, <2>2 DEF Tick
  <2>4. goodUntil' \in Nat \union {-1}
    BY <1>7, GoodUntilGrows DEF Tick
  <2>5. QED
    BY <1>7, <2>2, <2>3, <2>4 DEF Tick, IsTable
<1>8. CASE UNCHANGED vars
  BY <1>8 DEF vars, IsTable
<1>9. QED
  BY <1>1, <1>2, <1>3, <1>4, <1>5, <1>6, <1>7, <1>8 DEF Next

\* Every reachable state is well typed.
THEOREM TypeCorrect == Spec => []TypeOK
BY TypeInit, TypeNext, PTL DEF Spec

-----------------------------------------------------------------------------
(* The sharing limits.                                                     *)

LEMMA Finite ==
  ASSUME TypeOK
  PROVE  /\ IsFiniteSet(DOMAIN leases) /\ Cardinality(DOMAIN leases) \in Nat
         /\ IsFiniteSet(DOMAIN history) /\ Cardinality(DOMAIN history) \in Nat
<1>1. DOMAIN leases \in SUBSET Ips /\ DOMAIN history \in SUBSET Ips
  BY DEF TypeOK, IsTable
<1>2. QED
  BY <1>1, FS_Subset, FS_CardinalityType, AdmissionAssumption

\* Removing rows lowers a count, adding one row raises it by at most one.
LEMMA Counting ==
  ASSUME NEW S, IsFiniteSet(S), NEW T \in SUBSET S, NEW x
  PROVE  /\ Cardinality(T) \in Nat /\ Cardinality(S) \in Nat
         /\ Cardinality(T) <= Cardinality(S)
         /\ Cardinality(T \union {x}) \in Nat
         /\ Cardinality(T \union {x}) <= Cardinality(T) + 1
<1>1. IsFiniteSet(T) /\ Cardinality(T) <= Cardinality(S)
  BY FS_Subset
<1>2. /\ IsFiniteSet(T \union {x})
      /\ Cardinality(T \union {x}) = IF x \in T THEN Cardinality(T) ELSE Cardinality(T) + 1
  BY <1>1, FS_AddElement
<1>3. QED
  BY <1>1, <1>2, FS_CardinalityType

\* A lease that is live for "now" belongs to an ip that is recent for "now".
LEMMA LiveIsRecent ==
  ASSUME AdmissionInvariant, NEW now \in Nat
  PROVE  LiveLeases(now) \subseteq RecentIps(now)
<1> SUFFICES ASSUME NEW ip \in LiveLeases(now) PROVE ip \in RecentIps(now)
  OBVIOUS
<1>1. /\ ip \in DOMAIN leases /\ leases[ip].expiresAt > now
      /\ leases[ip].expiresAt <= leases[ip].lastSeen + LeaseTtl
      /\ ip \in DOMAIN history /\ history[ip] >= leases[ip].lastSeen
  BY DEF LiveLeases, AdmissionInvariant, LeaseIsRemembered
<1>2. /\ leases[ip].lastSeen \in Nat /\ leases[ip].expiresAt \in Nat
      /\ history[ip] \in Nat
  BY <1>1 DEF AdmissionInvariant, TypeOK, IsTable, Lease
<1>3. LeaseTtl \in Nat /\ Day \in Nat /\ LeaseTtl <= Day
  BY AdmissionAssumption
<1>4. history[ip] > now - Day
  BY <1>1, <1>2, <1>3
<1>5. QED
  BY <1>1, <1>4 DEF RecentIps

\* A commit that leaves a new lease leaves at most device_limit of them; one
\* that leaves a new history row leaves at most ip_limit_24h of those.
LEMMA CommitCounts ==
  ASSUME AdmissionInvariant, NEW ip \in Ips, NEW now \in Nat, Commit(ip, now)
  PROVE  /\ \/ DOMAIN leases' \subseteq DOMAIN leases
            \/ Cardinality(DOMAIN leases') <= account.deviceLimit
         /\ \/ DOMAIN history' \subseteq DOMAIN history
            \/ Cardinality(DOMAIN history') <= account.ipLimit24h
<1> DEFINE live == LiveLeases(now)
           recent == RecentIps(now)
<1>1. /\ DOMAIN leases' = Leased(ip, now)
      /\ DOMAIN history' = recent \union ({ip} \intersect Leased(ip, now))
  BY DEF Commit
<1>2. /\ live \in SUBSET DOMAIN leases /\ recent \in SUBSET DOMAIN history
      /\ live \subseteq recent
      /\ Leased(ip, now) = live \union Granted(ip, now)
  BY GrantFacts, LiveIsRecent
<1>3. /\ account.deviceLimit \in Nat /\ account.ipLimit24h \in Nat
  BY AdmissionAssumption DEF AdmissionInvariant, TypeOK, Account
<1>4. /\ Cardinality(live) \in Nat /\ Cardinality(recent) \in Nat
      /\ Cardinality(live \union {ip}) \in Nat
      /\ Cardinality(live \union {ip}) <= Cardinality(live) + 1
      /\ Cardinality(recent \union {ip}) \in Nat
      /\ Cardinality(recent \union {ip}) <= Cardinality(recent) + 1
  BY <1>2, Finite, Counting DEF AdmissionInvariant
<1>5. CASE Granted(ip, now) \subseteq live
  BY <1>1, <1>2, <1>5
<1>6. CASE ~(Granted(ip, now) \subseteq live)
  <2>1. Granted(ip, now) = {ip} /\ Admits(ip, now) /\ ip \notin live
    BY <1>6 DEF Granted
  <2>2. /\ Cardinality(live) < account.deviceLimit
        /\ ip \in recent \/ Cardinality(recent) < account.ipLimit24h
    BY <2>1 DEF Admits
  <2>3. Leased(ip, now) = live \union {ip} /\ DOMAIN history' = recent \union {ip}
    BY <1>1, <1>2, <2>1
  <2>4. Cardinality(DOMAIN leases') <= account.deviceLimit
    BY <1>1, <1>3, <1>4, <2>2, <2>3
  <2>5. \/ DOMAIN history' \subseteq DOMAIN history
        \/ Cardinality(DOMAIN history') <= account.ipLimit24h
    BY <1>2, <1>3, <1>4, <2>2, <2>3
  <2>6. QED
    BY <2>4, <2>5
<1>7. QED
  BY <1>5, <1>6


\* After a commit, lease times stay tied and every lease is remembered.
LEMMA CommitRemembers ==
  ASSUME AdmissionInvariant, NEW ip \in Ips, NEW now \in Nat, now <= clock,
         Commit(ip, now), clock' = clock
  PROVE  /\ \A i \in DOMAIN leases' :
              leases'[i].expiresAt <= leases'[i].lastSeen + LeaseTtl
         /\ LeaseIsRemembered'
<1> USE DEF AdmissionInvariant
<1>1. LeaseTtl \in Nat /\ Day \in Nat /\ clock \in Nat
  BY AdmissionAssumption DEF TypeOK
<1>2. /\ \A i \in DOMAIN leases :
           leases[i].lastSeen \in Nat /\ leases[i].expiresAt \in Nat
      /\ \A i \in DOMAIN history : history[i] \in Nat
      /\ \A i \in DOMAIN grantedAt : grantedAt[i] \in Nat
  BY DEF TypeOK, IsTable, Lease
<1>3. LET r == RenewedLease(ip, now) IN
      /\ r.lastSeen \in Nat /\ r.expiresAt \in Nat
      /\ r.expiresAt <= r.lastSeen + LeaseTtl
      /\ ip \notin LiveLeases(now) => r.lastSeen = now
      /\ ip \in LiveLeases(now) => r.lastSeen = Later(leases[ip].lastSeen, now)
  BY <1>1, <1>2 DEF RenewedLease, LiveLeases, Later
<1>4. ASSUME NEW i \in DOMAIN leases'
      PROVE  /\ leases'[i].expiresAt <= leases'[i].lastSeen + LeaseTtl
             /\ i \in DOMAIN history' /\ history'[i] >= leases'[i].lastSeen
  <2>1. i \in Leased(ip, now)
    BY DEF Commit
  <2>2. CASE i \in Granted(ip, now)
    <3>1. i = ip /\ leases'[ip] = RenewedLease(ip, now) /\ ip \in Leased(ip, now)
      BY <2>1, <2>2, GrantFacts DEF Commit
    <3>2. ip \in DOMAIN history'
      BY <3>1 DEF Commit
    <3>3. /\ ip \notin RecentIps(now) => history'[ip] = now
          /\ ip \in RecentIps(now) => history'[ip] = Later(history[ip], now)
      BY <3>1, <3>2 DEF Commit
    <3>4. CASE ip \in LiveLeases(now)
      <4>1. ip \in RecentIps(now) /\ history[ip] >= leases[ip].lastSeen
        BY <3>4, LiveIsRecent DEF LeaseIsRemembered, LiveLeases
      <4>2. ip \in DOMAIN history /\ ip \in DOMAIN leases
        BY <3>4, <4>1, GrantFacts
      <4>3. history'[ip] >= RenewedLease(ip, now).lastSeen
        BY <1>2, <1>3, <3>3, <3>4, <4>1, <4>2 DEF Later
      <4>4. QED
        BY <1>3, <3>1, <3>2, <4>3
    <3>5. CASE ip \notin LiveLeases(now)
      <4>1. history'[ip] >= now
        BY <1>2, <3>3, GrantFacts DEF Later
      <4>2. QED
        BY <1>3, <3>1, <3>2, <3>5, <4>1
    <3>6. QED
      BY <3>4, <3>5
  <2>3. CASE i \notin Granted(ip, now)
    <3>1. i \in LiveLeases(now) /\ i \in RecentIps(now) /\ leases'[i] = leases[i]
      BY <2>1, <2>3, LiveIsRecent DEF Leased, Commit
    <3>2. i \in DOMAIN leases /\ i \in DOMAIN history
      BY <3>1, GrantFacts
    <3>3. i \in DOMAIN history' /\ history'[i] \in {history[i], Later(history[i], now)}
      BY <3>1 DEF Commit
    <3>4. history'[i] >= history[i]
      BY <1>2, <3>2, <3>3, LaterFacts DEF Later
    <3>5. /\ leases[i].expiresAt <= leases[i].lastSeen + LeaseTtl
          /\ history[i] >= leases[i].lastSeen
      BY <3>2 DEF LeaseIsRemembered
    <3>6. history'[i] \in Nat
      BY <1>2, <3>2, <3>3 DEF Later
    <3>7. history'[i] >= leases[i].lastSeen
      BY <1>2, <3>2, <3>4, <3>5, <3>6
    <3>8. QED
      BY <3>1, <3>3, <3>5, <3>7
  <2>4. QED
    BY <2>2, <2>3
<1>5. ASSUME NEW i \in DOMAIN grantedAt', grantedAt'[i] > clock - Day
      PROVE  i \in DOMAIN history' /\ history'[i] >= grantedAt'[i]
  <2>1. i \in DOMAIN grantedAt \union Granted(ip, now)
    BY DEF Commit
  <2>2. ASSUME i \in DOMAIN grantedAt, grantedAt[i] > clock - Day
        PROVE  /\ i \in RecentIps(now) /\ history[i] >= grantedAt[i]
               /\ i \in DOMAIN history
    <3>1. i \in DOMAIN history /\ history[i] >= grantedAt[i]
      BY <2>2 DEF LeaseIsRemembered
    <3>2. history[i] > now - Day
      BY <1>1, <1>2, <2>2, <3>1
    <3>3. QED
      BY <3>1, <3>2 DEF RecentIps
  <2>3. CASE i \in Granted(ip, now)
    <3>1. i = ip /\ ip \in Leased(ip, now)
      BY <2>3, GrantFacts
    <3>2. /\ ip \in DOMAIN history'
          /\ ip \notin RecentIps(now) => history'[ip] = now
          /\ ip \in RecentIps(now) => history'[ip] = Later(history[ip], now)
      BY <3>1 DEF Commit
    <3>3. grantedAt'[ip] = IF ip \in DOMAIN grantedAt
                           THEN Later(grantedAt[ip], now) ELSE now
      BY <2>1, <2>3, <3>1 DEF Commit
    <3>4. history'[ip] >= now
      BY <1>2, <3>2, GrantFacts DEF Later
    <3>5. CASE ip \in DOMAIN grantedAt /\ grantedAt[ip] > now
      <4>1. grantedAt'[ip] = grantedAt[ip]
        BY <1>2, <3>3, <3>5 DEF Later
      <4>2. ip \in RecentIps(now) /\ history[ip] >= grantedAt[ip] /\ ip \in DOMAIN history
        BY <1>5, <2>2, <3>1, <3>5, <4>1
      <4>3. QED
        BY <1>2, <3>1, <3>2, <3>5, <4>1, <4>2 DEF Later
    <3>6. CASE ~(ip \in DOMAIN grantedAt /\ grantedAt[ip] > now)
      <4>1. grantedAt'[ip] = now
        BY <1>2, <3>3, <3>6 DEF Later
      <4>2. QED
        BY <3>1, <3>2, <3>4, <4>1
    <3>7. QED
      BY <3>5, <3>6
  <2>4. CASE i \notin Granted(ip, now)
    <3>1. i \in DOMAIN grantedAt /\ grantedAt'[i] = grantedAt[i]
      BY <2>1, <2>4 DEF Commit
    <3>2. i \in RecentIps(now) /\ history[i] >= grantedAt[i] /\ i \in DOMAIN history
      BY <1>5, <2>2, <3>1
    <3>3. i \in DOMAIN history' /\ history'[i] \in {history[i], Later(history[i], now)}
      BY <3>2 DEF Commit
    <3>4. QED
      BY <1>2, <3>1, <3>2, <3>3 DEF Later
  <2>5. QED
    BY <2>3, <2>4
<1>6. QED
  BY <1>4, <1>5 DEF LeaseIsRemembered


\* A batch that finds the account entitled at its "now" finds it good.
LEMMA EntitledIsGood ==
  ASSUME AdmissionInvariant, NEW now \in Nat, now <= clock, Entitled(now)
  PROVE  goodUntil >= now
<1>1. /\ account \in Account /\ clock \in Nat /\ goodUntil \in Int
      /\ goodUntil >= LastGood(account, clock)
  BY DEF AdmissionInvariant, TypeOK
<1>2. account.expireAt \in Nat /\ LastGood(account, clock) \in Int
  <2>1. LastGood(account, clock) \in Nat \union {-1}
    BY <1>1, LastGoodTyped
  <2>2. account.expireAt \in Nat
    BY <1>1, AdmissionAssumption DEF Account
  <2>3. QED
    BY <2>1, <2>2
<1>3. LastGood(account, clock) >= now
  BY <1>1, <1>2 DEF LastGood, Entitled, Unexpired
<1>4. QED
  BY <1>1, <1>2, <1>3

\* So no lease that a batch grants or renews ends later than the good time allows.
LEMMA CommitRunsOut ==
  ASSUME AdmissionInvariant, NEW ip \in Ips, NEW now \in Nat, now <= clock,
         Commit(ip, now), goodUntil' = goodUntil
  PROVE  RefusalRunsOut'
<1>1. LeaseTtl \in Nat /\ goodUntil \in Int
  BY AdmissionAssumption DEF AdmissionInvariant, TypeOK
<1>2. \A i \in DOMAIN leases :
        leases[i].expiresAt \in Nat /\ leases[i].expiresAt <= goodUntil + LeaseTtl
  BY DEF AdmissionInvariant, TypeOK, IsTable, Lease, RefusalRunsOut
<1>3. ASSUME NEW i \in Leased(ip, now)
      PROVE  leases'[i].expiresAt <= goodUntil + LeaseTtl
  <2>1. CASE i \in Granted(ip, now)
    <3>1. i = ip /\ Entitled(now) /\ leases'[i] = RenewedLease(ip, now)
      BY <2>1, <1>3 DEF Granted, Admits, Commit
    <3>2. now + LeaseTtl <= goodUntil + LeaseTtl
      BY <1>1, <3>1, EntitledIsGood
    <3>3. /\ ip \in LiveLeases(now) => ip \in DOMAIN leases
          /\ RenewedLease(ip, now).expiresAt =
               IF ip \in LiveLeases(now)
               THEN Later(leases[ip].expiresAt, now + LeaseTtl) ELSE now + LeaseTtl
      BY DEF RenewedLease, LiveLeases
    <3>4. QED
      BY <1>1, <1>2, <3>1, <3>2, <3>3 DEF Later
  <2>2. CASE i \notin Granted(ip, now)
    <3>1. i \in DOMAIN leases /\ leases'[i] = leases[i]
      BY <2>2, <1>3 DEF Leased, LiveLeases, Commit
    <3>2. QED
      BY <1>2, <3>1
  <2>3. QED
    BY <2>1, <2>2
<1>4. DOMAIN leases' = Leased(ip, now)
  BY DEF Commit
<1>5. QED
  BY <1>3, <1>4 DEF RefusalRunsOut

LEMMA InvariantInit == Init => AdmissionInvariant
<1> SUFFICES ASSUME Init PROVE AdmissionInvariant
  OBVIOUS
<1>1. TypeOK
  BY TypeInit
<1>2. DOMAIN leases = {} /\ DOMAIN history = {} /\ DOMAIN grantedAt = {}
  BY DEF Init
<1>3. account.deviceLimit \in DeviceLimits /\ account.ipLimit24h \in IpLimits
  BY <1>1 DEF TypeOK, Account
<1>4. Cardinality({}) = 0
  BY FS_EmptySet
<1>5. /\ account.deviceLimit >= 0 /\ account.ipLimit24h >= 0
  BY <1>3, LimitsAreNatural
<1>6. goodUntil >= LastGood(account, clock) /\ RefusalRunsOut
  <2>1. goodUntil = LastGood(account, clock) /\ goodUntil \in Int
    BY <1>1 DEF Init, TypeOK
  <2>2. QED
    BY <1>2, <2>1 DEF RefusalRunsOut
<1>7. QED
  BY <1>1, <1>2, <1>3, <1>4, <1>5, <1>6 DEF AdmissionInvariant, LeaseIsRemembered

LEMMA CommitInvariant ==
  ASSUME AdmissionInvariant, TypeOK', NEW h \in Handlers, CommitBatch(h)
  PROVE  AdmissionInvariant'
<1> DEFINE ip == handler[h].ip
           now == handler[h].now
<1>1. /\ ip \in Ips /\ now \in Nat /\ now <= clock
      /\ Commit(ip, now) /\ clock' = clock
      /\ account' = account /\ goodUntil' = goodUntil
  BY RequestTyped DEF AdmissionInvariant, CommitBatch
<1> HIDE DEF ip, now
<1>2. account.deviceLimit \in DeviceLimits /\ account.ipLimit24h \in IpLimits
  BY DEF AdmissionInvariant, TypeOK, Account
<1>3. /\ Cardinality(DOMAIN leases) \in Nat /\ Cardinality(DOMAIN leases') \in Nat
      /\ Cardinality(DOMAIN history) \in Nat /\ Cardinality(DOMAIN history') \in Nat
      /\ IsFiniteSet(DOMAIN leases) /\ IsFiniteSet(DOMAIN history)
  <2>1. /\ DOMAIN leases \in SUBSET Ips /\ DOMAIN leases' \in SUBSET Ips
        /\ DOMAIN history \in SUBSET Ips /\ DOMAIN history' \in SUBSET Ips
    BY DEF AdmissionInvariant, TypeOK, IsTable
  <2>2. QED
    BY <2>1, FS_Subset, FS_CardinalityType, AdmissionAssumption
<1>4. \E limit \in DeviceLimits : Cardinality(DOMAIN leases') <= limit
  <2>1. PICK limit \in DeviceLimits : Cardinality(DOMAIN leases) <= limit
    BY DEF AdmissionInvariant
  <2>2. limit \in Nat
    BY AdmissionAssumption
  <2>3. CASE DOMAIN leases' \subseteq DOMAIN leases
    <3>1. Cardinality(DOMAIN leases') <= Cardinality(DOMAIN leases)
      BY <1>3, <2>3, FS_Subset
    <3>2. QED
      BY <1>3, <2>1, <2>2, <3>1
  <2>4. QED
    BY <1>1, <1>2, <2>3, CommitCounts
<1>5. \E limit \in IpLimits : Cardinality(DOMAIN history') <= limit
  <2>1. PICK limit \in IpLimits : Cardinality(DOMAIN history) <= limit
    BY DEF AdmissionInvariant
  <2>2. limit \in Nat
    BY AdmissionAssumption
  <2>3. CASE DOMAIN history' \subseteq DOMAIN history
    <3>1. Cardinality(DOMAIN history') <= Cardinality(DOMAIN history)
      BY <1>3, <2>3, FS_Subset
    <3>2. QED
      BY <1>3, <2>1, <2>2, <3>1
  <2>4. QED
    BY <1>1, <1>2, <2>3, CommitCounts
<1>6. RefusalRunsOut' /\ goodUntil' >= LastGood(account', clock')
  BY <1>1, CommitRunsOut DEF AdmissionInvariant
<1>7. QED
  BY <1>1, <1>4, <1>5, <1>6, CommitRemembers DEF AdmissionInvariant

\* Maintenance drops a lease no later than the history row it relies on.
LEMMA MaintenanceInvariant ==
  ASSUME AdmissionInvariant, TypeOK', RunDataMaintenance
  PROVE  AdmissionInvariant'
<1>1. /\ LeaseTtl \in Nat /\ Day \in Nat /\ HistoryKeep \in Nat /\ clock \in Nat
      /\ LeaseTtl <= Day /\ Day <= HistoryKeep
  BY AdmissionAssumption DEF AdmissionInvariant, TypeOK
<1>2. /\ \A i \in DOMAIN leases :
           leases[i].lastSeen \in Nat /\ leases[i].expiresAt \in Nat
      /\ \A i \in DOMAIN history : history[i] \in Nat
      /\ \A i \in DOMAIN grantedAt : grantedAt[i] \in Nat
  BY DEF AdmissionInvariant, TypeOK, IsTable, Lease
<1>3. /\ DOMAIN leases' = {i \in DOMAIN leases : leases[i].expiresAt >= clock}
      /\ DOMAIN history' = {i \in DOMAIN history : history[i] >= clock - HistoryKeep}
      /\ \A i \in DOMAIN leases' : leases'[i] = leases[i]
      /\ \A i \in DOMAIN history' : history'[i] = history[i]
      /\ UNCHANGED <<clock, account, grantedAt, goodUntil>>
  BY DEF RunDataMaintenance
<1>4. /\ Cardinality(DOMAIN leases') <= Cardinality(DOMAIN leases)
      /\ Cardinality(DOMAIN history') <= Cardinality(DOMAIN history)
      /\ Cardinality(DOMAIN leases') \in Nat /\ Cardinality(DOMAIN history') \in Nat
      /\ Cardinality(DOMAIN leases) \in Nat /\ Cardinality(DOMAIN history) \in Nat
  BY <1>3, Finite, FS_Subset, FS_CardinalityType DEF AdmissionInvariant
<1>5. \E limit \in DeviceLimits : Cardinality(DOMAIN leases') <= limit
  BY <1>4, LimitsAreNatural DEF AdmissionInvariant
<1>6. \E limit \in IpLimits : Cardinality(DOMAIN history') <= limit
  BY <1>4, LimitsAreNatural DEF AdmissionInvariant
<1>7. ASSUME NEW i \in DOMAIN leases'
      PROVE  /\ i \in DOMAIN history' /\ history'[i] >= leases'[i].lastSeen
             /\ leases'[i].expiresAt <= leases'[i].lastSeen + LeaseTtl
  <2>1. /\ i \in DOMAIN leases /\ leases[i].expiresAt >= clock
        /\ leases'[i] = leases[i]
        /\ leases[i].expiresAt <= leases[i].lastSeen + LeaseTtl
        /\ i \in DOMAIN history /\ history[i] >= leases[i].lastSeen
    BY <1>3 DEF AdmissionInvariant, LeaseIsRemembered
  <2>2. history[i] >= clock - HistoryKeep
    BY <1>1, <1>2, <2>1
  <2>3. QED
    BY <1>3, <2>1, <2>2
<1>8. ASSUME NEW i \in DOMAIN grantedAt', grantedAt'[i] > clock' - Day
      PROVE  i \in DOMAIN history' /\ history'[i] >= grantedAt'[i]
  <2>1. /\ i \in DOMAIN grantedAt /\ grantedAt'[i] = grantedAt[i]
        /\ i \in DOMAIN history /\ history[i] >= grantedAt[i]
    BY <1>3, <1>8 DEF AdmissionInvariant, LeaseIsRemembered
  <2>2. history[i] >= clock - HistoryKeep
    BY <1>1, <1>2, <1>3, <1>8, <2>1
  <2>3. QED
    BY <1>3, <2>1, <2>2
<1>9. RefusalRunsOut' /\ goodUntil' >= LastGood(account', clock')
  BY <1>3 DEF AdmissionInvariant, RefusalRunsOut
<1>10. QED
  BY <1>5, <1>6, <1>7, <1>8, <1>9 DEF AdmissionInvariant, LeaseIsRemembered

LEMMA InvariantNext == AdmissionInvariant /\ [Next]_vars => AdmissionInvariant'
<1> SUFFICES ASSUME AdmissionInvariant, [Next]_vars PROVE AdmissionInvariant'
  OBVIOUS
<1>1. TypeOK'
  BY TypeNext DEF AdmissionInvariant
<1> USE DEF AdmissionInvariant, LeaseIsRemembered
<1> DEFINE Covered == goodUntil' >= LastGood(account', clock') /\ RefusalRunsOut'
<1>2. ASSUME UNCHANGED <<clock, leases, history, grantedAt>>, Covered
      PROVE  AdmissionInvariant'
  BY <1>1, <1>2
<1>9. ASSUME goodUntil' \in Int, goodUntil' >= goodUntil, leases' = leases
      PROVE  RefusalRunsOut'
  <2>1. LeaseTtl \in Nat /\ goodUntil \in Int
    BY AdmissionAssumption DEF TypeOK
  <2>2. \A i \in DOMAIN leases :
          leases[i].expiresAt \in Nat /\ leases[i].expiresAt <= goodUntil + LeaseTtl
    BY DEF TypeOK, IsTable, Lease, RefusalRunsOut
  <2>3. QED
    BY <1>9, <2>1, <2>2 DEF RefusalRunsOut
<1>3. CASE \E h \in Handlers : CommitBatch(h)
  BY <1>1, <1>3, CommitInvariant
<1>4. CASE ClearUserLeases
  <2>1. DOMAIN leases' = {} /\ DOMAIN history' = {} /\ DOMAIN grantedAt' = {}
    BY <1>4 DEF ClearUserLeases
  <2>2. Cardinality({}) = 0
    BY FS_EmptySet
  <2>3. \A limit \in DeviceLimits \union IpLimits : 0 <= limit
    BY LimitsAreNatural
  <2>4. \E limit \in DeviceLimits : Cardinality(DOMAIN leases') <= limit
    BY <2>1, <2>2, <2>3
  <2>5. \E limit \in IpLimits : Cardinality(DOMAIN history') <= limit
    BY <2>1, <2>2, <2>3
  <2>6. UNCHANGED <<account, clock, goodUntil>>
    BY <1>4 DEF ClearUserLeases
  <2>7. Covered
    BY <2>1, <2>6 DEF RefusalRunsOut
  <2>8. QED
    BY <1>1, <2>1, <2>4, <2>5, <2>7
<1>5. CASE RunDataMaintenance
  BY <1>1, <1>5, MaintenanceInvariant
<1>6. CASE Tick
  <2>1. clock' = clock + 1 /\ UNCHANGED <<leases, history, grantedAt>>
    BY <1>6 DEF Tick
  <2>2. /\ clock \in Nat /\ Day \in Nat
        /\ \A ip \in DOMAIN grantedAt : grantedAt[ip] \in Nat
    BY AdmissionAssumption DEF TypeOK, IsTable
  <2>3. \A ip \in DOMAIN grantedAt :
          grantedAt[ip] > clock' - Day => grantedAt[ip] > clock - Day
    BY <2>1, <2>2
  <2>4. /\ goodUntil' \in Int /\ account' \in Account /\ clock' \in Nat
        /\ account' = account
        /\ goodUntil' = Later(goodUntil, LastGood(account, clock + 1))
    BY <1>1, <1>6 DEF Tick, TypeOK
  <2>5. goodUntil' >= goodUntil /\ goodUntil' >= LastGood(account', clock')
    BY <2>1, <2>4, GoodUntilGrows DEF TypeOK
  <2>6. Covered
    BY <1>9, <2>1, <2>4, <2>5
  <2>7. QED
    BY <1>1, <2>1, <2>3, <2>6
<1>7. CASE \/ \E h \in Handlers, ip \in Ips,
                 signedAt \in Later(0, clock - SignWindow) .. clock :
                Receive(h, ip, signedAt)
           \/ \E h \in Handlers : ResolveOwner(h)
           \/ UNCHANGED vars
  <2>1. /\ UNCHANGED <<clock, leases, history, grantedAt>>
        /\ UNCHANGED <<account, goodUntil>>
    BY <1>7 DEF Receive, ResolveOwner, vars
  <2>2. Covered
    BY <2>1 DEF RefusalRunsOut
  <2>3. QED
    BY <1>2, <2>1, <2>2
<1>8. ASSUME NEW a \in Account, UpdateAccount(a)
      PROVE  AdmissionInvariant'
  <2>1. /\ UNCHANGED <<clock, leases, history, grantedAt>>
        /\ account' = a /\ goodUntil' = Later(goodUntil, LastGood(a, clock))
    BY <1>8 DEF UpdateAccount
  <2>2. goodUntil' \in Int /\ goodUntil' >= goodUntil /\ goodUntil' >= LastGood(account', clock')
    BY <1>1, <2>1, GoodUntilGrows DEF TypeOK
  <2>3. Covered
    BY <1>9, <2>1, <2>2
  <2>4. QED
    BY <1>2, <2>1, <2>3
<1>10. QED
  BY <1>3, <1>4, <1>5, <1>6, <1>7, <1>8 DEF Next

\* The strengthened invariant holds in every reachable state.
THEOREM InvariantCorrect == Spec => []AdmissionInvariant
BY InvariantInit, InvariantNext, PTL DEF Spec


\* The device limit of usage.ts bounds the addresses that are live at once,
\* for any number of nodes, addresses and overlapping requests.
THEOREM DeviceLimitHolds == Spec => []LiveWithinLimit
<1>1. AdmissionInvariant => LiveWithinLimit
  <2> SUFFICES ASSUME AdmissionInvariant PROVE LiveWithinLimit
    OBVIOUS
  <2>1. PICK limit \in DeviceLimits : Cardinality(DOMAIN leases) <= limit
    BY DEF AdmissionInvariant
  <2>2. LiveLeases(clock) \in SUBSET DOMAIN leases
    BY DEF LiveLeases
  <2>3. /\ Cardinality(LiveLeases(clock)) <= Cardinality(DOMAIN leases)
        /\ Cardinality(LiveLeases(clock)) \in Nat
        /\ Cardinality(DOMAIN leases) \in Nat
    BY <2>2, Finite, Counting DEF AdmissionInvariant
  <2>4. Cardinality(LiveLeases(clock)) <= limit
    BY <2>1, <2>3, LimitsAreNatural
  <2>5. QED
    BY <2>4 DEF LiveWithinLimit
<1>2. QED
  BY InvariantCorrect, <1>1, PTL

\* A lease is always backed by a history row, so renewing it is no way round
\* the daily limit.
THEOREM LeasesRemembered == Spec => []LeaseIsRemembered
<1>1. AdmissionInvariant => LeaseIsRemembered
  BY DEF AdmissionInvariant
<1>2. QED
  BY InvariantCorrect, <1>1, PTL

\* The daily limit bounds the distinct addresses granted within any day.
THEOREM IpLimitHolds == Spec => []ChurnWithinLimit
<1>1. AdmissionInvariant => ChurnWithinLimit
  <2> SUFFICES ASSUME AdmissionInvariant PROVE ChurnWithinLimit
    OBVIOUS
  <2> DEFINE granted == {ip \in DOMAIN grantedAt : grantedAt[ip] > clock - Day}
  <2>1. PICK limit \in IpLimits : Cardinality(DOMAIN history) <= limit
    BY DEF AdmissionInvariant
  <2>2. granted \in SUBSET DOMAIN history
    BY DEF AdmissionInvariant, LeaseIsRemembered
  <2>3. /\ Cardinality(granted) <= Cardinality(DOMAIN history)
        /\ Cardinality(granted) \in Nat
        /\ Cardinality(DOMAIN history) \in Nat
    BY <2>2, Finite, Counting DEF AdmissionInvariant
  <2>4. Cardinality(granted) <= limit
    BY <2>1, <2>3, LimitsAreNatural
  <2>5. QED
    BY <2>4 DEF ChurnWithinLimit
<1>2. QED
  BY InvariantCorrect, <1>1, PTL

\* The leases of a refused account run out, whatever batches are still under way.
THEOREM RefusedLeasesRunOut == Spec => []RefusalRunsOut
<1>1. AdmissionInvariant => RefusalRunsOut
  BY DEF AdmissionInvariant
<1>2. QED
  BY InvariantCorrect, <1>1, PTL

\* Only expiry and the administrator take a lease away.
THEOREM LeasesKept == Spec => LeasesNeverShrink
<1> DEFINE Kept ==
      \/ ClearUserLeases
      \/ \A ip \in LiveLeases(clock) :
           /\ ip \in DOMAIN leases'
           /\ leases'[ip].expiresAt >= leases[ip].expiresAt
<1>1. TypeOK /\ [Next]_vars => [Kept]_vars
  <2> SUFFICES ASSUME TypeOK, Next PROVE Kept
    OBVIOUS
  <2>1. \A ip \in DOMAIN leases : leases[ip].expiresAt \in Nat
    BY DEF TypeOK, IsTable, Lease
  <2>2. LiveLeases(clock) \subseteq DOMAIN leases /\ clock \in Nat
    BY DEF LiveLeases, TypeOK
  <2>3. ASSUME NEW h \in Handlers, CommitBatch(h), NEW ip \in LiveLeases(clock)
        PROVE  /\ ip \in DOMAIN leases'
               /\ leases'[ip].expiresAt >= leases[ip].expiresAt
    <3> DEFINE i == handler[h].ip
               now == handler[h].now
    <3>1. i \in Ips /\ now \in Nat /\ now <= clock /\ Commit(i, now)
      BY <2>3, RequestTyped DEF CommitBatch
    <3>2. ip \in LiveLeases(now)
      BY <2>1, <2>2, <3>1 DEF LiveLeases
    <3> HIDE DEF i, now
    <3>3. ip \in DOMAIN leases' /\ leases'[ip] \in {leases[ip], RenewedLease(ip, now)}
      <4>1. ip \in Leased(i, now)
        BY <3>2 DEF Leased
      <4>2. ip \in Granted(i, now) => i = ip
        BY <3>1, GrantFacts
      <4>3. QED
        BY <3>1, <4>1, <4>2 DEF Commit
    <3>4. RenewedLease(ip, now).expiresAt >= leases[ip].expiresAt
      BY <2>1, <2>2, <3>1, <3>2, AdmissionAssumption DEF RenewedLease, Later
    <3>5. QED
      BY <2>1, <2>2, <3>3, <3>4
  <2>4. CASE RunDataMaintenance
    BY <2>1, <2>2, <2>4 DEF RunDataMaintenance, LiveLeases
  <2>5. CASE leases' = leases
    BY <2>1, <2>2, <2>5
  <2>6. QED
    BY <2>3, <2>4, <2>5 DEF Next, Receive, ResolveOwner, UpdateAccount, Tick
<1>2. QED
  BY TypeCorrect, <1>1, PTL DEF Spec, LeasesNeverShrink

(***************************************************************************)
(* Devices.  The inductive invariant says of every request in flight what  *)
(* it still knows of the row it read (RequestsFit), and of the table that  *)
(* an id without a row has let no hardware in and that tokens taken back   *)
(* were drawn (TableFits, GhostsFit).                                      *)
(***************************************************************************)

Creation == [at : {"create"}, device : NewDevices, overtaken : BOOLEAN]
Subscription == [at : {"bind", "reread", "render"}, device : DeviceIds,
                 hw : Hardware \union {None}, overtaken : BOOLEAN]

\* A creation that was not overtaken has room; its id has no row yet.
CreationFits(i) ==
    /\ i.device \notin DOMAIN devices
    /\ ~i.overtaken => HasRoom
\* A subscription request that was not overtaken holds what is in the row.
SubscriptionFits(i) ==
    /\ i.at # "render" => i.hw # None
    /\ ~i.overtaken =>
         /\ user = "active"
         /\ i.device \in DOMAIN devices /\ devices[i.device].enabled
         /\ devices[i.device].mode = "required" => i.hw # None
         /\ i.at = "render" /\ devices[i.device].mode # "off" /\ i.hw # None =>
              devices[i.device].bound = i.hw
RequestFits(i) ==
    \/ i = NoRequest
    \/ i \in Creation /\ CreationFits(i)
    \/ i \in Subscription /\ SubscriptionFits(i)

RequestsFit ==
    /\ request = [h \in Requests |-> request[h]]
    /\ \A h \in Requests : RequestFits(request[h])
    /\ \A g, h \in Requests :
         /\ request[g].at = "create" /\ request[h].at = "create"
         /\ request[g].device = request[h].device
         => g = h

TableFits ==
    /\ user \in {"active", "barred", None}
    /\ DOMAIN devices \subseteq DeviceIds /\ IsFiniteSet(DOMAIN devices)
    /\ \A d \in DOMAIN devices : devices[d] \in Device /\ devices[d].token <= issued
    /\ \A d, e \in DOMAIN devices : d # e => devices[d].token # devices[e].token
    /\ issued \in Tokens /\ changes \in 0..MaxChanges
    /\ kind \in {"ordinary", "benefit"}
    /\ DeviceTableBounded
    /\ KeepsADevice

GhostsFit ==
    /\ verified \in [DeviceIds -> SUBSET Hardware]
    /\ boundBy \in [DeviceIds -> Tokens \union {None}]
    /\ retired \subseteq 0..issued /\ revived \in BOOLEAN
    /\ revived => user = None \/ Legacy \in DOMAIN devices
    /\ \A d \in DeviceIds \ DOMAIN devices : verified[d] = {}
    /\ VerifiedIsBound
    /\ BindingFollowsToken
    /\ OnlyReplayRevives

DevicesInv == RequestsFit /\ TableFits /\ GhostsFit
-----------------------------------------------------------------------------
LEMMA RequestTypes ==
  ASSUME RequestsFit, NEW h \in Requests
  PROVE  /\ request[h].at = "create" => request[h] \in Creation /\ CreationFits(request[h])
         /\ request[h].at \in {"bind", "reread", "render"} =>
              request[h] \in Subscription /\ SubscriptionFits(request[h])
         /\ request[h] = NoRequest \/ request[h] \in Creation \/ request[h] \in Subscription
  BY DEF RequestsFit, RequestFits, Creation, Subscription, NoRequest

\* What a request holds is in the table after a step as before it.
Stays(i) ==
    /\ i.at = "create" =>
         i.device \notin DOMAIN devices' /\ (~i.overtaken /\ HasRoom => HasRoom')
    /\ i.at \in {"bind", "reread", "render"} /\ ~i.overtaken /\ i.device \in DOMAIN devices =>
         /\ user' = user
         /\ i.device \in DOMAIN devices' /\ devices'[i.device] = devices[i.device]

LEMMA RequestStays ==
  ASSUME NEW i, RequestFits(i), Stays(i)
  PROVE  RequestFits(i)'
  <1>1. CASE i = NoRequest BY <1>1 DEF RequestFits
  <1>2. CASE i \in Creation /\ CreationFits(i)
    BY <1>2 DEF RequestFits, CreationFits, Creation, Stays
  <1>3. CASE i \in Subscription /\ SubscriptionFits(i)
    <2>1. i.at \in {"bind", "reread", "render"} BY <1>3 DEF Subscription
    <2> QED BY <1>3, <2>1 DEF RequestFits, SubscriptionFits, Stays
  <1> QED BY <1>1, <1>2, <1>3 DEF RequestFits

\* One request moves on, to i.
LEMMA OneMoves ==
  ASSUME RequestsFit, NEW h \in Requests, NEW i, RequestFits(i)',
         request' = [request EXCEPT ![h] = i],
         i.at = "create" => \A g \in Requests : request[g].at = "create" =>
                                                   request[g].device # i.device,
         \A g \in Requests : g # h => Stays(request[g])
  PROVE  RequestsFit'
  <1>1. request' = [g \in Requests |-> IF g = h THEN i ELSE request[g]]
    BY DEF RequestsFit
  <1>2. ASSUME NEW g \in Requests PROVE RequestFits(request[g])'
    <2> PICK j : j = request'[g] OBVIOUS
    <2>1. RequestFits(j)'
      <3>1. CASE g = h BY <1>1, <3>1
      <3>2. CASE g # h
        <4>1. j = request[g] BY <1>1, <3>2
        <4> QED BY <3>2, <4>1, RequestStays DEF RequestsFit
      <3> QED BY <3>1, <3>2
    <2> QED BY <2>1 DEF RequestFits, CreationFits, SubscriptionFits, HasRoom
  <1>3. ASSUME NEW f \in Requests, NEW g \in Requests,
               request'[f].at = "create", request'[g].at = "create",
               request'[f].device = request'[g].device
        PROVE  f = g
    BY <1>1, <1>3 DEF RequestsFit
  <1> QED BY <1>1, <1>2, <1>3 DEF RequestsFit

\* The table and the user stay.
LEMMA RequestMoves ==
  ASSUME RequestsFit, NEW h \in Requests, NEW i, RequestFits(i),
         request' = [request EXCEPT ![h] = i],
         i.at = "create" => \A g \in Requests : request[g].at = "create" =>
                                                   request[g].device # i.device,
         UNCHANGED <<user, devices>>
  PROVE  RequestsFit'
  <1>1. RequestFits(i)'
    BY DEF RequestFits, CreationFits, SubscriptionFits, HasRoom
  <1>2. \A g \in Requests : Stays(request[g])
    BY RequestTypes DEF Stays, HasRoom, CreationFits
  <1> QED BY <1>1, <1>2, OneMoves

LEMMA NoRequestFits == RequestFits(NoRequest) /\ NoRequest.at # "create"
  BY DEF RequestFits, NoRequest

\* Every request that holds something of D learns of the change.
LEMMA RequestsOvertaken ==
  ASSUME RequestsFit, NEW D, Overtake(D),
         DOMAIN devices' \subseteq DOMAIN devices \union {Legacy},
         \A d \in DOMAIN devices \ D : /\ user' = user
                                       /\ d \in DOMAIN devices' /\ devices'[d] = devices[d],
         \/ HasRoom => HasRoom'
         \/ NewDevices \ DOMAIN devices \subseteq D
  PROVE  RequestsFit'
  <1>1. request' = [g \in Requests |->
           IF request[g] # NoRequest /\ request[g].device \in D
           THEN [request[g] EXCEPT !.overtaken = TRUE] ELSE request[g]]
    BY DEF Overtake
  <1>2. ASSUME NEW g \in Requests
        PROVE  /\ RequestFits(request[g])'
               /\ request'[g].at = request[g].at
               /\ request[g].at = "create" => request'[g].device = request[g].device
    <2> PICK i, j : i = request[g] /\ j = request'[g] OBVIOUS
    <2>1. RequestFits(i) BY DEF RequestsFit
    <2>2. CASE i # NoRequest /\ i.device \in D
      <3>1. j = [i EXCEPT !.overtaken = TRUE] BY <1>1, <2>2
      <3>2. CASE i \in Creation /\ CreationFits(i)
        <4>1. j \in Creation /\ j.overtaken /\ j.device = i.device /\ j.at = i.at
          BY <3>1, <3>2 DEF Creation
        <4>2. j.device \notin DOMAIN devices'
          BY <3>2, <4>1, DevicesAssumption DEF CreationFits, Creation
        <4>3. RequestFits(j)' BY <4>1, <4>2 DEF RequestFits, CreationFits
        <4> QED BY <4>1, <4>3 DEF RequestFits, CreationFits, SubscriptionFits, HasRoom
      <3>3. CASE i \in Subscription /\ SubscriptionFits(i)
        <4>1. /\ j \in Subscription /\ j.overtaken
              /\ j.hw = i.hw /\ j.at = i.at /\ j.at # "create"
          BY <3>1, <3>3 DEF Subscription
        <4>2. RequestFits(j)' BY <3>3, <4>1 DEF RequestFits, SubscriptionFits
        <4> QED BY <4>1, <4>2 DEF RequestFits, CreationFits, SubscriptionFits, HasRoom
      <3> QED BY <2>1, <2>2, <3>2, <3>3 DEF RequestFits
    <2>3. CASE ~(i # NoRequest /\ i.device \in D)
      <3>1. j = i BY <1>1, <2>3
      <3>2. Stays(i)
        <4>1. CASE i = NoRequest BY <2>1, <4>1 DEF Stays, NoRequest
        <4>2. CASE i \in Creation /\ CreationFits(i)
          BY <2>3, <4>2, DevicesAssumption DEF Stays, Creation, CreationFits, NoRequest
        <4>3. CASE i \in Subscription /\ SubscriptionFits(i)
          BY <2>3, <4>3 DEF Stays, Subscription, NoRequest
        <4> QED BY <2>1, <4>1, <4>2, <4>3 DEF RequestFits
      <3>3. RequestFits(j)' BY <2>1, <3>1, <3>2, RequestStays
      <3> QED BY <3>1, <3>3 DEF RequestFits, CreationFits, SubscriptionFits, HasRoom
    <2> QED BY <2>2, <2>3
  <1> QED BY <1>1, <1>2 DEF RequestsFit
-----------------------------------------------------------------------------
LEMMA Administered ==
  ASSUME TableFits, NEW D, Administer(D)
  PROVE  changes' \in 0..MaxChanges /\ Overtake(D)
  BY DevicesAssumption DEF Administer, TableFits

\* A statement on the row of d, which keeps its token or gets a new one.
LEMMA RowChanges ==
  ASSUME TableFits, NEW d \in DOMAIN devices, NEW row \in Device, Change(d, row),
         UNCHANGED <<user, kind, revived>>, changes' \in 0..MaxChanges,
         \/ row.token = devices[d].token /\ issued' = issued
         \/ row.token = issued + 1 /\ issued' = issued + 1 /\ issued < MaxIssued
  PROVE  /\ TableFits'
         /\ DOMAIN devices' = DOMAIN devices /\ devices'[d] = row
         /\ \A e \in DOMAIN devices : e # d => devices'[e] = devices[e]
  <1>1. /\ DOMAIN devices' = DOMAIN devices /\ devices'[d] = row
        /\ \A e \in DOMAIN devices : e # d => devices'[e] = devices[e]
    BY DEF Change
  <1>2. /\ issued \in Nat /\ issued' \in Tokens
        /\ \A e \in DOMAIN devices : devices[e].token \in Nat /\ devices[e].token <= issued
    BY DevicesAssumption DEF TableFits, Tokens, Device
  <1>3. \A e \in DOMAIN devices' : devices'[e] \in Device /\ devices'[e].token <= issued'
    BY <1>1, <1>2 DEF TableFits
  <1>4. \A e, f \in DOMAIN devices' : e # f => devices'[e].token # devices'[f].token
    BY <1>1, <1>2 DEF TableFits
  <1>5. DeviceTableBounded' /\ KeepsADevice'
    BY <1>1 DEF TableFits, DeviceTableBounded, KeepsADevice
  <1> QED BY <1>1, <1>2, <1>3, <1>4, <1>5 DEF TableFits

\* Only requests for d are overtaken by a change of its row.
LEMMA RowOvertakes ==
  ASSUME RequestsFit, NEW d, Overtake({d}), UNCHANGED user,
         DOMAIN devices' = DOMAIN devices,
         \A e \in DOMAIN devices : e # d => devices'[e] = devices[e]
  PROVE  RequestsFit'
  <1>1. HasRoom => HasRoom' BY DEF HasRoom
  <1> QED BY <1>1, RequestsOvertaken

LEMMA GhostTypes ==
  ASSUME GhostsFit, TableFits
  PROVE  /\ issued \in Nat
         /\ \A d \in DOMAIN devices : devices[d].token \in Nat /\ devices[d].token \in 0..issued
         /\ \A d \in DOMAIN devices : devices[d].bound = None => verified[d] = {}
  <1>1. issued \in Nat BY DevicesAssumption DEF TableFits, Tokens
  <1>2. \A d \in DOMAIN devices : devices[d].token \in Nat /\ devices[d].token \in 0..issued
    BY <1>1, DevicesAssumption DEF TableFits, Tokens, Device
  <1>3. ASSUME NEW d \in DOMAIN devices, devices[d].bound = None
        PROVE  verified[d] = {}
    <2>1. verified[d] \subseteq {None} /\ verified[d] \subseteq Hardware
      BY <1>3 DEF GhostsFit, VerifiedIsBound, TableFits
    <2> QED BY <2>1, DevicesAssumption
  <1> QED BY <1>1, <1>2, <1>3

LEMMA UpdateUserDeviceKeeps ==
  ASSUME DevicesInv, NEW d \in DeviceIds, NEW enabled \in BOOLEAN, NEW mode \in Modes,
         UpdateUserDevice(d, enabled, mode)
  PROVE  DevicesInv'
  <1> PICK old, new : old = devices[d] /\ new = Updated(devices[d], enabled, mode) OBVIOUS
  <1>1. /\ d \in DOMAIN devices /\ Change(d, new) /\ Administer({d})
        /\ UNCHANGED <<user, issued, kind, retired, revived>>
    BY DEF UpdateUserDevice
  <1>2. old \in Device BY <1>1 DEF DevicesInv, TableFits
  <1>3. /\ new \in Device /\ new.token = old.token
        /\ new.bound = IF mode = "off" THEN None ELSE old.bound
    BY <1>2 DEF Updated, Device
  <1>4. /\ TableFits'
        /\ DOMAIN devices' = DOMAIN devices /\ devices'[d] = new
        /\ \A e \in DOMAIN devices : e # d => devices'[e] = devices[e]
    BY <1>1, <1>3, Administered, RowChanges DEF DevicesInv
  <1>5. RequestsFit'
    BY <1>1, <1>4, Administered, RowOvertakes DEF DevicesInv
  <1>6. CASE mode = "off"
    <2>1. verified' = [verified EXCEPT ![d] = {}] /\ boundBy' = [boundBy EXCEPT ![d] = None]
      BY <1>6 DEF UpdateUserDevice, Unbind
    <2>2. VerifiedIsBound' /\ BindingFollowsToken' /\ OnlyReplayRevives'
      BY <1>1, <1>3, <1>4, <1>6, <2>1
         DEF DevicesInv, GhostsFit, VerifiedIsBound, BindingFollowsToken, OnlyReplayRevives
    <2>3. GhostsFit' BY <1>1, <1>4, <2>1, <2>2 DEF DevicesInv, GhostsFit
    <2> QED BY <1>4, <1>5, <2>3 DEF DevicesInv
  <1>7. CASE mode # "off"
    <2>1. UNCHANGED <<verified, boundBy>>
      BY <1>7 DEF UpdateUserDevice
    <2>2. VerifiedIsBound' /\ BindingFollowsToken' /\ OnlyReplayRevives'
      BY <1>1, <1>3, <1>4, <1>7, <2>1
         DEF DevicesInv, GhostsFit, VerifiedIsBound, BindingFollowsToken, OnlyReplayRevives
    <2>3. GhostsFit' BY <1>1, <1>4, <2>1, <2>2 DEF DevicesInv, GhostsFit
    <2> QED BY <1>4, <1>5, <2>3 DEF DevicesInv
  <1> QED BY <1>6, <1>7

LEMMA ResetUserDeviceHwidKeeps ==
  ASSUME DevicesInv, NEW d \in DeviceIds, ResetUserDeviceHwid(d)
  PROVE  DevicesInv'
  <1> PICK old, new : old = devices[d] /\ new = Unbound(devices[d]) OBVIOUS
  <1>1. /\ d \in DOMAIN devices /\ Change(d, new) /\ Administer({d})
        /\ UNCHANGED <<user, issued, kind, retired, revived>>
        /\ verified' = [verified EXCEPT ![d] = {}] /\ boundBy' = [boundBy EXCEPT ![d] = None]
    BY DEF ResetUserDeviceHwid, Unbind
  <1>2. old \in Device BY <1>1 DEF DevicesInv, TableFits
  <1>3. new \in Device /\ new.token = old.token /\ new.bound = None
    BY <1>2 DEF Unbound, Device
  <1>4. /\ TableFits'
        /\ DOMAIN devices' = DOMAIN devices /\ devices'[d] = new
        /\ \A e \in DOMAIN devices : e # d => devices'[e] = devices[e]
    BY <1>1, <1>3, Administered, RowChanges DEF DevicesInv
  <1>5. RequestsFit'
    BY <1>1, <1>4, Administered, RowOvertakes DEF DevicesInv
  <1>6. VerifiedIsBound' /\ BindingFollowsToken' /\ OnlyReplayRevives'
    BY <1>1, <1>3, <1>4
       DEF DevicesInv, GhostsFit, VerifiedIsBound, BindingFollowsToken, OnlyReplayRevives
  <1>7. GhostsFit' BY <1>1, <1>4, <1>6 DEF DevicesInv, GhostsFit
  <1> QED BY <1>4, <1>5, <1>7 DEF DevicesInv

LEMMA RotateUserDeviceCredentialKeeps ==
  ASSUME DevicesInv, NEW d \in DeviceIds, RotateUserDeviceCredential(d)
  PROVE  DevicesInv'
  <1> PICK old, new : old = devices[d] /\ new = Replaced(devices[d], issued + 1) OBVIOUS
  <1>1. /\ d \in DOMAIN devices /\ Change(d, new) /\ Administer({d})
        /\ issued < MaxIssued /\ issued' = issued + 1
        /\ UNCHANGED <<user, kind, boundBy, revived>>
        /\ verified' = [verified EXCEPT ![d] = {}]
        /\ retired' = retired \union {old.token}
    BY DEF RotateUserDeviceCredential, Withdraw
  <1>2. /\ old \in Device /\ issued \in Nat /\ issued + 1 \in Tokens
        /\ old.token \in Nat /\ old.token <= issued
    BY <1>1, GhostTypes, DevicesAssumption DEF DevicesInv, TableFits, Tokens
  <1>3. new \in Device /\ new.token = issued + 1 /\ new.bound = None
    BY <1>2 DEF Replaced, Device
  <1>4. /\ TableFits'
        /\ DOMAIN devices' = DOMAIN devices /\ devices'[d] = new
        /\ \A e \in DOMAIN devices : e # d => devices'[e] = devices[e]
    BY <1>1, <1>3, Administered, RowChanges DEF DevicesInv
  <1>5. RequestsFit'
    BY <1>1, <1>4, Administered, RowOvertakes DEF DevicesInv
  <1>6. VerifiedIsBound' /\ BindingFollowsToken'
    BY <1>1, <1>3, <1>4
       DEF DevicesInv, GhostsFit, VerifiedIsBound, BindingFollowsToken
  <1>7. OnlyReplayRevives'
    <2> SUFFICES ASSUME NEW e \in DOMAIN devices', devices'[e].token \in retired'
                 PROVE  e = Legacy /\ revived
      BY <1>1 DEF OnlyReplayRevives
    <2>1. e # d
      BY <1>1, <1>2, <1>3, <1>4 DEF DevicesInv, GhostsFit
    <2>2. devices[e].token \in retired
      BY <1>1, <1>4, <2>1 DEF DevicesInv, TableFits
    <2> QED BY <1>4, <2>2 DEF DevicesInv, GhostsFit, OnlyReplayRevives
  <1>8. retired' \subseteq 0..issued'
    <2>1. retired \subseteq 0..issued BY DEF DevicesInv, GhostsFit
    <2>2. 0..issued \subseteq 0..(issued + 1) /\ old.token \in 0..(issued + 1) BY <1>2
    <2> QED BY <1>1, <2>1, <2>2
  <1>9. GhostsFit' BY <1>1, <1>4, <1>6, <1>7, <1>8 DEF DevicesInv, GhostsFit
  <1> QED BY <1>4, <1>5, <1>9 DEF DevicesInv

LEMMA RotateConnectionCredentialKeeps ==
  ASSUME DevicesInv, NEW d \in DeviceIds, RotateConnectionCredential(d)
  PROVE  DevicesInv'
  <1>1. /\ Administer({d}) /\ UNCHANGED <<user, devices, issued, kind>>
        /\ UNCHANGED <<verified, boundBy, retired, revived>>
    BY DEF RotateConnectionCredential, ghosts
  <1>2. RequestsFit' BY <1>1, Administered, RowOvertakes DEF DevicesInv
  <1>3. TableFits'
    BY <1>1, Administered DEF DevicesInv, TableFits, DeviceTableBounded, KeepsADevice
  <1>4. GhostsFit'
    BY <1>1 DEF DevicesInv, GhostsFit, VerifiedIsBound, BindingFollowsToken, OnlyReplayRevives
  <1> QED BY <1>2, <1>3, <1>4 DEF DevicesInv

LEMMA DeleteUserDeviceKeeps ==
  ASSUME DevicesInv, NEW d \in DeviceIds, DeleteUserDevice(d)
  PROVE  DevicesInv'
  <1> PICK S : S = DOMAIN devices OBVIOUS
  <1>1. /\ d \in S /\ d # Legacy /\ Cardinality(S) > 1 /\ IsFiniteSet(S)
        /\ devices' = Restrict(devices, S \ {d}) /\ Administer({d})
        /\ UNCHANGED <<user, issued, kind, revived>>
        /\ verified' = [verified EXCEPT ![d] = {}] /\ boundBy' = [boundBy EXCEPT ![d] = None]
        /\ retired' = retired \union {devices[d].token}
    BY DEF DeleteUserDevice, Deletable, Unbind, Withdraw, DevicesInv, TableFits
  <1>2. /\ DOMAIN devices' = S \ {d}
        /\ \A e \in S \ {d} : devices'[e] = devices[e]
    BY <1>1 DEF Restrict
  <1>3. /\ IsFiniteSet(S \ {d}) /\ Cardinality(S \ {d}) = Cardinality(S) - 1
        /\ Cardinality(S) \in Nat
    BY <1>1, FS_RemoveElement, FS_CardinalityType
  <1>4. S \ {d} # {} BY <1>1, <1>3, FS_EmptySet
  <1>5. RequestsFit'
    <2>1. HasRoom => HasRoom'
      BY <1>1, <1>2, <1>3, DevicesAssumption DEF HasRoom
    <2> QED BY <1>1, <1>2, <2>1, Administered, RequestsOvertaken DEF DevicesInv
  <1>6. TableFits'
    <2>1. DeviceTableBounded'
      BY <1>1, <1>2, <1>3, DevicesAssumption DEF DevicesInv, TableFits, DeviceTableBounded
    <2>2. KeepsADevice' BY <1>2, <1>4 DEF KeepsADevice
    <2>3. /\ DOMAIN devices' \subseteq DOMAIN devices
          /\ \A e \in DOMAIN devices' : devices'[e] = devices[e]
      BY <1>2
    <2>4. changes' \in 0..MaxChanges BY <1>1, Administered DEF DevicesInv
    <2>5. \A e \in DOMAIN devices' : devices'[e] \in Device /\ devices'[e].token <= issued
      BY <2>3 DEF DevicesInv, TableFits
    <2>6. \A e, f \in DOMAIN devices' : e # f => devices'[e].token # devices'[f].token
      BY <2>3 DEF DevicesInv, TableFits
    <2>7. IsFiniteSet(DOMAIN devices') BY <1>2, <1>3
    <2> QED BY <1>1, <2>1, <2>2, <2>3, <2>4, <2>5, <2>6, <2>7 DEF DevicesInv, TableFits
  <1>7. VerifiedIsBound' /\ BindingFollowsToken'
    <2>1. /\ verified \in [DeviceIds -> SUBSET Hardware] /\ S \subseteq DeviceIds
          /\ boundBy \in [DeviceIds -> Tokens \union {None}]
      BY DEF DevicesInv, GhostsFit, TableFits
    <2>2. \A e \in S \ {d} : verified'[e] = verified[e] /\ boundBy'[e] = boundBy[e]
      BY <1>1, <2>1
    <2>3. VerifiedIsBound'
      BY <1>2, <2>2 DEF DevicesInv, GhostsFit, VerifiedIsBound
    <2> QED BY <1>2, <2>2, <2>3 DEF DevicesInv, GhostsFit, BindingFollowsToken
  <1>8. OnlyReplayRevives'
    BY <1>1, <1>2 DEF DevicesInv, GhostsFit, TableFits, OnlyReplayRevives
  <1>9. retired' \subseteq 0..issued'
    <2>1. devices[d].token \in 0..issued /\ retired \subseteq 0..issued
      BY <1>1, GhostTypes DEF DevicesInv, GhostsFit
    <2> QED BY <1>1, <2>1
  <1>10. revived' => user' = None \/ Legacy \in DOMAIN devices'
    BY <1>1, <1>2 DEF DevicesInv, GhostsFit
  <1>11. GhostsFit'
    BY <1>1, <1>2, <1>7, <1>8, <1>9, <1>10 DEF DevicesInv, GhostsFit
  <1> QED BY <1>5, <1>6, <1>11 DEF DevicesInv

LEMMA UpdateUserKeeps ==
  ASSUME DevicesInv, NEW status \in {"active", "barred"}, UpdateUser(status)
  PROVE  DevicesInv'
  <1>1. /\ user # None /\ user' # None /\ user' \in {"active", "barred"}
        /\ Administer(DOMAIN devices)
        /\ UNCHANGED <<devices, issued, kind, verified, boundBy, retired, revived>>
    BY DevicesAssumption DEF UpdateUser, ghosts
  <1>2. HasRoom => HasRoom' BY <1>1 DEF HasRoom
  <1>3. RequestsFit'
    BY <1>1, <1>2, Administered, RequestsOvertaken DEF DevicesInv
  <1>4. TableFits'
    BY <1>1, Administered DEF DevicesInv, TableFits, DeviceTableBounded, KeepsADevice
  <1>5. GhostsFit'
    BY <1>1 DEF DevicesInv, GhostsFit, VerifiedIsBound, BindingFollowsToken, OnlyReplayRevives
  <1> QED BY <1>3, <1>4, <1>5 DEF DevicesInv

LEMMA DeleteUserKeeps ==
  ASSUME DevicesInv, DeleteUser
  PROVE  DevicesInv'
  <1>1. /\ user' = None /\ devices' = Restrict(devices, {}) /\ Administer(DeviceIds)
        /\ UNCHANGED <<issued, kind, revived>>
        /\ verified' = [d \in DeviceIds |-> {}] /\ boundBy' = [d \in DeviceIds |-> None]
        /\ retired' = retired \union {devices[d].token : d \in DOMAIN devices}
    BY DEF DeleteUser, Withdraw
  <1>2. DOMAIN devices' = {} BY <1>1 DEF Restrict
  <1>3. RequestsFit'
    <2>1. NewDevices \ DOMAIN devices \subseteq DeviceIds
          /\ DOMAIN devices \subseteq DeviceIds
      BY DEF DeviceIds, DevicesInv, TableFits
    <2> QED BY <1>1, <1>2, <2>1, Administered, RequestsOvertaken DEF DevicesInv
  <1>4. TableFits'
    <2>1. DeviceTableBounded' /\ IsFiniteSet(DOMAIN devices')
      BY <1>1, <1>2, FS_EmptySet, DevicesAssumption
         DEF DeviceTableBounded, DevicesInv, GhostsFit
    <2>2. KeepsADevice' BY <1>1 DEF KeepsADevice
    <2> QED BY <1>1, <1>2, <2>1, <2>2, Administered DEF DevicesInv, TableFits
  <1>5. retired' \subseteq 0..issued'
    <2>1. \A d \in DOMAIN devices : devices[d].token \in 0..issued
      BY GhostTypes DEF DevicesInv
    <2>2. retired \subseteq 0..issued BY DEF DevicesInv, GhostsFit
    <2> QED BY <1>1, <2>1, <2>2
  <1>6. GhostsFit'
    BY <1>1, <1>2, <1>5
       DEF DevicesInv, GhostsFit, VerifiedIsBound, BindingFollowsToken, OnlyReplayRevives
  <1> QED BY <1>3, <1>4, <1>6 DEF DevicesInv

LEMMA ReplaySchemaKeeps ==
  ASSUME DevicesInv, ReplaySchema
  PROVE  DevicesInv'
  <1> PICK S : S = DOMAIN devices OBVIOUS
  <1>1. PICK enabled \in BOOLEAN :
          devices' = [d \in S \union {Legacy} |->
                         IF d = Legacy THEN [NewRow(0, "off") EXCEPT !.enabled = enabled]
                         ELSE devices[d]]
    BY DEF ReplaySchema
  <1> PICK new : new = [NewRow(0, "off") EXCEPT !.enabled = enabled] OBVIOUS
  <1>2. /\ user # None /\ Legacy \notin S /\ \A d \in S : devices[d].token # 0
        /\ revived' = TRUE /\ Overtake({Legacy} \union Created)
        /\ UNCHANGED <<user, issued, changes, kind, verified, boundBy, retired>>
    BY DEF ReplaySchema, Insertable
  <1>3. /\ DOMAIN devices' = S \union {Legacy} /\ devices'[Legacy] = new
        /\ \A d \in S : devices'[d] = devices[d]
    BY <1>1, <1>2
  <1>4. issued \in Nat /\ 0 \in Tokens
    BY GhostTypes, DevicesAssumption DEF DevicesInv, Tokens
  <1>5. new \in Device /\ new.token = 0 /\ new.bound = None
    BY <1>4 DEF NewRow, Device, Modes
  <1>6. /\ IsFiniteSet(S \union {Legacy}) /\ Cardinality(S) \in Nat
        /\ Cardinality(S \union {Legacy}) = Cardinality(S) + 1
    BY <1>2, FS_AddElement, FS_CardinalityType DEF DevicesInv, TableFits
  <1>7. RequestsFit'
    BY <1>2, <1>3, RequestsOvertaken DEF DevicesInv, Created
  <1>8. TableFits'
    <2>1. ~revived BY <1>2 DEF DevicesInv, GhostsFit
    <2>2. DeviceTableBounded'
      BY <1>2, <1>3, <1>6, <2>1, DevicesAssumption
         DEF DevicesInv, TableFits, DeviceTableBounded
    <2>3. KeepsADevice' BY <1>3 DEF KeepsADevice
    <2>4. \A d \in DOMAIN devices' : devices'[d] \in Device /\ devices'[d].token <= issued'
      <3>1. \A d \in S : devices[d] \in Device /\ devices[d].token <= issued
        BY DEF DevicesInv, TableFits
      <3>2. 0 <= issued BY <1>4
      <3> QED BY <1>2, <1>3, <1>5, <3>1, <3>2
    <2>5. \A d, e \in DOMAIN devices' : d # e => devices'[d].token # devices'[e].token
      BY <1>2, <1>3, <1>5, ZenonT(30) DEF DevicesInv, TableFits
    <2>6. DOMAIN devices' \subseteq DeviceIds
      BY <1>3 DEF DevicesInv, TableFits, DeviceIds
    <2> QED BY <1>2, <1>3, <1>6, <2>2, <2>3, <2>4, <2>5, <2>6 DEF DevicesInv, TableFits
  <1>9. verified[Legacy] = {}
    BY <1>2 DEF DevicesInv, GhostsFit, DeviceIds
  <1>10. VerifiedIsBound' /\ BindingFollowsToken' /\ OnlyReplayRevives'
    BY <1>2, <1>3, <1>5, <1>9
       DEF DevicesInv, GhostsFit, VerifiedIsBound, BindingFollowsToken, OnlyReplayRevives
  <1>11. GhostsFit'
    BY <1>2, <1>3, <1>10 DEF DevicesInv, GhostsFit
  <1> QED BY <1>7, <1>8, <1>11 DEF DevicesInv

-----------------------------------------------------------------------------
\* The table and what is known of it stay.
LEMMA TableStays ==
  ASSUME DevicesInv, UNCHANGED <<user, devices, issued, changes, kind, ghosts>>
  PROVE  TableFits' /\ GhostsFit'
  <1>1. TableFits'
    BY DEF DevicesInv, TableFits, DeviceTableBounded, KeepsADevice, ghosts
  <1>2. GhostsFit'
    BY DEF DevicesInv, GhostsFit, VerifiedIsBound, BindingFollowsToken, OnlyReplayRevives,
           ghosts
  <1> QED BY <1>1, <1>2

LEMMA CheckCreationKeeps ==
  ASSUME DevicesInv, NEW h \in Requests, NEW d \in NewDevices, CheckCreation(h, d)
  PROVE  DevicesInv'
  <1> PICK i : i = [at |-> "create", device |-> d, overtaken |-> FALSE] OBVIOUS
  <1>1. i \in Creation /\ i.device = d BY DEF Creation
  <1>2. RequestFits(i)
    BY <1>1 DEF RequestFits, CreationFits, CheckCreation, HasRoom
  <1>3. RequestsFit'
    BY <1>1, <1>2, RequestMoves DEF CheckCreation, DevicesInv
  <1> QED BY <1>3, TableStays DEF CheckCreation, DevicesInv

LEMMA CreateUserDeviceKeeps ==
  ASSUME DevicesInv, NEW h \in Requests, NEW mode \in Modes, CreateUserDevice(h, mode)
  PROVE  DevicesInv'
  <1> PICK d, S : d = request[h].device /\ S = DOMAIN devices OBVIOUS
  <1>1. d \in NewDevices /\ d \notin S /\ d \in DeviceIds /\ d # Legacy
    BY RequestTypes, DevicesAssumption
       DEF CreateUserDevice, DevicesInv, Creation, CreationFits, DeviceIds
  <1>2. CASE ~HasRoom
    <2>1. /\ request' = [request EXCEPT ![h] = NoRequest]
          /\ UNCHANGED <<user, devices, issued, changes, kind, ghosts>>
      BY <1>2 DEF CreateUserDevice
    <2>2. RequestsFit' BY <2>1, NoRequestFits, RequestMoves DEF DevicesInv
    <2> QED BY <2>1, <2>2, TableStays DEF DevicesInv
  <1>3. CASE HasRoom
    <2> PICK new : new = NewRow(issued + 1, mode) OBVIOUS
    <2> DEFINE others == [request EXCEPT ![h] = NoRequest]
    <2>1. /\ issued < MaxIssued /\ issued' = issued + 1
          /\ devices' = [x \in S \union {d} |-> IF x = d THEN new ELSE devices[x]]
          /\ request' = [g \in Requests |-> IF others[g].at = "create"
                                            THEN [others[g] EXCEPT !.overtaken = TRUE]
                                            ELSE others[g]]
          /\ UNCHANGED <<user, changes, kind, verified, boundBy, retired, revived>>
      BY <1>3 DEF CreateUserDevice, ghosts
    <2>2. /\ DOMAIN devices' = S \union {d} /\ devices'[d] = new
          /\ \A e \in S : devices'[e] = devices[e]
      BY <1>1, <2>1
    <2>3. issued \in Nat /\ issued + 1 \in Tokens
      BY <2>1, GhostTypes, DevicesAssumption DEF DevicesInv, Tokens
    <2>4. new \in Device /\ new.token = issued + 1 /\ new.bound = None
      BY <2>3 DEF NewRow, Device
    <2>5. /\ IsFiniteSet(S \union {d}) /\ Cardinality(S) \in Nat
          /\ Cardinality(S \union {d}) = Cardinality(S) + 1
      BY <1>1, FS_AddElement, FS_CardinalityType DEF DevicesInv, TableFits
    <2>6. ASSUME NEW g \in Requests
          PROVE  /\ RequestFits(request[g])'
                 /\ request'[g].at = "create" =>
                      request[g].at = "create" /\ request'[g].device = request[g].device
      <3> PICK i, j : i = request[g] /\ j = request'[g] OBVIOUS
      <3>1. CASE g = h
        <4>1. j = NoRequest BY <2>1, <3>1 DEF RequestsFit, DevicesInv, NoRequest
        <4>2. j.at # "create" BY <4>1 DEF NoRequest
        <4> QED BY <4>1, <4>2 DEF RequestFits
      <3>2. CASE g # h /\ i.at = "create"
        <4>1. j = [i EXCEPT !.overtaken = TRUE]
          BY <2>1, <3>2 DEF RequestsFit, DevicesInv
        <4>2. i \in Creation /\ CreationFits(i) /\ i.device # d
          BY <1>1, <3>2, RequestTypes DEF RequestsFit, DevicesInv, CreateUserDevice
        <4>3. j \in Creation /\ j.overtaken /\ j.device = i.device
          BY <4>1, <4>2 DEF Creation
        <4>4. RequestFits(j)' BY <2>2, <4>2, <4>3 DEF RequestFits, CreationFits
        <4> QED BY <3>2, <4>3, <4>4 DEF RequestFits, CreationFits, SubscriptionFits, HasRoom
      <3>3. CASE g # h /\ i.at # "create"
        <4>1. j = i BY <2>1, <3>3 DEF RequestsFit, DevicesInv
        <4>2. Stays(i)
          BY <1>1, <2>1, <2>2, <3>3 DEF Stays
        <4>3. RequestFits(i) BY DEF DevicesInv, RequestsFit
        <4>4. RequestFits(j)' BY <4>1, <4>2, <4>3, RequestStays
        <4> QED BY <3>3, <4>1, <4>4 DEF RequestFits, CreationFits, SubscriptionFits, HasRoom
      <3> QED BY <3>1, <3>2, <3>3
    <2>7. RequestsFit'
      <3>1. request' = [g \in Requests |-> request'[g]] BY <2>1
      <3>2. ASSUME NEW f \in Requests, NEW g \in Requests,
                   request'[f].at = "create", request'[g].at = "create",
                   request'[f].device = request'[g].device
            PROVE  f = g
        BY <2>6, <3>2 DEF RequestsFit, DevicesInv
      <3> QED BY <2>6, <3>1, <3>2 DEF RequestsFit
    <2>8. TableFits'
      <3>1. DeviceTableBounded'
        BY <1>3, <2>1, <2>2, <2>5, DevicesAssumption DEF HasRoom, DeviceTableBounded
      <3>2. KeepsADevice' BY <2>2 DEF KeepsADevice
      <3>3. \A e \in S : /\ devices[e] \in Device /\ devices[e].token <= issued
                         /\ devices[e].token \in Nat
        BY GhostTypes DEF DevicesInv, TableFits
      <3>4. \A e \in DOMAIN devices' : devices'[e] \in Device /\ devices'[e].token <= issued'
        BY <2>1, <2>2, <2>3, <2>4, <3>3
      <3>5. \A e, f \in DOMAIN devices' : e # f => devices'[e].token # devices'[f].token
        <4> SUFFICES ASSUME NEW e \in S \union {d}, NEW f \in S \union {d}, e # f
                     PROVE  devices'[e].token # devices'[f].token
          BY <2>2
        <4>1. CASE e = d \/ f = d BY <2>2, <2>3, <2>4, <3>3, <4>1
        <4>2. CASE e # d /\ f # d BY <2>2, <4>2 DEF DevicesInv, TableFits
        <4> QED BY <4>1, <4>2
      <3>6. DOMAIN devices' \subseteq DeviceIds /\ IsFiniteSet(DOMAIN devices')
        BY <1>1, <2>2, <2>5 DEF DevicesInv, TableFits
      <3> QED BY <2>1, <2>3, <3>1, <3>2, <3>4, <3>5, <3>6 DEF DevicesInv, TableFits
    <2>9. verified[d] = {} BY <1>1 DEF DevicesInv, GhostsFit
    <2>10. VerifiedIsBound' /\ BindingFollowsToken'
      BY <2>1, <2>2, <2>4, <2>9 DEF DevicesInv, GhostsFit, VerifiedIsBound, BindingFollowsToken
    <2>11. issued + 1 \notin retired BY <2>3 DEF DevicesInv, GhostsFit
    <2>12. OnlyReplayRevives'
      BY <2>1, <2>2, <2>4, <2>11 DEF DevicesInv, GhostsFit, OnlyReplayRevives
    <2>13. retired' \subseteq 0..issued'
      <3>1. retired \subseteq 0..issued BY DEF DevicesInv, GhostsFit
      <3>2. 0..issued \subseteq 0..(issued + 1) BY <2>3
      <3> QED BY <2>1, <3>1, <3>2
    <2>14. GhostsFit' BY <2>1, <2>2, <2>10, <2>12, <2>13 DEF DevicesInv, GhostsFit
    <2> QED BY <2>7, <2>8, <2>14 DEF DevicesInv
  <1> QED BY <1>2, <1>3

\* The row a request reads, by its fields.
LEMMA PrincipalShows ==
  ASSUME TableFits, NEW d \in DOMAIN devices
  PROVE  /\ Principal(d).mode = devices[d].mode /\ Principal(d).bound = devices[d].bound
         /\ Principal(d).enabled <=> devices[d].enabled /\ user = "active"
  <1> PICK row : row = devices[d] OBVIOUS
  <1>1. row \in Device BY DEF TableFits
  <1>2. \A b : /\ [row EXCEPT !.enabled = b].enabled = b
               /\ [row EXCEPT !.enabled = b].mode = row.mode
               /\ [row EXCEPT !.enabled = b].bound = row.bound
    BY <1>1 DEF Device
  <1> QED BY <1>2, Zenon DEF Principal

LEMMA ReadPrincipalKeeps ==
  ASSUME DevicesInv, NEW h \in Requests, NEW d \in DeviceIds, NEW hw \in Hardware \union {None},
         ReadPrincipal(h, d, hw)
  PROVE  DevicesInv'
  <1> PICK checks, row : /\ row = Principal(d)
                         /\ checks = (row.mode # "off" /\ hw # None)
    OBVIOUS
  <1> PICK i : i = [at |-> IF row.mode # "off" /\ hw # None /\ row.bound = None
                           THEN "bind" ELSE "render",
                    device |-> d, hw |-> hw, overtaken |-> FALSE]
    OBVIOUS
  <1>1. /\ d \in DOMAIN devices
        /\ row.enabled
        /\ row.mode = "required" => hw # None
        /\ row.mode # "off" /\ hw # None => row.bound \in {None, hw}
        /\ request' = [request EXCEPT ![h] = i]
        /\ UNCHANGED <<user, devices, issued, changes, kind, boundBy, retired, revived>>
    BY Zenon DEF ReadPrincipal
  <1>2. verified' = [verified EXCEPT ![d] = IF row.mode # "off" /\ hw # None /\ row.bound = hw
                                            THEN @ \union {hw} ELSE @]
    BY Zenon DEF ReadPrincipal
  <1>3. /\ row.mode = devices[d].mode /\ row.bound = devices[d].bound
        /\ devices[d].enabled /\ user = "active"
    BY <1>1, PrincipalShows DEF DevicesInv
  <1>4. i \in Subscription /\ i.device = d /\ i.hw = hw /\ ~i.overtaken
    BY DEF Subscription
  <1>5. i.at = IF row.mode # "off" /\ hw # None /\ row.bound = None THEN "bind" ELSE "render"
    OBVIOUS
  <1>6. SubscriptionFits(i)
    BY <1>1, <1>3, <1>4, <1>5 DEF SubscriptionFits
  <1>7. RequestsFit'
    <2>1. RequestFits(i) /\ i.at # "create" BY <1>4, <1>6 DEF RequestFits, Subscription
    <2> QED BY <1>1, <2>1, RequestMoves DEF DevicesInv
  <1>8. /\ verified' \in [DeviceIds -> SUBSET Hardware]
        /\ \A e \in DeviceIds \ {d} : verified'[e] = verified[e]
        /\ verified'[d] \in {verified[d], verified[d] \union {devices[d].bound}}
    BY <1>2, <1>3 DEF DevicesInv, GhostsFit
  <1>9. VerifiedIsBound'
    BY <1>1, <1>8 DEF DevicesInv, GhostsFit, TableFits, VerifiedIsBound
  <1>10. BindingFollowsToken' /\ OnlyReplayRevives'
    BY <1>1 DEF DevicesInv, GhostsFit, BindingFollowsToken, OnlyReplayRevives
  <1>11. \A e \in DeviceIds \ DOMAIN devices' : verified'[e] = {}
    BY <1>1, <1>8 DEF DevicesInv, GhostsFit
  <1>12. GhostsFit' BY <1>1, <1>8, <1>9, <1>10, <1>11 DEF DevicesInv, GhostsFit
  <1>13. TableFits'
    BY <1>1 DEF DevicesInv, TableFits, DeviceTableBounded, KeepsADevice
  <1> QED BY <1>7, <1>12, <1>13 DEF DevicesInv

LEMMA BindKeeps ==
  ASSUME DevicesInv, NEW h \in Requests, Bind(h)
  PROVE  DevicesInv'
  <1> PICK d, old, i : /\ d = request[h].device /\ old = request[h]
                       /\ i = [request[h] EXCEPT !.at = "reread"]
    OBVIOUS
  <1>1. /\ old \in Subscription /\ SubscriptionFits(old) /\ old.at = "bind"
        /\ d \in DeviceIds /\ old.hw \in Hardware /\ old.hw # None
    BY RequestTypes, DevicesAssumption DEF Bind, DevicesInv, Subscription, SubscriptionFits
  <1>2. /\ request' = [request EXCEPT ![h] = i]
        /\ UNCHANGED <<user, issued, changes, kind, verified, retired, revived>>
    BY DEF Bind, DevicesInv, RequestsFit
  <1>3. /\ i \in Subscription /\ i.at = "reread" /\ i.device = d /\ i.hw = old.hw
        /\ i.overtaken = old.overtaken
    BY <1>1 DEF Subscription
  <1>4. CASE ~Bindable(d)
    <2>1. UNCHANGED <<devices, boundBy>> BY <1>4 DEF Bind
    <2>2. RequestFits(i)
      BY <1>1, <1>3 DEF RequestFits, SubscriptionFits
    <2>3. RequestsFit' BY <1>2, <1>3, <2>1, <2>2, RequestMoves DEF DevicesInv
    <2> QED BY <1>2, <2>1, <2>3, TableStays DEF DevicesInv, ghosts
  <1>5. CASE Bindable(d)
    <2> PICK row, new : row = devices[d] /\ new = [devices[d] EXCEPT !.bound = old.hw]
      OBVIOUS
    <2>1. /\ d \in DOMAIN devices /\ row.bound = None /\ row \in Device
          /\ Change(d, new)
          /\ boundBy' = [boundBy EXCEPT ![d] = IF old.overtaken THEN None ELSE row.token]
      BY <1>5 DEF Bind, Bindable, DevicesInv, TableFits
    <2>2. /\ new \in Device /\ new.token = row.token /\ new.bound = old.hw
          /\ new.enabled = row.enabled /\ new.mode = row.mode
      BY <1>1, <2>1 DEF Device
    <2>3. changes' \in 0..MaxChanges BY <1>2 DEF DevicesInv, TableFits
    <2>4. /\ TableFits'
          /\ DOMAIN devices' = DOMAIN devices /\ devices'[d] = new
          /\ \A e \in DOMAIN devices : e # d => devices'[e] = devices[e]
      BY <1>2, <2>1, <2>2, <2>3, RowChanges DEF DevicesInv
    <2>5. RequestFits(i)'
      BY <1>1, <1>2, <1>3, <2>2, <2>4, ZenonT(30) DEF RequestFits, SubscriptionFits
    <2>6. ASSUME NEW g \in Requests, g # h PROVE RequestFits(request[g])'
      <3> PICK j : j = request[g] OBVIOUS
      <3>1. RequestFits(j) /\ request'[g] = j
        BY <1>2, <2>6 DEF DevicesInv, RequestsFit
      <3>2. CASE j \in Subscription /\ SubscriptionFits(j) /\ j.device = d
        <4>1. (j.at = "render" /\ ~j.overtaken /\ row.mode # "off" /\ j.hw # None) => FALSE
          BY <2>1, <3>2 DEF SubscriptionFits
        <4>2. SubscriptionFits(j)'
          <5>1. j.at # "render" => j.hw # None BY <3>2 DEF SubscriptionFits
          <5>2. ASSUME ~j.overtaken
                PROVE  /\ user' = "active"
                       /\ d \in DOMAIN devices' /\ devices'[d].enabled
                       /\ devices'[d].mode = "required" => j.hw # None
                       /\ j.at = "render" /\ devices'[d].mode # "off" /\ j.hw # None =>
                            devices'[d].bound = j.hw
            <6>1. user = "active" /\ row.enabled /\ (row.mode = "required" => j.hw # None)
              BY <3>2, <5>2 DEF SubscriptionFits
            <6>2. devices'[d].mode = row.mode /\ (devices'[d].enabled <=> row.enabled)
              BY <2>2, <2>4
            <6> QED BY <1>2, <2>1, <2>4, <4>1, <5>2, <6>1, <6>2
          <5> QED BY <3>2, <5>1, <5>2 DEF SubscriptionFits
        <4> QED BY <3>1, <3>2, <4>2 DEF RequestFits, CreationFits, SubscriptionFits, HasRoom
      <3>3. CASE ~(j \in Subscription /\ SubscriptionFits(j) /\ j.device = d)
        <4>1. Stays(j)
          <5>1. CASE j = NoRequest BY <5>1 DEF Stays, NoRequest
          <5>2. CASE j \in Creation /\ CreationFits(j)
            BY <1>2, <2>4, <5>2 DEF Stays, Creation, CreationFits, HasRoom
          <5>3. CASE j \in Subscription /\ SubscriptionFits(j) /\ j.device # d
            BY <1>2, <2>4, <5>3 DEF Stays, Subscription
          <5> QED BY <3>1, <3>3, <5>1, <5>2, <5>3 DEF RequestFits
        <4>2. RequestFits(j)' BY <3>1, <4>1, RequestStays
        <4> QED BY <3>1, <4>2 DEF RequestFits, CreationFits, SubscriptionFits, HasRoom
      <3> QED BY <3>2, <3>3
    <2>7. RequestsFit'
      <3>1. request' = [g \in Requests |-> IF g = h THEN i ELSE request[g]]
        BY <1>2 DEF DevicesInv, RequestsFit
      <3>2. RequestFits(request[h])'
        BY <2>5, <3>1 DEF RequestFits, CreationFits, SubscriptionFits, HasRoom
      <3>3. ASSUME NEW f \in Requests, NEW g \in Requests,
                   request'[f].at = "create", request'[g].at = "create",
                   request'[f].device = request'[g].device
            PROVE  f = g
        BY <1>3, <3>1, <3>3 DEF DevicesInv, RequestsFit
      <3> QED BY <2>6, <3>1, <3>2, <3>3 DEF RequestsFit
    <2>8. verified[d] = {}
      BY <2>1, GhostTypes DEF DevicesInv
    <2>9. /\ boundBy' \in [DeviceIds -> Tokens \union {None}]
          /\ boundBy'[d] \in {None, row.token}
          /\ \A e \in DeviceIds \ {d} : boundBy'[e] = boundBy[e]
      BY <1>1, <2>1 DEF DevicesInv, GhostsFit, Device
    <2>10. VerifiedIsBound' /\ BindingFollowsToken' /\ OnlyReplayRevives'
      <3>1. VerifiedIsBound'
        BY <1>2, <2>4, <2>8 DEF DevicesInv, GhostsFit, VerifiedIsBound
      <3>2. BindingFollowsToken'
        BY <2>2, <2>4, <2>9, ZenonT(30) DEF DevicesInv, GhostsFit, TableFits, BindingFollowsToken
      <3>3. OnlyReplayRevives'
        BY <1>2, <2>2, <2>4 DEF DevicesInv, GhostsFit, OnlyReplayRevives
      <3> QED BY <3>1, <3>2, <3>3
    <2>11. GhostsFit' BY <1>2, <2>4, <2>9, <2>10 DEF DevicesInv, GhostsFit
    <2> QED BY <2>4, <2>7, <2>11 DEF DevicesInv
  <1> QED BY <1>4, <1>5

LEMMA RereadKeeps ==
  ASSUME DevicesInv, NEW h \in Requests, Reread(h)
  PROVE  DevicesInv'
  <1> PICK d, old : d = request[h].device /\ old = request[h] OBVIOUS
  <1>1. /\ old \in Subscription /\ SubscriptionFits(old) /\ old.at = "reread"
        /\ d \in DeviceIds /\ old.hw \in Hardware /\ old.hw # None /\ old.device = d
    BY RequestTypes, DevicesAssumption DEF Reread, DevicesInv, Subscription, SubscriptionFits
  <1>2. UNCHANGED <<user, devices, issued, changes, kind, boundBy, retired, revived>>
    BY DEF Reread
  <1>3. TableFits'
    BY <1>2 DEF DevicesInv, TableFits, DeviceTableBounded, KeepsADevice
  <1>4. CASE d \in DOMAIN devices /\ devices[d].bound = old.hw
    <2> PICK i : i = [request[h] EXCEPT !.at = "render"] OBVIOUS
    <2>1. /\ request' = [request EXCEPT ![h] = i]
          /\ verified' = [verified EXCEPT ![d] = @ \union {old.hw}]
      BY <1>4 DEF Reread
    <2>2. /\ i \in Subscription /\ i.at = "render" /\ i.device = d /\ i.hw = old.hw
          /\ i.overtaken = old.overtaken
      BY <1>1 DEF Subscription
    <2>3. RequestFits(i) BY <1>1, <1>4, <2>2 DEF RequestFits, SubscriptionFits
    <2>4. RequestsFit' BY <1>2, <2>1, <2>2, <2>3, RequestMoves DEF DevicesInv
    <2>5. /\ verified' \in [DeviceIds -> SUBSET Hardware]
          /\ \A e \in DeviceIds \ {d} : verified'[e] = verified[e]
          /\ verified'[d] = verified[d] \union {devices[d].bound}
      BY <1>1, <1>4, <2>1 DEF DevicesInv, GhostsFit
    <2>6. VerifiedIsBound'
      BY <1>2, <1>4, <2>5 DEF DevicesInv, GhostsFit, TableFits, VerifiedIsBound
    <2>7. BindingFollowsToken' /\ OnlyReplayRevives'
      BY <1>2 DEF DevicesInv, GhostsFit, BindingFollowsToken, OnlyReplayRevives
    <2>8. \A e \in DeviceIds \ DOMAIN devices' : verified'[e] = {}
      BY <1>2, <1>4, <2>5 DEF DevicesInv, GhostsFit
    <2>9. GhostsFit' BY <1>2, <2>5, <2>6, <2>7, <2>8 DEF DevicesInv, GhostsFit
    <2> QED BY <1>3, <2>4, <2>9 DEF DevicesInv
  <1>5. CASE ~(d \in DOMAIN devices /\ devices[d].bound = old.hw)
    <2>1. request' = [request EXCEPT ![h] = NoRequest] /\ verified' = verified
      BY <1>1, <1>5 DEF Reread, DevicesInv, GhostsFit
    <2>2. RequestsFit' BY <1>2, <2>1, NoRequestFits, RequestMoves DEF DevicesInv
    <2> QED BY <1>2, <2>1, <2>2, TableStays DEF DevicesInv, ghosts
  <1> QED BY <1>4, <1>5

LEMMA ServeKeeps ==
  ASSUME DevicesInv, NEW h \in Requests, Serve(h) \/ Fail(h)
  PROVE  DevicesInv'
  <1>1. RequestsFit'
    BY NoRequestFits, RequestMoves DEF Serve, Fail, DevicesInv
  <1> QED BY <1>1, TableStays DEF Serve, Fail, DevicesInv

LEMMA DevicesInitFits == DevicesInit => DevicesInv
  <1> SUFFICES ASSUME DevicesInit PROVE DevicesInv OBVIOUS
  <1>1. PICK first \in {Legacy, Benefit}, mode \in Modes :
          devices = [d \in {first} |-> NewRow(0, mode)]
    BY DEF DevicesInit, Modes
  <1> PICK row : row = NewRow(0, mode) OBVIOUS
  <1>2. row \in Device /\ row.token = 0 /\ row.bound = None
    BY DevicesAssumption DEF NewRow, Device, Tokens
  <1>3. DOMAIN devices = {first} /\ devices[first] = row BY <1>1
  <1>4. /\ user = "active" /\ issued = 0 /\ changes = 0 /\ kind \in {"ordinary", "benefit"}
        /\ request = [h \in Requests |-> NoRequest]
        /\ verified = [d \in DeviceIds |-> {}] /\ boundBy = [d \in DeviceIds |-> None]
        /\ retired = {} /\ revived = FALSE
    BY DEF DevicesInit
  <1>5. RequestsFit BY <1>4, NoRequestFits DEF RequestsFit
  <1>6. TableFits
    <2>1. IsFiniteSet({first}) /\ Cardinality({first}) = 1 BY FS_Singleton
    <2>2. DeviceTableBounded
      BY <1>3, <1>4, <2>1, DevicesAssumption DEF DeviceTableBounded
    <2>3. KeepsADevice BY <1>3 DEF KeepsADevice
    <2>4. \A d \in DOMAIN devices : devices[d] \in Device /\ devices[d].token <= issued
      BY <1>2, <1>3, <1>4
    <2>5. DOMAIN devices \subseteq DeviceIds BY <1>3 DEF DeviceIds
    <2>6. issued \in Tokens /\ changes \in 0..MaxChanges
      BY <1>4, DevicesAssumption DEF Tokens
    <2> QED BY <1>3, <1>4, <2>1, <2>2, <2>3, <2>4, <2>5, <2>6 DEF TableFits
  <1>7. VerifiedIsBound /\ BindingFollowsToken /\ OnlyReplayRevives
    <2>1. VerifiedIsBound BY <1>3, <1>4 DEF VerifiedIsBound, DeviceIds
    <2> QED BY <1>2, <1>3, <1>4, <2>1 DEF BindingFollowsToken, OnlyReplayRevives
  <1>8. GhostsFit BY <1>4, <1>7 DEF GhostsFit
  <1> QED BY <1>5, <1>6, <1>8 DEF DevicesInv

LEMMA DevicesNextFits == DevicesInv /\ [DevicesNext]_devicesVars => DevicesInv'
  <1> SUFFICES ASSUME DevicesInv, [DevicesNext]_devicesVars PROVE DevicesInv' OBVIOUS
  <1>1. ASSUME NEW d \in DeviceIds, NEW enabled \in BOOLEAN, NEW mode \in Modes,
               UpdateUserDevice(d, enabled, mode)
        PROVE  DevicesInv'
    BY <1>1, UpdateUserDeviceKeeps
  <1>2. ASSUME NEW d \in DeviceIds, ResetUserDeviceHwid(d) PROVE DevicesInv'
    BY <1>2, ResetUserDeviceHwidKeeps
  <1>3. ASSUME NEW d \in DeviceIds, RotateUserDeviceCredential(d) PROVE DevicesInv'
    BY <1>3, RotateUserDeviceCredentialKeeps
  <1>4. ASSUME NEW d \in DeviceIds, RotateConnectionCredential(d) PROVE DevicesInv'
    BY <1>4, RotateConnectionCredentialKeeps
  <1>5. ASSUME NEW d \in DeviceIds, DeleteUserDevice(d) PROVE DevicesInv'
    BY <1>5, DeleteUserDeviceKeeps
  <1>6. ASSUME NEW status \in {"active", "barred"}, UpdateUser(status) PROVE DevicesInv'
    BY <1>6, UpdateUserKeeps
  <1>7. ASSUME DeleteUser PROVE DevicesInv' BY <1>7, DeleteUserKeeps
  <1>8. ASSUME ReplaySchema PROVE DevicesInv' BY <1>8, ReplaySchemaKeeps
  <1>9. ASSUME NEW h \in Requests, NEW d \in NewDevices, CheckCreation(h, d)
        PROVE  DevicesInv'
    BY <1>9, CheckCreationKeeps
  <1>10. ASSUME NEW h \in Requests, NEW mode \in Modes, CreateUserDevice(h, mode)
         PROVE  DevicesInv'
    BY <1>10, CreateUserDeviceKeeps
  <1>11. ASSUME NEW h \in Requests, NEW d \in DeviceIds, NEW hw \in Hardware \union {None},
                ReadPrincipal(h, d, hw)
         PROVE  DevicesInv'
    BY <1>11, ReadPrincipalKeeps
  <1>12. ASSUME NEW h \in Requests, Bind(h) PROVE DevicesInv' BY <1>12, BindKeeps
  <1>13. ASSUME NEW h \in Requests, Reread(h) PROVE DevicesInv' BY <1>13, RereadKeeps
  <1>14. ASSUME NEW h \in Requests, Serve(h) \/ Fail(h) PROVE DevicesInv'
    BY <1>14, ServeKeeps
  <1>15. ASSUME UNCHANGED devicesVars PROVE DevicesInv'
    <2>1. \A h \in Requests : RequestFits(request[h])'
      BY <1>15 DEF devicesVars, DevicesInv, RequestsFit, RequestFits, CreationFits,
                   SubscriptionFits, HasRoom
    <2>2. RequestsFit' BY <1>15, <2>1 DEF devicesVars, DevicesInv, RequestsFit
    <2> QED BY <1>15, <2>2, TableStays DEF devicesVars, DevicesInv
  <1> QED BY <1>1, <1>2, <1>3, <1>4, <1>5, <1>6, <1>7, <1>8, <1>9, <1>10, <1>11,
             <1>12, <1>13, <1>14, <1>15
          DEF DevicesNext

LEMMA DevicesInvHolds == DevicesSpec => []DevicesInv
  BY DevicesInitFits, DevicesNextFits, PTL DEF DevicesSpec

-----------------------------------------------------------------------------
LEMMA DevicesSoundNow == DevicesInv => DevicesSound /\ VerifiedIsBound
  <1> SUFFICES ASSUME DevicesInv PROVE DevicesSound /\ VerifiedIsBound OBVIOUS
  <1>1. retired \subseteq Tokens
    <2>1. issued \in 0..MaxIssued /\ retired \subseteq 0..issued
      BY DEF DevicesInv, TableFits, GhostsFit, Tokens
    <2> QED BY <2>1, DevicesAssumption DEF Tokens
  <1>2. \A h \in Requests : request[h] = NoRequest \/ request[h] \in Held(h)
    BY RequestTypes DEF DevicesInv, Held, Creation, Subscription
  <1>3. DevicesTypeOK
    BY <1>1, <1>2 DEF DevicesInv, TableFits, GhostsFit, DevicesTypeOK
  <1> QED BY <1>3 DEF DevicesInv, TableFits, GhostsFit, DevicesSound

\* However administrators, clients and a replay of the schema overlap
\* (db.ts:498-643), the rows stay sound: unique tokens, bindings that belong to
\* the valid token, the limit, the last device, and no token that comes back.
THEOREM DevicesStaySound == DevicesSpec => []DevicesSound
  BY DevicesInvHolds, DevicesSoundNow, PTL

\* Between two resets only one hardware passes the check of a device, however
\* many clients race to bind it (bindUserDeviceHwid and the comparison after it).
THEOREM OneHardwareIsLetIn == DevicesSpec => []VerifiedIsBound
  BY DevicesInvHolds, DevicesSoundNow, PTL

\* A subscription rendered from a row read several awaits before is right by the
\* rows as they are when it is served, unless an administrator came between
\* (the handler of /sub/:token).
THEOREM AnswersHold == DevicesSpec => AnswersHoldNow
  <1>1. ASSUME DevicesInv, NEW h \in Requests, Serve(h), ~request[h].overtaken
        PROVE  Complies(h)
    BY <1>1, RequestTypes DEF DevicesInv, Serve, SubscriptionFits, Complies
  <1>2. DevicesInv /\ [DevicesNext]_devicesVars =>
          [\A h \in Requests : Serve(h) /\ ~request[h].overtaken => Complies(h)]_devicesVars
    BY <1>1
  <1> QED BY <1>2, DevicesInvHolds, PTL DEF DevicesSpec, AnswersHoldNow

\* A creation answered with 201 has inserted its row, unless it was overtaken
\* (POST .../devices: the INSERT ... SELECT asks again for room).
THEOREM CreationsTakeEffect == DevicesSpec => CreatedUnlessOvertaken
  <1>1. ASSUME DevicesInv, NEW h \in Requests, NEW mode \in Modes,
               CreateUserDevice(h, mode), ~request[h].overtaken
        PROVE  request[h].device \in DOMAIN devices'
    <2>1. HasRoom
      BY <1>1, RequestTypes DEF DevicesInv, CreateUserDevice, CreationFits
    <2> QED BY <1>1, <2>1 DEF CreateUserDevice
  <1>2. DevicesInv /\ [DevicesNext]_devicesVars =>
          [\A h \in Requests, mode \in Modes :
             CreateUserDevice(h, mode) /\ ~request[h].overtaken =>
               request[h].device \in DOMAIN devices']_devicesVars
    BY <1>1
  <1> QED BY <1>2, DevicesInvHolds, PTL DEF DevicesSpec, CreatedUnlessOvertaken
=============================================================================
