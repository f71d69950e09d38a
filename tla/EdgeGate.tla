------------------------------- MODULE EdgeGate -------------------------------
(***************************************************************************)
(* The admission gate of the edge nodes for one account: requireAdmission  *)
(* and maybeRenewAdmission of packages/edge-node/build/opus8-prelude.js,   *)
(* with what admitConnection of packages/control-plane/src/usage.ts does   *)
(* for them (module Admission has all of it).                              *)
(*                                                                         *)
(* An edge asks the control plane for every new session and, while data    *)
(* flows, every two minutes.  It remembers a grant for a short time, so    *)
(* that another session of the same address skips the check, and it lets   *)
(* a session go on when the control plane gives no answer.  What the two   *)
(* sides believe may thus differ; the properties bound for how long.       *)
(***************************************************************************)
EXTENDS Integers, FiniteSets

CONSTANTS Sessions,   \* connections that may exist at once, on all edges
          Isolates,   \* edge processes: each has a cache of its own
          Addresses,  \* HMAC fingerprints of client addresses
          None,
          Limit,      \* the account's device_limit
          LeaseTtl,   \* LEASE_TTL_MS: 300 s
          CacheLife,  \* a remembered grant: 45 s
          Renew,      \* age at which an admission is due again: 120 s
          CheckLimit, \* longest a check takes (the code sets no timeout)
          MaxTime,    \* bound on the clock, in ticks
          MaxChanges  \* bound on changes of the account and its leases

ASSUME EdgeGateAssumption ==
    /\ IsFiniteSet(Sessions) /\ IsFiniteSet(Addresses)
    /\ {Limit, LeaseTtl, CacheLife, Renew, CheckLimit, MaxTime, MaxChanges} \subseteq Nat
    /\ 0 < CacheLife
    /\ 2 * CheckLimit + CacheLife + Renew <= LeaseTtl
    /\ None \notin Int

VARIABLES clock,
          account,   \* "open", "over" a quota, or "gone" (disabled or expired)
          lease,     \* active_leases: when each address's lease ends
          cache,     \* admissionCache of each isolate, by address
          session,   \* the runtime of each session
          changes,   \* changes made
          since,     \* ghost: when account last changed
          clearedAt  \* ghost: when an administrator last cleared the leases

vars == <<clock, account, lease, cache, session, changes, since, clearedAt>>

Time == 0..MaxTime
Larger(a, b) == IF a < b THEN b ELSE a

\* A grant an isolate remembers: until when, and (ghost) the now of the grant.
Entry == [until : Int, granted : Int]
Forgotten == [until |-> -1, granted |-> -1]

\* check: where admissionPromise is; last: lastAdmission.  Ghosts: granted, the
\* now of the grant the last admission rests on (None: no answer); overdue, the
\* first data event since the admission was due.
Session == [at : {"closed", "new", "live"}, isolate : Isolates, address : Addresses,
            check : {"none", "hash", "asked", "granted", "denied"},
            began : Int, last : Int, answer : Int,
            granted : Int \cup {None}, overdue : Int \cup {None}]

Closed(isolate, address) ==
    [at |-> "closed", isolate |-> isolate, address |-> address, check |-> "none",
     began |-> -1, last |-> -1, answer |-> -1,
     granted |-> None, overdue |-> None]

Init ==
    /\ clock = 0 /\ account = "open" /\ changes = 0 /\ since = -1 /\ clearedAt = -1
    /\ lease = [a \in Addresses |-> -1]
    /\ cache = [i \in Isolates |-> [a \in Addresses |-> Forgotten]]
    /\ \E i \in Isolates, a \in Addresses : session = [s \in Sessions |-> Closed(i, a)]

----------------------------------------------------------------------------
\* How a check ends for its session: finally clears admissionPromise.
Ended(r) == [r EXCEPT !.check = "none", !.began = -1, !.answer = -1]

\* A session that was closed meanwhile stays closed.
Admitted(r, granted) ==
    IF r.at = "closed" THEN Closed(r.isolate, r.address)
    ELSE [Ended(r) EXCEPT !.at = "live", !.last = clock,
                          !.granted = granted, !.overdue = None]

\* A first check that throws makes the core drop the connection, a renewal
\* that throws closes the socket.
Rejected(r) == Closed(r.isolate, r.address)

\* mutant: the key leaves the address out.
RememberedForAnyAddress(r) ==
    LET of == cache[r.isolate]
        best == CHOOSE a \in Addresses : \A b \in Addresses : of[b].until <= of[a].until
    IN of[best]

\* The remembered grant a check asks for.
Remembered(r) == cache[r.isolate][r.address]

\* mutant: Math.min left out.
RememberForTheLease(granted) == [until |-> clock + LeaseTtl, granted |-> granted]

\* The control plane tells the lease's whole life; the edge uses less of it.
Remember(granted) == [until |-> clock + CacheLife, granted |-> granted]

Due(r) == clock >= r.last + Renew
Asking(s) == session[s].check # "none"

\* A check begins with the await of ipHash; a forced one asks whatever is
\* remembered, so its await is not told apart.
Begin(r, step) == [r EXCEPT !.check = step, !.began = clock]

----------------------------------------------------------------------------
\* A client connects and its first data reaches forwardataTCP.  On a stream
\* transport noteUplink has already begun the check, and begun it forced.
Open(s) ==
    /\ session[s].at = "closed" /\ ~Asking(s)
    /\ \E i \in Isolates, a \in Addresses, step \in {"hash", "asked"} :
         session' = [session EXCEPT ![s] = Begin([Closed(i, a) EXCEPT !.at = "new"], step)]
    /\ UNCHANGED <<clock, account, lease, cache, changes, since, clearedAt>>

\* ipHash has been computed: a remembered grant admits, unless the session's own count says the quota is used up.
UseRemembered(s) ==
    LET r == session[s] IN
    /\ r.check = "hash" /\ Remembered(r).until > clock
    /\ \/ session' = [session EXCEPT ![s] = Admitted(r, Remembered(r).granted)]
       \/ session' = [session EXCEPT ![s] = Rejected(r)]
    /\ UNCHANGED <<clock, account, lease, cache, changes, since, clearedAt>>

Ask(s) ==
    LET r == session[s] IN
    /\ r.check = "hash" /\ Remembered(r).until <= clock
    /\ session' = [session EXCEPT ![s].check = "asked"]
    /\ UNCHANGED <<clock, account, lease, cache, changes, since, clearedAt>>

\* The lease rows the batch counts, at the now its handler read.
Live(now) == {a \in Addresses : lease[a] > now}
HasRoom(a, now) == a \in Live(now) \/ Cardinality(Live(now)) < Limit

\* admitConnection: one batch, at a now its handler read before the owner was
\* resolved.  The daily limit may refuse an address that holds no lease.  The
\* owner of a gone account is not resolved: that request ends in NoAnswer.
AdmitConnection(s) ==
    LET r == session[s] IN
    /\ r.check = "asked" /\ account # "gone"
    /\ \E now \in r.began..clock :
         LET kept == [a \in Addresses |-> IF lease[a] <= now THEN -1 ELSE lease[a]] IN
         \/ /\ account = "open" /\ HasRoom(r.address, now)
            /\ lease' = [kept EXCEPT ![r.address] = Larger(@, now + LeaseTtl)]
            /\ session' = [session EXCEPT ![s].check = "granted", ![s].answer = now]
         \/ /\ account = "over" \/ r.address \notin Live(now)
            /\ lease' = kept
            /\ session' = [session EXCEPT ![s].check = "denied"]
    /\ UNCHANGED <<clock, account, cache, changes, since, clearedAt>>

\* fetch throws, or the answer is not 200: the request or the answer was lost,
\* the control plane failed, or it does not know the credential any more.
NoAnswer(s) ==
    /\ session[s].check \in {"asked", "granted", "denied"}
    /\ session' = [session EXCEPT ![s] = Admitted(session[s], None)]
    /\ UNCHANGED <<clock, account, lease, cache, changes, since, clearedAt>>

\* The answer lets the session in; the grant is remembered for others, also
\* when this session was closed meanwhile.
TakeGrant(s) ==
    LET r == session[s] IN
    /\ r.check = "granted"
    /\ session' = [session EXCEPT ![s] = Admitted(r, r.answer)]
    /\ cache' = [cache EXCEPT ![r.isolate][r.address] = Remember(r.answer)]
    /\ UNCHANGED <<clock, account, lease, changes, since, clearedAt>>

\* The check throws: the answer is a refusal, its body is cut off, or the
\* session's own count with the answer's figures says the quota is used up.
TakeRefusal(s) ==
    /\ session[s].check \in {"granted", "denied"}
    /\ session' = [session EXCEPT ![s] = Rejected(session[s])]
    /\ UNCHANGED <<clock, account, lease, cache, changes, since, clearedAt>>

\* A data event of a live session.  It passes, and begins a forced check when
\* the admission is due and no check is under way.
Carry(s) ==
    LET r == session[s] IN
    /\ r.at = "live" /\ Due(r)
    /\ session' = [session EXCEPT ![s] =
         [(IF Asking(s) THEN r ELSE Begin(r, "asked")) EXCEPT
            !.overdue = IF r.overdue = None THEN clock ELSE @]]
    /\ UNCHANGED <<clock, account, lease, cache, changes, since, clearedAt>>

\* The client leaves, or the session's own count reaches the quota.  A check
\* under way goes on.
Close(s) ==
    /\ session[s].at # "closed"
    /\ session' = [session EXCEPT ![s] =
         IF Asking(s) THEN [@ EXCEPT !.at = "closed"] ELSE Closed(@.isolate, @.address)]
    /\ UNCHANGED <<clock, account, lease, cache, changes, since, clearedAt>>

\* More than 512 entries: the next grant clears the cache first.
ForgetGrants(i) ==
    /\ cache' = [cache EXCEPT ![i] = [a \in Addresses |-> Forgotten]]
    /\ cache' # cache
    /\ UNCHANGED <<clock, account, lease, session, changes, since, clearedAt>>

----------------------------------------------------------------------------
\* Usage, administrators and time change what the control plane answers.
ChangeAccount ==
    /\ changes < MaxChanges /\ changes' = changes + 1
    /\ account' \in {"open", "over", "gone"} \ {account}
    /\ since' = clock
    /\ UNCHANGED <<clock, lease, cache, session, clearedAt>>

ClearLeases ==
    /\ changes < MaxChanges /\ changes' = changes + 1
    /\ lease' = [a \in Addresses |-> -1] /\ clearedAt' = clock
    /\ UNCHANGED <<clock, account, cache, session, since>>

\* Grants whose time is up are never used again, so they are forgotten here.
Tick ==
    /\ clock < MaxTime /\ clock' = clock + 1
    /\ \A s \in Sessions : Asking(s) => clock < session[s].began + CheckLimit
    /\ cache' = [i \in Isolates |-> [a \in Addresses |->
         IF cache[i][a].until <= clock' THEN Forgotten ELSE cache[i][a]]]
    /\ UNCHANGED <<account, lease, session, changes, since, clearedAt>>

Next ==
    \/ \E s \in Sessions :
         \/ Open(s) \/ UseRemembered(s) \/ Ask(s) \/ AdmitConnection(s) \/ NoAnswer(s)
         \/ TakeGrant(s) \/ TakeRefusal(s) \/ Carry(s) \/ Close(s)
    \/ \E i \in Isolates : ForgetGrants(i)
    \/ ChangeAccount \/ ClearLeases \/ Tick

Spec == Init /\ [][Next]_vars

----------------------------------------------------------------------------
\* Every variable has its type.
TypeOK ==
    /\ clock \in Time /\ account \in {"open", "over", "gone"} /\ changes \in 0..MaxChanges
    /\ lease \in [Addresses -> -1..(MaxTime + LeaseTtl)]
    /\ DOMAIN cache = Isolates
    /\ \A i \in Isolates : DOMAIN cache[i] = Addresses
                           /\ \A a \in Addresses : cache[i][a] \in Entry
    /\ DOMAIN session = Sessions /\ \A s \in Sessions :
         /\ session[s] \in Session
         /\ Asking(s) => session[s].began \in (clock - CheckLimit)..clock
         /\ session[s].at = "live" => session[s].last \in Time
    /\ since \in Time \cup {-1} /\ clearedAt \in Time \cup {-1}

\* Does the session rest on a grant the control plane still stands by?
Confirmed(s) ==
    /\ session[s].at = "live"
    /\ session[s].granted # None /\ session[s].granted > clearedAt

\* Across all edges, the sessions that an answer has let in, and whose renewal
\* is not later than a check takes, come from no more addresses than the limit
\* allows: an address that lost its lease has lost its sessions by then,
\* although grants are remembered and batches commit with an old now.
LimitHoldsAtEdges ==
    Cardinality({session[s].address : s \in
        {s \in Sessions : Confirmed(s) /\ clock <= session[s].last + Renew + CheckLimit}})
    <= Limit

\* While an isolate lets an address in without asking, the control plane holds
\* a lease that outlives the remembered grant, unless leases were cleared.
RememberedIsLeased ==
    \A i \in Isolates, a \in Addresses :
        LET e == cache[i][a] IN
        (e.until > clock /\ e.granted > clearedAt) => lease[a] >= e.until

\* Once the account is over its quota, an admission that rests on a grant is
\* soon impossible on every edge: only a missing answer still admits.
RefusalIsFelt ==
    account = "over" =>
        \A s \in Sessions : (session[s].at = "live" /\ session[s].granted # None) =>
            session[s].last <= since + CheckLimit + CacheLife

\* A session that goes on carrying data after its admission was due has been
\* renewed, let go on without an answer, or closed as soon as a check takes.
OverdueSessionsEnd ==
    \A s \in Sessions :
        (session[s].at = "live" /\ session[s].overdue # None) =>
            clock <= session[s].overdue + CheckLimit

\* A refusal reaches the sessions that are connected: grants that are
\* remembered and admissions that are due run out in the time of a check, and
\* then only a missing answer admits (prelude:930-1010).
RefusalTakesEffect == RefusalIsFelt /\ OverdueSessionsEnd
=============================================================================
