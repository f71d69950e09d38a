---------------------------- MODULE AdminRequests ----------------------------
(***************************************************************************)
(* Who may change the deployment through the control plane, and what is    *)
(* recorded of it (packages/control-plane/src: automation-auth.ts,         *)
(* admin-audit.ts, key-rotation.ts and the endpoints of index.ts that both *)
(* kinds of caller use; infra/scripts/control-automation-request.mjs and   *)
(* deploy-control.sh; packages/admin-ui/src/api.ts).                       *)
(*                                                                         *)
(* A change is asked for by the administrator's page with a JWT, or by a   *)
(* deployment job with a signature over a timestamp and a request id that  *)
(* is good once.  Handlers are split at their awaits, so copies of one     *)
(* request overlap with each other and with the six-hourly maintenance.    *)
(* Hashing and signing are abstracted to what they identify: a request     *)
(* stands for its id, method, target and body, a token for its key and     *)
(* expiry; identity and automation secret are taken to be configured.      *)
(***************************************************************************)
EXTENDS Integers, FiniteSets

CONSTANTS Requests,    \* ids of the requests for a change
          Handlers,    \* invocations of the Worker that may run at once
          OldKey, NewKey,  \* JWT_SECRET before and after its rotation
          None,
          Window,      \* AUTOMATION_SIGNATURE_WINDOW_MS
          Skew,        \* how far a job's clock may be off
          Ttl,         \* life of a token
          Retention,   \* life of an audit entry
          MaxCopies,   \* bound: how often a request arrives
          MaxTime      \* bound: the last value of the clock

ASSUME AdminRequestsAssumption ==
    /\ {Window, Skew, Ttl, Retention, MaxCopies, MaxTime} \subseteq Nat
    /\ OldKey # NewKey /\ None \notin {OldKey, NewKey} /\ None \notin Int

VARIABLES clock,       \* Date.now() of the control plane
          bound,       \* JWT_SECRET and JWT_SECRET_PREVIOUS as deployed
          live,        \* the bindings some isolate still runs with
          rotatedAt,   \* when every isolate had the new JWT_SECRET
          login,       \* the JWT_SECRET of the login under way
          session,     \* the token in the page's sessionStorage
          request,     \* what each request carries
          copies,      \* how often it arrived
          handler,     \* where each invocation is
          nonce,       \* automation_request_nonces: request id -> expires_at
          audit,       \* rows of admin_audit_log
          maintenance, \* the now of the maintenance under way
          claims,      \* ghost: how often each request was claimed
          performed,   \* ghost: changes made, by the credential that allowed them
          unaudited,   \* ghost: changes without an entry, and why
          overtaken    \* ghost: requests purged while a copy of them was past its check

vars == <<clock, bound, live, rotatedAt, login, session, request, copies, handler, nonce,
          audit, maintenance, claims, performed, unaudited, overtaken>>
rotation == <<bound, live, rotatedAt>>
page == <<login, session>>
ghosts == <<claims, performed, unaudited, overtaken>>

Unsent == [signedAt |-> None, token |-> None]
Idle == [at |-> "idle", of |-> None, verified |-> FALSE, keys |-> {},
         admin |-> FALSE, nr |-> 0]

Init ==
    /\ clock = Skew
    /\ bound = [current |-> OldKey, previous |-> None]
    /\ live = {bound} /\ rotatedAt = None
    /\ login = None /\ session = None
    /\ request = [r \in Requests |-> Unsent]
    /\ copies = [r \in Requests |-> 0]
    /\ handler = [h \in Handlers |-> Idle]
    /\ nonce = [r \in Requests |-> None]
    /\ audit = {}
    /\ maintenance = None
    /\ claims = [r \in Requests |-> 0]
    /\ performed = {} /\ unaudited = {} /\ overtaken = {}

----------------------------------------------------------------------------
(* Credentials *)

\* secretCandidates: both bindings of an isolate verify.
KeysOf(bindings) == {bindings.current, bindings.previous} \ {None}

ValidToken(token, keys) ==
    /\ token # None
    /\ token.key \in keys
    /\ token.exp >= clock

Fresh(r) ==
    /\ request[r].signedAt # None
    /\ clock - request[r].signedAt \in -Window..Window

\* Mutant of Expiry: the window is counted from the claim.
ExpiryFromClaim(r) == clock + Window

Expiry(r) == request[r].signedAt + Window

By(admin) == IF admin THEN "password-jwt" ELSE "automation-hmac"

----------------------------------------------------------------------------
(* The callers *)

\* POST /api/admin/login keeps the JWT_SECRET its isolate has while it awaits the
\* rate limit and the body.
StartLogin ==
    /\ login = None
    /\ \E bindings \in live : login' = bindings.current
    /\ UNCHANGED <<clock, rotation, session, request, copies, handler, nonce, audit,
                   maintenance, ghosts>>

\* jwtSign.  A stray token (ghost) is signed with a secret that no isolate
\* signs with any longer.
SignToken ==
    /\ login # None
    /\ session' = [key |-> login, exp |-> clock + Ttl,
                   stray |-> \A bindings \in live : bindings.current # login]
    /\ login' = None
    /\ UNCHANGED <<clock, rotation, request, copies, handler, nonce, audit,
                   maintenance, ghosts>>

\* A 429, a wrong password, an answer that is lost.
LoginFails ==
    /\ login # None
    /\ login' = None
    /\ UNCHANGED <<clock, rotation, session, request, copies, handler, nonce, audit,
                   maintenance, ghosts>>

\* The logout button, or a 401 on any of the page's calls, whenever it arrives.
ClearAuth ==
    /\ session # None
    /\ session' = None
    /\ UNCHANGED <<clock, rotation, login, request, copies, handler, nonce, audit,
                   maintenance, ghosts>>

\* The job signs with its own clock.  No caller of the repository sends both
\* credentials; the handlers provide for it.
Send(r) ==
    /\ request[r] = Unsent
    /\ \E signedAt \in {None} \cup (clock - Skew)..(clock + Skew),
          token \in {None, session} :
           /\ signedAt # None \/ token # None
           /\ request' = [request EXCEPT ![r] = [signedAt |-> signedAt, token |-> token]]
    /\ UNCHANGED <<clock, rotation, page, copies, handler, nonce, audit,
                   maintenance, ghosts>>

----------------------------------------------------------------------------
(* POST and DELETE /api/node-enrollments, DELETE .../credential/previous *)

\* verifyAutomationRequest reads the clock before it awaits the hashes.  The
\* invocation keeps the secrets of its isolate.
Arrive(h, r) ==
    /\ handler[h].at = "idle"
    /\ request[r] # Unsent /\ copies[r] < MaxCopies
    /\ copies' = [copies EXCEPT ![r] = @ + 1]
    /\ \E bindings \in live :
           handler' = [handler EXCEPT ![h] =
               [Idle EXCEPT !.at = "authorize", !.of = r, !.verified = Fresh(r),
                            !.keys = KeysOf(bindings)]]
    /\ UNCHANGED <<clock, rotation, page, request, nonce, audit, maintenance, ghosts>>

MayClaim(h) == handler[h].verified

\* requireAdmin; a request that the JWT does not cover must claim its id.
Authorize(h) ==
    LET admin == ValidToken(request[handler[h].of].token, handler[h].keys)
    IN  /\ handler[h].at = "authorize"
        /\ handler' = [handler EXCEPT ![h] =
               IF admin THEN [@ EXCEPT !.at = "work", !.admin = TRUE]
               ELSE IF MayClaim(h) THEN [@ EXCEPT !.at = "claim"]
               ELSE Idle]
        /\ UNCHANGED <<clock, rotation, page, request, copies, nonce, audit,
                       maintenance, ghosts>>

\* Mutant of Claimable: the number of changed rows is not looked at.
ClaimableAgain(r) == TRUE

\* claimAutomationRequest: INSERT OR IGNORE, and one changed row or a 401.
Claimable(r) == nonce[r] = None

Claim(h) ==
    LET r == handler[h].of
    IN  /\ handler[h].at = "claim"
        /\ IF Claimable(r)
           THEN /\ nonce' = [nonce EXCEPT ![r] = IF @ = None THEN Expiry(r) ELSE @]
                /\ claims' = [claims EXCEPT ![r] = @ + 1]
                /\ handler' = [handler EXCEPT ![h].at = "work"]
           ELSE /\ handler' = [handler EXCEPT ![h] = Idle]
                /\ UNCHANGED <<nonce, claims>>
        /\ UNCHANGED <<clock, rotation, page, request, copies, audit, maintenance,
                       performed, unaudited, overtaken>>

Changes(r) == {c \in performed : c.of = r}

\* Mutant of Scheduled: only the entry that every answer schedules.
ScheduledWithAnswer(h) == "reauthenticate"

\* An automation entry is scheduled with the answer; an administrator's answer
\* first authenticates its token again.
Scheduled(h) == IF handler[h].admin THEN "reauthenticate" ELSE "audit"

\* The change itself (its statements are in NodeEnrollment and the other modules),
\* or the 4xx and 5xx that end the request without one.
Perform(h) ==
    LET r == handler[h].of
        nr == Cardinality(Changes(r)) + 1
    IN  /\ handler[h].at = "work"
        /\ performed' = performed \cup
               {[of |-> r, nr |-> nr, by |-> By(handler[h].admin)]}
        /\ handler' = [handler EXCEPT ![h].at = Scheduled(h), ![h].nr = nr]
        /\ UNCHANGED <<clock, rotation, page, request, copies, nonce, audit,
                       maintenance, claims, unaudited, overtaken>>

Refuse(h) ==
    /\ handler[h].at = "work"
    /\ handler' = [handler EXCEPT ![h] = Idle]
    /\ UNCHANGED <<clock, rotation, page, request, copies, nonce, audit,
                   maintenance, ghosts>>

----------------------------------------------------------------------------
(* The audit log, written after the answer (ctx.waitUntil) *)

Change(h) == [of |-> handler[h].of, nr |-> handler[h].nr, by |-> By(handler[h].admin)]

Unwritten(h, why) ==
    /\ unaudited' = unaudited \cup {[change |-> Change(h), why |-> why]}
    /\ handler' = [handler EXCEPT ![h] = Idle]

Reauthenticate(h) ==
    /\ handler[h].at = "reauthenticate"
    /\ IF ValidToken(request[handler[h].of].token, handler[h].keys)
       THEN /\ handler' = [handler EXCEPT ![h].at = "audit"]
            /\ UNCHANGED unaudited
       ELSE Unwritten(h, "expired")
    /\ UNCHANGED <<clock, rotation, page, request, copies, nonce, audit,
                   maintenance, claims, performed, overtaken>>

Entry(h) == [change |-> Change(h), createdAt |-> clock]

RecordAudit(h) ==
    /\ handler[h].at = "audit"
    /\ audit' = audit \cup {Entry(h)}
    /\ handler' = [handler EXCEPT ![h] = Idle]
    /\ UNCHANGED <<clock, rotation, page, request, copies, nonce, maintenance, ghosts>>

\* The INSERT fails, or the invocation ends before it.
AuditLost(h) ==
    /\ handler[h].at \in {"reauthenticate", "audit"}
    /\ Unwritten(h, "lost")
    /\ UNCHANGED <<clock, rotation, page, request, copies, nonce, audit,
                   maintenance, claims, performed, overtaken>>

\* The invocation ends before it made the change.
Die(h) ==
    /\ handler[h].at \in {"authorize", "claim"}
    /\ handler' = [handler EXCEPT ![h] = Idle]
    /\ UNCHANGED <<clock, rotation, page, request, copies, nonce, audit,
                   maintenance, ghosts>>

----------------------------------------------------------------------------
(* runDataMaintenance: now is read first, the batch runs later *)

StartMaintenance ==
    /\ maintenance = None
    /\ maintenance' = clock
    /\ UNCHANGED <<clock, rotation, page, request, copies, handler, nonce, audit, ghosts>>

Spent(r) == nonce[r] # None /\ nonce[r] < maintenance

PastCheck(r) == \E h \in Handlers :
    /\ handler[h].of = r /\ handler[h].verified
    /\ handler[h].at \in {"authorize", "claim"}

RunMaintenance ==
    /\ maintenance # None
    /\ maintenance' = None
    /\ nonce' = [r \in Requests |-> IF Spent(r) THEN None ELSE nonce[r]]
    /\ audit' = {e \in audit : e.createdAt >= maintenance - Retention}
    /\ overtaken' = overtaken \cup {r \in Requests : Spent(r) /\ PastCheck(r)}
    /\ unaudited' = unaudited \cup
           {[change |-> e.change, why |-> "old"] :
               e \in {a \in audit : clock - a.createdAt > Retention}}
    /\ UNCHANGED <<clock, rotation, page, request, copies, handler, claims, performed>>

----------------------------------------------------------------------------
(* deploy-control.sh puts the fallback binding first.  Isolates come to run *)
(* with what was put one after the other; the operator retires the fallback *)
(* when the longest life of a token has passed since they all do (P6.9:90). *)

Put(bindings) ==
    /\ bound' = bindings
    /\ live' = live \cup {bindings}
    /\ UNCHANGED <<clock, rotatedAt, page, request, copies, handler, nonce, audit,
                   maintenance, ghosts>>

\* Mutant of PutPrevious: the new key is put with no fallback.
PutCurrentFirst ==
    /\ bound = [current |-> OldKey, previous |-> None]
    /\ Put([bound EXCEPT !.current = NewKey])

PutPrevious ==
    /\ bound = [current |-> OldKey, previous |-> None]
    /\ Put([bound EXCEPT !.previous = OldKey])

PutCurrent ==
    /\ bound = [current |-> OldKey, previous |-> OldKey]
    /\ Put([bound EXCEPT !.current = NewKey])

\* Every isolate runs with the bindings that were put last.
Deployed ==
    /\ live # {bound}
    /\ live' = {bound}
    /\ rotatedAt' = IF bound.current = NewKey /\ rotatedAt = None THEN clock ELSE rotatedAt
    /\ UNCHANGED <<clock, bound, page, request, copies, handler, nonce, audit,
                   maintenance, ghosts>>

RetirePrevious ==
    /\ bound = [current |-> NewKey, previous |-> OldKey]
    /\ rotatedAt # None /\ clock > rotatedAt + Ttl
    /\ Put([bound EXCEPT !.previous = None])

Tick ==
    /\ clock < MaxTime
    /\ clock' = clock + 1
    /\ UNCHANGED <<rotation, page, request, copies, handler, nonce, audit,
                   maintenance, ghosts>>

Next ==
    \/ StartLogin \/ SignToken \/ LoginFails \/ ClearAuth \/ Tick
    \/ PutPrevious \/ PutCurrent \/ Deployed \/ RetirePrevious
    \/ StartMaintenance \/ RunMaintenance
    \/ \E r \in Requests : Send(r)
    \/ \E h \in Handlers :
           \/ \E r \in Requests : Arrive(h, r)
           \/ Authorize(h) \/ Claim(h) \/ Perform(h) \/ Refuse(h)
           \/ Reauthenticate(h) \/ RecordAudit(h) \/ AuditLost(h) \/ Die(h)

Spec == Init /\ [][Next]_vars

----------------------------------------------------------------------------
(* Properties *)

Keys == {OldKey, NewKey}
Bindings == [current : Keys, previous : {OldKey, None}]
Token == [key : Keys, exp : Int, stray : BOOLEAN]
Credentials == [signedAt : Int \cup {None}, token : Token \cup {None}]
Places == {"idle", "authorize", "claim", "work", "reauthenticate", "audit"}
Invocation == [at : Places,
               of : Requests \cup {None}, verified : BOOLEAN, keys : SUBSET Keys,
               admin : BOOLEAN, nr : Nat]
Done == [of : Requests, nr : Nat, by : {"password-jwt", "automation-hmac"}]

\* Rows, tokens and invocations keep their shape; an invocation past its start
\* serves a request, and maintenance never works from a later now than the clock.
TypeOK ==
  /\ clock \in Int
  /\ live \subseteq Bindings /\ bound \in live
  /\ rotatedAt \in Int \cup {None}
  /\ login \in Keys \cup {None}
  /\ session \in Token \cup {None}
  /\ request \in [Requests -> Credentials]
  /\ handler \in [Handlers -> Invocation]
  /\ \A h \in Handlers : handler[h].at # "idle" => handler[h].of \in Requests
  /\ nonce = [r \in Requests |-> nonce[r]]
  /\ audit \subseteq [change : Done, createdAt : Int]
  /\ maintenance \in Int \cup {None}
  /\ maintenance # None => maintenance <= clock
  /\ claims \in [Requests -> Nat]
  /\ performed \subseteq Done /\ IsFiniteSet(performed)

\* A signed request is carried out at most once, however many copies of it
\* arrive and whatever maintenance purges, unless a copy had passed the window
\* check before the window closed and maintenance removed the row before that
\* copy came to its own INSERT (claimAutomationRequest against
\* DELETE FROM automation_request_nonces).
SignedOnce == \A r \in Requests \ overtaken :
    /\ claims[r] <= 1
    /\ \A c, d \in Changes(r) : {c.by, d.by} = {"automation-hmac"} => c = d

\* While a request's signature is still accepted, its nonce is still stored:
\* the row lives by the signature's clock, which may be ahead of the one the
\* row is written with (expires_at, automation-auth.ts).
NonceOutlivesSignature == \A r \in Requests :
    claims[r] > 0 /\ Fresh(r) => nonce[r] # None

\* The log tells exactly what was done.  No change has two entries, and no
\* request that changed nothing has one (scheduleAutomationAudit,
\* scheduleJwtMutationAudit).  A change whose entry is not on its way has it, by
\* the credential that allowed the change, with three exceptions: the INSERT
\* failed or the invocation ended before it; the entry is past its retention; or
\* the JWT alone allowed the change and expired before the second authentication
\* read it (index.ts:194).  A signature never loses its entry to the last.
AuditIsExact ==
    /\ \A e, f \in audit : e.change = f.change => e = f
    /\ \A e \in audit : e.change \in performed
    /\ \A u \in unaudited : u.why = "expired" =>
           /\ u.change.by = "password-jwt" /\ request[u.change.of].token.exp < clock
           /\ \A e \in audit : e.change # u.change
    /\ \A c \in performed :
           \/ \E e \in audit : e.change = c
           \/ \E u \in unaudited : u.change = c
           \/ \E h \in Handlers : handler[h].at \in {"reauthenticate", "audit"} /\ Change(h) = c

\* Rotating JWT_SECRET ends no session early: an unexpired token, in the page or
\* on its way, verifies at every isolate, unless the isolate has not yet been
\* given the key it was signed with (put_previous_secret before put_secret;
\* verifyJwtWithRotation).  Left out is a token that a login begun before the
\* last isolate had the new key signs after it.
RotationKeepsSessions ==
    \A token \in {session} \cup {request[r].token : r \in Requests} :
        token # None /\ token.exp >= clock /\ ~token.stray =>
            \A bindings \in live :
                \/ token.key \in KeysOf(bindings)
                \/ bindings # bound /\ NewKey \notin KeysOf(bindings) /\ token.key = NewKey
=============================================================================
