------------------------ MODULE AdminRequests_proofs ------------------------
(***************************************************************************)
(* Proofs about AdminRequests, for any requests, invocations, windows,     *)
(* lives and bounds.  TypeOK, the sets the variables belong to, is an      *)
(* invariant of its own; on it rest SessionsFit (the rotation of the JWT   *)
(* key), NoncesFit (the signatures), LogFits and, with Admitted,           *)
(* ExpiryFits (the audit log), each preserved by every step.               *)
(***************************************************************************)
EXTENDS AdminRequests, FiniteSetTheorems, TLAPS

LEMMA ChangesFinite ==
  ASSUME TypeOK, NEW r
  PROVE  IsFiniteSet(Changes(r)) /\ Cardinality(Changes(r)) \in Nat
  <1>1. Changes(r) \subseteq performed BY DEF Changes
  <1>2. IsFiniteSet(Changes(r)) BY <1>1, FS_Subset DEF TypeOK
  <1> QED BY <1>2, FS_CardinalityType

LEMMA InitType == Init => TypeOK
  <1> SUFFICES ASSUME Init PROVE TypeOK OBVIOUS
  <1>1. IsFiniteSet(performed) BY FS_EmptySet DEF Init
  <1>2. handler \in [Handlers -> Invocation]
    BY DEF Init, Idle, Invocation, Places
  <1>3. /\ clock \in Int
        /\ live \subseteq Bindings /\ bound \in live /\ rotatedAt \in Int \cup {None}
        /\ login \in Keys \cup {None} /\ session \in Token \cup {None}
        /\ nonce = [r \in Requests |-> nonce[r]]
        /\ claims \in [Requests -> Nat]
        /\ maintenance = None /\ audit = {} /\ performed = {}
    BY AdminRequestsAssumption DEF Init, Keys, Bindings
  <1>4. request \in [Requests -> Credentials]
    BY DEF Init, Unsent, Credentials
  <1>5. \A h \in Handlers : handler[h].at = "idle"
    BY DEF Init, Idle
  <1> QED BY <1>1, <1>2, <1>3, <1>4, <1>5 DEF TypeOK

\* A step that leaves all but one invocation alone.
LEMMA InvocationMoves ==
  ASSUME TypeOK, NEW h \in Handlers, NEW i \in Invocation,
         i.at # "idle" => i.of \in Requests,
         handler' = [handler EXCEPT ![h] = i]
  PROVE  /\ handler' \in [Handlers -> Invocation]
         /\ \A g \in Handlers : handler'[g].at # "idle" => handler'[g].of \in Requests
         /\ handler'[h] = i
         /\ \A g \in Handlers \ {h} : handler'[g] = handler[g]
  BY DEF TypeOK

LEMMA IdleInvocation == Idle \in Invocation /\ Idle.at = "idle" /\ ~Idle.verified
  BY DEF Idle, Invocation, Places

\* An invocation at its next place.
LEMMA Onward ==
  ASSUME TypeOK, NEW h \in Handlers, NEW at \in Places
  PROVE  LET i == [handler[h] EXCEPT !.at = at] IN
         /\ i \in Invocation /\ i.at = at /\ i.of = handler[h].of
         /\ i.verified = handler[h].verified /\ i.admin = handler[h].admin
         /\ i.nr = handler[h].nr
  BY DEF TypeOK, Invocation

\* Where an invocation is next, for the handlers that do more than end.
LEMMA AuthorizeMoves ==
  ASSUME TypeOK, NEW h \in Handlers, Authorize(h)
  PROVE  \E i \in Invocation :
           /\ handler' = [handler EXCEPT ![h] = i]
           /\ \/ i = Idle
              \/ /\ i.of = handler[h].of /\ i.verified = handler[h].verified
                 /\ \/ i.at = "work" /\ i.admin
                    \/ i.at = "claim" /\ i.verified
  <1> DEFINE admin == ValidToken(request[handler[h].of].token, handler[h].keys)
  <1>1. handler[h] \in Invocation
    BY DEF TypeOK
  <1>2. CASE admin
    <2> DEFINE i == [handler[h] EXCEPT !.at = "work", !.admin = TRUE]
    <2>1. handler' = [handler EXCEPT ![h] = i]
      BY <1>2 DEF Authorize
    <2>2. /\ i \in Invocation /\ i.of = handler[h].of /\ i.verified = handler[h].verified
          /\ i.at = "work" /\ i.admin
      BY <1>1 DEF Invocation, Places
    <2> HIDE DEF i
    <2> QED BY <2>1, <2>2
  <1>3. CASE ~admin /\ MayClaim(h)
    <2> DEFINE i == [handler[h] EXCEPT !.at = "claim"]
    <2>1. handler' = [handler EXCEPT ![h] = i]
      BY <1>3 DEF Authorize
    <2>2. /\ i \in Invocation /\ i.of = handler[h].of /\ i.verified = handler[h].verified
          /\ i.at = "claim" /\ i.verified
      BY <1>1, <1>3 DEF Invocation, Places, MayClaim
    <2> HIDE DEF i
    <2> QED BY <2>1, <2>2
  <1>4. CASE ~admin /\ ~MayClaim(h)
    BY <1>4, IdleInvocation DEF Authorize
  <1> QED BY <1>2, <1>3, <1>4

LEMMA ReauthenticateMoves ==
  ASSUME TypeOK, NEW h \in Handlers, Reauthenticate(h)
  PROVE  \/ handler' = [handler EXCEPT ![h] = [handler[h] EXCEPT !.at = "audit"]]
         \/ handler' = [handler EXCEPT ![h] = Idle]
  BY DEF Reauthenticate, Unwritten

LEMMA PerformMoves ==
  ASSUME TypeOK, NEW h \in Handlers, Perform(h)
  PROVE  LET nr == Cardinality(Changes(handler[h].of)) + 1 IN
         \E i \in Invocation :
           /\ handler' = [handler EXCEPT ![h] = i]
           /\ i.at \in {"reauthenticate", "audit"} /\ i.of = handler[h].of
           /\ i.verified = handler[h].verified /\ i.admin = handler[h].admin
           /\ i.nr = nr
  <1> DEFINE nr == Cardinality(Changes(handler[h].of)) + 1
             i == [handler[h] EXCEPT !.at = Scheduled(h), !.nr = nr]
  <1>1. handler[h] \in Invocation /\ nr \in Nat
    BY ChangesFinite DEF TypeOK
  <1>2. Scheduled(h) \in {"reauthenticate", "audit"}
    BY DEF Scheduled
  <1>3. handler' = [handler EXCEPT ![h] = i]
    BY DEF Perform
  <1> HIDE DEF nr
  <1>4. /\ i \in Invocation
        /\ i.at \in {"reauthenticate", "audit"} /\ i.of = handler[h].of
        /\ i.verified = handler[h].verified /\ i.admin = handler[h].admin
        /\ i.nr = nr
    BY <1>1, <1>2 DEF Invocation, Places
  <1> HIDE DEF i
  <1>5. \E j \in Invocation :
           /\ handler' = [handler EXCEPT ![h] = j]
           /\ j.at \in {"reauthenticate", "audit"} /\ j.of = handler[h].of
           /\ j.verified = handler[h].verified /\ j.admin = handler[h].admin
           /\ j.nr = nr
    BY <1>3, <1>4
  <1> QED BY <1>5 DEF nr

\* Steps that change one invocation and nothing another part of TypeOK speaks of.
LEMMA MovesKeepType ==
  ASSUME TypeOK, NEW h \in Handlers, NEW i \in Invocation,
         i.at # "idle" => i.of \in Requests,
         handler' = [handler EXCEPT ![h] = i],
         UNCHANGED <<clock, rotation, page, request, nonce, maintenance, claims,
                     audit, performed>>
  PROVE  TypeOK'
  BY InvocationMoves DEF TypeOK, rotation, page

LEMMA StepType ==
  ASSUME TypeOK, [Next]_vars
  PROVE  TypeOK'
  <1>1. CASE StartLogin \/ SignToken \/ LoginFails
    <2>1. CASE StartLogin
      <3>1. login' \in Keys
        BY <2>1 DEF StartLogin, TypeOK, Bindings
      <3> QED BY <2>1, <3>1 DEF StartLogin, TypeOK, rotation, ghosts
    <2>2. CASE SignToken
      <3> DEFINE stray == \A bindings \in live : bindings.current # login
      <3>1. session' = [key |-> login, exp |-> clock + Ttl, stray |-> stray]
        BY <2>2 DEF SignToken
      <3>2. login \in Keys /\ clock + Ttl \in Int /\ stray \in BOOLEAN
        BY <2>2, AdminRequestsAssumption DEF SignToken, TypeOK
      <3> HIDE DEF stray
      <3>3. session' \in Token
        BY <3>1, <3>2 DEF Token
      <3> QED BY <2>2, <3>3 DEF SignToken, TypeOK, rotation, ghosts
    <2>3. CASE LoginFails
      BY <2>3 DEF LoginFails, TypeOK, rotation, ghosts
    <2> QED BY <1>1, <2>1, <2>2, <2>3
  <1>2. CASE ClearAuth
    BY <1>2 DEF ClearAuth, TypeOK, rotation, ghosts
  <1>3. CASE Tick
    <2>1. clock' = clock + 1 /\ clock' \in Int
      BY <1>3 DEF Tick, TypeOK
    <2>2. maintenance' = maintenance /\ (maintenance # None => maintenance <= clock')
      BY <1>3, <2>1 DEF Tick, TypeOK
    <2> QED BY <1>3, <2>1, <2>2 DEF Tick, TypeOK, rotation, page, ghosts
  <1>4. CASE PutPrevious \/ PutCurrent \/ Deployed \/ RetirePrevious
    <2>1. bound \in Bindings
      BY DEF TypeOK
    <2>2. live' \subseteq Bindings /\ bound' \in live'
      BY <1>4, <2>1 DEF PutPrevious, PutCurrent, Deployed, RetirePrevious, Put, TypeOK,
                        Bindings, Keys
    <2>3. rotatedAt' \in Int \cup {None}
      BY <1>4 DEF PutPrevious, PutCurrent, Deployed, RetirePrevious, Put, TypeOK
    <2>4. UNCHANGED <<clock, page, request, handler, nonce, audit, maintenance, ghosts>>
      BY <1>4 DEF PutPrevious, PutCurrent, Deployed, RetirePrevious, Put
    <2> QED BY <2>2, <2>3, <2>4 DEF TypeOK, page, ghosts
  <1>5. CASE StartMaintenance
    BY <1>5 DEF StartMaintenance, TypeOK, rotation, page, ghosts
  <1>6. CASE RunMaintenance
    <2>1. nonce' = [r \in Requests |-> nonce'[r]]
      BY <1>6 DEF RunMaintenance, TypeOK
    <2>2. audit' \subseteq audit
      BY <1>6 DEF RunMaintenance
    <2> QED BY <1>6, <2>1, <2>2 DEF RunMaintenance, TypeOK, rotation, page
  <1>7. ASSUME NEW r \in Requests, Send(r) PROVE TypeOK'
    <2>1. PICK signedAt \in {None} \cup (clock - Skew)..(clock + Skew),
               token \in {None, session} :
               request' = [request EXCEPT ![r] = [signedAt |-> signedAt, token |-> token]]
      BY <1>7 DEF Send
    <2>2. signedAt \in Int \cup {None} /\ token \in Token \cup {None}
      BY <2>1, AdminRequestsAssumption DEF TypeOK
    <2>3. request' \in [Requests -> Credentials]
      BY <2>1, <2>2 DEF TypeOK, Credentials
    <2> QED BY <1>7, <2>3 DEF Send, TypeOK, rotation, page, ghosts
  <1>8. ASSUME NEW h \in Handlers, NEW r \in Requests, Arrive(h, r) PROVE TypeOK'
    <2> PICK bindings \in live :
               handler' = [handler EXCEPT ![h] =
                   [Idle EXCEPT !.at = "authorize", !.of = r, !.verified = Fresh(r),
                                !.keys = KeysOf(bindings)]]
      BY <1>8 DEF Arrive
    <2> DEFINE i == [Idle EXCEPT !.at = "authorize", !.of = r, !.verified = Fresh(r),
                                 !.keys = KeysOf(bindings)]
    <2>1. KeysOf(bindings) \in SUBSET Keys
      BY DEF KeysOf, TypeOK, Bindings, Keys
    <2>2. Fresh(r) \in BOOLEAN
      BY DEF Fresh
    <2>3. i \in Invocation /\ i.of = r
      BY <2>1, <2>2 DEF Idle, Invocation, Places
    <2>4. handler' = [handler EXCEPT ![h] = i]
      OBVIOUS
    <2> HIDE DEF i
    <2> QED BY <1>8, <2>3, <2>4, MovesKeepType DEF Arrive, ghosts
  <1>9. ASSUME NEW h \in Handlers, Authorize(h) PROVE TypeOK'
    <2>1. PICK i \in Invocation : /\ handler' = [handler EXCEPT ![h] = i]
                                  /\ i.at # "idle" => i.of \in Requests
      BY <1>9, AuthorizeMoves, IdleInvocation DEF Authorize, TypeOK
    <2> QED BY <1>9, <2>1, MovesKeepType DEF Authorize, ghosts
  <1>10. ASSUME NEW h \in Handlers, Claim(h) PROVE TypeOK'
    <2>1. handler[h] \in Invocation /\ handler[h].of \in Requests
      BY <1>10 DEF Claim, TypeOK
    <2>2. CASE ~Claimable(handler[h].of)
      BY <1>10, <2>2, IdleInvocation, MovesKeepType DEF Claim
    <2>3. CASE Claimable(handler[h].of)
      <3>1. handler' = [handler EXCEPT ![h] = [@ EXCEPT !.at = "work"]]
        BY <1>10, <2>3 DEF Claim
      <3>2. /\ handler' \in [Handlers -> Invocation]
            /\ \A g \in Handlers : handler'[g].at # "idle" => handler'[g].of \in Requests
        BY <2>1, <3>1, Onward, InvocationMoves DEF Places
      <3>3. claims' \in [Requests -> Nat]
        BY <1>10, <2>3, <2>1 DEF Claim, TypeOK
      <3>4. nonce' = [r \in Requests |-> nonce'[r]]
        BY <1>10, <2>3, <2>1 DEF Claim, TypeOK
      <3> QED BY <1>10, <3>2, <3>3, <3>4 DEF Claim, TypeOK, rotation, page
    <2> QED BY <2>2, <2>3
  <1>11. ASSUME NEW h \in Handlers, Refuse(h) \/ Die(h) \/ AuditLost(h) PROVE TypeOK'
    BY <1>11, IdleInvocation, MovesKeepType DEF Refuse, Die, AuditLost, Unwritten, ghosts
  <1>12. ASSUME NEW h \in Handlers, Reauthenticate(h) PROVE TypeOK'
    <2>1. handler[h] \in Invocation /\ handler[h].of \in Requests
      BY <1>12 DEF Reauthenticate, TypeOK
    <2>2. CASE handler' = [handler EXCEPT ![h] = [handler[h] EXCEPT !.at = "audit"]]
      BY <1>12, <2>1, <2>2, Onward, MovesKeepType DEF Reauthenticate, Places
    <2>3. CASE handler' = [handler EXCEPT ![h] = Idle]
      BY <1>12, <2>3, IdleInvocation, MovesKeepType DEF Reauthenticate
    <2> QED BY <1>12, <2>2, <2>3, ReauthenticateMoves
  <1>13. ASSUME NEW h \in Handlers, RecordAudit(h) PROVE TypeOK'
    <2>1. handler[h] \in Invocation /\ handler[h].of \in Requests
      BY <1>13 DEF RecordAudit, TypeOK
    <2>2. Change(h) \in Done
      BY <2>1 DEF Change, By, Done, Invocation
    <2>3. audit' \subseteq [change : Done, createdAt : Int]
      BY <1>13, <2>2 DEF RecordAudit, Entry, TypeOK
    <2>4. /\ handler' \in [Handlers -> Invocation]
          /\ \A g \in Handlers : handler'[g].at # "idle" => handler'[g].of \in Requests
      BY <1>13, IdleInvocation, InvocationMoves DEF RecordAudit
    <2> QED BY <1>13, <2>3, <2>4 DEF RecordAudit, TypeOK, rotation, page, ghosts
  <1>14. ASSUME NEW h \in Handlers, Perform(h) PROVE TypeOK'
    <2> DEFINE r == handler[h].of
               nr == Cardinality(Changes(r)) + 1
               c == [of |-> r, nr |-> nr, by |-> By(handler[h].admin)]
    <2>1. handler[h] \in Invocation /\ r \in Requests /\ nr \in Nat
      BY <1>14, ChangesFinite DEF Perform, TypeOK
    <2>2. c \in Done
      BY <2>1 DEF Done, By
    <2>3. performed' = performed \cup {c}
      BY <1>14 DEF Perform
    <2>4. performed' \subseteq Done /\ IsFiniteSet(performed')
      BY <2>2, <2>3, FS_AddElement DEF TypeOK
    <2>5. /\ handler' \in [Handlers -> Invocation]
          /\ \A g \in Handlers : handler'[g].at # "idle" => handler'[g].of \in Requests
      BY <1>14, <2>1, PerformMoves, InvocationMoves
    <2> QED BY <1>14, <2>4, <2>5 DEF Perform, TypeOK, rotation, page
  <1>15. CASE UNCHANGED vars
    BY <1>15 DEF vars, TypeOK
  <1> QED
    BY <1>1, <1>2, <1>3, <1>4, <1>5, <1>6, <1>7, <1>8, <1>9, <1>10, <1>11, <1>12, <1>13,
       <1>14, <1>15 DEF Next

\* Rows, tokens, nonces and invocations keep their types, and maintenance works
\* from a time that has been.
THEOREM TypeCorrect == Spec => []TypeOK
  BY InitType, StepType, PTL DEF Spec

-----------------------------------------------------------------------------
(* The rotation of JWT_SECRET                                              *)

Held == {session} \cup {request[r].token : r \in Requests}

\* What a token that someone holds has to do with the bindings: it outlives
\* neither its own life nor, if the old key signed it, that life counted from
\* the moment no isolate signed with the old key any more.
TokenFits(token) ==
  /\ token.exp <= clock + Ttl
  /\ token.key = NewKey => bound.current = NewKey
  /\ ~token.stray /\ token.key = OldKey /\ rotatedAt # None => token.exp <= rotatedAt + Ttl

\* What the isolates run with: the old key is gone from one of them only when
\* that life has passed.
BindingsFit(bindings) ==
  /\ bindings.current = NewKey => bound.current = NewKey
  /\ rotatedAt # None => bindings.current = NewKey
  /\ OldKey \notin KeysOf(bindings) => rotatedAt # None /\ clock > rotatedAt + Ttl

SessionsFit ==
  /\ \A bindings \in live : BindingsFit(bindings)
  /\ login = NewKey => bound.current = NewKey
  /\ \A token \in Held : token # None => TokenFits(token)

LEMMA HeldTokens == TypeOK => Held \subseteq Token \cup {None}
  BY DEF TypeOK, Held, Credentials

LEMMA InitSessions == Init => SessionsFit
  BY AdminRequestsAssumption DEF Init, SessionsFit, BindingsFit, KeysOf, Held, Unsent

\* Nobody signs or rotates, and time does not run back.
LEMMA SessionsKept ==
  ASSUME TypeOK, SessionsFit, UNCHANGED rotation, clock' \in Int, clock <= clock',
         login' = NewKey => bound.current = NewKey, Held' \subseteq Held \cup {None}
  PROVE  SessionsFit'
  <1>1. ASSUME NEW token \in Held', token # None PROVE TokenFits(token)'
    <2>1. token \in Held /\ token \in Token /\ TokenFits(token)
      BY <1>1, HeldTokens DEF SessionsFit
    <2> QED BY <2>1, AdminRequestsAssumption DEF TokenFits, rotation, TypeOK, Token
  <1>2. ASSUME NEW bindings \in live' PROVE BindingsFit(bindings)'
    <2>1. bindings \in live /\ BindingsFit(bindings)
      BY <1>2 DEF SessionsFit, rotation
    <2> QED BY <2>1, AdminRequestsAssumption DEF BindingsFit, rotation, TypeOK
  <1> QED BY <1>1, <1>2 DEF SessionsFit, rotation

\* deploy-control.sh puts bindings; tokens fit them as they fitted the last.
LEMMA PutFits ==
  ASSUME TypeOK, SessionsFit, NEW new, Put(new), BindingsFit(new)',
         bound.current = NewKey => new.current = NewKey
  PROVE  SessionsFit'
  <1>1. /\ bound' = new /\ live' = live \cup {new} /\ Held' = Held
        /\ UNCHANGED <<clock, rotatedAt, login>>
    BY DEF Put, page, Held
  <1>2. ASSUME NEW bindings \in live PROVE BindingsFit(bindings)'
    BY <1>1 DEF SessionsFit, BindingsFit
  <1>3. ASSUME NEW token \in Held, token # None PROVE TokenFits(token)'
    BY <1>1, <1>3 DEF SessionsFit, TokenFits
  <1> QED BY <1>1, <1>2, <1>3 DEF SessionsFit

LEMMA StepSessions ==
  ASSUME TypeOK, SessionsFit, [Next]_vars
  PROVE  SessionsFit'
  <1> bound \in live /\ bound \in Bindings /\ clock \in Int
    BY DEF TypeOK
  <1>1. CASE SignToken
    <2> DEFINE stray == \A bindings \in live : bindings.current # login
               new == [key |-> login, exp |-> clock + Ttl, stray |-> stray]
    <2>1. /\ UNCHANGED <<clock, rotation>> /\ Held' \subseteq Held \cup {new}
          /\ login' = None
      BY <1>1 DEF SignToken, Held
    <2>2. new.key = login /\ new.exp = clock + Ttl /\ new.stray = stray
      OBVIOUS
    <2>3. ASSUME ~stray, login = OldKey, rotatedAt # None PROVE FALSE
      BY <2>3, AdminRequestsAssumption DEF SessionsFit, BindingsFit
    <2> HIDE DEF new, stray
    <2>4. TokenFits(new)
      BY <2>2, <2>3, AdminRequestsAssumption DEF TokenFits, SessionsFit, TypeOK
    <2>5. ASSUME NEW token \in Held', token # None PROVE TokenFits(token)'
      BY <2>1, <2>4, <2>5 DEF SessionsFit, TokenFits, rotation
    <2>6. ASSUME NEW bindings \in live' PROVE BindingsFit(bindings)'
      BY <2>1 DEF SessionsFit, BindingsFit, rotation
    <2> QED BY <2>1, <2>5, <2>6, AdminRequestsAssumption DEF SessionsFit
  <1>2. CASE StartLogin \/ LoginFails
    <2>1. /\ UNCHANGED <<clock, rotation, session, request>>
          /\ login' = NewKey => bound.current = NewKey
      BY <1>2, AdminRequestsAssumption DEF StartLogin, LoginFails, SessionsFit, BindingsFit
    <2>2. Held' = Held
      BY <2>1 DEF Held
    <2> QED BY <2>1, <2>2, SessionsKept
  <1>3. CASE PutPrevious
    <2>1. PICK new : Put(new) /\ new.current = OldKey /\ new.previous = OldKey
      BY <1>3 DEF PutPrevious, Bindings
    <2>2. rotatedAt = None /\ bound.current = OldKey
      BY <1>3, AdminRequestsAssumption DEF PutPrevious, SessionsFit, BindingsFit
    <2>3. BindingsFit(new)'
      BY <2>1, <2>2, AdminRequestsAssumption DEF BindingsFit, KeysOf, Put
    <2> QED BY <2>1, <2>2, <2>3, PutFits, AdminRequestsAssumption
  <1>4. CASE PutCurrent
    <2>1. PICK new : Put(new) /\ new.current = NewKey /\ new.previous = OldKey
      BY <1>4 DEF PutCurrent, Bindings
    <2>2. BindingsFit(new)'
      BY <2>1, AdminRequestsAssumption DEF BindingsFit, KeysOf, Put
    <2> QED BY <2>1, <2>2, PutFits
  <1>5. CASE RetirePrevious
    <2>1. PICK new : Put(new) /\ new.current = NewKey
      BY <1>5 DEF RetirePrevious, Bindings
    <2>2. rotatedAt # None /\ clock > rotatedAt + Ttl
      BY <1>5 DEF RetirePrevious
    <2>3. BindingsFit(new)'
      BY <2>1, <2>2 DEF BindingsFit, Put
    <2> QED BY <2>1, <2>3, PutFits
  <1>6. CASE Deployed
    <2>1. /\ UNCHANGED <<clock, bound, login>> /\ Held' = Held /\ live' = {bound}
          /\ \/ rotatedAt' = rotatedAt
             \/ rotatedAt = None /\ rotatedAt' = clock /\ bound.current = NewKey
      BY <1>6 DEF Deployed, page, Held
    <2>2. BindingsFit(bound)'
      BY <2>1, AdminRequestsAssumption DEF SessionsFit, BindingsFit
    <2>3. ASSUME NEW token \in Held, token # None PROVE TokenFits(token)'
      BY <2>1, <2>3 DEF SessionsFit, TokenFits
    <2> QED BY <2>1, <2>2, <2>3 DEF SessionsFit
  <1>7. ASSUME NEW r \in Requests, Send(r) PROVE SessionsFit'
    <2>1. request' \in [Requests -> Credentials]
      BY StepType DEF TypeOK
    <2>2. /\ \A q \in Requests : request'[q].token \in {request[q].token, None, session}
          /\ UNCHANGED <<clock, rotation, page>>
      BY <1>7 DEF Send, TypeOK
    <2>3. Held' \subseteq Held \cup {None}
      BY <2>2 DEF Held, page
    <2> QED BY <2>2, <2>3, SessionsKept DEF SessionsFit, page
  <1>8. CASE Tick
    BY <1>8, SessionsKept DEF Tick, page, SessionsFit, Held
  <1>9. CASE UNCHANGED <<clock, rotation, request, login>> /\ session' \in {session, None}
    BY <1>9, SessionsKept DEF SessionsFit, Held
  <1> QED
    <2>1. CASE ClearAuth \/ StartMaintenance \/ RunMaintenance \/ UNCHANGED vars
      BY <2>1, <1>9 DEF ClearAuth, StartMaintenance, RunMaintenance, vars, rotation, page
    <2>2. ASSUME NEW h \in Handlers,
                 \/ \E r \in Requests : Arrive(h, r)
                 \/ Authorize(h) \/ Claim(h) \/ Perform(h) \/ Refuse(h)
                 \/ Reauthenticate(h) \/ RecordAudit(h) \/ AuditLost(h) \/ Die(h)
          PROVE  SessionsFit'
      BY <2>2, <1>9 DEF Arrive, Authorize, Claim, Perform, Refuse, Reauthenticate,
                        RecordAudit, AuditLost, Die, page
    <2> QED BY <1>1, <1>2, <1>3, <1>4, <1>5, <1>6, <1>7, <1>8, <2>1, <2>2 DEF Next

\* No session ends early while JWT_SECRET is rotated: an unexpired token is
\* accepted by every isolate that was given the key it is signed with, except a
\* stray one (secretCandidates, deploy-control.sh).
THEOREM SessionsSurviveRotation == Spec => []RotationKeepsSessions
  <1>1. TypeOK /\ SessionsFit => RotationKeepsSessions
    <2> SUFFICES ASSUME TypeOK, SessionsFit, NEW token \in Held, token # None,
                        token.exp >= clock, ~token.stray, NEW bindings \in live,
                        token.key \notin KeysOf(bindings)
                 PROVE  bindings # bound /\ NewKey \notin KeysOf(bindings) /\ token.key = NewKey
      BY DEF RotationKeepsSessions, Held
    <2>1. token \in Token /\ TokenFits(token) /\ BindingsFit(bindings)
      BY HeldTokens DEF SessionsFit
    <2>2. token.key # OldKey
      <3>1. SUFFICES ASSUME token.key = OldKey PROVE FALSE OBVIOUS
      <3>2. rotatedAt \in Int /\ clock > rotatedAt + Ttl /\ token.exp <= rotatedAt + Ttl
        BY <2>1, <3>1 DEF BindingsFit, TokenFits, TypeOK
      <3> QED BY <2>1, <3>2, AdminRequestsAssumption DEF TypeOK, Token
    <2>3. token.key = NewKey
      BY <2>1, <2>2 DEF Token, Keys
    <2>4. NewKey \in KeysOf(bound)
      BY <2>1, <2>3, AdminRequestsAssumption DEF TokenFits, KeysOf
    <2> QED BY <2>3, <2>4
  <1>2. Spec => []SessionsFit
    BY TypeCorrect, InitSessions, StepSessions, PTL DEF Spec
  <1> QED BY <1>1, <1>2, TypeCorrect, PTL

-----------------------------------------------------------------------------
(* Signatures and their nonces                                             *)

\* An invocation that passed the window check serves a request with a signature.
Signed(h) ==
  /\ handler[h].at # "idle" /\ handler[h].verified =>
       request[handler[h].of].signedAt # None
  /\ handler[h].at = "claim" => handler[h].verified

\* A row carries the end of its signature's window, and is gone only after it.
NonceFits(r) ==
  /\ claims[r] > 0 => request[r].signedAt # None
  /\ nonce[r] # None => claims[r] > 0 /\ nonce[r] = Expiry(r)
  /\ claims[r] > 0 /\ nonce[r] = None => clock > Expiry(r)

NoncesFit ==
  /\ \A h \in Handlers : Signed(h)
  /\ \A r \in Requests : NonceFits(r)

LEMMA InitNonces == Init => NoncesFit
  BY DEF Init, NoncesFit, Signed, NonceFits, Idle

\* Nothing is sent, claimed or purged.
LEMMA NoncesKept ==
  ASSUME TypeOK, NoncesFit, UNCHANGED <<request, claims, nonce>>,
         clock' \in Int, clock <= clock',
         \A h \in Handlers : Signed(h)'
  PROVE  NoncesFit'
  <1>1. ASSUME NEW r \in Requests PROVE NonceFits(r)'
    <2>1. request[r].signedAt \in Int \cup {None}
      BY DEF TypeOK, Credentials
    <2>2. NonceFits(r) BY DEF NoncesFit
    <2> QED BY <2>1, <2>2, AdminRequestsAssumption DEF NonceFits, Expiry, TypeOK
  <1> QED BY <1>1 DEF NoncesFit

\* One invocation moves on, or ends.
LEMMA SignedKept ==
  ASSUME TypeOK, NoncesFit, NEW h \in Handlers, NEW i \in Invocation,
         handler' = [handler EXCEPT ![h] = i], UNCHANGED request,
         \/ i = Idle
         \/ /\ handler[h].at # "idle" /\ i.of = handler[h].of
            /\ i.verified = handler[h].verified
            /\ i.at = "claim" => i.verified
  PROVE  \A g \in Handlers : Signed(g)'
  <1>1. handler'[h] = i /\ \A g \in Handlers \ {h} : handler'[g] = handler[g]
    BY DEF TypeOK
  <1>2. Signed(h)'
    <2>1. CASE i = Idle BY <1>1, <2>1, IdleInvocation DEF Signed
    <2>2. CASE i # Idle BY <1>1, <2>2 DEF Signed, NoncesFit
    <2> QED BY <2>1, <2>2
  <1>3. ASSUME NEW g \in Handlers \ {h} PROVE Signed(g)'
    BY <1>1 DEF Signed, NoncesFit
  <1> QED BY <1>2, <1>3

LEMMA StepNonces ==
  ASSUME TypeOK, NoncesFit, [Next]_vars
  PROVE  NoncesFit'
  <1> clock \in Int BY DEF TypeOK
  <1>1. CASE UNCHANGED <<request, claims, nonce, handler>> /\ clock' \in {clock, clock + 1}
    <2>1. \A h \in Handlers : Signed(h)'
      BY <1>1 DEF Signed, NoncesFit
    <2> QED BY <1>1, <2>1, NoncesKept
  <1>2. CASE RunMaintenance
    <2>1. \A h \in Handlers : Signed(h)'
      BY <1>2 DEF RunMaintenance, Signed, NoncesFit
    <2>2. ASSUME NEW r \in Requests PROVE NonceFits(r)'
      <3>1. /\ NonceFits(r) /\ request[r].signedAt \in Int \cup {None}
            /\ maintenance \in Int /\ maintenance <= clock
        BY <1>2 DEF NoncesFit, RunMaintenance, TypeOK, Credentials
      <3>2. /\ UNCHANGED <<request, claims, clock>>
            /\ nonce'[r] = IF Spent(r) THEN None ELSE nonce[r]
        BY <1>2 DEF RunMaintenance
      <3>3. CASE Spent(r)
        BY <3>1, <3>2, <3>3, AdminRequestsAssumption DEF NonceFits, Spent, Expiry
      <3>4. CASE ~Spent(r)
        BY <3>1, <3>2, <3>4 DEF NonceFits, Expiry
      <3> QED BY <3>3, <3>4
    <2> QED BY <2>1, <2>2 DEF NoncesFit
  <1>3. ASSUME NEW r \in Requests, Send(r) PROVE NoncesFit'
    <2>1. request[r].signedAt = None
      BY <1>3 DEF Send, Unsent
    <2>2. /\ UNCHANGED <<clock, handler, nonce, claims>>
          /\ \A q \in Requests \ {r} : request'[q] = request[q]
      BY <1>3 DEF Send, TypeOK, ghosts
    <2>3. ASSUME NEW h \in Handlers PROVE Signed(h)'
      BY <2>1, <2>2 DEF Signed, NoncesFit, TypeOK
    <2>4. ASSUME NEW q \in Requests PROVE NonceFits(q)'
      <3>1. NonceFits(q) /\ claims[q] \in Nat BY DEF NoncesFit, TypeOK
      <3>2. CASE q = r BY <2>1, <2>2, <3>1, <3>2 DEF NonceFits
      <3>3. CASE q # r BY <2>2, <3>1, <3>3 DEF NonceFits, Expiry
      <3> QED BY <3>2, <3>3
    <2> QED BY <2>3, <2>4 DEF NoncesFit
  <1>4. ASSUME NEW h \in Handlers, NEW r \in Requests, Arrive(h, r) PROVE NoncesFit'
    <2>1. /\ handler'[h].verified = Fresh(r) /\ handler'[h].of = r
          /\ handler'[h].at = "authorize"
          /\ \A g \in Handlers \ {h} : handler'[g] = handler[g]
      BY <1>4 DEF Arrive, TypeOK, Idle
    <2>2. UNCHANGED <<clock, request, claims, nonce>>
      BY <1>4 DEF Arrive, ghosts
    <2>3. ASSUME NEW g \in Handlers PROVE Signed(g)'
      BY <2>1, <2>2 DEF Signed, NoncesFit, Fresh
    <2> QED BY <2>2, <2>3, NoncesKept
  <1>5. ASSUME NEW h \in Handlers, NEW i \in Invocation,
               handler' = [handler EXCEPT ![h] = i],
               UNCHANGED <<clock, request, claims, nonce>>,
               \/ i = Idle
               \/ /\ handler[h].at # "idle" /\ i.of = handler[h].of
                  /\ i.verified = handler[h].verified
                  /\ i.at = "claim" => i.verified
        PROVE  NoncesFit'
    <2>1. \A g \in Handlers : Signed(g)'
      BY <1>5, SignedKept
    <2> QED BY <1>5, <2>1, NoncesKept
  <1>6. ASSUME NEW h \in Handlers, Claim(h) PROVE NoncesFit'
    <2> DEFINE r == handler[h].of
    <2>1. /\ r \in Requests /\ handler[h].at = "claim" /\ Signed(h)
          /\ UNCHANGED <<clock, request>>
      BY <1>6 DEF Claim, TypeOK, NoncesFit
    <2>2. request[r].signedAt \in Int /\ Expiry(r) \in Int
      BY <2>1, AdminRequestsAssumption DEF Signed, TypeOK, Credentials, Expiry
    <2>3. CASE Claimable(r)
      <3>1. /\ nonce[r] = None /\ nonce'[r] = Expiry(r)
            /\ claims'[r] = claims[r] + 1
            /\ \A q \in Requests \ {r} : nonce'[q] = nonce[q] /\ claims'[q] = claims[q]
        BY <1>6, <2>1, <2>3 DEF Claim, Claimable, TypeOK
      <3>2. \A g \in Handlers : Signed(g)'
        <4>1. handler' = [handler EXCEPT ![h] = [handler[h] EXCEPT !.at = "work"]]
          BY <1>6, <2>3 DEF Claim
        <4> QED BY <2>1, <4>1, Onward, SignedKept DEF Places
      <3>3. ASSUME NEW q \in Requests PROVE NonceFits(q)'
        <4>1. NonceFits(q) /\ claims[q] \in Nat BY DEF NoncesFit, TypeOK
        <4>2. CASE q = r
          BY <2>1, <2>2, <3>1, <4>1, <4>2, AdminRequestsAssumption DEF NonceFits, Expiry
        <4>3. CASE q # r
          BY <2>1, <3>1, <4>1, <4>3 DEF NonceFits, Expiry
        <4> QED BY <4>2, <4>3
      <3> QED BY <3>2, <3>3 DEF NoncesFit
    <2>4. CASE ~Claimable(r)
      <3>1. handler' = [handler EXCEPT ![h] = Idle] /\ UNCHANGED <<nonce, claims>>
        BY <1>6, <2>4 DEF Claim
      <3> QED BY <2>1, <3>1, IdleInvocation, <1>5
    <2> QED BY <2>3, <2>4
  <1>7. ASSUME NEW h \in Handlers, Authorize(h) PROVE NoncesFit'
    <2>1. handler[h].at # "idle" /\ UNCHANGED <<clock, request, claims, nonce>>
      BY <1>7 DEF Authorize, ghosts
    <2> QED BY <1>5, <1>7, <2>1, AuthorizeMoves, IdleInvocation
  <1>8. ASSUME NEW h \in Handlers, Reauthenticate(h) PROVE NoncesFit'
    <2>1. handler[h].at # "idle" /\ UNCHANGED <<clock, request, claims, nonce>>
      BY <1>8 DEF Reauthenticate
    <2>2. CASE handler' = [handler EXCEPT ![h] = [handler[h] EXCEPT !.at = "audit"]]
      BY <1>5, <2>1, <2>2, Onward DEF Places
    <2>3. CASE handler' = [handler EXCEPT ![h] = Idle]
      BY <1>5, <2>1, <2>3, IdleInvocation
    <2> QED BY <1>8, <2>2, <2>3, ReauthenticateMoves
  <1>9. ASSUME NEW h \in Handlers, Perform(h) PROVE NoncesFit'
    <2>1. handler[h].at # "idle" /\ UNCHANGED <<clock, request, claims, nonce>>
      BY <1>9 DEF Perform
    <2>2. PICK i \in Invocation :
            /\ handler' = [handler EXCEPT ![h] = i] /\ i.at # "claim"
            /\ i.of = handler[h].of /\ i.verified = handler[h].verified
      BY <1>9, PerformMoves
    <2> QED BY <1>5, <2>1, <2>2
  <1>10. ASSUME NEW h \in Handlers, Refuse(h) \/ RecordAudit(h) \/ AuditLost(h) \/ Die(h)
         PROVE NoncesFit'
    BY <1>5, <1>10, IdleInvocation DEF Refuse, RecordAudit, AuditLost, Die, Unwritten, ghosts
  <1>11. CASE \/ StartLogin \/ SignToken \/ LoginFails \/ ClearAuth \/ Tick
              \/ PutPrevious \/ PutCurrent \/ Deployed \/ RetirePrevious
              \/ StartMaintenance \/ UNCHANGED vars
    BY <1>1, <1>11 DEF StartLogin, SignToken, LoginFails, ClearAuth, Tick, Put, PutPrevious,
                       PutCurrent, Deployed, RetirePrevious,
                       StartMaintenance, vars, ghosts
  <1> QED
    BY <1>2, <1>3, <1>4, <1>6, <1>7, <1>8, <1>9, <1>10, <1>11 DEF Next

LEMMA NoncesHold == Spec => []NoncesFit
  BY TypeCorrect, InitNonces, StepNonces, PTL DEF Spec

\* A claimed request whose signature is still accepted still has its row in
\* automation_request_nonces, however far the caller's clock is off.  The window
\* check and maintenance read one clock, the control plane's.
THEOREM NoncesOutliveSignatures == Spec => []NonceOutlivesSignature
  <1>1. TypeOK /\ NoncesFit => NonceOutlivesSignature
    <2> SUFFICES ASSUME TypeOK, NEW r \in Requests, NonceFits(r), claims[r] > 0, Fresh(r)
                 PROVE  nonce[r] # None
      BY DEF NonceOutlivesSignature, NoncesFit
    <2>1. request[r].signedAt \in Int /\ clock - request[r].signedAt <= Window
      BY AdminRequestsAssumption DEF Fresh, TypeOK, Credentials
    <2> QED BY <2>1, AdminRequestsAssumption DEF NonceFits, Expiry, TypeOK
  <1> QED BY <1>1, TypeCorrect, NoncesHold, PTL

-----------------------------------------------------------------------------
(* A signature is good once                                                *)

\* Invocations that will carry a request out on the strength of its claim, and
\* the changes made so.
Spending(r) == {h \in Handlers : /\ handler[h].of = r /\ handler[h].at = "work"
                                 /\ ~handler[h].admin}
Automated(r) == {c \in Changes(r) : c.by = "automation-hmac"}

\* A claim is being spent, or has been, but never both.
OnceFits(r) ==
  /\ claims[r] <= 1
  /\ claims[r] = 0 => Spending(r) = {} /\ Automated(r) = {}
  /\ claims[r] > 0 /\ nonce[r] = None => ~PastCheck(r)
  /\ \A g, h \in Spending(r) : g = h
  /\ Spending(r) = {} \/ Automated(r) = {}
  /\ \A c, d \in Automated(r) : c = d

OnceHolds == \A r \in Requests \ overtaken : OnceFits(r)

LEMMA InitOnce == Init => OnceHolds
  BY DEF Init, OnceHolds, OnceFits, Spending, Automated, Changes, PastCheck, Idle

\* Invocations come to no new claim and no new spending, and change nothing.
LEMMA OnceKept ==
  ASSUME OnceHolds, UNCHANGED <<claims, nonce, performed>>, overtaken \subseteq overtaken',
         \A r \in Requests : Spending(r)' \subseteq Spending(r),
         \A r \in Requests : PastCheck(r)' => PastCheck(r) \/ nonce[r] # None \/ claims[r] = 0
  PROVE  OnceHolds'
  <1> SUFFICES ASSUME NEW r \in Requests \ overtaken' PROVE OnceFits(r)'
    BY DEF OnceHolds
  <1>1. OnceFits(r) BY DEF OnceHolds
  <1>2. Automated(r)' = Automated(r) /\ Spending(r)' \subseteq Spending(r)
    BY DEF Automated, Changes
  <1> QED BY <1>1, <1>2 DEF OnceFits

\* One invocation ends, or moves on without a claim.
LEMMA OnceMoves ==
  ASSUME TypeOK, OnceHolds, NEW h \in Handlers, NEW i \in Invocation,
         handler' = [handler EXCEPT ![h] = i],
         UNCHANGED <<claims, nonce, performed, overtaken>>,
         i.at = "work" => i.admin,
         i.verified /\ i.at \in {"authorize", "claim"} =>
           /\ i.of = handler[h].of /\ i.verified = handler[h].verified
           /\ handler[h].at \in {"authorize", "claim"}
  PROVE  OnceHolds'
  <1>1. handler'[h] = i /\ \A g \in Handlers \ {h} : handler'[g] = handler[g]
    BY DEF TypeOK
  <1>2. ASSUME NEW r \in Requests PROVE Spending(r)' \subseteq Spending(r)
    BY <1>1 DEF Spending
  <1>3. ASSUME NEW r \in Requests, PastCheck(r)' PROVE PastCheck(r)
    BY <1>1, <1>3 DEF PastCheck
  <1> QED BY <1>2, <1>3, OnceKept

LEMMA StepOnce ==
  ASSUME TypeOK, NoncesFit, OnceHolds, [Next]_vars
  PROVE  OnceHolds'
  <1>1. CASE UNCHANGED <<claims, nonce, performed, overtaken, handler>>
    BY <1>1, OnceKept DEF Spending, PastCheck
  <1>2. CASE RunMaintenance
    <2> SUFFICES ASSUME NEW r \in Requests \ overtaken' PROVE OnceFits(r)'
      BY DEF OnceHolds
    <2>1. UNCHANGED <<claims, performed, handler>> /\ r \notin overtaken
      BY <1>2 DEF RunMaintenance
    <2>2. /\ Spending(r)' = Spending(r) /\ Automated(r)' = Automated(r)
          /\ PastCheck(r)' <=> PastCheck(r)
      BY <2>1 DEF Spending, Automated, Changes, PastCheck
    <2>3. OnceFits(r) BY <2>1 DEF OnceHolds
    <2>4. ASSUME nonce[r] # None, nonce'[r] = None PROVE ~PastCheck(r)
      <3>1. /\ nonce[r] < maintenance /\ maintenance <= clock /\ maintenance \in Int
            /\ nonce[r] = Expiry(r) /\ request[r].signedAt \in Int
        BY <1>2, <2>4 DEF RunMaintenance, Spent, TypeOK, NoncesFit, NonceFits, Credentials
      <3>2. ~Fresh(r)
        BY <3>1, AdminRequestsAssumption DEF Fresh, Expiry, TypeOK
      <3> QED BY <1>2, <2>4, <3>2 DEF RunMaintenance
    <2>5. nonce[r] = None => nonce'[r] = None
      BY <1>2 DEF RunMaintenance
    <2> QED BY <2>1, <2>2, <2>3, <2>4, <2>5 DEF OnceFits
  <1>3. ASSUME NEW h \in Handlers, NEW r \in Requests, Arrive(h, r) PROVE OnceHolds'
    <2>1. /\ handler'[h].verified = Fresh(r) /\ handler'[h].of = r
          /\ handler'[h].at = "authorize"
          /\ \A g \in Handlers \ {h} : handler'[g] = handler[g]
      BY <1>3 DEF Arrive, TypeOK, Idle
    <2>2. UNCHANGED <<claims, nonce, performed, overtaken>>
      BY <1>3 DEF Arrive, ghosts
    <2>3. \A q \in Requests : Spending(q)' \subseteq Spending(q)
      BY <2>1 DEF Spending
    <2>4. ASSUME NEW q \in Requests, PastCheck(q)', ~PastCheck(q), claims[q] # 0
          PROVE  nonce[q] # None
      <3>1. q = r /\ Fresh(r)
        BY <2>1, <2>4 DEF PastCheck
      <3>2. request[r].signedAt \in Int /\ clock - request[r].signedAt <= Window
        BY <3>1, AdminRequestsAssumption DEF Fresh, TypeOK, Credentials
      <3> QED BY <2>4, <3>1, <3>2, AdminRequestsAssumption
              DEF NoncesFit, NonceFits, Expiry, TypeOK
    <2> QED BY <2>2, <2>3, <2>4, OnceKept
  <1>4. ASSUME NEW h \in Handlers, Authorize(h) PROVE OnceHolds'
    <2>1. /\ handler[h].at = "authorize" /\ Idle.at = "idle"
          /\ UNCHANGED <<claims, nonce, performed, overtaken>>
      BY <1>4, IdleInvocation DEF Authorize, ghosts
    <2> QED BY <1>4, <2>1, AuthorizeMoves, OnceMoves
  <1>5. ASSUME NEW h \in Handlers, Reauthenticate(h) PROVE OnceHolds'
    <2>1. UNCHANGED <<claims, nonce, performed, overtaken>>
      BY <1>5 DEF Reauthenticate
    <2>2. CASE handler' = [handler EXCEPT ![h] = [handler[h] EXCEPT !.at = "audit"]]
      BY <2>1, <2>2, Onward, OnceMoves DEF Places
    <2>3. CASE handler' = [handler EXCEPT ![h] = Idle]
      BY <2>1, <2>3, IdleInvocation, OnceMoves
    <2> QED BY <1>5, <2>2, <2>3, ReauthenticateMoves
  <1>6. ASSUME NEW h \in Handlers, Refuse(h) \/ RecordAudit(h) \/ AuditLost(h) \/ Die(h)
        PROVE  OnceHolds'
    BY <1>6, IdleInvocation, OnceMoves
       DEF Refuse, RecordAudit, AuditLost, Die, Unwritten, ghosts
  <1>7. ASSUME NEW h \in Handlers, Claim(h) PROVE OnceHolds'
    <2> DEFINE r == handler[h].of
    <2>1. /\ r \in Requests /\ handler[h].at = "claim" /\ handler[h].verified
          /\ UNCHANGED <<performed, overtaken, request>>
      BY <1>7 DEF Claim, TypeOK, NoncesFit, Signed
    <2>2. CASE ~Claimable(r)
      <3>1. handler' = [handler EXCEPT ![h] = Idle] /\ UNCHANGED <<nonce, claims>>
        BY <1>7, <2>2 DEF Claim
      <3> QED BY <2>1, <3>1, IdleInvocation, OnceMoves
    <2>3. CASE Claimable(r)
      <3>1. /\ nonce[r] = None /\ nonce'[r] = Expiry(r)
            /\ claims'[r] = claims[r] + 1
            /\ \A q \in Requests \ {r} : nonce'[q] = nonce[q] /\ claims'[q] = claims[q]
        BY <1>7, <2>1, <2>3 DEF Claim, Claimable, TypeOK
      <3>2. /\ handler'[h].at = "work" /\ handler'[h].of = r
            /\ \A g \in Handlers \ {h} : handler'[g] = handler[g]
        BY <1>7, <2>1, <2>3 DEF Claim, TypeOK, Invocation
      <3>3. nonce'[r] # None
        BY <2>1, <3>1, AdminRequestsAssumption
           DEF Expiry, TypeOK, Credentials, NoncesFit, Signed
      <3> SUFFICES ASSUME NEW q \in Requests \ overtaken' PROVE OnceFits(q)'
        BY DEF OnceHolds
      <3>4. OnceFits(q) /\ Automated(q)' = Automated(q) /\ claims[q] \in Nat
        BY <2>1 DEF OnceHolds, Automated, Changes, TypeOK
      <3>5. CASE q = r
        <4>1. PastCheck(r) BY <2>1 DEF PastCheck
        <4>2. claims[r] = 0 BY <3>1, <3>4, <3>5, <4>1 DEF OnceFits
        <4>3. Spending(r) = {} /\ Automated(r) = {} BY <3>4, <3>5, <4>2 DEF OnceFits
        <4>4. Spending(q)' \subseteq {h}
          BY <3>2, <3>5, <4>3 DEF Spending
        <4> QED BY <3>1, <3>3, <3>4, <3>5, <4>2, <4>3, <4>4 DEF OnceFits
      <3>6. CASE q # r
        <4>1. Spending(q)' \subseteq Spending(q)
          BY <3>2, <3>6 DEF Spending
        <4>2. PastCheck(q)' => PastCheck(q)
          BY <3>2, <3>6 DEF PastCheck
        <4> QED BY <3>1, <3>4, <3>6, <4>1, <4>2 DEF OnceFits
      <3> QED BY <3>5, <3>6
    <2> QED BY <2>2, <2>3
  <1>8. ASSUME NEW h \in Handlers, Perform(h) PROVE OnceHolds'
    <2> DEFINE r == handler[h].of
               nr == Cardinality(Changes(r)) + 1
               c == [of |-> r, nr |-> nr, by |-> By(handler[h].admin)]
    <2>1. /\ r \in Requests /\ handler[h].at = "work"
          /\ UNCHANGED <<claims, nonce, overtaken>>
          /\ performed' = performed \cup {c}
      BY <1>8 DEF Perform, TypeOK
    <2>2. /\ handler'[h].at \in {"reauthenticate", "audit"}
          /\ \A g \in Handlers \ {h} : handler'[g] = handler[g]
      BY <1>8, PerformMoves DEF TypeOK
    <2> HIDE DEF nr
    <2> SUFFICES ASSUME NEW q \in Requests \ overtaken' PROVE OnceFits(q)'
      BY DEF OnceHolds
    <2>3. OnceFits(q) BY <2>1 DEF OnceHolds
    <2>4. Spending(q)' = Spending(q) \ {h}
      BY <2>2 DEF Spending
    <2>5. PastCheck(q)' => PastCheck(q)
      BY <2>2 DEF PastCheck
    <2>6. CASE q # r \/ handler[h].admin
      <3>1. Automated(q)' = Automated(q)
        BY <2>1, <2>6 DEF Automated, Changes, By
      <3> QED BY <2>1, <2>3, <2>4, <2>5, <3>1 DEF OnceFits
    <2>7. CASE q = r /\ ~handler[h].admin
      <3>1. h \in Spending(q)
        BY <2>1, <2>7 DEF Spending
      <3>2. Automated(q) = {} /\ Spending(q) = {h}
        BY <2>3, <3>1 DEF OnceFits
      <3>3. Automated(q)' \subseteq {c}
        BY <2>1, <3>2 DEF Automated, Changes
      <3> QED BY <2>1, <2>3, <2>4, <2>5, <3>1, <3>2, <3>3 DEF OnceFits
    <2> QED BY <2>6, <2>7
  <1>9. CASE \/ StartLogin \/ SignToken \/ LoginFails \/ ClearAuth \/ Tick
             \/ PutPrevious \/ PutCurrent \/ Deployed \/ RetirePrevious
             \/ StartMaintenance \/ (\E r \in Requests : Send(r)) \/ UNCHANGED vars
    BY <1>1, <1>9 DEF StartLogin, SignToken, LoginFails, ClearAuth, Tick, Put, PutPrevious,
                      PutCurrent, Deployed, RetirePrevious,
                      StartMaintenance, Send, vars, ghosts
  <1> QED
    BY <1>2, <1>3, <1>4, <1>5, <1>6, <1>7, <1>8, <1>9 DEF Next

\* However many copies of a signed request arrive, one is carried out
\* (claimAutomationRequest), unless maintenance overtook a copy.
THEOREM SignaturesGoodOnce == Spec => []SignedOnce
  <1>1. OnceHolds => SignedOnce
    <2> SUFFICES ASSUME OnceHolds, NEW r \in Requests \ overtaken,
                        NEW c \in Changes(r), NEW d \in Changes(r),
                        {c.by, d.by} = {"automation-hmac"}
                 PROVE  c = d
      BY DEF OnceHolds, OnceFits, SignedOnce
    <2>1. c \in Automated(r) /\ d \in Automated(r) BY DEF Automated
    <2> QED BY <2>1 DEF OnceHolds, OnceFits
  <1>2. Spec => []OnceHolds
    BY TypeCorrect, NoncesHold, InitOnce, StepOnce, PTL DEF Spec
  <1> QED BY <1>1, <1>2, PTL

-----------------------------------------------------------------------------
(* The audit log                                                           *)

Pending(h) == handler[h].at \in {"reauthenticate", "audit"}

\* No change has two entries, no entry tells of anything else, and a change that
\* has none is accounted for.
Accounted ==
  /\ \A e, f \in audit : e.change = f.change => e = f
  /\ \A e \in audit : e.change \in performed
  /\ \A c \in performed :
       \/ \E u \in unaudited : u.change = c
       \/ \E e \in audit : e.change = c
       \/ \E h \in Handlers : Pending(h) /\ Change(h) = c

\* The entries still to be written are of changes that have none, each by one
\* invocation; changes of a request are numbered, so no two are the same.
LogFits ==
  /\ Accounted
  /\ \A u \in unaudited : u.change \in performed
  /\ \A h \in Handlers : Pending(h) =>
       Change(h) \in performed /\ \A e \in audit : e.change # Change(h)
  /\ \A g, h \in Handlers : Pending(g) /\ Pending(h) /\ Change(g) = Change(h) => g = h
  /\ \A c \in performed : c.nr <= Cardinality(Changes(c.of))

LEMMA InitLog == Init => LogFits
  BY DEF Init, LogFits, Accounted, Pending, Idle

\* What is pending stays pending, and nothing is done or written.
LEMMA LogKept ==
  ASSUME LogFits, UNCHANGED <<audit, performed, unaudited>>,
         \A g \in Handlers : Pending(g)' <=> Pending(g),
         \A g \in Handlers : Pending(g) => Change(g)' = Change(g)
  PROVE  LogFits'
  <1>1. Accounted'
    BY DEF LogFits, Accounted
  <1>2. \A c \in performed' : c.nr <= Cardinality(Changes(c.of)')
    BY DEF LogFits, Changes
  <1>3. \A u \in unaudited' : u.change \in performed'
    BY DEF LogFits
  <1> QED BY <1>1, <1>2, <1>3 DEF LogFits

\* One pending entry is settled: written, or given up.
LEMMA EntrySettled ==
  ASSUME TypeOK, LogFits, NEW h \in Handlers, NEW why, Pending(h),
         handler' = [handler EXCEPT ![h] = Idle], performed' = performed,
         \/ audit' = audit \cup {Entry(h)} /\ unaudited' = unaudited
         \/ audit' = audit /\ unaudited' = unaudited \cup {[change |-> Change(h), why |-> why]}
  PROVE  LogFits'
  <1> DEFINE entry == [change |-> Change(h), createdAt |-> clock]
             missing == [change |-> Change(h), why |-> why]
  <1>1. \A e \in audit' : e \in audit \/ (e = entry /\ audit' = audit \cup {entry})
    BY DEF Entry
  <1>2. /\ entry.change = Change(h) /\ missing.change = Change(h) /\ Change(h) \in performed
        /\ entry \in audit' \/ missing \in unaudited'
        /\ \A u \in unaudited' : u \in unaudited \/ u = missing
    BY DEF LogFits, Entry
  <1> HIDE DEF entry, missing
  <1>3. /\ ~Pending(h)'
        /\ \A g \in Handlers \ {h} : (Pending(g)' <=> Pending(g)) /\ Change(g)' = Change(g)
    BY IdleInvocation DEF TypeOK, Pending, Change, By
  <1>4. ASSUME NEW g \in Handlers, Pending(g)'
        PROVE  Change(g)' \in performed' /\ \A e \in audit' : e.change # Change(g)'
    <2>1. g # h /\ Pending(g) /\ Change(g)' = Change(g) BY <1>3, <1>4
    <2>2. Change(g) # Change(h) BY <2>1 DEF LogFits
    <2> QED BY <1>1, <1>2, <2>1, <2>2 DEF LogFits
  <1>5. \A g, k \in Handlers : Pending(g)' /\ Pending(k)' /\ Change(g)' = Change(k)' => g = k
    BY <1>3 DEF LogFits
  <1>6. \A c \in performed' : c.nr <= Cardinality(Changes(c.of)')
    BY DEF LogFits, Changes
  <1>7. Accounted'
    <2>1. \A e, f \in audit' : e.change = f.change => e = f
      BY <1>1, <1>2 DEF LogFits, Accounted
    <2>2. \A e \in audit' : e.change \in performed'
      BY <1>1, <1>2 DEF LogFits, Accounted
    <2>3. ASSUME NEW c \in performed'
          PROVE  \/ (\E u \in unaudited' : u.change = c) \/ \E e \in audit' : e.change = c
                 \/ \E g \in Handlers : Pending(g)' /\ Change(g)' = c
      <3>1. CASE c = Change(h)
        BY <1>2, <3>1
      <3>2. CASE c # Change(h)
        <4>1. audit \subseteq audit' /\ unaudited \subseteq unaudited' OBVIOUS
        <4>2. \/ (\E u \in unaudited : u.change = c) \/ \E e \in audit : e.change = c
              \/ \E g \in Handlers : Pending(g) /\ Change(g) = c
          BY DEF LogFits, Accounted
        <4> QED BY <1>3, <3>2, <4>1, <4>2
      <3> QED BY <3>1, <3>2
    <2> QED BY <2>1, <2>2, <2>3 DEF Accounted
  <1>8. \A u \in unaudited' : u.change \in performed'
    BY <1>2 DEF LogFits
  <1> QED BY <1>4, <1>5, <1>6, <1>7, <1>8 DEF LogFits

\* A change is new: its number is above those of the request's other changes.
LEMMA PerformLog ==
  ASSUME TypeOK, LogFits, NEW h \in Handlers, Perform(h)
  PROVE  LogFits'
  <1> DEFINE r == handler[h].of
             nr == Cardinality(Changes(r)) + 1
             c == [of |-> r, nr |-> nr, by |-> By(handler[h].admin)]
  <1>1. /\ ~Pending(h) /\ performed' = performed \cup {c} /\ UNCHANGED <<audit, unaudited>>
        /\ c.of = r /\ c.nr = nr
    BY DEF Perform, Pending
  <1>2. /\ Pending(h)' /\ Change(h)' = c
        /\ \A g \in Handlers \ {h} : (Pending(g)' <=> Pending(g)) /\ Change(g)' = Change(g)
    <2>1. PICK i \in Invocation :
            /\ handler' = [handler EXCEPT ![h] = i]
            /\ i.at \in {"reauthenticate", "audit"} /\ i.of = r
            /\ i.admin = handler[h].admin /\ i.nr = nr
      BY PerformMoves
    <2> HIDE DEF nr
    <2>2. handler'[h] = i /\ \A g \in Handlers \ {h} : handler'[g] = handler[g]
      BY <2>1 DEF TypeOK
    <2> QED BY <2>1, <2>2 DEF Pending, Change, By
  <1>3. Changes(r) \subseteq performed /\ \A d \in Changes(r) : d.of = r
    BY DEF Changes
  <1>4. c \notin performed
    <2>1. SUFFICES ASSUME c \in performed PROVE FALSE OBVIOUS
    <2>2. c.nr <= Cardinality(Changes(r)) BY <1>1, <2>1 DEF LogFits
    <2> QED BY <1>1, <2>2, ChangesFinite
  <1>5. ASSUME NEW d \in performed' PROVE d.nr <= Cardinality(Changes(d.of)')
    <2>1. CASE d.of = r
      <3>1. Changes(d.of)' = Changes(r) \cup {c}
        BY <1>1, <2>1 DEF Changes
      <3>2. Cardinality(Changes(d.of)') = Cardinality(Changes(r)) + 1
        BY <3>1, <1>3, <1>4, ChangesFinite, FS_AddElement
      <3>3. d = c \/ (d \in performed /\ d.nr <= Cardinality(Changes(r)) /\ d.nr \in Nat)
        BY <1>1, <2>1 DEF LogFits, TypeOK, Done
      <3> QED BY <1>1, <3>2, <3>3, ChangesFinite
    <2>2. CASE d.of # r
      <3>1. Changes(d.of)' = Changes(d.of) /\ d \in performed
        BY <1>1, <2>2 DEF Changes
      <3> QED BY <3>1 DEF LogFits
    <2> QED BY <2>1, <2>2
  <1> HIDE DEF nr, c
  <1>6. \A e \in audit : e.change # c
    BY <1>4 DEF LogFits, Accounted
  <1>7. ASSUME NEW g \in Handlers, Pending(g)'
        PROVE  Change(g)' \in performed' /\ \A e \in audit' : e.change # Change(g)'
    BY <1>1, <1>2, <1>6, <1>7 DEF LogFits
  <1>8. ASSUME NEW g \in Handlers, NEW k \in Handlers,
               Pending(g)', Pending(k)', Change(g)' = Change(k)'
        PROVE  g = k
    <2>1. \A f \in Handlers \ {h} : Pending(f) => Change(f) # c
      BY <1>4 DEF LogFits
    <2> QED BY <1>2, <1>8, <2>1 DEF LogFits
  <1>9. Accounted'
    <2>1. ASSUME NEW d \in performed'
          PROVE  \/ (\E u \in unaudited' : u.change = d) \/ \E e \in audit' : e.change = d
                 \/ \E g \in Handlers : Pending(g)' /\ Change(g)' = d
      <3>1. CASE d = c BY <1>2, <3>1
      <3>2. CASE d # c
        <4>1. \/ (\E u \in unaudited : u.change = d) \/ \E e \in audit : e.change = d
              \/ \E g \in Handlers : Pending(g) /\ Change(g) = d
          BY <1>1, <3>2 DEF LogFits, Accounted
        <4> QED BY <1>1, <1>2, <4>1
      <3> QED BY <3>1, <3>2
    <2>2. /\ \A e, f \in audit' : e.change = f.change => e = f
          /\ \A e \in audit' : e.change \in performed'
      BY <1>1 DEF LogFits, Accounted
    <2> QED BY <2>1, <2>2 DEF Accounted
  <1>10. \A u \in unaudited' : u.change \in performed'
    BY <1>1 DEF LogFits
  <1> QED BY <1>5, <1>7, <1>8, <1>9, <1>10 DEF LogFits

LEMMA StepLog ==
  ASSUME TypeOK, LogFits, [Next]_vars
  PROVE  LogFits'
  <1>1. CASE UNCHANGED <<audit, performed, unaudited, handler>>
    BY <1>1, LogKept DEF Pending, Change, By
  <1>2. CASE RunMaintenance
    <2>1. /\ UNCHANGED <<performed, handler>> /\ audit' \subseteq audit
          /\ unaudited \subseteq unaudited'
      BY <1>2 DEF RunMaintenance
    <2>2. \A h \in Handlers : (Pending(h)' <=> Pending(h)) /\ Change(h)' = Change(h)
      BY <2>1 DEF Pending, Change, By
    <2>3. ASSUME NEW e \in audit \ audit' PROVE \E u \in unaudited' : u.change = e.change
      <3>1. /\ e.createdAt \in Int /\ maintenance \in Int /\ maintenance <= clock
            /\ ~(e.createdAt >= maintenance - Retention)
        BY <1>2 DEF RunMaintenance, TypeOK
      <3>2. clock - e.createdAt > Retention
        BY <3>1, AdminRequestsAssumption DEF TypeOK
      <3>3. [change |-> e.change, why |-> "old"] \in unaudited'
        BY <1>2, <3>2 DEF RunMaintenance
      <3> QED BY <3>3
    <2>4. Accounted'
      <3>1. ASSUME NEW c \in performed'
            PROVE  \/ (\E u \in unaudited' : u.change = c) \/ \E e \in audit' : e.change = c
                   \/ \E g \in Handlers : Pending(g)' /\ Change(g)' = c
        <4>1. \/ (\E u \in unaudited : u.change = c) \/ \E e \in audit : e.change = c
              \/ \E g \in Handlers : Pending(g) /\ Change(g) = c
          BY <2>1 DEF LogFits, Accounted
        <4> QED BY <2>1, <2>2, <2>3, <4>1
      <3> QED BY <2>1, <3>1 DEF LogFits, Accounted
    <2>5. \A c \in performed' : c.nr <= Cardinality(Changes(c.of)')
      BY <2>1 DEF LogFits, Changes
    <2>6. ASSUME NEW u \in unaudited' PROVE u.change \in performed'
      <3>1. u \in unaudited \/ \E e \in audit : u = [change |-> e.change, why |-> "old"]
        BY <1>2, <2>6 DEF RunMaintenance
      <3> QED BY <2>1, <3>1 DEF LogFits, Accounted
    <2> QED BY <2>1, <2>2, <2>4, <2>5, <2>6 DEF LogFits
  <1>3. ASSUME NEW h \in Handlers, NEW i \in Invocation,
               handler' = [handler EXCEPT ![h] = i], ~Pending(h),
               i.at \notin {"reauthenticate", "audit"},
               UNCHANGED <<audit, performed, unaudited>>
        PROVE  LogFits'
    <2>1. handler'[h] = i /\ \A g \in Handlers \ {h} : handler'[g] = handler[g]
      BY <1>3 DEF TypeOK
    <2>2. \A g \in Handlers : (Pending(g)' <=> Pending(g))
      BY <1>3, <2>1 DEF Pending
    <2>3. \A g \in Handlers : Pending(g) => Change(g)' = Change(g)
      BY <1>3, <2>1 DEF Change, By
    <2> QED BY <1>3, <2>2, <2>3, LogKept
  <1>4. ASSUME NEW h \in Handlers, NEW r \in Requests, Arrive(h, r) PROVE LogFits'
    <2>1. handler'[h].at = "authorize" /\ handler[h].at = "idle"
      BY <1>4 DEF Arrive, TypeOK, Idle
    <2>2. UNCHANGED <<audit, performed, unaudited>>
      BY <1>4 DEF Arrive, ghosts
    <2>3. \A g \in Handlers \ {h} : handler'[g] = handler[g]
      BY <1>4 DEF Arrive, TypeOK
    <2>4. \A g \in Handlers : (Pending(g)' <=> Pending(g))
      BY <2>1, <2>3 DEF Pending
    <2>5. \A g \in Handlers : Pending(g) => Change(g)' = Change(g)
      BY <2>1, <2>3 DEF Pending, Change, By
    <2> QED BY <2>2, <2>4, <2>5, LogKept
  <1>5. ASSUME NEW h \in Handlers, Authorize(h) PROVE LogFits'
    <2>1. ~Pending(h) /\ UNCHANGED <<audit, performed, unaudited>>
      BY <1>5 DEF Authorize, Pending, ghosts
    <2>2. PICK i \in Invocation : /\ handler' = [handler EXCEPT ![h] = i]
                                  /\ i.at \notin {"reauthenticate", "audit"}
      BY <1>5, AuthorizeMoves, IdleInvocation
    <2> QED BY <1>3, <2>1, <2>2
  <1>6. ASSUME NEW h \in Handlers, Claim(h) PROVE LogFits'
    <2>1. ~Pending(h) /\ UNCHANGED <<audit, performed, unaudited>>
      BY <1>6 DEF Claim, Pending
    <2>2. \/ handler' = [handler EXCEPT ![h] = Idle]
          \/ handler' = [handler EXCEPT ![h] = [handler[h] EXCEPT !.at = "work"]]
      BY <1>6 DEF Claim
    <2> QED BY <1>3, <2>1, <2>2, IdleInvocation, Onward DEF Places
  <1>7. ASSUME NEW h \in Handlers, Refuse(h) \/ Die(h) PROVE LogFits'
    BY <1>3, <1>7, IdleInvocation DEF Refuse, Die, Pending, ghosts
  <1>8. ASSUME NEW h \in Handlers, RecordAudit(h) \/ AuditLost(h) PROVE LogFits'
    BY <1>8, EntrySettled DEF RecordAudit, AuditLost, Unwritten, Pending, ghosts
  <1>9. ASSUME NEW h \in Handlers, Reauthenticate(h) PROVE LogFits'
    <2>1. Pending(h) /\ UNCHANGED <<audit, performed>>
      BY <1>9 DEF Reauthenticate, Pending
    <2>2. CASE Unwritten(h, "expired")
      BY <2>1, <2>2, EntrySettled DEF Unwritten
    <2>3. CASE handler' = [handler EXCEPT ![h].at = "audit"] /\ unaudited' = unaudited
      <3>1. /\ handler'[h].at = "audit" /\ handler'[h].of = handler[h].of
            /\ handler'[h].nr = handler[h].nr /\ handler'[h].admin = handler[h].admin
            /\ \A g \in Handlers \ {h} : handler'[g] = handler[g]
        BY <2>3 DEF TypeOK, Invocation
      <3>2. \A g \in Handlers : (Pending(g)' <=> Pending(g)) /\ Change(g)' = Change(g)
        BY <2>1, <3>1 DEF Pending, Change, By
      <3> QED BY <2>1, <2>3, <3>2, LogKept
    <2> QED BY <1>9, <2>2, <2>3 DEF Reauthenticate
  <1>10. ASSUME NEW h \in Handlers, Perform(h) PROVE LogFits'
    BY <1>10, PerformLog
  <1>11. CASE \/ StartLogin \/ SignToken \/ LoginFails \/ ClearAuth \/ Tick
              \/ PutPrevious \/ PutCurrent \/ Deployed \/ RetirePrevious
              \/ StartMaintenance \/ (\E r \in Requests : Send(r)) \/ UNCHANGED vars
    BY <1>1, <1>11 DEF StartLogin, SignToken, LoginFails, ClearAuth, Tick, Put, PutPrevious,
                       PutCurrent, Deployed, RetirePrevious,
                       StartMaintenance, Send, vars, ghosts
  <1> QED
    BY <1>2, <1>4, <1>5, <1>6, <1>7, <1>8, <1>9, <1>10, <1>11 DEF Next

LEMMA LogHolds == Spec => []LogFits
  BY TypeCorrect, InitLog, StepLog, PTL DEF Spec

\* What an invocation relies on: only the JWT's second authentication comes
\* before an entry, and the token that allowed a change was one of its secrets'.
AdmittedAs(i) ==
  /\ i.at = "reauthenticate" => i.admin
  /\ i.admin => /\ i.of \in Requests /\ request[i.of].token # None
                /\ request[i.of].token.key \in i.keys

Admitted == \A h \in Handlers : AdmittedAs(handler[h])

LEMMA InitAdmitted == Init => Admitted
  BY DEF Init, Admitted, AdmittedAs, Idle

\* One invocation moves on, or ends.
LEMMA AdmittedKept ==
  ASSUME TypeOK, Admitted, NEW h \in Handlers, NEW i,
         handler' = [handler EXCEPT ![h] = i], UNCHANGED request, AdmittedAs(i)
  PROVE  Admitted'
  <1>1. ASSUME NEW g \in Handlers PROVE AdmittedAs(handler'[g])
    BY DEF TypeOK, Admitted
  <1>2. \A g \in Handlers : AdmittedAs(handler[g])'
    BY <1>1 DEF AdmittedAs
  <1> QED BY <1>2 DEF Admitted

LEMMA IdleAdmitted == AdmittedAs(Idle)
  BY DEF AdmittedAs, Idle

LEMMA StepAdmitted ==
  ASSUME TypeOK, Admitted, [Next]_vars
  PROVE  Admitted'
  <1>1. CASE UNCHANGED <<request, handler>>
    BY <1>1 DEF Admitted, AdmittedAs
  <1>2. ASSUME NEW r \in Requests, Send(r) PROVE Admitted'
    <2>1. /\ UNCHANGED handler /\ request[r].token = None
          /\ \A q \in Requests \ {r} : request'[q] = request[q]
      BY <1>2 DEF Send, Unsent, TypeOK
    <2> QED BY <2>1 DEF Admitted, AdmittedAs
  <1>3. ASSUME NEW h \in Handlers, NEW r \in Requests, Arrive(h, r) PROVE Admitted'
    <2>1. PICK i : /\ handler' = [handler EXCEPT ![h] = i]
                   /\ i.at = "authorize" /\ i.admin = FALSE
      <3>1. PICK bindings \in live :
               handler' = [handler EXCEPT ![h] =
                   [Idle EXCEPT !.at = "authorize", !.of = r, !.verified = Fresh(r),
                                !.keys = KeysOf(bindings)]]
        BY <1>3 DEF Arrive
      <3> DEFINE i == [Idle EXCEPT !.at = "authorize", !.of = r, !.verified = Fresh(r),
                                   !.keys = KeysOf(bindings)]
      <3>2. i.at = "authorize" /\ i.admin = FALSE BY DEF Idle
      <3> HIDE DEF i
      <3> QED BY <3>1, <3>2 DEF i
    <2>2. AdmittedAs(i) BY <2>1 DEF AdmittedAs
    <2> QED BY <1>3, <2>1, <2>2, AdmittedKept DEF Arrive
  <1>4. ASSUME NEW h \in Handlers, Authorize(h) PROVE Admitted'
    <2> DEFINE admin == ValidToken(request[handler[h].of].token, handler[h].keys)
    <2>1. /\ handler[h] \in Invocation /\ handler[h].of \in Requests
          /\ handler[h].at = "authorize" /\ UNCHANGED request /\ AdmittedAs(handler[h])
      BY <1>4 DEF Authorize, TypeOK, Admitted
    <2>2. CASE admin
      <3> DEFINE i == [handler[h] EXCEPT !.at = "work", !.admin = TRUE]
      <3>1. handler' = [handler EXCEPT ![h] = i]
        BY <1>4, <2>2 DEF Authorize
      <3>2. i.of = handler[h].of /\ i.keys = handler[h].keys /\ i.at = "work"
        BY <2>1 DEF Invocation
      <3> HIDE DEF i
      <3>3. AdmittedAs(i)
        BY <2>1, <2>2, <3>2 DEF AdmittedAs, ValidToken
      <3> QED BY <2>1, <3>1, <3>3, AdmittedKept
    <2>3. CASE ~admin /\ MayClaim(h)
      <3> DEFINE i == [handler[h] EXCEPT !.at = "claim"]
      <3>1. handler' = [handler EXCEPT ![h] = i]
        BY <1>4, <2>3 DEF Authorize
      <3>2. /\ i.of = handler[h].of /\ i.keys = handler[h].keys /\ i.at = "claim"
            /\ i.admin = handler[h].admin
        BY <2>1 DEF Invocation
      <3> HIDE DEF i
      <3>3. AdmittedAs(i)
        BY <2>1, <3>2 DEF AdmittedAs
      <3> QED BY <2>1, <3>1, <3>3, AdmittedKept
    <2>4. CASE ~admin /\ ~MayClaim(h)
      BY <1>4, <2>1, <2>4, IdleAdmitted, AdmittedKept DEF Authorize
    <2> QED BY <2>2, <2>3, <2>4
  <1>5. ASSUME NEW h \in Handlers, NEW at \in {"work", "audit"},
               handler' = [handler EXCEPT ![h] = [handler[h] EXCEPT !.at = at]],
               UNCHANGED request
        PROVE  Admitted'
    <2> DEFINE i == [handler[h] EXCEPT !.at = at]
    <2>1. /\ i.of = handler[h].of /\ i.keys = handler[h].keys /\ i.at = at
          /\ i.admin = handler[h].admin
      BY DEF TypeOK, Invocation
    <2>2. AdmittedAs(handler[h]) /\ handler' = [handler EXCEPT ![h] = i]
      BY <1>5 DEF Admitted
    <2> HIDE DEF i
    <2>3. AdmittedAs(i)
      BY <2>1, <2>2 DEF AdmittedAs
    <2> QED BY <1>5, <2>2, <2>3, AdmittedKept
  <1>6. ASSUME NEW h \in Handlers, Claim(h) \/ Reauthenticate(h) PROVE Admitted'
    <2>1. UNCHANGED request
      BY <1>6 DEF Claim, Reauthenticate
    <2>2. \/ handler' = [handler EXCEPT ![h] = Idle]
          \/ handler' = [handler EXCEPT ![h] = [handler[h] EXCEPT !.at = "work"]]
          \/ handler' = [handler EXCEPT ![h] = [handler[h] EXCEPT !.at = "audit"]]
      BY <1>6 DEF Claim, Reauthenticate, Unwritten
    <2> QED BY <1>5, <2>1, <2>2, IdleAdmitted, AdmittedKept
  <1>7. ASSUME NEW h \in Handlers, Perform(h) PROVE Admitted'
    <2> DEFINE nr == Cardinality(Changes(handler[h].of)) + 1
               i == [handler[h] EXCEPT !.at = Scheduled(h), !.nr = nr]
    <2>1. handler' = [handler EXCEPT ![h] = i] /\ UNCHANGED request
      BY <1>7 DEF Perform
    <2>2. handler[h] \in Invocation /\ AdmittedAs(handler[h])
      BY DEF TypeOK, Admitted
    <2> HIDE DEF nr
    <2>3. /\ i.of = handler[h].of /\ i.keys = handler[h].keys /\ i.at = Scheduled(h)
          /\ i.admin = handler[h].admin
      BY <2>2 DEF Invocation
    <2> HIDE DEF i
    <2>4. AdmittedAs(i)
      BY <2>2, <2>3 DEF AdmittedAs, Scheduled
    <2> QED BY <2>1, <2>4, AdmittedKept
  <1>8. ASSUME NEW h \in Handlers, Refuse(h) \/ RecordAudit(h) \/ AuditLost(h) \/ Die(h)
        PROVE  Admitted'
    BY <1>8, IdleAdmitted, AdmittedKept DEF Refuse, RecordAudit, AuditLost, Die, Unwritten
  <1>9. CASE \/ StartLogin \/ SignToken \/ LoginFails \/ ClearAuth \/ Tick
             \/ PutPrevious \/ PutCurrent \/ Deployed \/ RetirePrevious
             \/ StartMaintenance \/ RunMaintenance \/ UNCHANGED vars
    BY <1>1, <1>9 DEF StartLogin, SignToken, LoginFails, ClearAuth, Tick, Put, PutPrevious,
                      PutCurrent, Deployed, RetirePrevious, StartMaintenance,
                      RunMaintenance, vars
  <1> QED
    BY <1>2, <1>3, <1>4, <1>6, <1>7, <1>8, <1>9 DEF Next

\* A change lost its entry to the second authentication: its token had expired,
\* and nobody is going to write the entry after all.
ExpiredFits(u) ==
  /\ u.change.by = "password-jwt"
  /\ request[u.change.of].token # None /\ request[u.change.of].token.exp < clock
  /\ \A e \in audit : e.change # u.change
  /\ \A h \in Handlers : Pending(h) => Change(h) # u.change

ExpiryFits == \A u \in unaudited : u.why = "expired" => ExpiredFits(u)

LEMMA InitExpiry == Init => ExpiryFits
  BY DEF Init, ExpiryFits

\* No entry is given up, and none written; entries that become pending are of
\* changes that were not there.
LEMMA ExpiryKept ==
  ASSUME TypeOK, LogFits, ExpiryFits,
         clock' \in Int, clock <= clock', audit' \subseteq audit,
         \A u \in unaudited' : u \in unaudited \/ u.why # "expired",
         \A q \in Requests : request[q].token # None => request'[q] = request[q],
         \A g \in Handlers : Pending(g)' =>
            \/ Pending(g) /\ Change(g)' = Change(g)
            \/ Change(g)' \notin performed
  PROVE  ExpiryFits'
  <1> SUFFICES ASSUME NEW u \in unaudited', u.why = "expired" PROVE ExpiredFits(u)'
    BY DEF ExpiryFits
  <1>1. u \in unaudited /\ ExpiredFits(u) /\ u.change \in performed
    BY DEF ExpiryFits, LogFits
  <1>2. u.change.of \in Requests
    BY <1>1 DEF TypeOK, Done
  <1>3. request[u.change.of].token \in Token
    BY <1>1, <1>2 DEF ExpiredFits, TypeOK, Credentials
  <1>4. request'[u.change.of] = request[u.change.of]
    BY <1>1, <1>2 DEF ExpiredFits
  <1>5. request[u.change.of].token.exp < clock'
    BY <1>1, <1>3 DEF ExpiredFits, TypeOK, Token
  <1>6. \A e \in audit' : e.change # u.change
    BY <1>1 DEF ExpiredFits
  <1>7. \A g \in Handlers : Pending(g)' => Change(g)' # u.change
    BY <1>1 DEF ExpiredFits
  <1> QED BY <1>1, <1>4, <1>5, <1>6, <1>7 DEF ExpiredFits

LEMMA StepExpiry ==
  ASSUME TypeOK, Admitted, LogFits, ExpiryFits, [Next]_vars
  PROVE  ExpiryFits'
  <1> clock \in Int BY DEF TypeOK
  <1>1. CASE UNCHANGED <<audit, unaudited, handler, request>> /\ clock' \in {clock, clock + 1}
    BY <1>1, ExpiryKept DEF Pending, Change, By
  <1>2. CASE RunMaintenance
    <2>1. /\ UNCHANGED <<clock, handler, request>> /\ audit' \subseteq audit
          /\ \A u \in unaudited' : u \in unaudited \/ u.why = "old"
      BY <1>2 DEF RunMaintenance
    <2> QED BY <2>1, ExpiryKept DEF Pending, Change, By
  <1>3. ASSUME NEW r \in Requests, Send(r) PROVE ExpiryFits'
    <2>1. /\ UNCHANGED <<clock, audit, unaudited, handler>> /\ request[r].token = None
          /\ \A q \in Requests \ {r} : request'[q] = request[q]
      BY <1>3 DEF Send, Unsent, TypeOK, ghosts
    <2>2. \A g \in Handlers : (Pending(g)' <=> Pending(g)) /\ Change(g)' = Change(g)
      BY <2>1 DEF Pending, Change, By
    <2> QED BY <2>1, <2>2, ExpiryKept
  <1>4. ASSUME NEW h \in Handlers, UNCHANGED <<clock, audit, request>>,
               \A u \in unaudited' : u \in unaudited \/ u.why # "expired",
               \A g \in Handlers \ {h} : handler'[g] = handler[g],
               \/ ~Pending(h)'
               \/ Pending(h) /\ Change(h)' = Change(h)
               \/ Change(h)' \notin performed
        PROVE  ExpiryFits'
    <2>1. \A g \in Handlers \ {h} : (Pending(g)' <=> Pending(g)) /\ Change(g)' = Change(g)
      BY <1>4 DEF Pending, Change, By
    <2> QED BY <1>4, <2>1, ExpiryKept
  <1>5. ASSUME NEW h \in Handlers, NEW r \in Requests, Arrive(h, r) PROVE ExpiryFits'
    <2>1. /\ handler'[h].at = "authorize" /\ \A g \in Handlers \ {h} : handler'[g] = handler[g]
          /\ UNCHANGED <<clock, audit, request, unaudited>>
      BY <1>5 DEF Arrive, TypeOK, Idle, ghosts
    <2> QED BY <1>4, <2>1 DEF Pending
  <1>6. ASSUME NEW h \in Handlers, Authorize(h) PROVE ExpiryFits'
    <2>1. PICK i \in Invocation : /\ handler' = [handler EXCEPT ![h] = i]
                                  /\ i.at \notin {"reauthenticate", "audit"}
      BY <1>6, AuthorizeMoves, IdleInvocation
    <2>2. /\ handler'[h] = i /\ \A g \in Handlers \ {h} : handler'[g] = handler[g]
          /\ UNCHANGED <<clock, audit, request, unaudited>>
      BY <1>6, <2>1 DEF Authorize, TypeOK, ghosts
    <2> QED BY <1>4, <2>1, <2>2 DEF Pending
  <1>7. ASSUME NEW h \in Handlers, Claim(h) \/ Refuse(h) \/ Die(h) PROVE ExpiryFits'
    <2>1. /\ handler'[h].at \notin {"reauthenticate", "audit"}
          /\ \A g \in Handlers \ {h} : handler'[g] = handler[g]
      BY <1>7, IdleInvocation DEF Claim, Refuse, Die, TypeOK, Invocation
    <2>2. UNCHANGED <<clock, audit, request, unaudited>>
      BY <1>7 DEF Claim, Refuse, Die, ghosts
    <2> QED BY <1>4, <2>1, <2>2 DEF Pending
  <1>8. ASSUME NEW h \in Handlers, Perform(h) PROVE ExpiryFits'
    <2> DEFINE r == handler[h].of
               nr == Cardinality(Changes(r)) + 1
               c == [of |-> r, nr |-> nr, by |-> By(handler[h].admin)]
    <2>1. /\ UNCHANGED <<clock, audit, request, unaudited>>
          /\ c.of = r /\ c.nr = nr
      BY <1>8 DEF Perform
    <2>2. Change(h)' = c /\ \A g \in Handlers \ {h} : handler'[g] = handler[g]
      <3>1. PICK i \in Invocation :
              /\ handler' = [handler EXCEPT ![h] = i]
              /\ i.of = r /\ i.admin = handler[h].admin /\ i.nr = nr
        BY <1>8, PerformMoves
      <3> HIDE DEF nr
      <3>2. handler'[h] = i /\ \A g \in Handlers \ {h} : handler'[g] = handler[g]
        BY <3>1 DEF TypeOK
      <3> QED BY <3>1, <3>2 DEF Change, By
    <2>3. c \notin performed
      <3>1. SUFFICES ASSUME c \in performed PROVE FALSE OBVIOUS
      <3>2. c.nr <= Cardinality(Changes(r)) BY <2>1, <3>1 DEF LogFits
      <3> QED BY <2>1, <3>2, ChangesFinite
    <2> HIDE DEF c
    <2> QED BY <1>4, <2>1, <2>2, <2>3
  <1>9. ASSUME NEW h \in Handlers, AuditLost(h) PROVE ExpiryFits'
    <2>1. /\ handler'[h].at = "idle" /\ \A g \in Handlers \ {h} : handler'[g] = handler[g]
          /\ UNCHANGED <<clock, audit, request>>
          /\ \A u \in unaudited' : u \in unaudited \/ u.why = "lost"
      BY <1>9, IdleInvocation DEF AuditLost, Unwritten, TypeOK
    <2> QED BY <1>4, <2>1 DEF Pending
  <1>10. ASSUME NEW h \in Handlers, Reauthenticate(h) PROVE ExpiryFits'
    <2> DEFINE token == request[handler[h].of].token
    <2>1. /\ handler[h].at = "reauthenticate" /\ UNCHANGED <<clock, audit, request>>
          /\ handler[h].of \in Requests /\ handler[h] \in Invocation
      BY <1>10 DEF Reauthenticate, TypeOK
    <2>2. CASE handler' = [handler EXCEPT ![h].at = "audit"] /\ unaudited' = unaudited
      <3>1. /\ handler'[h].of = handler[h].of /\ handler'[h].nr = handler[h].nr
            /\ handler'[h].admin = handler[h].admin
            /\ \A g \in Handlers \ {h} : handler'[g] = handler[g]
        BY <2>2 DEF TypeOK, Invocation
      <3>2. Pending(h) /\ Change(h)' = Change(h)
        BY <2>1, <3>1 DEF Pending, Change, By
      <3> QED BY <1>4, <2>1, <2>2, <3>1, <3>2
    <2>3. CASE ~ValidToken(token, handler[h].keys) /\ Unwritten(h, "expired")
      <3> PICK missing : missing = [change |-> Change(h), why |-> "expired"]
        OBVIOUS
      <3>1. /\ token # None /\ token.key \in handler[h].keys /\ handler[h].admin
        BY <2>1 DEF Admitted, AdmittedAs
      <3>2. token.exp < clock
        <4>1. token.exp \in Int
          BY <2>1, <3>1 DEF TypeOK, Credentials, Token
        <4> QED BY <2>3, <3>1, <4>1 DEF ValidToken
      <3>3. /\ handler'[h].at = "idle" /\ \A g \in Handlers \ {h} : handler'[g] = handler[g]
            /\ unaudited' = unaudited \cup {missing}
        BY <2>3, IdleInvocation DEF Unwritten, TypeOK
      <3>4. /\ missing.change = Change(h) /\ Change(h).of = handler[h].of
            /\ Change(h).by = "password-jwt"
        BY <3>1 DEF Change, By
      <3>5. Pending(h) /\ ~Pending(h)'
        BY <2>1, <3>3 DEF Pending
      <3>6. \A g \in Handlers \ {h} : (Pending(g)' <=> Pending(g)) /\ Change(g)' = Change(g)
        BY <3>3 DEF Pending, Change, By
      <3>7. ASSUME NEW u \in unaudited, u.why = "expired" PROVE ExpiredFits(u)'
        <4>1. ExpiredFits(u) BY <3>7 DEF ExpiryFits
        <4> QED BY <2>1, <3>5, <3>6, <4>1 DEF ExpiredFits
      <3>8. ExpiredFits(missing)'
        <4>1. \A e \in audit' : e.change # missing.change
          BY <2>1, <3>4, <3>5 DEF LogFits
        <4>2. \A g \in Handlers : Pending(g)' => Change(g)' # missing.change
          BY <3>4, <3>5, <3>6 DEF LogFits
        <4> QED BY <2>1, <3>1, <3>2, <3>4, <4>1, <4>2 DEF ExpiredFits
      <3> QED BY <3>3, <3>7, <3>8 DEF ExpiryFits
    <2> QED BY <1>10, <2>2, <2>3 DEF Reauthenticate
  <1>11. ASSUME NEW h \in Handlers, RecordAudit(h) PROVE ExpiryFits'
    <2>1. /\ UNCHANGED <<clock, request, unaudited>> /\ audit' = audit \cup {Entry(h)}
          /\ handler'[h].at = "idle" /\ \A g \in Handlers \ {h} : handler'[g] = handler[g]
          /\ Pending(h)
      BY <1>11, IdleInvocation DEF RecordAudit, TypeOK, Pending, ghosts
    <2>2. Entry(h).change = Change(h) BY DEF Entry
    <2>3. \A g \in Handlers : Pending(g)' => Pending(g) /\ Change(g)' = Change(g)
      BY <2>1 DEF Pending, Change, By
    <2> SUFFICES ASSUME NEW u \in unaudited, u.why = "expired" PROVE ExpiredFits(u)'
      BY <2>1 DEF ExpiryFits
    <2>4. ExpiredFits(u) BY DEF ExpiryFits
    <2>5. \A e \in audit' : e.change # u.change
      BY <2>1, <2>2, <2>4 DEF ExpiredFits
    <2> QED BY <2>1, <2>3, <2>4, <2>5 DEF ExpiredFits
  <1>12. CASE \/ StartLogin \/ SignToken \/ LoginFails \/ ClearAuth \/ Tick
              \/ PutPrevious \/ PutCurrent \/ Deployed \/ RetirePrevious
              \/ StartMaintenance \/ UNCHANGED vars
    BY <1>1, <1>12 DEF StartLogin, SignToken, LoginFails, ClearAuth, Tick, Put, PutPrevious,
                       PutCurrent, Deployed, RetirePrevious, StartMaintenance, vars, ghosts
  <1> QED
    BY <1>2, <1>3, <1>5, <1>6, <1>7, <1>8, <1>9, <1>10, <1>11, <1>12 DEF Next

\* No change has two entries in admin_audit_log, nothing else has one, and a
\* change has its entry unless the write failed, the invocation ended, the
\* entry is past its retention, or the JWT that allowed the change had expired
\* when it was authenticated again (scheduleAutomationAudit,
\* scheduleJwtMutationAudit).
THEOREM LogIsExact == Spec => []AuditIsExact
  <1>1. LogFits /\ ExpiryFits => AuditIsExact
    BY DEF LogFits, Accounted, ExpiryFits, ExpiredFits, AuditIsExact, Pending
  <1>2. Spec => []Admitted
    BY TypeCorrect, InitAdmitted, StepAdmitted, PTL DEF Spec
  <1>3. Spec => []ExpiryFits
    BY <1>2, TypeCorrect, LogHolds, InitExpiry, StepExpiry, PTL DEF Spec
  <1> QED BY <1>1, <1>3, LogHolds, PTL
=============================================================================
