--------------------------- MODULE EdgeGate_proofs ---------------------------
(***************************************************************************)
(* Proofs about EdgeGate, for any number of sessions, isolates and         *)
(* addresses and for all times that satisfy the module's assumption.       *)
(*                                                                         *)
(* The argument follows one grant.  It was decided at some now, gave its   *)
(* address a lease until now + LeaseTtl, and stands as long as that lease  *)
(* is there or has run out (Stands).  Every admission rests on such a      *)
(* grant and is younger than a check and a remembered grant may be old, so *)
(* it is used up before the lease ends.  A batch deletes expired rows      *)
(* before it counts them, so there are never more rows than the limit.     *)
(***************************************************************************)
EXTENDS EdgeGate, FiniteSetTheorems, TLAPS

\* Addresses with a row in active_leases, expired or not.
Rows == {a \in Addresses : lease[a] # -1}

\* A grant the control plane gave at g: its lease has not been shortened.
Stands(a, g) ==
    /\ g \in 0..clock
    /\ account = "over" => g <= since
    /\ g > clearedAt => (lease[a] >= g + LeaseTtl \/ g + LeaseTtl <= clock)

FitSession(r) ==
    /\ r \in Session
    /\ r.check # "none" => /\ r.began \in (clock - CheckLimit)..clock
                           /\ 0 <= r.began
    /\ r.check = "granted" => r.began <= r.answer /\ Stands(r.address, r.answer)
    /\ r.at = "live" =>
         /\ r.last \in Time
         /\ r.check # "none" => r.overdue = r.began
         /\ r.check = "none" => r.overdue = None
         /\ r.granted # None => /\ Stands(r.address, r.granted)
                                /\ r.last < r.granted + CheckLimit + CacheLife

FitEntry(a, e) ==
    /\ e \in Entry
    /\ e.until > clock => /\ Stands(a, e.granted)
                          /\ e.until <= e.granted + CheckLimit + CacheLife

Inv ==
    /\ clock \in Time /\ account \in {"open", "over", "gone"} /\ changes \in 0..MaxChanges
    /\ since \in Time \cup {-1} /\ clearedAt \in Time \cup {-1}
    /\ account = "over" => since \in 0..clock
    /\ lease \in [Addresses -> -1..(MaxTime + LeaseTtl)]
    /\ Cardinality(Rows) <= Limit
    /\ cache \in [Isolates -> [Addresses -> Entry]]
    /\ \A i \in Isolates, a \in Addresses : FitEntry(a, cache[i][a])
    /\ session \in [Sessions -> Session]
    /\ \A s \in Sessions : FitSession(session[s])

-----------------------------------------------------------------------------
LEMMA Numbers ==
    /\ Limit \in Nat /\ LeaseTtl \in Nat /\ CacheLife \in Nat /\ Renew \in Nat
    /\ CheckLimit \in Nat /\ MaxTime \in Nat /\ MaxChanges \in Nat
    /\ 0 < CacheLife /\ 2 * CheckLimit + CacheLife + Renew <= LeaseTtl
    /\ None \notin Int
    /\ IsFiniteSet(Addresses) /\ IsFiniteSet(Sessions)
BY EdgeGateAssumption

LEMMA ClosedFits ==
    ASSUME Inv, NEW i \in Isolates, NEW a \in Addresses
    PROVE  FitSession(Closed(i, a))
BY Numbers DEF Closed, FitSession, Session, Time

LEMMA InitFits == Init => Inv
<1> SUFFICES ASSUME Init PROVE Inv
  OBVIOUS
<1> USE Numbers
<1>1. Cardinality(Rows) <= Limit
  <2>1. Rows = {}
    BY DEF Init, Rows
  <2> QED BY <2>1, FS_EmptySet
<1>2. \A s \in Sessions : FitSession(session[s])
  BY DEF Init, Closed, FitSession, Session, Time
<1>3. \A i \in Isolates, a \in Addresses : FitEntry(a, cache[i][a])
  BY DEF Init, Forgotten, FitEntry, Entry
<1>4. session \in [Sessions -> Session]
  BY DEF Init, Closed, Session
<1>5. cache \in [Isolates -> [Addresses -> Entry]]
  BY DEF Init, Forgotten, Entry
<1> QED BY <1>1, <1>2, <1>3, <1>4, <1>5 DEF Init, Inv, Time

-----------------------------------------------------------------------------
\* A step that only changes one session, to one that fits.
LEMMA SessionStep ==
    ASSUME Inv, NEW s \in Sessions, NEW r, FitSession(r),
           session' = [session EXCEPT ![s] = r],
           UNCHANGED <<clock, account, lease, cache, changes, since, clearedAt>>
    PROVE  Inv'
<1>1. \A t \in Sessions : FitSession(session'[t])
  BY DEF Inv
<1>2. \A t \in Sessions : FitSession(session[t])'
  BY <1>1 DEF FitSession, Stands
<1>3. \A i \in Isolates, a \in Addresses : FitEntry(a, cache[i][a])'
  BY DEF Inv, FitEntry, Stands
<1>4. session' \in [Sessions -> Session]
  BY DEF Inv, FitSession
<1>5. Cardinality(Rows') <= Limit
  BY DEF Inv, Rows
<1> QED BY <1>2, <1>3, <1>4, <1>5 DEF Inv

\* How a check may end.
LEMMA AdmittedFits ==
    ASSUME Inv, NEW r, FitSession(r), NEW g \in Int \cup {None},
           g # None => /\ Stands(r.address, g)
                       /\ clock < g + CheckLimit + CacheLife
    PROVE  FitSession(Admitted(r, g))
<1> r.isolate \in Isolates /\ r.address \in Addresses
  BY DEF FitSession, Session
<1>1. CASE r.at = "closed"
  BY <1>1, ClosedFits DEF Admitted
<1>2. CASE r.at # "closed"
  <2> DEFINE q == Admitted(r, g)
  <2>1. /\ q.at = "live" /\ q.check = "none" /\ q.last = clock /\ q.began = -1
        /\ q.answer = -1 /\ q.granted = g /\ q.overdue = None
        /\ q.isolate = r.isolate /\ q.address = r.address
    BY <1>2 DEF Admitted, Ended, FitSession, Session
  <2>2. clock \in Int
    BY Numbers DEF Inv, Time
  <2>3. q \in Session
    <3>1. Ended(r) \in Session
      <4>1. r \in Session
        BY DEF FitSession
      <4>2. -1 \in Int /\ "none" \in {"none", "hash", "asked", "granted", "denied"}
        OBVIOUS
      <4> QED BY <4>1, <4>2 DEF Ended, Session
    <3>2. q = [Ended(r) EXCEPT !.at = "live", !.last = clock, !.granted = g,
                               !.overdue = None]
      BY <1>2 DEF Admitted
    <3> HIDE DEF q
    <3> QED BY <2>2, <3>1, <3>2 DEF Session
  <2> HIDE DEF q
  <2>4. FitSession(q)
    BY <2>1, <2>3 DEF FitSession, Inv
  <2> QED BY <2>4 DEF q
<1> QED BY <1>1, <1>2

LEMMA RejectedFits ==
    ASSUME Inv, NEW r, FitSession(r)
    PROVE  FitSession(Rejected(r))
BY ClosedFits DEF Rejected, FitSession, Session

LEMMA OpenFits == ASSUME Inv, NEW s \in Sessions, Open(s) PROVE Inv'
<1>1. PICK i \in Isolates, a \in Addresses, step \in {"hash", "asked"} :
        session' = [session EXCEPT ![s] = Begin([Closed(i, a) EXCEPT !.at = "new"], step)]
  BY DEF Open
<1> DEFINE r == Begin([Closed(i, a) EXCEPT !.at = "new"], step)
<1>2. clock \in Nat /\ clock \in Int
  BY Numbers DEF Inv, Time
<1>3. r \in Session
  <2> DEFINE c == Closed(i, a)
             n == [c EXCEPT !.at = "new"]
  <2>1. c \in Session
    BY DEF Closed, Session
  <2> HIDE DEF c
  <2>2. n \in Session
    BY <2>1 DEF Session
  <2> HIDE DEF n
  <2>3. step \in {"none", "hash", "asked", "granted", "denied"}
    OBVIOUS
  <2>4. Begin(n, step) \in Session
    BY <1>2, <2>2, <2>3 DEF Session, Begin
  <2> QED BY <2>4 DEF n, c
<1>4. r.at = "new" /\ r.check = step /\ r.began = clock
  BY DEF Begin, Closed
<1> HIDE DEF r
<1>5. FitSession(r)
  BY <1>2, <1>3, <1>4, Numbers DEF FitSession
<1> QED BY <1>1, <1>5, SessionStep DEF Open, r

LEMMA UseRememberedFits == ASSUME Inv, NEW s \in Sessions, UseRemembered(s) PROVE Inv'
<1> DEFINE r == session[s]
           e == Remembered(r)
<1> USE Numbers
<1>1. FitSession(r) /\ r.isolate \in Isolates /\ r.address \in Addresses
  BY DEF Inv, FitSession, Session
<1>2. FitEntry(r.address, e) /\ clock < e.until
  BY <1>1 DEF Inv, UseRemembered, Remembered, FitEntry, Entry, Time
<1>3. e.granted \in Int /\ Stands(r.address, e.granted)
      /\ clock < e.granted + CheckLimit + CacheLife
  BY <1>2 DEF FitEntry, Entry, Inv, Time, Stands
<1> HIDE DEF r, e
<1>4. FitSession(Admitted(r, e.granted)) /\ FitSession(Rejected(r))
  BY <1>1, <1>3, AdmittedFits, RejectedFits
<1> QED BY <1>4, SessionStep DEF UseRemembered, r, e

LEMMA AskFits == ASSUME Inv, NEW s \in Sessions, Ask(s) PROVE Inv'
<1> DEFINE r == session[s]
           q == [r EXCEPT !.check = "asked"]
<1>1. FitSession(r) /\ r.check = "hash"
  BY DEF Inv, Ask
<1> HIDE DEF r
<1>2. q \in Session
  BY <1>1 DEF FitSession, Session
<1>3. FitSession(q)
  BY <1>1, <1>2 DEF FitSession, Session
<1> QED BY <1>3, SessionStep DEF Ask, r

LEMMA NoAnswerFits == ASSUME Inv, NEW s \in Sessions, NoAnswer(s) PROVE Inv'
<1>1. FitSession(Admitted(session[s], None))
  BY AdmittedFits DEF Inv
<1> QED BY <1>1, SessionStep DEF NoAnswer

LEMMA TakeRefusalFits == ASSUME Inv, NEW s \in Sessions, TakeRefusal(s) PROVE Inv'
<1>1. FitSession(Rejected(session[s]))
  BY RejectedFits DEF Inv
<1> QED BY <1>1, SessionStep DEF TakeRefusal

LEMMA CarryFits == ASSUME Inv, NEW s \in Sessions, Carry(s) PROVE Inv'
<1> USE Numbers
<1> DEFINE r == session[s]
           q == [(IF Asking(s) THEN r ELSE Begin(r, "asked")) EXCEPT
                   !.overdue = IF r.overdue = None THEN clock ELSE @]
<1>1. FitSession(r) /\ r.at = "live"
  BY DEF Inv, Carry
<1>2. CASE Asking(s)
  <2>1. r.overdue # None
    BY <1>1, <1>2 DEF Asking, FitSession, Session
  <2>2. q = r
    BY <1>1, <1>2, <2>1 DEF FitSession, Session
  <2> QED BY <1>1, <2>2, SessionStep DEF Carry
<1>3. CASE ~Asking(s)
  <2>1. r.overdue = None
    BY <1>1, <1>3 DEF Asking, FitSession
  <2>2. q = [r EXCEPT !.check = "asked", !.began = clock, !.overdue = clock]
    BY <1>1, <1>3, <2>1 DEF Begin, FitSession, Session
  <2> HIDE DEF r, q
  <2>3. clock \in Int
    BY DEF Inv, Time
  <2>4. q \in Session
    BY <1>1, <2>2, <2>3 DEF FitSession, Session
  <2>5. /\ q.at = "live" /\ q.check = "asked" /\ q.began = clock /\ q.overdue = clock
        /\ q.last = r.last /\ q.granted = r.granted /\ q.address = r.address
    BY <1>1, <2>2 DEF FitSession, Session
  <2>6. FitSession(q)
    BY <1>1, <2>4, <2>5 DEF FitSession, Inv, Time
  <2> QED BY <2>6, SessionStep DEF Carry, q, r
<1> QED BY <1>2, <1>3

LEMMA CloseFits == ASSUME Inv, NEW s \in Sessions, Close(s) PROVE Inv'
<1> DEFINE r == session[s]
           q == [r EXCEPT !.at = "closed"]
<1>1. FitSession(r) /\ r.isolate \in Isolates /\ r.address \in Addresses
  BY DEF Inv, FitSession, Session
<1>2. FitSession(Closed(r.isolate, r.address))
  BY <1>1, ClosedFits
<1> HIDE DEF r
<1>3. q \in Session
  BY <1>1 DEF FitSession, Session
<1>4. FitSession(q)
  BY <1>1, <1>3 DEF FitSession, Session
<1> QED BY <1>2, <1>4, SessionStep DEF Close, r

-----------------------------------------------------------------------------
\* The answer of a grant is remembered, and its session admitted.
LEMMA TakeGrantFits == ASSUME Inv, NEW s \in Sessions, TakeGrant(s) PROVE Inv'
<1> USE Numbers
<1> DEFINE r == session[s]
           e == Remember(r.answer)
           q == Admitted(r, r.answer)
<1>1. FitSession(r) /\ r.check = "granted" /\ r.answer \in Int
      /\ r.isolate \in Isolates /\ r.address \in Addresses
  BY DEF Inv, FitSession, Session, TakeGrant
<1>2. Stands(r.address, r.answer) /\ clock <= r.answer + CheckLimit /\ clock \in Nat
  BY <1>1 DEF FitSession, Session, Inv, Time
<1>3. FitSession(q)
  BY <1>1, <1>2, AdmittedFits
<1>4. e \in Entry /\ FitEntry(r.address, e)
  BY <1>1, <1>2 DEF Remember, Entry, FitEntry
<1>5. cache' = [cache EXCEPT ![r.isolate][r.address] = e]
      /\ session' = [session EXCEPT ![s] = q]
      /\ UNCHANGED <<clock, account, lease, changes, since, clearedAt>>
  BY DEF TakeGrant
<1> HIDE DEF r, e, q
<1>6. \A i \in Isolates, a \in Addresses :
        /\ (cache'[i][a] = e /\ a = r.address) \/ cache'[i][a] = cache[i][a]
        /\ FitEntry(a, cache'[i][a])
  BY <1>1, <1>4, <1>5 DEF Inv
<1>7. \A i \in Isolates, a \in Addresses : FitEntry(a, cache[i][a])'
  BY <1>5, <1>6 DEF FitEntry, Stands
<1>8. \A t \in Sessions : FitSession(session'[t])
  BY <1>3, <1>5 DEF Inv
<1>9. \A t \in Sessions : FitSession(session[t])'
  BY <1>5, <1>8 DEF FitSession, Stands
<1>10. session' \in [Sessions -> Session] /\ cache' \in [Isolates -> [Addresses -> Entry]]
  BY <1>1, <1>3, <1>4, <1>5 DEF Inv, FitSession
<1>11. Cardinality(Rows') <= Limit
  BY <1>5 DEF Inv, Rows
<1> QED BY <1>5, <1>7, <1>9, <1>10, <1>11 DEF Inv

\* A batch at an earlier now shortens no lease that still counts.
LEMMA StandsAfterBatch ==
    ASSUME Inv, NEW now \in 0..clock,
           UNCHANGED <<clock, account, since, clearedAt>>,
           \A a \in Addresses : lease'[a] >= lease[a] \/ lease[a] <= now,
           lease' \in [Addresses -> Int]
    PROVE  \A a \in Addresses : \A g \in Int : Stands(a, g) => Stands(a, g)'
<1> SUFFICES ASSUME NEW a \in Addresses, NEW g \in Int, Stands(a, g) PROVE Stands(a, g)'
  OBVIOUS
<1>1. lease[a] \in Int /\ lease'[a] \in Int /\ clock \in Int
  BY Numbers DEF Inv, Time
<1> QED BY <1>1, Numbers DEF Stands

\* Whatever stood and still stands lets caches and sessions fit as before.
LEMMA StandingFits ==
    ASSUME Inv, UNCHANGED <<clock, cache>>,
           \A a \in Addresses : \A g \in Int : Stands(a, g) => Stands(a, g)'
    PROVE  /\ \A i \in Isolates, a \in Addresses : FitEntry(a, cache[i][a])'
           /\ \A r : FitSession(r) => FitSession(r)'
<1>1. \A i \in Isolates, a \in Addresses : cache[i][a] \in Entry /\ cache[i][a].granted \in Int
  BY DEF Inv, Entry
<1>2. \A i \in Isolates, a \in Addresses : FitEntry(a, cache[i][a])'
  BY <1>1 DEF Inv, FitEntry
<1>3. ASSUME NEW r, FitSession(r) PROVE FitSession(r)'
  <2>1. r \in Session /\ r.address \in Addresses /\ r.answer \in Int
        /\ r.granted \in Int \cup {None}
    BY <1>3 DEF FitSession, Session
  <2> QED BY <1>3, <2>1 DEF FitSession
<1> QED BY <1>2, <1>3

LEMMA AdmitConnectionFits == ASSUME Inv, NEW s \in Sessions, AdmitConnection(s) PROVE Inv'
<1> USE Numbers
<1>0. PICK r : r = session[s]
  OBVIOUS
<1> DEFINE kept(now) == [a \in Addresses |-> IF lease[a] <= now THEN -1 ELSE lease[a]]
           granted(now) == [kept(now) EXCEPT ![r.address] = Larger(@, now + LeaseTtl)]
<1>1. FitSession(r) /\ r.check = "asked" /\ r.address \in Addresses /\ r.began \in Int
      /\ 0 <= r.began /\ (clock - CheckLimit) <= r.began
  BY <1>0 DEF Inv, AdmitConnection, FitSession, Session, Time
<1>2. clock \in Nat /\ clock <= MaxTime
  BY DEF Inv, Time
<1>3. PICK now \in r.began..clock :
        \/ /\ account = "open" /\ HasRoom(r.address, now)
           /\ lease' = granted(now)
           /\ session' = [session EXCEPT ![s].check = "granted", ![s].answer = now]
        \/ /\ lease' = kept(now)
           /\ session' = [session EXCEPT ![s].check = "denied"]
  BY <1>0 DEF AdmitConnection
<1>4. now \in 0..clock /\ now \in Int /\ r.began <= now
  BY <1>1, <1>2, <1>3
<1>5. UNCHANGED <<clock, account, cache, changes, since, clearedAt>>
  BY DEF AdmitConnection
<1>6. \A a \in Addresses : lease[a] \in Int /\ -1 <= lease[a] /\ lease[a] <= MaxTime + LeaseTtl
  BY DEF Inv
<1>7. IsFiniteSet(Rows) /\ Cardinality(Rows) <= Limit /\ Cardinality(Rows) \in Nat
  <2>1. IsFiniteSet(Rows)
    BY FS_Subset DEF Rows
  <2> QED BY <2>1, FS_CardinalityType DEF Inv
<1>8. Live(now) \subseteq Rows
  BY <1>4 DEF Live, Rows
<1>9. CASE /\ lease' = kept(now)
           /\ session' = [session EXCEPT ![s].check = "denied"]
  <2>1. \A a \in Addresses : lease'[a] = IF lease[a] <= now THEN -1 ELSE lease[a]
    BY <1>9
  <2>2. lease' \in [Addresses -> -1..(MaxTime + LeaseTtl)] /\ lease' \in [Addresses -> Int]
    BY <1>6, <1>9, <2>1
  <2>3. \A a \in Addresses : \A g \in Int : Stands(a, g) => Stands(a, g)'
    BY <1>4, <1>5, <1>6, <2>1, <2>2, StandsAfterBatch
  <2>4. Rows' \subseteq Rows
    BY <1>4, <1>6, <2>1 DEF Rows
  <2>5. Cardinality(Rows') <= Limit
    <3>1. Cardinality(Rows') <= Cardinality(Rows)
      BY <1>7, <2>4, FS_Subset
    <3>2. Cardinality(Rows') \in Nat
      BY <1>7, <2>4, FS_Subset, FS_CardinalityType
    <3> QED BY <1>7, <3>1, <3>2
  <2> DEFINE q == [r EXCEPT !.check = "denied"]
  <2>6. FitSession(q)
    <3>1. q \in Session
      BY <1>1 DEF FitSession, Session
    <3> QED BY <1>1, <3>1 DEF FitSession, Session
  <2>7. session' = [session EXCEPT ![s] = q]
    BY <1>0, <1>9 DEF Inv
  <2> HIDE DEF q
  <2>8. \A t \in Sessions : FitSession(session'[t])
    BY <2>6, <2>7 DEF Inv
  <2>9. /\ \A t \in Sessions : FitSession(session[t])'
        /\ \A i \in Isolates, a \in Addresses : FitEntry(a, cache[i][a])'
    BY <1>5, <2>3, <2>8, StandingFits
  <2>10. session' \in [Sessions -> Session]
    BY <2>6, <2>7 DEF Inv, FitSession
  <2> QED BY <1>5, <2>2, <2>5, <2>9, <2>10 DEF Inv
<1>10. CASE /\ account = "open" /\ HasRoom(r.address, now)
            /\ lease' = granted(now)
            /\ session' = [session EXCEPT ![s].check = "granted", ![s].answer = now]
  <2>1. /\ \A a \in Addresses \ {r.address} :
             lease'[a] = IF lease[a] <= now THEN -1 ELSE lease[a]
        /\ lease'[r.address] =
             Larger(IF lease[r.address] <= now THEN -1 ELSE lease[r.address], now + LeaseTtl)
    BY <1>1, <1>10
  <2>2. /\ lease'[r.address] \in Int /\ lease'[r.address] >= now + LeaseTtl
        /\ lease'[r.address] >= lease[r.address] \/ lease[r.address] <= now
        /\ -1 <= lease'[r.address] /\ lease'[r.address] <= MaxTime + LeaseTtl
    BY <1>1, <1>2, <1>4, <1>6, <2>1 DEF Larger
  <2>3. lease' \in [Addresses -> -1..(MaxTime + LeaseTtl)] /\ lease' \in [Addresses -> Int]
    <3>1. \A a \in Addresses : lease'[a] \in -1..(MaxTime + LeaseTtl)
      BY <1>6, <2>1, <2>2
    <3>2. lease' \in [Addresses -> -1..(MaxTime + LeaseTtl)]
      BY <1>10, <3>1
    <3> QED BY <3>1, <3>2
  <2>4. \A a \in Addresses : \A g \in Int : Stands(a, g) => Stands(a, g)'
    <3>1. \A a \in Addresses : lease'[a] >= lease[a] \/ lease[a] <= now
      BY <1>6, <2>1, <2>2
    <3> QED BY <1>4, <1>5, <2>3, <3>1, StandsAfterBatch
  <2>5. Rows' \subseteq Live(now) \cup {r.address}
    BY <1>4, <1>6, <2>1 DEF Rows, Live
  <2>6. Cardinality(Rows') <= Limit
    <3>1. IsFiniteSet(Live(now)) /\ Cardinality(Live(now)) <= Limit
          /\ Cardinality(Live(now)) \in Nat
      BY <1>7, <1>8, FS_Subset, FS_CardinalityType
    <3>2. /\ IsFiniteSet(Live(now) \cup {r.address})
          /\ Cardinality(Live(now) \cup {r.address}) <= Limit
      <4>1. CASE r.address \in Live(now)
        <5>1. Live(now) \cup {r.address} = Live(now)
          BY <4>1
        <5> QED BY <3>1, <5>1
      <4>2. CASE r.address \notin Live(now)
        <5>1. Cardinality(Live(now)) < Limit
          BY <1>10, <4>2 DEF HasRoom
        <5>2. /\ IsFiniteSet(Live(now) \cup {r.address})
              /\ Cardinality(Live(now) \cup {r.address}) = Cardinality(Live(now)) + 1
          BY <3>1, <4>2, FS_AddElement
        <5> QED BY <3>1, <5>1, <5>2
      <4> QED BY <4>1, <4>2
    <3>3. Cardinality(Rows') <= Cardinality(Live(now) \cup {r.address})
          /\ Cardinality(Rows') \in Nat /\ Cardinality(Live(now) \cup {r.address}) \in Nat
      BY <2>5, <3>2, FS_Subset, FS_CardinalityType
    <3> QED BY <3>2, <3>3
  <2>7. Stands(r.address, now)'
    BY <1>2, <1>4, <1>5, <1>10, <2>2 DEF Stands
  <2> DEFINE q == [r EXCEPT !.check = "granted", !.answer = now]
  <2>8. session' = [session EXCEPT ![s] = q]
    BY <1>0, <1>1, <1>10 DEF Inv, Session
  <2>9. q \in Session /\ q.check = "granted" /\ q.answer = now /\ q.began = r.began
        /\ q.address = r.address /\ q.at = r.at /\ q.last = r.last
        /\ q.granted = r.granted /\ q.overdue = r.overdue
    BY <1>1, <1>4 DEF FitSession, Session
  <2> HIDE DEF q
  <2>10. FitSession(r)'
    <3>1. FitSession(r) => FitSession(r)'
      BY <1>5, <2>4, StandingFits
    <3> QED BY <1>1, <3>1
  <2>11. FitSession(q)'
    BY <1>1, <1>4, <1>5, <2>7, <2>9, <2>10 DEF FitSession
  <2>12. \A t \in Sessions : FitSession(session[t])'
    <3> SUFFICES ASSUME NEW t \in Sessions PROVE FitSession(session[t])'
      OBVIOUS
    <3>1. CASE t = s
      <4>1. session'[t] = q
        BY <2>8, <3>1 DEF Inv
      <4> QED BY <2>11, <4>1 DEF FitSession, Stands
    <3>2. CASE t # s
      <4>1. session'[t] = session[t] /\ FitSession(session[t])
        BY <2>8, <3>2 DEF Inv
      <4>2. PICK u : u = session[t]
        OBVIOUS
      <4>3. FitSession(u)'
        BY <1>5, <2>4, <4>1, <4>2, StandingFits
      <4> QED BY <4>1, <4>2, <4>3 DEF FitSession, Stands
    <3> QED BY <3>1, <3>2
  <2>13. \A i \in Isolates, a \in Addresses : FitEntry(a, cache[i][a])'
    BY <1>5, <2>4, StandingFits
  <2>14. session' \in [Sessions -> Session]
    BY <2>8, <2>9 DEF Inv
  <2> QED BY <1>5, <2>3, <2>6, <2>12, <2>13, <2>14 DEF Inv
<1> QED BY <1>3, <1>9, <1>10

-----------------------------------------------------------------------------
\* Steps of the isolates, the account and time.
LEMMA ForgetGrantsFits == ASSUME Inv, NEW i \in Isolates, ForgetGrants(i) PROVE Inv'
<1>1. /\ cache' = [cache EXCEPT ![i] = [a \in Addresses |-> Forgotten]]
      /\ UNCHANGED <<clock, account, lease, session, changes, since, clearedAt>>
  BY DEF ForgetGrants
<1>2. Forgotten \in Entry /\ Forgotten.until = -1
  BY DEF Forgotten, Entry
<1>3. cache' \in [Isolates -> [Addresses -> Entry]]
  BY <1>1, <1>2 DEF Inv
<1>4. \A j \in Isolates, a \in Addresses :
        cache'[j][a] = Forgotten \/ cache'[j][a] = cache[j][a]
  BY <1>1 DEF Inv
<1>5. \A j \in Isolates, a \in Addresses : FitEntry(a, cache[j][a])'
  BY <1>1, <1>2, <1>4, Numbers DEF Inv, FitEntry, Stands, Time
<1>6. \A t \in Sessions : FitSession(session[t])'
  BY <1>1 DEF Inv, FitSession, Stands
<1>7. Cardinality(Rows') <= Limit
  BY <1>1 DEF Inv, Rows
<1> QED BY <1>1, <1>3, <1>5, <1>6, <1>7 DEF Inv

LEMMA ChangeAccountFits == ASSUME Inv, ChangeAccount PROVE Inv'
<1> USE Numbers
<1>1. /\ account' \in {"open", "over", "gone"} /\ since' = clock
      /\ changes' \in 0..MaxChanges /\ clock \in Time /\ clock \in 0..clock
      /\ UNCHANGED <<clock, lease, cache, session, clearedAt>>
  BY DEF ChangeAccount, Inv, Time
<1>2. \A a \in Addresses : \A g \in Int : Stands(a, g) => Stands(a, g)'
  BY <1>1 DEF Stands
<1>3. \A i \in Isolates, a \in Addresses : FitEntry(a, cache[i][a])'
  BY <1>1, <1>2, StandingFits
<1>4. \A t \in Sessions : FitSession(session'[t])
  BY <1>1 DEF Inv
<1>5. \A t \in Sessions : FitSession(session[t])'
  BY <1>1, <1>2, <1>4, StandingFits
<1>6. Cardinality(Rows') <= Limit
  BY <1>1 DEF Inv, Rows
<1> QED BY <1>1, <1>3, <1>5, <1>6 DEF Inv

LEMMA ClearLeasesFits == ASSUME Inv, ClearLeases PROVE Inv'
<1> USE Numbers
<1>1. /\ lease' = [a \in Addresses |-> -1] /\ clearedAt' = clock
      /\ changes' \in 0..MaxChanges /\ clock \in Time
      /\ UNCHANGED <<clock, account, cache, session, since>>
  BY DEF ClearLeases, Inv
<1>2. \A a \in Addresses : \A g \in Int : Stands(a, g) => Stands(a, g)'
  BY <1>1 DEF Stands, Time
<1>3. \A i \in Isolates, a \in Addresses : FitEntry(a, cache[i][a])'
  BY <1>1, <1>2, StandingFits
<1>4. \A t \in Sessions : FitSession(session'[t])
  BY <1>1 DEF Inv
<1>5. \A t \in Sessions : FitSession(session[t])'
  BY <1>1, <1>2, <1>4, StandingFits
<1>6. Cardinality(Rows') <= Limit
  <2>1. Rows' = {}
    BY <1>1 DEF Rows
  <2> QED BY <2>1, FS_EmptySet
<1>7. lease' \in [Addresses -> -1..(MaxTime + LeaseTtl)]
  BY <1>1
<1> QED BY <1>1, <1>3, <1>5, <1>6, <1>7 DEF Inv

LEMMA TickFits == ASSUME Inv, Tick PROVE Inv'
<1> USE Numbers
<1>1. /\ clock' = clock + 1 /\ clock \in Nat /\ clock' \in Time /\ clock' \in Nat
      /\ \A s \in Sessions : session[s].check # "none" => clock < session[s].began + CheckLimit
      /\ UNCHANGED <<account, lease, session, changes, since, clearedAt>>
  BY DEF Tick, Asking, Inv, Time
<1>2. \A a \in Addresses : \A g \in Int : Stands(a, g) => Stands(a, g)'
  <2> SUFFICES ASSUME NEW a \in Addresses, NEW g \in Int, Stands(a, g) PROVE Stands(a, g)'
    OBVIOUS
  <2> QED BY <1>1 DEF Stands
<1>3. \A i \in Isolates, a \in Addresses :
        cache'[i][a] = IF cache[i][a].until <= clock' THEN Forgotten ELSE cache[i][a]
  BY DEF Tick
<1>4. Forgotten \in Entry /\ Forgotten.until = -1
  BY DEF Forgotten, Entry
<1>5. cache' \in [Isolates -> [Addresses -> Entry]]
  <2>1. \A i \in Isolates, a \in Addresses : cache'[i][a] \in Entry
    BY <1>3, <1>4 DEF Inv
  <2>2. cache' = [i \in Isolates |-> [a \in Addresses |->
                    IF cache[i][a].until <= clock' THEN Forgotten ELSE cache[i][a]]]
    BY DEF Tick
  <2> QED BY <1>4, <2>2 DEF Inv
<1>6. \A i \in Isolates, a \in Addresses : FitEntry(a, cache[i][a])'
  <2> SUFFICES ASSUME NEW i \in Isolates, NEW a \in Addresses PROVE FitEntry(a, cache[i][a])'
    OBVIOUS
  <2>1. CASE cache[i][a].until <= clock'
    BY <1>1, <1>3, <1>4, <2>1 DEF FitEntry
  <2>2. CASE ~(cache[i][a].until <= clock')
    <3>1. cache'[i][a] = cache[i][a] /\ FitEntry(a, cache[i][a])
      BY <1>3, <2>2 DEF Inv
    <3>2. PICK e : e = cache[i][a]
      OBVIOUS
    <3>3. e \in Entry /\ e.until \in Int /\ e.granted \in Int /\ clock < e.until
      BY <1>1, <2>2, <3>1, <3>2 DEF FitEntry, Entry
    <3>4. Stands(a, e.granted) /\ e.until <= e.granted + CheckLimit + CacheLife
      BY <3>1, <3>2, <3>3 DEF FitEntry
    <3>5. Stands(a, e.granted)'
      BY <1>2, <3>3, <3>4
    <3> QED BY <3>1, <3>2, <3>3, <3>4, <3>5 DEF FitEntry, Stands
  <2> QED BY <2>1, <2>2
<1>7. \A t \in Sessions : FitSession(session[t])'
  <2> SUFFICES ASSUME NEW t \in Sessions PROVE FitSession(session[t])'
    OBVIOUS
  <2>1. PICK r : r = session[t]
    OBVIOUS
  <2>2. FitSession(r) /\ session'[t] = r
        /\ (r.check # "none" => clock < r.began + CheckLimit)
    BY <1>1, <2>1 DEF Inv
  <2>3. r \in Session /\ r.address \in Addresses /\ r.answer \in Int /\ r.began \in Int
        /\ r.granted \in Int \cup {None}
    BY <2>2 DEF FitSession, Session
  <2>4. r.check # "none" => r.began \in (clock' - CheckLimit)..clock' /\ 0 <= r.began
    BY <1>1, <2>2, <2>3 DEF FitSession
  <2>5. r.check = "granted" => r.began <= r.answer /\ Stands(r.address, r.answer)'
    BY <1>2, <2>2, <2>3 DEF FitSession
  <2>6. r.at = "live" /\ r.granted # None => Stands(r.address, r.granted)'
    BY <1>2, <2>2, <2>3 DEF FitSession
  <2>7. FitSession(r)'
    BY <2>2, <2>3, <2>4, <2>5, <2>6 DEF FitSession
  <2> QED BY <2>2, <2>7 DEF FitSession, Stands
<1>8. Cardinality(Rows') <= Limit
  BY <1>1 DEF Inv, Rows
<1>9. account' = "over" => since' \in 0..clock'
  BY <1>1 DEF Inv
<1> QED BY <1>1, <1>5, <1>6, <1>7, <1>8, <1>9 DEF Inv

\* The invariant holds of every reachable state.
LEMMA InvHolds == Spec => []Inv
<1>1. Init => Inv
  BY InitFits
<1>2. Inv /\ [Next]_vars => Inv'
  <2> SUFFICES ASSUME Inv, [Next]_vars PROVE Inv'
    OBVIOUS
  <2>1. ASSUME NEW s \in Sessions, Open(s) PROVE Inv'
    BY <2>1, OpenFits
  <2>2. ASSUME NEW s \in Sessions, UseRemembered(s) PROVE Inv'
    BY <2>2, UseRememberedFits
  <2>3. ASSUME NEW s \in Sessions, Ask(s) PROVE Inv'
    BY <2>3, AskFits
  <2>4. ASSUME NEW s \in Sessions, AdmitConnection(s) PROVE Inv'
    BY <2>4, AdmitConnectionFits
  <2>5. ASSUME NEW s \in Sessions, NoAnswer(s) PROVE Inv'
    BY <2>5, NoAnswerFits
  <2>6. ASSUME NEW s \in Sessions, TakeGrant(s) PROVE Inv'
    BY <2>6, TakeGrantFits
  <2>7. ASSUME NEW s \in Sessions, TakeRefusal(s) PROVE Inv'
    BY <2>7, TakeRefusalFits
  <2>8. ASSUME NEW s \in Sessions, Carry(s) PROVE Inv'
    BY <2>8, CarryFits
  <2>9. ASSUME NEW s \in Sessions, Close(s) PROVE Inv'
    BY <2>9, CloseFits
  <2>10. ASSUME NEW i \in Isolates, ForgetGrants(i) PROVE Inv'
    BY <2>10, ForgetGrantsFits
  <2>11. CASE ChangeAccount
    BY <2>11, ChangeAccountFits
  <2>12. CASE ClearLeases
    BY <2>12, ClearLeasesFits
  <2>13. CASE Tick
    BY <2>13, TickFits
  <2>14. CASE UNCHANGED vars
    BY <2>14 DEF Inv, FitSession, FitEntry, Stands, Rows, vars
  <2> QED BY <2>1, <2>2, <2>3, <2>4, <2>5, <2>6, <2>7, <2>8, <2>9, <2>10,
             <2>11, <2>12, <2>13, <2>14 DEF Next
<1> QED BY <1>1, <1>2, PTL DEF Spec

\* Every variable has its type: a check is younger than CheckLimit, the edge's
\* times and the leases are within theirs.
THEOREM TypeCorrect == Spec => []TypeOK
<1>1. Inv => TypeOK
  BY DEF Inv, TypeOK, FitSession, Asking
<1> QED BY <1>1, InvHolds, PTL

\* However many edges, connections and addresses there are, the sessions that
\* rest on grants and are not late for their renewal come from no more
\* addresses than the device limit of the account: prelude's 45 s and 120 s fit
\* the control plane's five-minute lease.
THEOREM EdgesKeepLimit == Spec => []LimitHoldsAtEdges
<1>1. Inv => LimitHoldsAtEdges
  <2> SUFFICES ASSUME Inv PROVE LimitHoldsAtEdges
    OBVIOUS
  <2> DEFINE timely == {s \in Sessions :
               Confirmed(s) /\ clock <= session[s].last + Renew + CheckLimit}
             used == {session[s].address : s \in timely}
  <2>1. ASSUME NEW s \in timely PROVE session[s].address \in Rows
    <3> PICK r : r = session[s]
      OBVIOUS
    <3>1. FitSession(r) /\ r.at = "live" /\ r.granted # None /\ r.granted > clearedAt
          /\ clock <= r.last + Renew + CheckLimit
      BY DEF Inv, Confirmed
    <3>2. r.address \in Addresses /\ Stands(r.address, r.granted)
          /\ r.last < r.granted + CheckLimit + CacheLife
          /\ r.last \in Int /\ r.granted \in Int
      BY <3>1 DEF FitSession, Session
    <3>3. lease[r.address] >= r.granted + LeaseTtl \/ r.granted + LeaseTtl <= clock
      BY <3>1, <3>2 DEF Stands
    <3>4. clock < r.granted + LeaseTtl /\ r.granted >= 0
      BY <3>1, <3>2, Numbers DEF Inv, Time, Stands
    <3>5. lease[r.address] # -1
      BY <3>2, <3>3, <3>4, Numbers DEF Inv, Time
    <3> QED BY <3>2, <3>5 DEF Rows
  <2>2. used \subseteq Rows
    BY <2>1
  <2>3. IsFiniteSet(Rows)
    BY Numbers, FS_Subset DEF Rows
  <2>4. Cardinality(used) <= Cardinality(Rows) /\ IsFiniteSet(used)
    BY <2>2, <2>3, FS_Subset
  <2>5. Cardinality(used) \in Nat /\ Cardinality(Rows) \in Nat
    BY <2>3, <2>4, FS_CardinalityType
  <2>6. Cardinality(used) <= Limit
    BY <2>4, <2>5, Numbers DEF Inv
  <2> QED BY <2>6 DEF LimitHoldsAtEdges
<1> QED BY <1>1, InvHolds, PTL

\* An isolate that lets an address in without asking is covered by a lease of
\* the control plane for as long as it does so.
THEOREM RememberedAreLeased == Spec => []RememberedIsLeased
<1>1. Inv => RememberedIsLeased
  <2> SUFFICES ASSUME Inv, NEW i \in Isolates, NEW a \in Addresses,
                      cache[i][a].until > clock, cache[i][a].granted > clearedAt
               PROVE  lease[a] >= cache[i][a].until
    BY DEF RememberedIsLeased
  <2> PICK e : e = cache[i][a]
    OBVIOUS
  <2>1. FitEntry(a, e) /\ e.until > clock /\ e.granted > clearedAt
    BY DEF Inv
  <2>2. e.until \in Int /\ e.granted \in Int /\ Stands(a, e.granted)
        /\ e.until <= e.granted + CheckLimit + CacheLife
    BY <2>1 DEF FitEntry, Entry
  <2>3. lease[a] >= e.granted + LeaseTtl \/ e.granted + LeaseTtl <= clock
    BY <2>1, <2>2 DEF Stands
  <2>4. clock \in Int /\ lease[a] \in Int
    BY Numbers DEF Inv, Time
  <2> QED BY <2>1, <2>2, <2>3, <2>4, Numbers
<1> QED BY <1>1, InvHolds, PTL

\* Once the account is over its quota, the youngest admission that rests on a
\* grant is no later than a check and a remembered grant last.
THEOREM RefusalFelt == Spec => []RefusalIsFelt
<1>1. Inv => RefusalIsFelt
  <2> SUFFICES ASSUME Inv, account = "over", NEW s \in Sessions,
                      session[s].at = "live", session[s].granted # None
               PROVE  session[s].last <= since + CheckLimit + CacheLife
    BY DEF RefusalIsFelt
  <2> PICK r : r = session[s]
    OBVIOUS
  <2>1. FitSession(r) /\ r.at = "live" /\ r.granted # None
    BY DEF Inv
  <2>2. r.granted \in Int /\ r.last \in Int /\ Stands(r.address, r.granted)
        /\ r.last < r.granted + CheckLimit + CacheLife
    BY <2>1 DEF FitSession, Session
  <2>3. r.granted <= since /\ since \in Int
    BY <2>2, Numbers DEF Stands, Inv, Time
  <2> QED BY <2>2, <2>3, Numbers
<1> QED BY <1>1, InvHolds, PTL

\* A session whose admission is due carries data for no longer than a check
\* takes: it is then renewed, let go on for want of an answer, or closed.
THEOREM OverdueEnd == Spec => []OverdueSessionsEnd
<1>1. Inv => OverdueSessionsEnd
  <2> SUFFICES ASSUME Inv, NEW s \in Sessions,
                      session[s].at = "live", session[s].overdue # None
               PROVE  clock <= session[s].overdue + CheckLimit
    BY DEF OverdueSessionsEnd
  <2>1. FitSession(session[s])
    BY DEF Inv
  <2>2. session[s].check # "none" /\ session[s].overdue = session[s].began
        /\ session[s].began \in Int
    BY <2>1 DEF FitSession, Session
  <2>3. session[s].began \in (clock - CheckLimit)..clock
    BY <2>1, <2>2 DEF FitSession
  <2> QED BY <2>2, <2>3, Numbers DEF Inv, Time
<1> QED BY <1>1, InvHolds, PTL

\* Together: from the time an account is refused, or a session's admission is
\* due, a check and a remembered grant is all that still lets it through,
\* unless an answer is missing.
THEOREM RefusalsTakeEffect == Spec => []RefusalTakesEffect
<1>1. RefusalIsFelt /\ OverdueSessionsEnd => RefusalTakesEffect
  BY DEF RefusalTakesEffect
<1> QED BY <1>1, RefusalFelt, OverdueEnd, PTL
=============================================================================
