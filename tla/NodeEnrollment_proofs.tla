----------------------- MODULE NodeEnrollment_proofs -----------------------
(***************************************************************************)
(* Proofs about NodeEnrollment, for any enrollments and any number of      *)
(* requests in flight.  Inv says of every request what still holds of what *)
(* it read (CallFits), of every secret how far it has come (RowsFit,       *)
(* WithdrawnFit), and which secret the running Worker holds at each stage  *)
(* of its job (WorkerFits).                                                *)
(***************************************************************************)
EXTENDS NodeEnrollment, FiniteSetTheorems, TLAPS

Creating == {"create-credential", "create-pending", "create-insert"}
Again == {"again-check", "again-upsert"}
Upserting == {"register-select", "register-upsert", "register-batch", "again-upsert"}
Installing == {"register-upsert", "register-batch"}

\* A secret in one of these states is never issued or activated again.
Spent == {"activated", "revoked", "deleted"}

Isolated(s) == credential.mode = "isolated" /\ credential.current = s

\* What a request in flight may rely on.
CallFits(i) ==
  /\ i \in CallState
  /\ i.at # "idle" => i.of \in Enrollments
  /\ i.at \in Creating => enrollment[i.of].status = "unused"
  /\ (i.at # "idle" /\ i.at \notin Creating) => enrollment[i.of].status # "unused"
  /\ i.at \in Again => enrollment[i.of].status \in Spent
  /\ i.at \in Installing => /\ enrollment[i.of].status \in Spent \cup {"issued"}
                            /\ i.of \notin withdrawn \ raced
  /\ (~provisioningAllowed /\ node = "absent" /\ i.at \in Upserting) => i.of \in withdrawn
  /\ credential.mode = "legacy" =>
       (i.at \in {"create-pending", "create-insert"} \cup Installing => i.kind = "migrate")
       /\ (i.at = "create-credential" => i.kind = "none")
  /\ (~overtaken /\ i.at \in Again /\ i.of = job.of) => i.of \in withdrawn \/ Isolated(i.of)

\* Two requests never create one enrollment.
Distinct == \A c, d \in Calls : c # d /\ call[c].at \in Creating => call[d].of # call[c].of

CallsFit ==
  /\ call \in [Calls -> CallState]
  /\ \A c \in Calls : CallFits(call[c])
  /\ Distinct

TablesFit ==
  /\ provisioningAllowed \in BOOLEAN
  /\ node \in {"absent", "enabled", "disabled"}
  /\ credential \in CredentialRow
  /\ credential.mode = "isolated" => credential.current # None /\ node # "absent"
  /\ credential.mode # "isolated" => credential.current = None /\ credential.previous = None
  /\ credential.mode = "legacy" => node # "absent"
  /\ enrollment \in [Enrollments -> EnrollmentRow]
  /\ \A e \in Enrollments :
       /\ credential.mode = "legacy" /\ enrollment[e].status # "unused" =>
            enrollment[e].kind = "migrate"
       /\ e \in {credential.current, credential.previous} => enrollment[e].status \in Spent

HandedFit ==
  /\ handed \in [Enrollments -> Nat]
  /\ \A e \in Enrollments :
       /\ handed[e] <= 1
       /\ enrollment[e].status \in {"unused", "pending"} => handed[e] = 0

WithdrawnFit ==
  /\ raced \subseteq withdrawn /\ withdrawn \subseteq Secrets
  /\ \A e \in Enrollments \cap withdrawn :
       /\ enrollment[e].status \in Spent
       /\ e \notin raced => e \notin {credential.current, credential.previous}

\* The running Worker's secret: the current one until the next activation, an
\* accepted one until the activation after it.
WorkerFits ==
  /\ job \in JobState
  /\ job.at # "idle" => job.of \in Enrollments /\ enrollment[job.of].status # "unused"
  /\ worker \in Secrets \cup {None}
  /\ worker \in Enrollments => enrollment[worker].status # "unused"
  /\ activations \in 0..2 /\ overtaken \in BOOLEAN
  /\ ~overtaken =>
       /\ job.at \in {"deploy", "retire"} => job.of \in withdrawn \/ Isolated(job.of)
       /\ job.at = "retire" => worker = job.of
  /\ ~overtaken /\ ~doubled =>
       /\ worker \in Secrets \ withdrawn /\ activations = 0 =>
            (credential.mode = "legacy" /\ worker = Root) \/ Isolated(worker)
       /\ worker \in Secrets \ withdrawn /\ activations = 1 =>
            \/ credential.mode = "legacy" /\ worker = Root
            \/ /\ credential.mode = "isolated"
               /\ \/ worker \in {credential.current, credential.previous}
                  \/ credential.fallback /\ worker = Root

\* Until two registrations of one secret are activating at once, none installs a
\* secret that is current already.
Apart ==
  /\ doubled \in BOOLEAN
  /\ ~doubled =>
       \A c \in Calls : Activating(c) =>
         /\ ~Isolated(call[c].of)
         /\ \A d \in Calls \ {c} : Activating(d) => call[d].of # call[c].of

Inv == CallsFit /\ TablesFit /\ HandedFit /\ WithdrawnFit /\ WorkerFits

----------------------------------------------------------------------------
LEMMA Names ==
  /\ Root # None /\ Root \notin Enrollments /\ None \notin Enrollments
  /\ IsFiniteSet(Enrollments)
  BY EnrollmentAssumption

LEMMA IdleFits == CallFits(Idle) /\ CallFits(Idle)' /\ Idle.at = "idle" /\ Idle.of = None
  BY DEF CallFits, Idle, CallState, Kinds, Creating, Again, Installing, Upserting

LEMMA InitFits == Init => Inv
<1> SUFFICES ASSUME Init PROVE Inv
  OBVIOUS
<1> USE Names
<1>1. CallsFit
  <2>1. \A c \in Calls : call[c] = Idle
    BY DEF Init
  <2>2. Idle.at \notin Creating
    BY IdleFits DEF Creating
  <2>3. call \in [Calls -> CallState]
    BY IdleFits DEF Init, CallFits
  <2> QED BY <2>1, <2>2, <2>3, IdleFits DEF CallsFit, Distinct
<1>0. /\ credential \in CredentialRow /\ credential.mode # "isolated"
      /\ credential.current = None /\ credential.previous = None
      /\ credential.mode = "legacy" => node = "enabled"
  <2>1. \/ credential = NoCredential
        \/ credential = LegacyCredential /\ node = "enabled"
    BY DEF Init
  <2>2. /\ NoCredential \in CredentialRow /\ NoCredential.mode = "none"
        /\ NoCredential.current = None /\ NoCredential.previous = None
    BY DEF NoCredential, CredentialRow
  <2>3. /\ LegacyCredential \in CredentialRow /\ LegacyCredential.mode = "legacy"
        /\ LegacyCredential.current = None /\ LegacyCredential.previous = None
    BY DEF NoCredential, LegacyCredential, CredentialRow
  <2> QED BY <2>1, <2>2, <2>3
<1>2. TablesFit
  <2>1. Unused \in EnrollmentRow /\ Unused.status = "unused"
    BY DEF Unused, EnrollmentRow, Kinds
  <2>2. /\ enrollment \in [Enrollments -> EnrollmentRow]
        /\ \A e \in Enrollments : enrollment[e].status = "unused"
    BY <2>1 DEF Init
  <2>3. provisioningAllowed \in BOOLEAN /\ node \in {"absent", "enabled", "disabled"}
    BY DEF Init
  <2> QED BY <1>0, <2>2, <2>3 DEF TablesFit
<1>3. HandedFit
  BY DEF Init, HandedFit
<1>4. WithdrawnFit
  BY DEF Init, WithdrawnFit
<1>5. WorkerFits
  <2>1. /\ job \in JobState /\ job.at = "idle"
        /\ worker \in Secrets \cup {None} /\ worker \notin Enrollments
        /\ activations = 0 /\ overtaken = FALSE
        /\ worker \in Secrets => worker = Root /\ credential.mode = "legacy"
    BY DEF Init, NoJob, JobState, Kinds, Secrets, NoCredential, LegacyCredential
  <2>2. job.at \notin {"deploy", "retire"} /\ activations \in 0..2
    BY <2>1
  <2>4. overtaken \in BOOLEAN
    BY <2>1, Zenon
  <2>5. activations # 1
    BY <2>1
  <2>3. worker \in Secrets => credential.mode = "legacy" /\ worker = Root
    BY <2>1
  <2> QED BY <2>1, <2>2, <2>3, <2>4, <2>5, Zenon DEF WorkerFits
<1> QED BY <1>1, <1>2, <1>3, <1>4, <1>5 DEF Inv

\* A step of one request that writes no table.
LEMMA CallMoves ==
  ASSUME Inv, NEW c \in Calls, NEW i,
         UNCHANGED <<provisioningAllowed, node, credential, enrollment, job, worker, handed,
                     activations, overtaken, withdrawn, raced>>,
         doubled => doubled',
         call' = [call EXCEPT ![c] = i],
         CallFits(i),
         \A d \in Calls \ {c} :
           i.at \in Creating \/ call[d].at \in Creating => call[d].of # i.of
  PROVE  Inv'
<1>1. \A d \in Calls : CallFits(call'[d])
  BY DEF Inv, CallsFit, CallFits
<1>2. \A d \in Calls : CallFits(call[d])'
  BY <1>1 DEF CallFits, Isolated, ghosts
<1>3. Distinct'
  BY DEF Inv, CallsFit, Distinct
<1>4. CallsFit'
  <2>1. call' \in [Calls -> CallState]
    BY DEF Inv, CallsFit, CallFits
  <2> QED BY <2>1, <1>2, <1>3 DEF CallsFit
<1>5. TablesFit' /\ HandedFit' /\ WithdrawnFit' /\ WorkerFits'
  BY DEF Inv, TablesFit, HandedFit, WithdrawnFit, WorkerFits, Isolated, ghosts
<1> QED BY <1>4, <1>5 DEF Inv

\* The request goes on with the same enrollment.
LEMMA CallContinues ==
  ASSUME Inv, NEW c \in Calls, NEW i,
         UNCHANGED <<provisioningAllowed, node, credential, enrollment, job, worker, handed,
                     activations, overtaken, withdrawn, raced>>,
         doubled => doubled',
         call' = [call EXCEPT ![c] = i],
         CallFits(i), i.of = call[c].of, i.at # "idle",
         call[c].at # "idle",
         i.at \in Creating <=> call[c].at \in Creating
  PROVE  Inv'
<1>1. \A d \in Calls \ {c} :
        i.at \in Creating \/ call[d].at \in Creating => call[d].of # i.of
  BY DEF Inv, CallsFit, Distinct
<1> QED BY <1>1, CallMoves

\* The request is answered.
LEMMA CallAnswers ==
  ASSUME Inv, NEW c \in Calls, Answer(c),
         UNCHANGED <<provisioningAllowed, node, credential, enrollment, job, worker, ghosts>>
  PROVE  Inv'
<1>1. \A d \in Calls \ {c} :
        Idle.at \in Creating \/ call[d].at \in Creating => call[d].of # Idle.of
  BY IdleFits, Names DEF Inv, CallsFit, CallFits, Creating
<1>2. call' = [call EXCEPT ![c] = Idle]
  BY DEF Answer
<1> QED BY <1>1, <1>2, IdleFits, CallMoves DEF ghosts

LEMMA CreateFits ==
  ASSUME Inv, NEW c \in Calls, UNCHANGED provisioningAllowed,
         \/ \E e \in Enrollments : CreateReadsNode(c, e)
         \/ CreateReadsCredential(c) \/ CreateChecksPending(c)
  PROVE  Inv'
<1>0. CallFits(call[c]) /\ call[c] \in CallState
  BY DEF Inv, CallsFit, CallFits
<1>1. ASSUME NEW e \in Enrollments, CreateReadsNode(c, e) PROVE Inv'
  <2> DEFINE i == [at |-> "create-credential", of |-> e,
                   kind |-> IF node = "absent" THEN "provision" ELSE "none"]
  <2>1. CallFits(i)
    BY <1>1 DEF CreateReadsNode, CallFits, CallState, Kinds, Creating, Again, Installing,
                Upserting, Inv, TablesFit
  <2>2. \A d \in Calls : call[d].of # i.of
    BY <1>1 DEF CreateReadsNode
  <2>3. call' = [call EXCEPT ![c] = i]
    BY <1>1 DEF CreateReadsNode
  <2> HIDE DEF i
  <2> QED BY <1>1, <2>1, <2>2, <2>3, CallMoves DEF ghosts, CreateReadsNode
<1>2. CASE CreateReadsCredential(c)
  <2> DEFINE i == [call[c] EXCEPT !.at = "create-pending",
                                  !.kind = IF @ = "provision" THEN @
                                           ELSE IF credential.mode = "isolated"
                                                THEN "rotate" ELSE "migrate"]
  <2>1. call[c].at = "create-credential" /\ call' = [call EXCEPT ![c] = i]
    BY <1>2, <1>0 DEF CreateReadsCredential, Inv, CallsFit, CallFits, CallState
  <2>2. CallFits(i) /\ i.of = call[c].of /\ i.at = "create-pending"
    BY <2>1, <1>0 DEF CallFits, CallState, Kinds, Creating, Again, Installing, Upserting
  <2> HIDE DEF i
  <2> QED BY <1>2, <2>1, <2>2, CallContinues DEF ghosts, CreateReadsCredential, Creating
<1>3. CASE CreateChecksPending(c)
  <2> DEFINE i == [call[c] EXCEPT !.at = "create-insert"]
  <2>1. CASE \E e \in Enrollments : Live(e)
    BY <1>3, <2>1, CallAnswers DEF CreateChecksPending
  <2>2. CASE ~\E e \in Enrollments : Live(e)
    <3>1. call[c].at = "create-pending" /\ call' = [call EXCEPT ![c] = i]
      BY <1>3, <2>2 DEF CreateChecksPending, Continue
    <3>2. CallFits(i) /\ i.of = call[c].of /\ i.at = "create-insert"
      BY <3>1, <1>0 DEF CallFits, CallState, Kinds, Creating, Again, Installing, Upserting
    <3> HIDE DEF i
    <3> QED BY <1>3, <3>1, <3>2, CallContinues DEF ghosts, CreateChecksPending, Creating
  <2> QED BY <2>1, <2>2
<1> QED BY <1>1, <1>2, <1>3

LEMMA ReadingFits ==
  ASSUME Inv, NEW c \in Calls, UNCHANGED provisioningAllowed,
         \/ \E e \in Enrollments : ExchangeReads(c, e)
         \/ RegisterAuthenticates(c) \/ RegisterChecks(c) \/ RegisterSelects(c)
         \/ AgainChecks(c)
  PROVE  Inv'
<1>0. CallFits(call[c]) /\ call[c] \in CallState
  BY DEF Inv, CallsFit, CallFits
<1>1. ASSUME NEW e \in Enrollments, ExchangeReads(c, e) PROVE Inv'
  <2> DEFINE i == [Idle EXCEPT !.at = "exchange-claim", !.of = e]
  <2>1. CallFits(i) /\ i.at = "exchange-claim" /\ i.of = e
    BY <1>1 DEF ExchangeReads, CallFits, CallState, Idle, Kinds, Creating, Again,
                Installing, Upserting
  <2>2. \A d \in Calls : call[d].at \in Creating => call[d].of # e
    BY <1>1 DEF ExchangeReads, Inv, CallsFit, CallFits
  <2>3. call' = [call EXCEPT ![c] = i]
    BY <1>1 DEF ExchangeReads
  <2> HIDE DEF i
  <2> QED BY <1>1, <2>1, <2>2, <2>3, CallMoves DEF ghosts, ExchangeReads, Creating
<1>2. CASE RegisterAuthenticates(c)
  <2> DEFINE s == job.of
  <2>0. s \in Enrollments /\ enrollment[s].status # "unused"
    BY <1>2 DEF RegisterAuthenticates, Inv, WorkerFits
  <2>3. UNCHANGED <<provisioningAllowed, node, credential, enrollment, job, worker, ghosts>>
    BY <1>2 DEF RegisterAuthenticates
  <2>4. \A d \in Calls : call[d].at \in Creating => call[d].of # s
    BY <2>0 DEF Inv, CallsFit, CallFits
  <2> HIDE DEF s
  <2>1. CASE AuthKind(s) = "enrollment" /\ call' = [call EXCEPT ![c] =
              [Idle EXCEPT !.at = "register-check", !.of = s]]
    <3> DEFINE i == [Idle EXCEPT !.at = "register-check", !.of = s]
    <3>1. CallFits(i) /\ i.at = "register-check"
          /\ i.of = s
      BY <2>0 DEF CallFits, CallState, Idle, Kinds, Creating, Again, Installing, Upserting
    <3>3. call' = [call EXCEPT ![c] = i]
      BY <2>1
    <3> HIDE DEF i
    <3> QED BY <2>3, <2>4, <3>1, <3>3, CallMoves DEF ghosts, Creating
  <2>2. CASE AuthKind(s) = "isolated-current" /\ call' = [call EXCEPT ![c] =
              [Idle EXCEPT !.at = "again-check", !.of = s]]
    <3> DEFINE i == [Idle EXCEPT !.at = "again-check", !.of = s]
    <3>0. Isolated(s)
      BY <2>2 DEF AuthKind, Isolated
    <3>1. enrollment[s].status \in Spent
      BY <2>0, <3>0 DEF Isolated, Inv, TablesFit
    <3>2. CallFits(i) /\ i.at = "again-check"
          /\ i.of = s
      BY <2>0, <3>0, <3>1 DEF CallFits, CallState, Idle, Kinds, Creating, Again, Installing,
                              Upserting, Spent
    <3>4. call' = [call EXCEPT ![c] = i]
      BY <2>2
    <3> HIDE DEF i
    <3> QED BY <2>3, <2>4, <3>2, <3>4, CallMoves DEF ghosts, Creating
  <2> QED BY <1>2, <2>1, <2>2 DEF RegisterAuthenticates, s
<1>3. CASE RegisterChecks(c)
  <2> DEFINE i == [call[c] EXCEPT !.at = "register-select"]
  <2>1. CASE provisioningAllowed \/ node # "absent"
    <3>1. call[c].at = "register-check" /\ call' = [call EXCEPT ![c] = i]
      BY <1>3, <2>1 DEF RegisterChecks, Continue
    <3>2. CallFits(i) /\ i.of = call[c].of /\ i.at = "register-select"
      BY <3>1, <2>1, <1>0 DEF CallFits, CallState, Kinds, Creating, Again, Installing, Upserting
    <3> HIDE DEF i
    <3> QED BY <1>3, <3>1, <3>2, CallContinues DEF ghosts, RegisterChecks, Creating
  <2>2. CASE ~(provisioningAllowed \/ node # "absent")
    BY <1>3, <2>2, CallAnswers DEF RegisterChecks
  <2> QED BY <2>1, <2>2
<1>4. CASE RegisterSelects(c)
  <2> DEFINE row == enrollment[call[c].of]
             i == [call[c] EXCEPT !.at = "register-upsert", !.kind = row.kind]
  <2>0. call[c].at = "register-select" /\ call[c].of \in Enrollments
    BY <1>4, <1>0 DEF RegisterSelects, CallFits
  <2>1. CASE row.status = "issued" /\ ~row.expired
    <3>1. call' = [call EXCEPT ![c] = i]
      BY <1>4, <2>0, <2>1, <1>0 DEF RegisterSelects, Activate
    <3>2. row.kind \in Kinds /\ (credential.mode = "legacy" => row.kind = "migrate")
      BY <2>0, <2>1 DEF Inv, TablesFit, EnrollmentRow
    <3>3. call[c].of \notin withdrawn
      BY <2>0, <2>1 DEF Inv, WithdrawnFit, Spent
    <3>4. CallFits(i) /\ i.of = call[c].of /\ i.at = "register-upsert"
      BY <2>0, <2>1, <3>2, <3>3, <1>0
      DEF CallFits, CallState, Creating, Again, Installing, Upserting
    <3>5. /\ UNCHANGED <<provisioningAllowed, node, credential, enrollment, job, worker, handed,
                         activations, overtaken, withdrawn, raced>>
          /\ doubled => doubled'
      BY <1>4, <2>1 DEF RegisterSelects, Activate
    <3> HIDE DEF i
    <3> QED BY <2>0, <3>1, <3>4, <3>5, CallContinues DEF Creating
  <2>2. CASE ~(row.status = "issued" /\ ~row.expired)
    BY <1>4, <2>2, CallAnswers DEF RegisterSelects, ghosts
  <2> QED BY <2>1, <2>2
<1>5. CASE AgainChecks(c)
  <2> DEFINE i == [call[c] EXCEPT !.at = "again-upsert"]
  <2>1. CASE node # "absent"
    <3>1. call[c].at = "again-check" /\ call' = [call EXCEPT ![c] = i]
      BY <1>5, <2>1 DEF AgainChecks, Continue
    <3>2. CallFits(i) /\ i.of = call[c].of /\ i.at = "again-upsert"
      BY <3>1, <2>1, <1>0 DEF CallFits, CallState, Kinds, Creating, Again, Installing, Upserting
    <3> HIDE DEF i
    <3> QED BY <1>5, <3>1, <3>2, CallContinues DEF ghosts, AgainChecks, Creating
  <2>2. CASE node = "absent"
    BY <1>5, <2>2, CallAnswers DEF AgainChecks
  <2> QED BY <2>1, <2>2
<1> QED BY <1>1, <1>2, <1>3, <1>4, <1>5

----------------------------------------------------------------------------
\* A step that writes tables and answers at most one request.
LEMMA CallsKept ==
  ASSUME Inv, call' = call \/ \E c \in Calls : Answer(c),
         \A d \in Calls : \A i : i = call[d] /\ i = call'[d] => CallFits(i)'
  PROVE  CallsFit'
<1>1. CASE call' = call
  <2>1. ASSUME NEW d \in Calls PROVE CallFits(call[d])'
    <3> PICK i : i = call[d]
      OBVIOUS
    <3>1. CallFits(i)'
      BY <1>1
    <3> QED BY <3>1, <1>1 DEF CallFits
  <2> QED BY <2>1, <1>1 DEF CallsFit, Distinct, Inv
<1>2. ASSUME NEW c \in Calls, Answer(c) PROVE CallsFit'
  <2>0. /\ call \in [Calls -> CallState] /\ Idle \in CallState
        /\ call'[c] = Idle /\ call' \in [Calls -> CallState]
        /\ \A d \in Calls \ {c} : call'[d] = call[d]
    BY <1>2, IdleFits DEF Answer, Inv, CallsFit, CallFits
  <2>1. ASSUME NEW d \in Calls PROVE CallFits(call[d])'
    <3> PICK i : i = call'[d]
      OBVIOUS
    <3>1. i = call[d] \/ i = Idle
      BY <2>0
    <3>2. CallFits(i)'
      BY <3>1, IdleFits
    <3> QED BY <3>2 DEF CallFits
  <2>2. ASSUME NEW a \in Calls, NEW b \in Calls, a # b, call'[a].at \in Creating
        PROVE  call'[b].of # call'[a].of
    <3>1. a # c /\ call[a].at \in Creating /\ call'[a] = call[a]
      BY <2>2, <2>0, IdleFits DEF Creating
    <3>2. call[a].of \in Enrollments /\ call[b].of # call[a].of
      BY <2>2, <3>1 DEF Inv, CallsFit, CallFits, Distinct, Creating
    <3> QED BY <3>1, <3>2, <2>0, IdleFits, Names
  <2>3. Distinct'
    BY <2>2 DEF Distinct
  <2> QED BY <2>0, <2>1, <2>3 DEF CallsFit
<1> QED BY <1>1, <1>2

\* Enrollments only move on: an unused one stays unused, an issued one may be
\* spent, and a spent one stays spent.
StatusMoves ==
  \A e \in Enrollments :
    LET old == enrollment[e].status
        new == enrollment'[e].status IN
    /\ (new = "unused") <=> (old = "unused")
    /\ old \in Spent \cup {"issued"} => new \in Spent \cup {"issued"}
    /\ old \in Spent => new \in Spent

LEMMA CallStillFits ==
  ASSUME NEW i, CallFits(i), StatusMoves, UNCHANGED provisioningAllowed,
         i.at \in Installing => i.of \notin withdrawn' \ raced',
         ~provisioningAllowed /\ node' = "absent" /\ i.at \in Upserting => i.of \in withdrawn',
         credential'.mode = "legacy" => credential.mode = "legacy",
         ~overtaken' /\ i.at \in Again /\ i.of = job'.of =>
           i.of \in withdrawn' \/ Isolated(i.of)'
  PROVE  CallFits(i)'
<1>1. i.at # "idle" =>
        /\ enrollment'[i.of].status = "unused" <=> enrollment[i.of].status = "unused"
        /\ enrollment[i.of].status \in Spent \cup {"issued"} =>
             enrollment'[i.of].status \in Spent \cup {"issued"}
        /\ enrollment[i.of].status \in Spent => enrollment'[i.of].status \in Spent
  BY DEF StatusMoves, CallFits
<1>2. i.at \in Creating \/ i.at \in Again \/ i.at \in Installing => i.at # "idle"
  BY DEF Creating, Again, Installing
<1> QED BY <1>1, <1>2 DEF CallFits

LEMMA CreateInsertsFits ==
  ASSUME Inv, NEW c \in Calls, CreateInserts(c), UNCHANGED provisioningAllowed
  PROVE  Inv'
<1> DEFINE e == call[c].of
           row == [Unused EXCEPT !.status = "pending", !.kind = call[c].kind]
<1>1. /\ e \in Enrollments /\ enrollment[e].status = "unused" /\ call[c].kind \in Kinds
      /\ credential.mode = "legacy" => call[c].kind = "migrate"
      /\ \A d \in Calls \ {c} : call[d].of # e
  BY DEF CreateInserts, Inv, CallsFit, CallFits, Distinct, Creating, CallState
<1>2. row \in EnrollmentRow /\ row.status = "pending" /\ row.kind = call[c].kind
  BY <1>1 DEF EnrollmentRow, Unused
<1>3. enrollment' = [enrollment EXCEPT ![e] = row] /\ Answer(c)
      /\ UNCHANGED <<provisioningAllowed, node, credential, job, worker, ghosts>>
  BY DEF CreateInserts
<1>4. enrollment \in [Enrollments -> EnrollmentRow]
  BY DEF Inv, TablesFit
<1> HIDE DEF e, row
<1>5. /\ enrollment' \in [Enrollments -> EnrollmentRow] /\ enrollment'[e] = row
      /\ \A f \in Enrollments \ {e} : enrollment'[f] = enrollment[f]
  BY <1>1, <1>2, <1>3, <1>4
<1>6. CallsFit'
  <2>1. ASSUME NEW d \in Calls, NEW i, i = call[d], i = call'[d] PROVE CallFits(i)'
    <3>1. d # c \/ i = Idle
      BY <2>1, <1>3 DEF Answer, Inv, CallsFit
    <3>2. CASE d # c
      <4>1. CallFits(i) /\ i.of # e
        BY <2>1, <3>2, <1>1 DEF Inv, CallsFit
      <4> QED BY <4>1, <1>3, <1>5 DEF CallFits, Isolated, ghosts
    <3> QED BY <3>1, <3>2, IdleFits
  <2> QED BY <2>1, <1>3, CallsKept
<1>7. TablesFit'
  BY <1>1, <1>2, <1>3, <1>5 DEF Inv, TablesFit, Spent
<1>8. HandedFit'
  BY <1>1, <1>2, <1>3, <1>5 DEF Inv, HandedFit, ghosts
<1>9. WithdrawnFit'
  BY <1>1, <1>2, <1>3, <1>5 DEF Inv, WithdrawnFit, Spent, ghosts
<1>10. WorkerFits'
  BY <1>1, <1>2, <1>3, <1>5 DEF Inv, WorkerFits, Isolated, ghosts
<1> QED BY <1>6, <1>7, <1>8, <1>9, <1>10 DEF Inv

LEMMA ExchangeClaimsFits ==
  ASSUME Inv, NEW c \in Calls, ExchangeClaims(c), UNCHANGED provisioningAllowed
  PROVE  Inv'
<1> DEFINE e == call[c].of
           row == [enrollment[e] EXCEPT !.status = "issued",
                     !.issuedAt = 1 + Cardinality({f \in Enrollments : handed[f] > 0})]
<1>1. CASE ~(enrollment[e].status = "pending" /\ ~enrollment[e].expired)
  BY <1>1, CallAnswers DEF ExchangeClaims, ghosts
<1>2. CASE enrollment[e].status = "pending" /\ ~enrollment[e].expired
  <2>1. e \in Enrollments /\ e \notin withdrawn
    BY <1>2 DEF ExchangeClaims, Inv, CallsFit, CallFits, WithdrawnFit, Spent
  <2>2. 1 + Cardinality({f \in Enrollments : handed[f] > 0}) \in Nat
    BY Names, FS_Subset, FS_CardinalityType
  <2>3. row \in EnrollmentRow /\ row.status = "issued" /\ row.kind = enrollment[e].kind
    BY <2>1, <2>2 DEF Inv, TablesFit, EnrollmentRow
  <2>4. /\ enrollment' = [enrollment EXCEPT ![e].status = "issued",
              ![e].issuedAt = 1 + Cardinality({f \in Enrollments : handed[f] > 0})]
        /\ handed' = [handed EXCEPT ![e] = @ + 1]
        /\ job' = IF job.at = "exchange" /\ job.of = e
                  THEN [job EXCEPT !.at = "register", !.kind = enrollment[e].kind]
                  ELSE job
        /\ Answer(c)
        /\ UNCHANGED <<provisioningAllowed, node, credential, worker, activations, overtaken,
                       doubled, withdrawn, raced>>
    BY <1>2 DEF ExchangeClaims
  <2>5. enrollment \in [Enrollments -> EnrollmentRow]
    BY DEF Inv, TablesFit
  <2>6. /\ enrollment' \in [Enrollments -> EnrollmentRow] /\ enrollment'[e] = row
        /\ \A f \in Enrollments \ {e} : enrollment'[f] = enrollment[f]
    BY <2>1, <2>3, <2>4, <2>5
  <2>7. /\ job' \in JobState /\ job'.of = job.of
        /\ job'.at = job.at \/ (job.at = "exchange" /\ job'.at = "register")
    BY <2>1, <2>4, <2>5 DEF Inv, WorkerFits, JobState, EnrollmentRow
  <2> HIDE DEF e, row
  <2>8. CallsFit'
    <3>1. ASSUME NEW d \in Calls, NEW i, i = call[d], i = call'[d] PROVE CallFits(i)'
      <4>1. CallFits(i)
        BY <3>1 DEF Inv, CallsFit
      <4>2. \A f \in Enrollments :
              /\ enrollment'[f].status = "unused" <=> enrollment[f].status = "unused"
              /\ enrollment[f].status \in Spent \cup {"issued"} =>
                   enrollment'[f].status = enrollment[f].status
        BY <1>2, <2>1, <2>3, <2>6 DEF Spent
      <4>3. i.at # "idle" => i.of \in Enrollments
        BY <4>1 DEF CallFits
      <4>4. i.at # "idle" =>
              /\ enrollment'[i.of].status = "unused" <=> enrollment[i.of].status = "unused"
              /\ enrollment[i.of].status \in Spent \cup {"issued"} =>
                   enrollment'[i.of].status = enrollment[i.of].status
        BY <4>2, <4>3
      <4>5. i.at \in Creating \/ i.at \in Again \/ i.at \in Installing => i.at # "idle"
        BY DEF Creating, Again, Installing
      <4>6. /\ UNCHANGED <<provisioningAllowed, node, credential, withdrawn, raced, overtaken>>
            /\ job'.of = job.of
        BY <2>4, <2>7
      <4> QED BY <4>1, <4>4, <4>5, <4>6 DEF CallFits, Isolated
    <3> QED BY <3>1, <2>4, CallsKept
  <2>9. TablesFit'
    BY <1>2, <2>1, <2>3, <2>4, <2>6 DEF Inv, TablesFit, Spent
  <2>10. HandedFit'
    BY <1>2, <2>1, <2>3, <2>4, <2>6 DEF Inv, HandedFit
  <2>11. WithdrawnFit'
    BY <1>2, <2>1, <2>3, <2>4, <2>6 DEF Inv, WithdrawnFit
  <2>12. WorkerFits'
    BY <1>2, <2>1, <2>3, <2>4, <2>6, <2>7 DEF Inv, WorkerFits, Isolated
  <2> QED BY <2>8, <2>9, <2>10, <2>11, <2>12 DEF Inv
<1> QED BY <1>1, <1>2

LEMMA RegisterUpsertsFits ==
  ASSUME Inv, NEW c \in Calls, RegisterUpserts(c), UNCHANGED provisioningAllowed
  PROVE  Inv'
<1> DEFINE j == [call[c] EXCEPT !.at = "register-batch"]
<1>1. /\ call[c].at = "register-upsert" /\ call' = [call EXCEPT ![c] = j]
      /\ node' # "absent" /\ node' \in {"absent", "enabled", "disabled"}
      /\ UNCHANGED <<provisioningAllowed, credential, enrollment, job, worker, ghosts>>
  BY DEF RegisterUpserts, Upserted, Continue, Inv, TablesFit
<1>2. CallFits(call[c]) /\ call[c] \in CallState /\ call \in [Calls -> CallState]
  BY DEF Inv, CallsFit, CallFits
<1>3. j.of = call[c].of /\ j.at = "register-batch" /\ j.kind = call[c].kind /\ j \in CallState
  BY <1>2 DEF CallState
<1> HIDE DEF j
<1>4. StatusMoves
  BY <1>1 DEF StatusMoves
<1>5. CallsFit'
  <2>1. ASSUME NEW d \in Calls PROVE CallFits(call[d])'
    <3> PICK i : i = call'[d]
      OBVIOUS
    <3>1. CASE d # c
      <4>1. i = call[d] /\ CallFits(i)
        BY <3>1, <1>1 DEF Inv, CallsFit
      <4>2. CallFits(i)'
        <5>1. i.at \in Installing => i.of \notin withdrawn' \ raced'
          BY <4>1, <1>1 DEF CallFits, ghosts
        <5>2. ~overtaken' /\ i.at \in Again /\ i.of = job'.of =>
                i.of \in withdrawn' \/ Isolated(i.of)'
          BY <4>1, <1>1 DEF CallFits, ghosts, Isolated
        <5> QED BY <4>1, <5>1, <5>2, <1>1, <1>4, CallStillFits
      <4> QED BY <4>2 DEF CallFits
    <3>2. CASE d = c
      <4>1. /\ i.of = call[c].of /\ i.at = "register-batch" /\ i.kind = call[c].kind
            /\ i \in CallState
        BY <3>2, <1>1, <1>2, <1>3
      <4>2. CallFits(i)'
        BY <4>1, <1>1, <1>2 DEF CallFits, ghosts, Creating, Again, Installing
      <4> QED BY <4>2 DEF CallFits
    <3> QED BY <3>1, <3>2
  <2>2. Distinct'
    BY <1>1, <1>2, <1>3 DEF Inv, CallsFit, Distinct, Creating
  <2>3. call' \in [Calls -> CallState]
    BY <1>1, <1>2, <1>3
  <2> QED BY <2>1, <2>2, <2>3 DEF CallsFit
<1>6. TablesFit'
  BY <1>1 DEF Inv, TablesFit
<1>7. HandedFit' /\ WithdrawnFit' /\ WorkerFits'
  BY <1>1 DEF Inv, HandedFit, WithdrawnFit, WorkerFits, Isolated, ghosts
<1> QED BY <1>5, <1>6, <1>7 DEF Inv

\* The job learns that its secret is registered.
LEMMA JobLearned ==
  ASSUME Inv, NEW e, JobLearns(e)
  PROVE  /\ job' \in JobState /\ job'.of = job.of
         /\ job'.at = job.at \/ (job.at = "register" /\ job.of = e /\ job'.at = "deploy")
  BY DEF JobLearns, Inv, WorkerFits, JobState

LEMMA AgainUpsertsFits ==
  ASSUME Inv, NEW c \in Calls, AgainUpserts(c), UNCHANGED provisioningAllowed
  PROVE  Inv'
<1> DEFINE e == call[c].of
<1>1. /\ call[c].at = "again-upsert" /\ Answer(c) /\ JobLearns(e)
      /\ node' # "absent" /\ node' \in {"absent", "enabled", "disabled"}
      /\ UNCHANGED <<provisioningAllowed, credential, enrollment, worker, ghosts>>
  BY DEF AgainUpserts, Upserted, Inv, TablesFit
<1>2. CallFits(call[c]) /\ e \in Enrollments
  BY <1>1 DEF Inv, CallsFit, CallFits
<1>3. /\ job' \in JobState /\ job'.of = job.of
      /\ job'.at = job.at \/ (job.at = "register" /\ job.of = e /\ job'.at = "deploy")
  BY <1>1, JobLearned
<1>4. ~overtaken /\ job.of = e => e \in withdrawn \/ Isolated(e)
  BY <1>1, <1>2 DEF CallFits, Again
<1> HIDE DEF e
<1>5. StatusMoves
  BY <1>1 DEF StatusMoves
<1>6. CallsFit'
  <2>1. ASSUME NEW d \in Calls, NEW i, i = call[d], i = call'[d] PROVE CallFits(i)'
    <3>1. CallFits(i)
      BY <2>1 DEF Inv, CallsFit
    <3>2. i.at \in Installing => i.of \notin withdrawn' \ raced'
      BY <3>1, <1>1 DEF CallFits, ghosts
    <3>3. ~overtaken' /\ i.at \in Again /\ i.of = job'.of =>
            i.of \in withdrawn' \/ Isolated(i.of)'
      BY <3>1, <1>1, <1>3 DEF CallFits, ghosts, Isolated
    <3> QED BY <3>1, <3>2, <3>3, <1>1, <1>5, CallStillFits
  <2> QED BY <2>1, <1>1, CallsKept
<1>7. TablesFit'
  BY <1>1 DEF Inv, TablesFit
<1>8. HandedFit' /\ WithdrawnFit'
  BY <1>1 DEF Inv, HandedFit, WithdrawnFit, ghosts
<1>9. WorkerFits'
  BY <1>1, <1>3, <1>4 DEF Inv, WorkerFits, Isolated, ghosts
<1> QED BY <1>6, <1>7, <1>8, <1>9 DEF Inv

LEMMA RegisterCommitsFits ==
  ASSUME Inv, Apart, NEW c \in Calls, RegisterCommits(c), UNCHANGED provisioningAllowed
  PROVE  Inv'
<1> DEFINE e == call[c].of
           kind == call[c].kind
           issued == enrollment[e].status = "issued"
<1>1. CASE node = "absent"
  BY <1>1, CallAnswers DEF RegisterCommits, ghosts
<1>2. CASE node # "absent"
  <2>1. /\ e \in Enrollments /\ kind \in Kinds
        /\ enrollment[e].status \in Spent \cup {"issued"} /\ e \notin withdrawn \ raced
        /\ credential.mode = "legacy" => kind = "migrate"
    BY DEF RegisterCommits, Inv, CallsFit, CallFits, CallState, Installing
  <2>2. /\ credential' = Installed(e, kind)
        /\ enrollment' = IF issued THEN [enrollment EXCEPT ![e].status = "activated"]
                                   ELSE enrollment
        /\ activations' = IF credential.current # e /\ activations < 2
                          THEN activations + 1 ELSE activations
        /\ overtaken' = (overtaken \/ job.of # e)
        /\ IF issued THEN JobLearns(e) ELSE UNCHANGED job
        /\ Answer(c)
        /\ UNCHANGED <<provisioningAllowed, node, worker, handed, doubled, withdrawn, raced>>
    BY <1>2 DEF RegisterCommits
  <2>3. enrollment \in [Enrollments -> EnrollmentRow] /\ credential \in CredentialRow
    BY DEF Inv, TablesFit
  <2>4. /\ credential' \in CredentialRow /\ credential'.mode = "isolated"
        /\ credential'.current = e
        /\ credential'.previous = IF credential.mode = "isolated"
                                  THEN credential.current ELSE None
        /\ kind = "migrate" => credential'.fallback
    BY <2>1, <2>2, <2>3 DEF Installed, CredentialRow
  <2>5. /\ enrollment' \in [Enrollments -> EnrollmentRow]
        /\ enrollment'[e].status \in Spent
        /\ \A f \in Enrollments \ {e} : enrollment'[f] = enrollment[f]
    BY <2>1, <2>2, <2>3 DEF EnrollmentRow, Spent
  <2>6. /\ job' \in JobState /\ job'.of = job.of
        /\ job'.at = job.at \/ (job.at = "register" /\ job.of = e /\ job'.at = "deploy")
    <3>1. CASE issued
      BY <3>1, <2>2, JobLearned
    <3>2. CASE ~issued
      BY <3>2, <2>2 DEF Inv, WorkerFits
    <3> QED BY <3>1, <3>2
  <2>7. ~overtaken' => ~overtaken /\ job.of = e
    BY <2>2
  <2> HIDE DEF e, kind, issued
  <2>8. StatusMoves
    BY <2>1, <2>5 DEF StatusMoves, Spent
  <2>10. CallsFit'
    <3>1. ASSUME NEW d \in Calls, NEW i, i = call[d], i = call'[d] PROVE CallFits(i)'
      <4>1. CallFits(i)
        BY <3>1 DEF Inv, CallsFit
      <4>2. i.at \in Installing => i.of \notin withdrawn' \ raced'
        BY <4>1, <2>2 DEF CallFits
      <4>3. ~overtaken' /\ i.at \in Again /\ i.of = job'.of =>
              i.of \in withdrawn' \/ Isolated(i.of)'
        BY <2>4, <2>6, <2>7 DEF Isolated
      <4>4. ~provisioningAllowed /\ node' = "absent" /\ i.at \in Upserting => i.of \in withdrawn'
        BY <1>2, <2>2
      <4> QED BY <4>1, <4>2, <4>3, <4>4, <2>2, <2>4, <2>8, CallStillFits
    <3> QED BY <3>1, <2>2, CallsKept
  <2>11. TablesFit'
    <3>1. \A f \in Enrollments : f \in {credential'.current, credential'.previous} =>
            enrollment'[f].status \in Spent
      BY <2>4, <2>5, Names DEF Inv, TablesFit
    <3> QED BY <1>2, <3>1, <2>1, <2>2, <2>4, <2>5, Names DEF Inv, TablesFit
  <2>12. HandedFit'
    BY <2>1, <2>2, <2>5 DEF Inv, HandedFit, Spent
  <2>13. WithdrawnFit'
    BY <2>1, <2>2, <2>4, <2>5, Names DEF Inv, WithdrawnFit
  <2>14. WorkerFits'
    <3>1. /\ job'.at # "idle" => job'.of \in Enrollments /\ enrollment'[job'.of].status # "unused"
          /\ worker' \in Secrets \cup {None}
          /\ worker' \in Enrollments => enrollment'[worker'].status # "unused"
      BY <2>2, <2>5, <2>6 DEF Inv, WorkerFits, Spent
    <3>7. /\ activations \in 0..2 /\ activations' \in 0..2
          /\ credential.current # e => activations' # 0 /\ (activations' = 1 => activations = 0)
      BY <2>2 DEF Inv, WorkerFits
    <3>8. ~doubled => credential.current # e
      <4>1. Activating(c)
        BY DEF RegisterCommits, Activating
      <4>2. ~doubled => ~Isolated(call[c].of)
        BY <4>1 DEF Apart
      <4>3. credential.current = call[c].of => credential.mode = "isolated"
        BY <2>1, Names DEF e, Inv, TablesFit
      <4> QED BY <4>2, <4>3 DEF Isolated, e
    <3>3. overtaken' \in BOOLEAN
      BY <2>2, Zenon
    <3>4. ASSUME ~overtaken'
          PROVE  /\ job'.at \in {"deploy", "retire"} =>
                      credential'.mode = "isolated" /\ credential'.current = job'.of
                 /\ job'.at = "retire" => worker' = job'.of
      BY <3>4, <2>2, <2>4, <2>6, <2>7 DEF Isolated, Inv, WorkerFits
    <3>5. ASSUME ~overtaken', ~doubled', worker' \in Secrets \ withdrawn', activations' = 1
          PROVE  /\ credential'.mode = "isolated"
                 /\ \/ worker' \in {credential'.current, credential'.previous}
                    \/ credential'.fallback /\ worker' = Root
      <4>1. (credential.mode = "legacy" /\ worker = Root) \/ Isolated(worker)
        BY <3>7, <3>8, <3>5, <2>2, <2>7 DEF Inv, WorkerFits
      <4> QED BY <4>1, <2>1, <2>2, <2>4 DEF Isolated
    <3>6. activations' \in 0..2 /\ (~doubled' => activations' # 0)
      BY <3>7, <3>8, <2>2
    <3> QED BY <2>6, <3>1, <3>3, <3>4, <3>5, <3>6, Zenon DEF WorkerFits, Isolated
  <2> QED BY <2>10, <2>11, <2>12, <2>13, <2>14 DEF Inv
<1> QED BY <1>1, <1>2

----------------------------------------------------------------------------
(* The job *)

LEMMA JobFits ==
  ASSUME Inv, UNCHANGED provisioningAllowed,
         (\E e \in Enrollments : JobStart(e)) \/ JobDeploys \/ JobRetires \/ JobFails
  PROVE  Inv'
<1>1. ASSUME NEW e \in Enrollments, JobStart(e) PROVE Inv'
  <2>1. /\ job' \in JobState /\ job'.at = "exchange" /\ job'.of = e
        /\ enrollment[e].status = "pending"
        /\ UNCHANGED <<provisioningAllowed, node, credential, enrollment, call, worker, ghosts>>
    BY <1>1 DEF JobStart, NoJob, JobState, Kinds
  <2>2. StatusMoves
    BY <2>1 DEF StatusMoves
  <2>3. CallsFit'
    <3>1. ASSUME NEW d \in Calls, NEW i, i = call[d], i = call'[d] PROVE CallFits(i)'
      <4>1. CallFits(i)
        BY <3>1 DEF Inv, CallsFit
      <4>2. i.at \in Again => i.of # e
        BY <4>1, <2>1 DEF CallFits, Spent
      <4>3. i.at \in Installing => i.of \notin withdrawn' \ raced'
        BY <4>1, <2>1 DEF CallFits, ghosts
      <4>4. ~provisioningAllowed /\ node' = "absent" /\ i.at \in Upserting => i.of \in withdrawn'
        BY <4>1, <2>1 DEF CallFits, ghosts
      <4> QED BY <4>1, <4>2, <4>3, <4>4, <2>1, <2>2, CallStillFits
    <3> QED BY <3>1, <2>1, CallsKept
  <2>4. TablesFit' /\ HandedFit' /\ WithdrawnFit'
    BY <2>1 DEF Inv, TablesFit, HandedFit, WithdrawnFit, ghosts
  <2>5. WorkerFits'
    BY <2>1 DEF Inv, WorkerFits, Isolated, ghosts
  <2> QED BY <2>3, <2>4, <2>5 DEF Inv
<1>2. CASE JobDeploys \/ JobFails
  <2>1. /\ job' \in JobState
        /\ \/ job'.of = job.of /\ job.at # "idle"
           \/ job'.of = None /\ job'.at = "idle"
        /\ UNCHANGED <<provisioningAllowed, node, credential, enrollment, call, handed,
                       overtaken, doubled, withdrawn, raced>>
    BY <1>2 DEF JobDeploys, JobFails, Inv, WorkerFits, JobState, NoJob, Kinds, ghosts
  <2>2. StatusMoves
    BY <2>1 DEF StatusMoves
  <2>3. CallsFit'
    <3>1. ASSUME NEW d \in Calls, NEW i, i = call[d], i = call'[d] PROVE CallFits(i)'
      <4>1. CallFits(i)
        BY <3>1 DEF Inv, CallsFit
      <4>2. i.at \in Again => i.of \in Enrollments
        BY <4>1 DEF CallFits, Again
      <4>3. i.at \in Installing => i.of \notin withdrawn' \ raced'
        BY <4>1, <2>1 DEF CallFits
      <4>4. ~provisioningAllowed /\ node' = "absent" /\ i.at \in Upserting => i.of \in withdrawn'
        BY <4>1, <2>1 DEF CallFits
      <4>5. ~overtaken' /\ i.at \in Again /\ i.of = job'.of =>
              i.of \in withdrawn' \/ Isolated(i.of)'
        BY <4>1, <4>2, <2>1, Names DEF CallFits, Isolated
      <4> QED BY <4>1, <4>3, <4>4, <4>5, <2>1, <2>2, CallStillFits
    <3> QED BY <3>1, <2>1, CallsKept
  <2>4. TablesFit' /\ HandedFit' /\ WithdrawnFit'
    BY <2>1 DEF Inv, TablesFit, HandedFit, WithdrawnFit
  <2>5. CASE JobDeploys
    <3>1. /\ job.at = "deploy" /\ job'.at = "retire" /\ worker' = job.of /\ activations' = 0
          /\ job'.of = job.of
      BY <2>5 DEF JobDeploys, Inv, WorkerFits, JobState
    <3>2. WorkerFits'
      BY <2>1, <3>1 DEF Inv, WorkerFits, Isolated, Secrets
    <3> QED BY <2>3, <2>4, <3>2 DEF Inv
  <2>6. CASE JobFails
    <3>1. /\ job'.at \in {"cleanup", "idle"}
          /\ UNCHANGED <<worker, activations>>
      BY <2>6 DEF JobFails, Inv, WorkerFits, JobState, NoJob, ghosts
    <3>2. WorkerFits'
      BY <2>1, <3>1 DEF Inv, WorkerFits, Isolated
    <3> QED BY <2>3, <2>4, <3>2 DEF Inv
  <2> QED BY <1>2, <2>5, <2>6
<1>3. CASE JobRetires
  <2>1. /\ job.at = "retire" /\ job' \in JobState /\ job'.at = "cleanup" /\ job'.of = job.of
        /\ UNCHANGED <<provisioningAllowed, node, enrollment, call, worker, ghosts>>
    BY <1>3 DEF JobRetires, Inv, WorkerFits, JobState
  <2>2. /\ credential' \in CredentialRow /\ credential'.mode = credential.mode
        /\ credential'.current = credential.current
        /\ credential'.previous \in {credential.previous, None}
        /\ credential.mode # "isolated" => credential' = credential
    BY <1>3 DEF JobRetires, Retired, Inv, TablesFit, CredentialRow
  <2>3. StatusMoves
    BY <2>1 DEF StatusMoves
  <2>4. CallsFit'
    <3>1. ASSUME NEW d \in Calls, NEW i, i = call[d], i = call'[d] PROVE CallFits(i)'
      <4>1. CallFits(i)
        BY <3>1 DEF Inv, CallsFit
      <4>2. i.at \in Installing => i.of \notin withdrawn' \ raced'
        BY <4>1, <2>1 DEF CallFits, ghosts
      <4>3. ~provisioningAllowed /\ node' = "absent" /\ i.at \in Upserting => i.of \in withdrawn'
        BY <4>1, <2>1 DEF CallFits, ghosts
      <4>4. ~overtaken' /\ i.at \in Again /\ i.of = job'.of =>
              i.of \in withdrawn' \/ Isolated(i.of)'
        BY <4>1, <2>1, <2>2 DEF CallFits, Isolated, ghosts
      <4> QED BY <4>1, <4>2, <4>3, <4>4, <2>1, <2>2, <2>3, CallStillFits
    <3> QED BY <3>1, <2>1, CallsKept
  <2>5. TablesFit'
    BY <2>1, <2>2, Names DEF Inv, TablesFit
  <2>6. HandedFit' /\ WithdrawnFit'
    BY <2>1, <2>2, Names DEF Inv, HandedFit, WithdrawnFit, ghosts
  <2>7. WorkerFits'
    BY <2>1, <2>2 DEF Inv, WorkerFits, Isolated, ghosts
  <2> QED BY <2>4, <2>5, <2>6, <2>7 DEF Inv
<1> QED BY <1>1, <1>2, <1>3

----------------------------------------------------------------------------
(* Withdrawals *)

LEMMA RevokedRows ==
  ASSUME Inv, NEW es, Revoked(es)
  PROVE  /\ enrollment' \in [Enrollments -> EnrollmentRow]
         /\ \A f \in Enrollments :
              /\ enrollment'[f].kind = enrollment[f].kind
              /\ enrollment'[f].status =
                   IF f \in es /\ enrollment[f].status \in {"pending", "issued"}
                   THEN "revoked" ELSE enrollment[f].status
         /\ StatusMoves
<1>1. enrollment \in [Enrollments -> EnrollmentRow]
  BY DEF Inv, TablesFit
<1>2. ASSUME NEW f \in Enrollments
      PROVE  /\ enrollment'[f] \in EnrollmentRow
             /\ enrollment'[f].kind = enrollment[f].kind
             /\ enrollment'[f].status =
                  IF f \in es /\ enrollment[f].status \in {"pending", "issued"}
                  THEN "revoked" ELSE enrollment[f].status
  BY <1>1 DEF Revoked, EnrollmentRow
<1>3. enrollment' \in [Enrollments -> EnrollmentRow]
  BY <1>2 DEF Revoked
<1>4. StatusMoves
  BY <1>2 DEF StatusMoves, Spent
<1> QED BY <1>2, <1>3, <1>4

\* One enrollment that was not activated yet is taken back.
LEMMA RevokeFits ==
  ASSUME Inv, NEW e \in Enrollments, Revoked({e}),
         TakeBack(IF enrollment[e].status \in {"pending", "issued"} THEN {e} ELSE {}),
         job' = job \/ job' = NoJob,
         UNCHANGED <<provisioningAllowed, node, credential, call, worker, handed, activations,
                     overtaken, doubled>>
  PROVE  Inv'
<1> DEFINE es == IF enrollment[e].status \in {"pending", "issued"} THEN {e} ELSE {}
<1>1. /\ enrollment' \in [Enrollments -> EnrollmentRow]
      /\ \A f \in Enrollments :
           /\ enrollment'[f].kind = enrollment[f].kind
           /\ enrollment'[f].status =
                IF f \in {e} /\ enrollment[f].status \in {"pending", "issued"}
                THEN "revoked" ELSE enrollment[f].status
      /\ StatusMoves
  BY RevokedRows
<1>2. /\ withdrawn' = withdrawn \cup es /\ raced' = raced \cup (es \cap InFlight)
      /\ es \subseteq {e}
      /\ e \in es => enrollment[e].status \in {"pending", "issued"}
  BY DEF TakeBack
<1> HIDE DEF es
<1>3. NoJob \in JobState /\ NoJob.at = "idle" /\ NoJob.of = None
  BY DEF NoJob, JobState, Kinds
<1>4. CallsFit'
  <2>1. ASSUME NEW d \in Calls, NEW i, i = call[d], i = call'[d] PROVE CallFits(i)'
    <3>1. CallFits(i)
      BY <2>1 DEF Inv, CallsFit
    <3>2. i.at \in Installing => i.of \notin withdrawn' \ raced'
      <4>1. i.at \in Installing => i.of \in InFlight
        BY <2>1 DEF Installing, InFlight, Activating
      <4> QED BY <4>1, <3>1, <1>2 DEF CallFits
    <3>3. ~provisioningAllowed /\ node' = "absent" /\ i.at \in Upserting => i.of \in withdrawn'
      BY <3>1, <1>2 DEF CallFits
    <3>4. i.at \in Again => i.of # None
      BY <3>1, Names DEF CallFits, Again
    <3>5. ~overtaken' /\ i.at \in Again /\ i.of = job'.of =>
            i.of \in withdrawn' \/ Isolated(i.of)'
      BY <3>1, <3>4, <1>2, <1>3 DEF CallFits, Isolated
    <3> QED BY <3>1, <3>2, <3>3, <3>5, <1>1, CallStillFits
  <2> QED BY <2>1, CallsKept
<1>5. \A f \in Enrollments : enrollment[f].status \in Spent => enrollment'[f].status \in Spent
  BY <1>1 DEF StatusMoves
<1>6. TablesFit'
  BY <1>1, <1>5 DEF Inv, TablesFit
<1>7. HandedFit'
  BY <1>1 DEF Inv, HandedFit
<1>8. WithdrawnFit'
  BY <1>1, <1>2, <1>5 DEF Inv, WithdrawnFit, TablesFit, Secrets, Spent
<1>9. WorkerFits'
  BY <1>1, <1>2, <1>3 DEF Inv, WorkerFits, Isolated
<1> QED BY <1>4, <1>6, <1>7, <1>8, <1>9 DEF Inv

\* Everything the node ever had is taken back.
LEMMA AllTakenBack ==
  ASSUME Inv, TakeBack(Known \cup {Root}),
         enrollment' \in [Enrollments -> EnrollmentRow], StatusMoves,
         \A f \in Enrollments : enrollment[f].status # "unused" => enrollment'[f].status \in Spent,
         credential' \in CredentialRow, credential'.mode \in {"none", "revoked"},
         credential'.current = None, credential'.previous = None,
         node' \in {"absent", "disabled"},
         UNCHANGED <<provisioningAllowed, call, job, worker, handed, activations, overtaken,
                     doubled>>
  PROVE  Inv'
<1>1. /\ \A f \in Enrollments : enrollment[f].status # "unused" => f \in withdrawn'
      /\ withdrawn' = withdrawn \cup Known \cup {Root}
      /\ raced' = raced \cup ((Known \cup {Root}) \cap InFlight)
      /\ Known \subseteq Enrollments
  BY DEF TakeBack, Known
<1>2. CallsFit'
  <2>1. ASSUME NEW d \in Calls, NEW i, i = call[d], i = call'[d] PROVE CallFits(i)'
    <3>1. CallFits(i)
      BY <2>1 DEF Inv, CallsFit
    <3>2. i.at \in Installing \cup Upserting \cup Again =>
            i.of \in Enrollments /\ enrollment[i.of].status # "unused"
      BY <3>1 DEF CallFits, Installing, Upserting, Again, Creating
    <3>3. i.at \in Installing => i.of \in InFlight
      BY <2>1 DEF Installing, InFlight, Activating
    <3>4. i.at \in Installing => i.of \notin withdrawn' \ raced'
      BY <3>1, <3>2, <3>3, <1>1 DEF CallFits
    <3>5. /\ i.at \in Upserting => i.of \in withdrawn'
          /\ i.at \in Again => i.of \in withdrawn'
      BY <3>2, <1>1
    <3> QED BY <3>1, <3>4, <3>5, CallStillFits
  <2> QED BY <2>1, CallsKept
<1>3. TablesFit'
  BY Names DEF Inv, TablesFit
<1>4. HandedFit'
  BY DEF Inv, HandedFit, Spent
<1>5. WithdrawnFit'
  BY <1>1, Names DEF Inv, WithdrawnFit, Secrets, Known, StatusMoves
<1>6. WorkerFits'
  <2>1. worker \in Secrets => worker \in withdrawn'
    BY <1>1 DEF Inv, WorkerFits, Secrets
  <2>2. job.at # "idle" => job.of \in withdrawn' /\ enrollment'[job.of].status # "unused"
    BY <1>1 DEF Inv, WorkerFits, StatusMoves
  <2>3. worker \in Enrollments => enrollment'[worker].status # "unused"
    BY DEF Inv, WorkerFits, StatusMoves
  <2> QED BY <2>1, <2>2, <2>3 DEF Inv, WorkerFits
<1> QED BY <1>2, <1>3, <1>4, <1>5, <1>6 DEF Inv

\* The previous secret, and the shared one with it, are taken back.
LEMMA RetireFits ==
  ASSUME Inv, UNCHANGED provisioningAllowed, RetirePrevious
  PROVE  Inv'
<1> DEFINE es == ({credential.previous} \ {None, credential.current})
                   \cup (IF credential.fallback THEN {Root} ELSE {})
<1>1. /\ credential' \in CredentialRow /\ credential'.mode = credential.mode
      /\ credential'.current = credential.current
      /\ credential'.previous \in {credential.previous, None}
      /\ credential'.previous = None
      /\ credential.mode # "isolated" => credential' = credential
  BY DEF RetirePrevious, Retired, Inv, TablesFit, CredentialRow
<1>2. /\ UNCHANGED <<provisioningAllowed, node, enrollment, call, job, worker, handed,
                     activations, overtaken, doubled>>
      /\ withdrawn' = withdrawn \cup es /\ raced' = raced \cup (es \cap InFlight)
  BY DEF RetirePrevious, TakeBack
<1>3. /\ es \subseteq Secrets
      /\ \A e \in es : e = Root \/ (e = credential.previous /\ e # credential.current)
      /\ credential.fallback => Root \in es
      /\ credential.previous \in Enrollments \ {credential.current} => credential.previous \in es
      /\ credential.previous \in Enrollments \cup {None}
  BY Names DEF Inv, TablesFit, CredentialRow, Secrets
<1> HIDE DEF es
<1>4. StatusMoves
  BY <1>2 DEF StatusMoves
<1>5. CallsFit'
  <2>1. ASSUME NEW d \in Calls, NEW i, i = call[d], i = call'[d] PROVE CallFits(i)'
    <3>1. CallFits(i)
      BY <2>1 DEF Inv, CallsFit
    <3>2. i.at \in Installing => i.of \notin withdrawn' \ raced'
      <4>1. i.at \in Installing => i.of \in InFlight
        BY <2>1 DEF Installing, InFlight, Activating
      <4> QED BY <4>1, <3>1, <1>2 DEF CallFits
    <3>3. ~provisioningAllowed /\ node' = "absent" /\ i.at \in Upserting => i.of \in withdrawn'
      BY <3>1, <1>2 DEF CallFits
    <3>4. ~overtaken' /\ i.at \in Again /\ i.of = job'.of =>
            i.of \in withdrawn' \/ Isolated(i.of)'
      BY <3>1, <1>1, <1>2 DEF CallFits, Isolated
    <3> QED BY <3>1, <3>2, <3>3, <3>4, <1>1, <1>2, <1>4, CallStillFits
  <2> QED BY <2>1, <1>2, CallsKept
<1>6. TablesFit'
  BY <1>1, <1>2, Names DEF Inv, TablesFit
<1>7. HandedFit'
  BY <1>2 DEF Inv, HandedFit
<1>8. WithdrawnFit'
  <2>1. ASSUME NEW e \in Enrollments \cap es
        PROVE  /\ enrollment[e].status \in Spent
               /\ e \notin {credential'.current, credential'.previous}
    BY <1>1, <1>3, Names DEF Inv, TablesFit
  <2>2. raced' \subseteq withdrawn' /\ withdrawn' \subseteq Secrets
    BY <1>2, <1>3 DEF Inv, WithdrawnFit
  <2> QED BY <2>1, <2>2, <1>1, <1>2, Names DEF Inv, WithdrawnFit
<1>9. WorkerFits'
  <2>1. WorkerFits
    BY DEF Inv
  <2>2. ASSUME ~overtaken, ~doubled, worker \in Secrets \ withdrawn', activations = 1
        PROVE  \/ credential'.mode = "legacy" /\ worker = Root
               \/ /\ credential'.mode = "isolated"
                  /\ \/ worker \in {credential'.current, credential'.previous}
                     \/ credential'.fallback /\ worker = Root
    BY <2>1, <2>2, <1>1, <1>2, <1>3, Names DEF WorkerFits, Secrets
  <2> QED BY <2>1, <2>2, <1>1, <1>2 DEF WorkerFits, Isolated
<1> QED BY <1>5, <1>6, <1>7, <1>8, <1>9 DEF Inv

LEMMA WithdrawFits ==
  ASSUME Inv, UNCHANGED provisioningAllowed, Withdraw \/ JobCleansUp
  PROVE  Inv'
<1>0. enrollment \in [Enrollments -> EnrollmentRow] /\ job.at # "idle" => job.of \in Enrollments
  BY DEF Inv, TablesFit, WorkerFits
<1>1. ASSUME NEW e \in Enrollments, RevokeEnrollment(e) PROVE Inv'
  BY <1>1, RevokeFits DEF RevokeEnrollment
<1>2. CASE JobCleansUp
  <2>1. job.of \in Enrollments /\ Revoked({job.of}) /\ job' = NoJob
    BY <1>2 DEF JobCleansUp, Inv, WorkerFits
  <2> QED BY <1>2, <2>1, RevokeFits DEF JobCleansUp
<1>3. ASSUME NEW e \in Enrollments, Expire(e) PROVE Inv'
  <2>1. /\ enrollment' = [enrollment EXCEPT ![e].expired = TRUE]
        /\ UNCHANGED <<provisioningAllowed, node, credential, call, job, worker, ghosts>>
    BY <1>3 DEF Expire
  <2>2. /\ enrollment' \in [Enrollments -> EnrollmentRow]
        /\ \A f \in Enrollments : /\ enrollment'[f].status = enrollment[f].status
                                  /\ enrollment'[f].kind = enrollment[f].kind
    BY <2>1 DEF Inv, TablesFit, EnrollmentRow
  <2>3. StatusMoves
    BY <2>2 DEF StatusMoves
  <2>4. CallsFit'
    <3>1. ASSUME NEW d \in Calls, NEW i, i = call[d], i = call'[d] PROVE CallFits(i)'
      <4>1. CallFits(i)
        BY <3>1 DEF Inv, CallsFit
      <4>2. i.at \in Installing => i.of \notin withdrawn' \ raced'
        BY <4>1, <2>1 DEF CallFits, ghosts
      <4>3. ~provisioningAllowed /\ node' = "absent" /\ i.at \in Upserting => i.of \in withdrawn'
        BY <4>1, <2>1 DEF CallFits, ghosts
      <4>4. ~overtaken' /\ i.at \in Again /\ i.of = job'.of =>
              i.of \in withdrawn' \/ Isolated(i.of)'
        BY <4>1, <2>1 DEF CallFits, Isolated, ghosts
      <4> QED BY <4>1, <4>2, <4>3, <4>4, <2>1, <2>3, CallStillFits
    <3> QED BY <3>1, <2>1, CallsKept
  <2>5. TablesFit' /\ HandedFit' /\ WithdrawnFit' /\ WorkerFits'
    BY <2>1, <2>2 DEF Inv, TablesFit, HandedFit, WithdrawnFit, WorkerFits, Isolated, ghosts
  <2> QED BY <2>4, <2>5 DEF Inv
<1>4. CASE RevokeCredential
  <2>1. /\ credential' \in CredentialRow /\ credential'.mode \in {"none", "revoked"}
        /\ credential'.current = None /\ credential'.previous = None
    <3>1. CASE credential.mode = "none"
      BY <1>4, <3>1 DEF RevokeCredential, Inv, TablesFit
    <3>2. CASE credential.mode # "none"
      BY <1>4, <3>2 DEF RevokeCredential, NoCredential, CredentialRow
    <3> QED BY <3>1, <3>2
  <2>2. Revoked(Enrollments)
    BY <1>4 DEF RevokeCredential
  <2>3. /\ enrollment' \in [Enrollments -> EnrollmentRow] /\ StatusMoves
        /\ \A f \in Enrollments :
             enrollment[f].status # "unused" => enrollment'[f].status \in Spent
    BY <2>2, <1>0, RevokedRows DEF EnrollmentRow, Spent
  <2>4. node' \in {"absent", "disabled"}
    BY <1>4 DEF RevokeCredential
  <2> QED BY <1>4, <2>1, <2>3, <2>4, AllTakenBack DEF RevokeCredential
<1>5. CASE DeleteNode
  <2>1. /\ credential' \in CredentialRow /\ credential'.mode = "none"
        /\ credential'.current = None /\ credential'.previous = None
    BY <1>5 DEF DeleteNode, NoCredential, CredentialRow
  <2>2. ASSUME NEW f \in Enrollments
        PROVE  /\ enrollment'[f] \in EnrollmentRow
               /\ enrollment[f].status # "unused" => enrollment'[f].status = "deleted"
               /\ enrollment[f].status = "unused" => enrollment'[f].status = "unused"
    BY <1>0, <1>5 DEF DeleteNode, Known, EnrollmentRow, Inv, TablesFit
  <2>3. enrollment' \in [Enrollments -> EnrollmentRow]
    BY <2>2, <1>5 DEF DeleteNode
  <2>4. StatusMoves
    BY <2>2 DEF StatusMoves, Spent
  <2>5. \A f \in Enrollments :
          enrollment[f].status # "unused" => enrollment'[f].status \in Spent
    BY <2>2 DEF Spent
  <2> QED BY <1>5, <2>1, <2>3, <2>4, <2>5, AllTakenBack DEF DeleteNode
<1>6. CASE RetirePrevious
  BY <1>6, RetireFits
<1> QED BY <1>1, <1>2, <1>3, <1>4, <1>5, <1>6 DEF Withdraw

\* A step after which no other request activates and no other secret is current.
LEMMA ApartKept ==
  ASSUME Apart, doubled' = doubled,
         \A c \in Calls : Activating(c)' => Activating(c) /\ call'[c].of = call[c].of,
         \A s : Isolated(s)' => Isolated(s)
  PROVE  Apart'
<1>1. doubled' \in BOOLEAN
  BY Zenon DEF Apart
<1>2. ASSUME ~doubled', NEW c \in Calls, Activating(c)'
      PROVE  \A s : s = call'[c].of =>
               /\ ~Isolated(s)'
               /\ \A d \in Calls \ {c} : Activating(d)' => call'[d].of # s
  <2>1. Activating(c) /\ call'[c].of = call[c].of /\ ~doubled
    BY <1>2
  <2>2. ~Isolated(call[c].of)
    BY <2>1 DEF Apart
  <2>3. \A d \in Calls \ {c} : Activating(d) => call[d].of # call[c].of
    BY <2>1 DEF Apart
  <2> QED BY <2>1, <2>2, <2>3
<1> QED BY <1>1, <1>2 DEF Apart, Isolated

LEMMA SelectsApart ==
  ASSUME Inv, Apart, NEW c \in Calls, RegisterSelects(c)
  PROVE  Apart'
<1> DEFINE row == enrollment[call[c].of]
<1>0. call \in [Calls -> CallState] /\ call[c].of \in Enrollments
  BY DEF RegisterSelects, Inv, CallsFit, CallFits
<1>1. CASE row.status = "issued" /\ ~row.expired
  <2>1. /\ Activate(c, row.kind) /\ UNCHANGED credential
    BY <1>1 DEF RegisterSelects
  <2>2. /\ call'[c].of = call[c].of
        /\ \A d \in Calls \ {c} : call'[d] = call[d]
    BY <1>0, <2>1 DEF Activate, CallState
  <2>3. ~Isolated(call[c].of)
    BY <1>0, <1>1 DEF Isolated, Inv, TablesFit, Spent
  <2>4. doubled' = (doubled \/ call[c].of \in InFlight)
    BY <2>1 DEF Activate
  <2>5. doubled' \in BOOLEAN
    BY <2>4, Zenon
  <2>6. ~doubled' => /\ ~doubled
                     /\ \A d \in Calls : Activating(d) => call[d].of # call[c].of
    BY <2>4 DEF InFlight
  <2>7. \A d \in Calls \ {c} : Activating(d)' <=> Activating(d)
    BY <2>2 DEF Activating
  <2>8. ASSUME ~doubled', NEW d \in Calls, Activating(d)'
        PROVE  /\ ~(credential'.mode = "isolated" /\ credential'.current = call'[d].of)
               /\ \A x \in Calls \ {d} : Activating(x)' => call'[x].of # call'[d].of
    <3>1. CASE d = c
      BY <2>8, <3>1, <2>1, <2>2, <2>3, <2>6, <2>7 DEF Isolated
    <3>2. CASE d # c
      <4>1. ~doubled /\ Activating(d) /\ call'[d] = call[d]
        BY <3>2, <2>8, <2>2, <2>6, <2>7
      <4>2. ~Isolated(call[d].of)
        BY <4>1 DEF Apart
      <4>3. \A x \in Calls \ {d} : Activating(x) => call[x].of # call[d].of
        BY <4>1 DEF Apart
      <4> QED BY <4>1, <4>2, <4>3, <2>1, <2>2, <2>6, <2>7, <2>8 DEF Isolated
    <3> QED BY <3>1, <3>2
  <2> QED BY <2>5, <2>8 DEF Apart, Isolated
<1>2. CASE ~(row.status = "issued" /\ ~row.expired)
  <2>1. Answer(c) /\ UNCHANGED <<credential, doubled>>
    BY <1>2 DEF RegisterSelects
  <2>2. \A d \in Calls : Activating(d)' => Activating(d) /\ call'[d].of = call[d].of
    BY <2>1, <1>0, IdleFits DEF Answer, Activating
  <2>3. \A s : Isolated(s)' => Isolated(s)
    BY <2>1 DEF Isolated
  <2> QED BY <2>1, <2>2, <2>3, ApartKept
<1> QED BY <1>1, <1>2

LEMMA CommitsApart ==
  ASSUME Inv, Apart, NEW c \in Calls, RegisterCommits(c)
  PROVE  Apart'
<1>1. /\ call \in [Calls -> CallState] /\ Activating(c) /\ Answer(c) /\ doubled' = doubled
      /\ credential' = credential \/ credential'.current = call[c].of
  BY DEF RegisterCommits, Activating, Installed, Inv, CallsFit
<1>2. \A d \in Calls : Activating(d)' => d # c /\ Activating(d) /\ call'[d].of = call[d].of
  BY <1>1, IdleFits DEF Answer, Activating
<1>3. CASE credential' = credential
  BY <1>1, <1>2, <1>3, ApartKept DEF Isolated
<1>4. CASE credential'.current = call[c].of
  <2>1. doubled' \in BOOLEAN
    BY <1>1, Zenon DEF Apart
  <2>2. ASSUME ~doubled', NEW d \in Calls, Activating(d)'
        PROVE  /\ ~(credential'.mode = "isolated" /\ credential'.current = call'[d].of)
               /\ \A x \in Calls \ {d} : Activating(x)' => call'[x].of # call'[d].of
    <3>1. ~doubled /\ d # c /\ Activating(d) /\ call'[d].of = call[d].of
      BY <1>1, <1>2, <2>2
    <3>2. \A x \in Calls \ {d} : Activating(x) => call[x].of # call[d].of
      BY <3>1 DEF Apart
    <3>3. call[d].of # call[c].of
      BY <3>1, <3>2, <1>1
    <3> QED BY <3>1, <3>2, <3>3, <1>2, <1>4
  <2> QED BY <2>1, <2>2 DEF Apart, Isolated
<1> QED BY <1>1, <1>3, <1>4

LEMMA ApartFits == Inv /\ Apart /\ [Next]_vars => Apart'
<1> SUFFICES ASSUME Inv, Apart, [Next]_vars PROVE Apart'
  OBVIOUS
<1>0. call \in [Calls -> CallState] /\ credential \in CredentialRow
  BY DEF Inv, CallsFit, TablesFit
<1>1. ASSUME NEW c \in Calls, Create(c) \/ Exchange(c) \/ Register(c) PROVE Apart'
  <2>1. CASE RegisterSelects(c)
    BY <2>1, SelectsApart
  <2>2. CASE RegisterCommits(c)
    BY <2>2, CommitsApart
  <2>3. CASE ~RegisterSelects(c) /\ ~RegisterCommits(c)
    <3>1. doubled' = doubled /\ credential' = credential
      BY <1>1, <2>3 DEF Create, CreateReadsNode, CreateReadsCredential, CreateChecksPending,
           CreateInserts, Exchange, ExchangeReads, ExchangeClaims, Register,
           RegisterAuthenticates, RegisterChecks, RegisterUpserts, AgainChecks, AgainUpserts,
           ghosts
    <3>2. ASSUME NEW d \in Calls, Activating(d)'
          PROVE  Activating(d) /\ call'[d].of = call[d].of
      <4>1. CASE Create(c)
        BY <4>1, <3>2, <1>0, IdleFits DEF Create, CreateReadsNode, CreateReadsCredential,
           CreateChecksPending, CreateInserts, Continue, Answer, Activating, CallState
      <4>2. CASE Exchange(c)
        BY <4>2, <3>2, <1>0, IdleFits DEF Exchange, ExchangeReads, ExchangeClaims, Answer,
           Activating, CallState, Idle
      <4>3. CASE RegisterAuthenticates(c)
        BY <4>3, <3>2, <1>0 DEF RegisterAuthenticates, Activating, CallState, Idle
      <4>4. CASE RegisterChecks(c) \/ RegisterUpserts(c) \/ AgainChecks(c)
        BY <4>4, <3>2, <1>0 DEF RegisterChecks, RegisterUpserts, AgainChecks, Continue, Answer,
           Activating, CallState, Idle
      <4>5. CASE AgainUpserts(c)
        BY <4>5, <3>2, <1>0 DEF AgainUpserts, Answer, Activating, CallState, Idle
      <4> QED BY <1>1, <2>3, <4>1, <4>2, <4>3, <4>4, <4>5 DEF Register
    <3>3. \A s : Isolated(s)' => Isolated(s)
      BY <3>1 DEF Isolated
    <3> QED BY <3>1, <3>2, <3>3, ApartKept
  <2> QED BY <2>1, <2>2, <2>3
<1>2. CASE Job \/ Withdraw \/ UNCHANGED vars
  <2>1. doubled' = doubled /\ call' = call
    BY <1>2 DEF Job, JobStart, JobDeploys, JobRetires, JobFails, JobCleansUp, Withdraw,
           RevokeEnrollment, Expire, RetirePrevious, RevokeCredential, DeleteNode, ghosts, vars
  <2>5. Retired.mode = credential.mode /\ Retired.current = credential.current
    BY <1>0 DEF Retired, CredentialRow
  <2>6. /\ NoCredential.mode # "isolated"
        /\ [NoCredential EXCEPT !.mode = "revoked"].mode # "isolated"
    BY DEF NoCredential
  <2>7. Job => credential' = credential \/ credential' = Retired
    BY DEF Job, JobStart, JobDeploys, JobRetires, JobFails, JobCleansUp
  <2>8. Withdraw => credential' \in {credential, Retired, NoCredential,
                                     [NoCredential EXCEPT !.mode = "revoked"]}
    BY DEF Withdraw, RevokeEnrollment, Expire, RetirePrevious,
       RevokeCredential, DeleteNode
  <2>2. \/ credential' = credential
        \/ credential'.mode = credential.mode /\ credential'.current = credential.current
        \/ credential'.mode # "isolated"
    BY <1>2, <2>5, <2>6, <2>7, <2>8 DEF vars
  <2>3. \A s : Isolated(s)' => Isolated(s)
    BY <2>2 DEF Isolated
  <2>4. \A d \in Calls : Activating(d)' => Activating(d) /\ call'[d].of = call[d].of
    BY <2>1 DEF Activating
  <2> QED BY <2>1, <2>3, <2>4, ApartKept
<1> QED BY <1>1, <1>2 DEF Next

LEMMA NextFits == Inv /\ Apart /\ [Next]_vars => Inv'
<1> SUFFICES ASSUME Inv, Apart, [Next]_vars PROVE Inv'
  OBVIOUS
<1>1. ASSUME NEW c \in Calls, UNCHANGED provisioningAllowed,
             Create(c) \/ Exchange(c) \/ Register(c)
      PROVE  Inv'
  BY <1>1, CreateFits, CreateInsertsFits, ReadingFits, ExchangeClaimsFits, RegisterUpsertsFits,
     RegisterCommitsFits, AgainUpsertsFits DEF Create, Exchange, Register
<1>2. CASE UNCHANGED provisioningAllowed /\ (Job \/ Withdraw)
  BY <1>2, JobFits, WithdrawFits DEF Job
<1>3. CASE UNCHANGED vars
  BY <1>3 DEF vars, Inv, CallsFit, CallFits, Distinct, TablesFit, HandedFit, WithdrawnFit,
              WorkerFits, Isolated
<1> QED BY <1>1, <1>2, <1>3 DEF Next

LEMMA InvHolds == Spec => [](Inv /\ Apart)
<1>1. Init => Apart
  BY IdleFits DEF Init, Apart, Activating
<1>2. Inv /\ Apart /\ [Next]_vars => (Inv /\ Apart)'
  BY NextFits, ApartFits
<1> QED BY InitFits, <1>1, <1>2, PTL DEF Spec

\* However the requests of administrators and jobs interleave, every row obeys
\* the constraints of its table and a one-time token yields its secret once
\* (exchangeNodeEnrollment's UPDATE ... WHERE status = 'pending').
THEOREM TokensRedeemedOnce == Spec => []TokensSound
<1>1. Inv /\ Apart => TokensSound
  <2> SUFFICES ASSUME Inv, Apart PROVE TokensSound
    OBVIOUS
  <2>1. call \in [Calls -> CallState] /\ TablesFit /\ HandedFit /\ WithdrawnFit /\ WorkerFits
    BY DEF Inv, CallsFit
  <2>4. doubled \in BOOLEAN
    BY Zenon DEF Apart
  <2>2. TypeOK
    BY <2>1, <2>4 DEF TypeOK, TablesFit, HandedFit, WithdrawnFit, WorkerFits
  <2>3. TokenRedeemedOnce
    BY <2>1 DEF TokenRedeemedOnce, HandedFit
  <2> QED BY <2>2, <2>3 DEF TokensSound
<1> QED BY <1>1, InvHolds, PTL

\* A secret that an administrator took back is neither current nor previous,
\* and no activation in flight will install it, but one that was already past
\* its SELECT.
THEOREM WithdrawnSecretsStayOut == Spec => []WithdrawnStaysOut
<1>1. Inv => WithdrawnStaysOut
  <2> SUFFICES ASSUME Inv, NEW e \in withdrawn, e \notin raced, e # Root
               PROVE  e \notin Accepted
    BY DEF WithdrawnStaysOut
  <2>1. e \in Enrollments /\ e \notin {credential.current, credential.previous}
    BY DEF Inv, WithdrawnFit, Secrets
  <2> QED BY <2>1, Names DEF Accepted
<1> QED BY <1>1, InvHolds, PTL

\* Whatever the job's retries and the requests of others do, a Worker whose
\* secret was not taken back authenticates until the activation after the next
\* (previous_salt, legacy_fallback of node_credentials).
THEOREM WorkerKeepsAccess == Spec => []RotationKeepsWorker
<1>1. Inv => RotationKeepsWorker
  <2> SUFFICES ASSUME Inv, ~overtaken, ~doubled, activations <= 1, worker \in Secrets \ withdrawn
               PROVE  worker \in Accepted
    BY DEF RotationKeepsWorker
  <2>1. activations = 0 \/ activations = 1
    BY DEF Inv, WorkerFits
  <2>2. \/ credential.mode = "legacy" /\ worker = Root
        \/ /\ credential.mode = "isolated"
           /\ \/ worker \in {credential.current, credential.previous}
              \/ credential.fallback /\ worker = Root
    BY <2>1 DEF Inv, WorkerFits, Isolated
  <2>3. worker # None
    BY Names DEF Secrets
  <2> QED BY <2>2, <2>3 DEF Accepted
<1> QED BY <1>1, InvHolds, PTL

\* Under the provisioning lock no registration brings a node into being, but
\* one in flight whose secret the deletion of its node took back.
THEOREM LockHolds == Spec => LockedCreatesNoNode
<1> DEFINE Kept == ~provisioningAllowed /\ node = "absent" /\ node' # "absent" =>
             \E c \in Calls : /\ call[c].at \in {"register-upsert", "again-upsert"}
                              /\ call[c].of \in withdrawn
                              /\ call'[c] # call[c]
<1>1. Inv /\ [Next]_vars => [Kept]_vars
  <2> SUFFICES ASSUME Inv, Next, ~provisioningAllowed, node = "absent", node' # "absent"
               PROVE  \E c \in Calls : /\ call[c].at \in {"register-upsert", "again-upsert"}
                                       /\ call[c].of \in withdrawn
                                       /\ call'[c] # call[c]
    BY DEF vars
  <2>1. PICK c \in Calls : RegisterUpserts(c) \/ AgainUpserts(c)
    <3>1. ~Job /\ ~Withdraw
      BY DEF Job, JobStart, JobDeploys, JobRetires, JobFails, JobCleansUp, Withdraw,
             RevokeEnrollment, Expire, RetirePrevious, RevokeCredential, DeleteNode, Inv, TablesFit
    <3>2. PICK c \in Calls : Create(c) \/ Exchange(c) \/ Register(c)
      BY <3>1 DEF Next
    <3>3. ~Create(c) /\ ~Exchange(c)
      BY DEF Create, CreateReadsNode, CreateReadsCredential, CreateChecksPending,
             CreateInserts, Exchange, ExchangeReads, ExchangeClaims
    <3>4. RegisterUpserts(c) \/ AgainUpserts(c)
      BY <3>2, <3>3 DEF Register, RegisterAuthenticates, RegisterChecks, RegisterSelects,
                        RegisterCommits, AgainChecks
    <3> QED BY <3>4
  <2>2. call \in [Calls -> CallState] /\ CallFits(call[c])
    BY DEF Inv, CallsFit
  <2>3. /\ call[c].at \in {"register-upsert", "again-upsert"}
        /\ call'[c].at \notin {"register-upsert", "again-upsert"}
    BY <2>1, <2>2, IdleFits
    DEF RegisterUpserts, AgainUpserts, Continue, Answer, CallState
  <2>4. call[c].of \in withdrawn
    BY <2>2, <2>3 DEF CallFits, Upserting
  <2> QED BY <2>3, <2>4
<1> QED BY <1>1, InvHolds, PTL DEF Spec, LockedCreatesNoNode
=============================================================================
