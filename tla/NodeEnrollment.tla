-------------------------- MODULE NodeEnrollment --------------------------
(***************************************************************************)
(* The credential life cycle of ONE edge node: one-time enrollments, the   *)
(* exchange of a token for the node's derived secret, the activation that  *)
(* installs it, retirement, revocation and deletion                        *)
(* (packages/control-plane/src/node-enrollment.ts and its callers in       *)
(* index.ts), with the CI job that drives them                             *)
(* (infra/scripts/deploy-node.sh).                                         *)
(*                                                                         *)
(* Every HTTP handler is split at its awaits: one D1 statement, or one     *)
(* atomic DB.batch, per action.  The derived secret of an enrollment       *)
(* stands for its random salt, so an enrollment names its secret; Root is  *)
(* the shared legacy secret.  Identity fields (alias, host, path) that the *)
(* handlers only compare are taken to match.                               *)
(***************************************************************************)
EXTENDS Naturals, FiniteSets

CONSTANTS Enrollments,          \* ids (and salts) of enrollments
          Calls,                \* control-plane requests that may be in flight
          Root,                 \* NODE_HMAC_SECRET, the legacy node secret
          None                  \* SQL NULL, or no value

ASSUME EnrollmentAssumption ==
    /\ IsFiniteSet(Enrollments) /\ Root # None
    /\ {Root, None} \cap Enrollments = {}

VARIABLES provisioningAllowed, \* COMPLIANCE_PROXY_ALLOWED = "1", as deployed
          node,        \* the nodes row: "absent", "enabled" or "disabled"
          credential,  \* the node_credentials row
          enrollment,  \* the node_enrollments rows
          call,        \* where each request in flight is
          job,         \* the CI deployment job
          worker,      \* the secret the running edge Worker signs with
          handed,      \* ghost: how often each secret was answered to a caller
          activations, \* ghost: secrets activated since the last deployment
          overtaken,   \* ghost: a registration outlived its job and was activated
          doubled,     \* ghost: two registrations of one secret were activating at once
          withdrawn,   \* ghost: secrets an administrator took back
          raced        \* ghost: those taken back while their activation ran

vars == <<provisioningAllowed, node, credential, enrollment, call, job, worker,
          handed, activations, overtaken, doubled, withdrawn, raced>>

ghosts == <<handed, activations, overtaken, doubled, withdrawn, raced>>

Secrets == Enrollments \cup {Root}

NoCredential == [mode |-> "none", current |-> None, previous |-> None,
                 fallback |-> FALSE]
LegacyCredential == [NoCredential EXCEPT !.mode = "legacy"]

Unused == [status |-> "unused", kind |-> "none", expired |-> FALSE, issuedAt |-> 0]

Idle == [at |-> "idle", of |-> None, kind |-> "none"]

NoJob == [at |-> "idle", of |-> None, kind |-> "none"]

----------------------------------------------------------------------------
(* What the rows mean *)

Live(e) == /\ enrollment[e].status \in {"pending", "issued"}
           /\ ~enrollment[e].expired

\* Secrets that authenticate any request of the node.
Accepted ==
    CASE credential.mode = "isolated" ->
           ({credential.current, credential.previous} \ {None})
             \cup (IF credential.fallback THEN {Root} ELSE {})
      [] credential.mode = "legacy" -> {Root}
      [] OTHER -> {}

\* The two most recently issued enrollments may also sign /api/nodes/register.
Redeemable(e) ==
    /\ enrollment[e].status = "issued" /\ ~enrollment[e].expired
    /\ Cardinality({f \in Enrollments :
            /\ enrollment[f].status = "issued" /\ ~enrollment[f].expired
            /\ enrollment[f].issuedAt > enrollment[e].issuedAt}) < 2

\* The candidates are tried in this order and deduplicated by secret.
AuthKind(s) ==
    CASE credential.mode = "isolated" /\ s = credential.current -> "isolated-current"
      [] s \in Accepted -> "not-for-register"
      [] s \notin Accepted /\ s \in Enrollments /\ Redeemable(s) -> "enrollment"
      [] OTHER -> "refused"

\* An activation that has passed its SELECT will still install its secret.
Activating(c) == call[c].at \in {"register-upsert", "register-batch"}

InFlight == {call[c].of : c \in {d \in Calls : Activating(d)}}

----------------------------------------------------------------------------
(* An unregistered node, or one that still runs on the legacy secret *)

Init ==
    /\ provisioningAllowed \in BOOLEAN
    /\ \/ node = "absent" /\ credential = NoCredential /\ worker = None
       \/ node = "enabled" /\ credential = LegacyCredential /\ worker = Root
    /\ enrollment = [e \in Enrollments |-> Unused]
    /\ call = [c \in Calls |-> Idle]
    /\ job = NoJob
    /\ handed = [e \in Enrollments |-> 0]
    /\ activations = 0
    /\ overtaken = FALSE /\ doubled = FALSE
    /\ withdrawn = {}
    /\ raced = {}

Continue(c, at) == call' = [call EXCEPT ![c].at = at]
Answer(c) == call' = [call EXCEPT ![c] = Idle]

----------------------------------------------------------------------------
(* createNodeEnrollment: three reads, then the INSERT *)

CreateReadsNode(c, e) ==
    /\ call[c].at = "idle" /\ enrollment[e].status = "unused"
    /\ \A d \in Calls : call[d].of # e
    /\ node # "absent" \/ provisioningAllowed
    /\ call' = [call EXCEPT ![c] =
            [at |-> "create-credential", of |-> e,
             kind |-> IF node = "absent" THEN "provision" ELSE "none"]]
    /\ UNCHANGED <<node, credential, enrollment, job, worker, ghosts>>

CreateReadsCredential(c) ==
    /\ call[c].at = "create-credential"
    /\ call' = [call EXCEPT ![c].at = "create-pending",
                            ![c].kind = IF @ = "provision" THEN @
                                        ELSE IF credential.mode = "isolated"
                                             THEN "rotate" ELSE "migrate"]
    /\ UNCHANGED <<node, credential, enrollment, job, worker, ghosts>>

CreateChecksPending(c) ==
    /\ call[c].at = "create-pending"
    /\ IF \E e \in Enrollments : Live(e) THEN Answer(c)
                                         ELSE Continue(c, "create-insert")
    /\ UNCHANGED <<node, credential, enrollment, job, worker, ghosts>>

CreateInserts(c) ==
    /\ call[c].at = "create-insert"
    /\ enrollment' = [enrollment EXCEPT ![call[c].of] =
            [Unused EXCEPT !.status = "pending", !.kind = call[c].kind]]
    /\ Answer(c)
    /\ UNCHANGED <<node, credential, job, worker, ghosts>>

----------------------------------------------------------------------------
(* exchangeNodeEnrollment: read the row by its token, then claim it *)

ExchangeReads(c, e) ==
    /\ call[c].at = "idle"
    /\ enrollment[e].status = "pending" /\ ~enrollment[e].expired
    /\ call' = [call EXCEPT ![c] = [Idle EXCEPT !.at = "exchange-claim", !.of = e]]
    /\ UNCHANGED <<node, credential, enrollment, job, worker, ghosts>>

\* Mutant of ExchangeClaims: the UPDATE does not test the status again.
ExchangeClaimsBlindly(c) ==
    LET e == call[c].of
    IN  /\ call[c].at = "exchange-claim"
        /\ enrollment' = [enrollment EXCEPT
               ![e].status = "issued",
               ![e].issuedAt = 1 + Cardinality({f \in Enrollments : handed[f] > 0})]
        /\ handed' = [handed EXCEPT ![e] = @ + 1]
        /\ job' = IF job.at = "exchange" /\ job.of = e
                  THEN [job EXCEPT !.at = "register", !.kind = enrollment[e].kind]
                  ELSE job
        /\ Answer(c)
        /\ UNCHANGED <<node, credential, worker, activations, overtaken, doubled, withdrawn,
                       raced>>

ExchangeClaims(c) ==
    LET e == call[c].of
    IN  /\ call[c].at = "exchange-claim"
        /\ IF enrollment[e].status = "pending" /\ ~enrollment[e].expired
           THEN /\ enrollment' = [enrollment EXCEPT
                        ![e].status = "issued",
                        ![e].issuedAt = 1 + Cardinality({f \in Enrollments : handed[f] > 0})]
                /\ handed' = [handed EXCEPT ![e] = @ + 1]
                /\ job' = IF job.at = "exchange" /\ job.of = e
                          THEN [job EXCEPT !.at = "register", !.kind = enrollment[e].kind]
                          ELSE job
           ELSE UNCHANGED <<enrollment, handed, job>>
        /\ Answer(c)
        /\ UNCHANGED <<node, credential, worker, activations, overtaken, doubled, withdrawn,
                       raced>>

----------------------------------------------------------------------------
(* POST /api/nodes/register, signed by the job with its new secret.  The   *)
(* job retries after a timeout, so several may be in flight.               *)

\* verifyNodeRequest reads the credential, then the issued enrollments.  The two
\* reads are one action: apart, the second one can only refuse what the first
\* would have let through.  Any other signature is a 401 or a 403.
RegisterAuthenticates(c) ==
    /\ call[c].at = "idle" /\ job.at = "register"
    /\ \/ /\ AuthKind(job.of) = "enrollment"
          /\ call' = [call EXCEPT ![c] = [Idle EXCEPT !.at = "register-check", !.of = job.of]]
       \/ /\ AuthKind(job.of) = "isolated-current"
          /\ call' = [call EXCEPT ![c] = [Idle EXCEPT !.at = "again-check", !.of = job.of]]
    /\ UNCHANGED <<node, credential, enrollment, job, worker, ghosts>>

\* Mutant of RegisterChecks: the lock is not asked.
RegisterChecksNothing(c) ==
    /\ call[c].at = "register-check"
    /\ Continue(c, "register-select")
    /\ UNCHANGED <<node, credential, enrollment, job, worker, ghosts>>

\* While provisioning is locked only a node that exists may register.
RegisterChecks(c) ==
    /\ call[c].at = "register-check"
    /\ IF provisioningAllowed \/ node # "absent"
       THEN Continue(c, "register-select") ELSE Answer(c)
    /\ UNCHANGED <<node, credential, enrollment, job, worker, ghosts>>

Activate(c, kind) ==
    /\ call' = [call EXCEPT ![c].at = "register-upsert", ![c].kind = kind]
    /\ doubled' = (doubled \/ call[c].of \in InFlight)

\* Mutant of RegisterSelects: the SELECT does not ask for status 'issued'.
RegisterSelectsAny(c) ==
    /\ call[c].at = "register-select"
    /\ Activate(c, enrollment[call[c].of].kind)
    /\ UNCHANGED <<node, credential, enrollment, job, worker, handed, activations, overtaken,
                   withdrawn, raced>>

\* activateNodeEnrollment: the SELECT, upsertNode, and the batch.
RegisterSelects(c) ==
    /\ call[c].at = "register-select"
    /\ LET row == enrollment[call[c].of]
       IN  IF row.status = "issued" /\ ~row.expired
           THEN Activate(c, row.kind)
           ELSE Answer(c) /\ UNCHANGED doubled
    /\ UNCHANGED <<node, credential, enrollment, job, worker, handed, activations, overtaken,
                   withdrawn, raced>>

Upserted == IF node = "absent" THEN "enabled" ELSE node

RegisterUpserts(c) ==
    /\ call[c].at = "register-upsert"
    /\ node' = Upserted
    /\ Continue(c, "register-batch")
    /\ UNCHANGED <<credential, enrollment, job, worker, ghosts>>

\* Mutant of Installed: the previous salt is not kept.
InstalledAlone(e, kind) ==
    [mode |-> "isolated", current |-> e, previous |-> None, fallback |-> kind = "migrate"]

Installed(e, kind) ==
    [mode |-> "isolated", current |-> e,
     previous |-> IF credential.mode = "isolated" THEN credential.current ELSE None,
     fallback |-> kind = "migrate"]

JobLearns(e) ==
    job' = IF job.at = "register" /\ job.of = e THEN [job EXCEPT !.at = "deploy"] ELSE job

\* Credential and enrollment change in one transaction, which the foreign key
\* to nodes aborts when the node is gone; the caller is answered 409 after the
\* commit if the enrollment was no longer issued.
RegisterCommits(c) ==
    LET e == call[c].of
        issued == enrollment[e].status = "issued"
    IN  /\ call[c].at = "register-batch"
        /\ IF node = "absent"
           THEN UNCHANGED <<credential, enrollment, activations, overtaken, job>>
           ELSE /\ credential' = Installed(e, call[c].kind)
                /\ enrollment' = IF issued
                                 THEN [enrollment EXCEPT ![e].status = "activated"]
                                 ELSE enrollment
                /\ activations' = IF credential.current # e /\ activations < 2
                                  THEN activations + 1 ELSE activations
                /\ overtaken' = (overtaken \/ job.of # e)
                /\ IF issued THEN JobLearns(e) ELSE UNCHANGED job
        /\ Answer(c)
        /\ UNCHANGED <<node, worker, handed, doubled, withdrawn, raced>>

\* A retry that finds its secret already current only refreshes the node row.
AgainChecks(c) ==
    /\ call[c].at = "again-check"
    /\ IF node # "absent" THEN Continue(c, "again-upsert") ELSE Answer(c)
    /\ UNCHANGED <<node, credential, enrollment, job, worker, ghosts>>

AgainUpserts(c) ==
    /\ call[c].at = "again-upsert"
    /\ node' = Upserted
    /\ JobLearns(call[c].of)
    /\ Answer(c)
    /\ UNCHANGED <<credential, enrollment, worker, ghosts>>

----------------------------------------------------------------------------
(* The CI job: exchange, register, deploy, smoke test, retire; it may stop *)
(* anywhere and then revokes its enrollment unless the runner died.        *)

JobStart(e) ==
    /\ job = NoJob /\ enrollment[e].status = "pending"
    /\ job' = [NoJob EXCEPT !.at = "exchange", !.of = e]
    /\ UNCHANGED <<node, credential, enrollment, call, worker, ghosts>>

JobDeploys ==
    /\ job.at = "deploy"
    /\ worker' = job.of
    /\ activations' = 0
    /\ job' = [job EXCEPT !.at = "retire"]
    /\ UNCHANGED <<node, credential, enrollment, call, handed, overtaken, doubled, withdrawn,
                   raced>>

\* retirePreviousNodeCredential
Retired == IF credential.mode = "isolated"
           THEN [credential EXCEPT !.previous = None, !.fallback = FALSE]
           ELSE credential

\* DELETE .../credential/previous after the smoke tests; a first provisioning
\* has nothing to retire.
JobRetires ==
    /\ job.at = "retire"
    /\ credential' = IF job.kind # "provision" THEN Retired ELSE credential
    /\ job' = [job EXCEPT !.at = "cleanup"]
    /\ UNCHANGED <<node, enrollment, call, worker, ghosts>>

JobFails ==
    /\ job.at \in {"exchange", "register", "deploy", "retire"}
    /\ \/ job' = [job EXCEPT !.at = "cleanup"]
       \/ job' = NoJob
    /\ UNCHANGED <<node, credential, enrollment, call, worker, ghosts>>

----------------------------------------------------------------------------
(* Withdrawals *)

TakeBack(es) == /\ withdrawn' = withdrawn \cup es
                /\ raced' = raced \cup (es \cap InFlight)

Revoked(es) == enrollment' = [e \in Enrollments |->
    IF e \in es /\ enrollment[e].status \in {"pending", "issued"}
    THEN [enrollment[e] EXCEPT !.status = "revoked"] ELSE enrollment[e]]

RevokeEnrollment(e) ==
    /\ enrollment[e].status \in {"pending", "issued"}
    /\ Revoked({e}) /\ TakeBack({e})
    /\ UNCHANGED <<node, credential, call, job, worker, handed, activations, overtaken,
                   doubled>>

JobCleansUp ==
    /\ job.at = "cleanup"
    /\ Revoked({job.of})
    /\ TakeBack(IF enrollment[job.of].status \in {"pending", "issued"}
                THEN {job.of} ELSE {})
    /\ job' = NoJob
    /\ UNCHANGED <<node, credential, call, worker, handed, activations, overtaken,
                   doubled>>

Known == {e \in Enrollments : enrollment[e].status # "unused"}

\* An administrator may retire the previous secret at any time, before the
\* Worker has been given the current one too.
RetirePrevious ==
    /\ credential.previous # None \/ credential.fallback
    /\ credential' = Retired
    /\ TakeBack(({credential.previous} \ {None, credential.current})
                  \cup (IF credential.fallback THEN {Root} ELSE {}))
    /\ UNCHANGED <<node, enrollment, call, job, worker, handed, activations, overtaken,
                   doubled>>

\* The three statements look at no credential but their own row: a request that
\* finds none, or a revoked one, and is answered 404, still disables the node and
\* revokes its enrollments.
RevokeCredential ==
    /\ credential' = IF credential.mode = "none" THEN credential
                     ELSE [NoCredential EXCEPT !.mode = "revoked"]
    /\ node' = IF node = "absent" THEN "absent" ELSE "disabled"
    /\ Revoked(Enrollments) /\ TakeBack(Known \cup {Root})
    /\ UNCHANGED <<call, job, worker, handed, activations, overtaken, doubled>>

\* The nodes row takes its credential along (ON DELETE CASCADE).
DeleteNode ==
    /\ node # "absent"
    /\ node' = "absent"
    /\ credential' = NoCredential
    /\ enrollment' = [e \in Enrollments |->
            IF e \in Known THEN [enrollment[e] EXCEPT !.status = "deleted"]
                           ELSE enrollment[e]]
    /\ TakeBack(Known \cup {Root})
    /\ UNCHANGED <<call, job, worker, handed, activations, overtaken, doubled>>

Expire(e) ==
    /\ Live(e)
    /\ enrollment' = [enrollment EXCEPT ![e].expired = TRUE]
    /\ UNCHANGED <<node, credential, call, job, worker, ghosts>>

----------------------------------------------------------------------------
Create(c) == \/ \E e \in Enrollments : CreateReadsNode(c, e)
             \/ CreateReadsCredential(c)
             \/ CreateChecksPending(c)
             \/ CreateInserts(c)

Exchange(c) == \/ \E e \in Enrollments : ExchangeReads(c, e)
               \/ ExchangeClaims(c)

Register(c) == \/ RegisterAuthenticates(c)
               \/ RegisterChecks(c)
               \/ RegisterSelects(c)
               \/ RegisterUpserts(c)
               \/ RegisterCommits(c)
               \/ AgainChecks(c)
               \/ AgainUpserts(c)

Job == \/ \E e \in Enrollments : JobStart(e)
       \/ JobDeploys \/ JobRetires \/ JobFails \/ JobCleansUp

Withdraw == \/ \E e \in Enrollments : RevokeEnrollment(e) \/ Expire(e)
            \/ RetirePrevious
            \/ RevokeCredential
            \/ DeleteNode

Next == /\ \/ \E c \in Calls : Create(c) \/ Exchange(c) \/ Register(c)
           \/ Job
           \/ Withdraw
        /\ UNCHANGED provisioningAllowed

Spec == Init /\ [][Next]_vars

----------------------------------------------------------------------------
(* Properties *)

Kinds == {"none", "provision", "rotate", "migrate"}
CredentialRow == [mode : {"none", "legacy", "isolated", "revoked"},
                  current : Enrollments \cup {None},
                  previous : Enrollments \cup {None}, fallback : BOOLEAN]
EnrollmentRow ==
    [status : {"unused", "pending", "issued", "activated", "revoked", "deleted"},
     kind : Kinds, expired : BOOLEAN, issuedAt : Nat]
CallState ==
    [at : {"idle", "create-credential", "create-pending", "create-insert",
           "exchange-claim", "register-check", "register-select",
           "register-upsert", "register-batch", "again-check", "again-upsert"},
     of : Enrollments \cup {None}, kind : Kinds]
JobState == [at : {"idle", "exchange", "register", "deploy", "retire", "cleanup"},
             of : Enrollments \cup {None}, kind : Kinds]

\* Every row and request keeps its shape; an isolated credential has a
\* current salt and an existing node (the CHECK and the foreign key of schema.sql).
TypeOK ==
    /\ provisioningAllowed \in BOOLEAN
    /\ node \in {"absent", "enabled", "disabled"}
    /\ credential \in CredentialRow
    /\ credential.mode = "isolated" => credential.current # None /\ node # "absent"
    /\ enrollment \in [Enrollments -> EnrollmentRow]
    /\ call \in [Calls -> CallState]
    /\ job \in JobState
    /\ worker \in Secrets \cup {None}
    /\ handed \in [Enrollments -> Nat]
    /\ activations \in 0..2 /\ overtaken \in BOOLEAN /\ doubled \in BOOLEAN
    /\ raced \subseteq withdrawn /\ withdrawn \subseteq Secrets

\* A one-time token yields its secret to one caller only, however its
\* exchanges interleave with each other and with a revocation.
TokenRedeemedOnce == \A e \in Enrollments : handed[e] <= 1

\* A secret an administrator took back (a revoked enrollment, a revoked
\* credential, a retired previous one, a deleted node) never authenticates the
\* node again, unless its activation was already past its SELECT when it was
\* taken back.
WithdrawnStaysOut == (withdrawn \ (raced \cup {Root})) \cap Accepted = {}

\* One activation is loss-free, however often the job repeats its registration:
\* the running Worker, unless an administrator took its own secret back, still
\* authenticates after a rotation that has not deployed yet and after the job
\* retired the secret before it.  Left out are registrations of an earlier job
\* that come through late, and two of one secret that both passed the SELECT
\* before either committed: the second drops the secret that the first kept.
RotationKeepsWorker ==
    ~overtaken /\ ~doubled /\ activations <= 1 /\ worker \in Secrets \ withdrawn
        => worker \in Accepted

\* P6.8-CLOUDFLARE-COMPLIANCE.md: while provisioning is locked registering never
\* creates a node.  The code keeps it but for registrations of a secret that was
\* taken back, by the deletion of their node, while they were in flight.
LockedCreatesNoNode ==
    [][~provisioningAllowed /\ node = "absent" /\ node' # "absent" =>
         \E c \in Calls : /\ call[c].at \in {"register-upsert", "again-upsert"}
                          /\ call[c].of \in withdrawn
                          /\ call'[c] # call[c]]_vars

\* A one-time token (node-enrollment.ts:423-482) yields its secret to one
\* caller only, however exchanges, revocations and expiry interleave, and every
\* row the interleavings leave obeys the CHECK and the foreign key of its table.
TokensSound == TypeOK /\ TokenRedeemedOnce
=============================================================================
