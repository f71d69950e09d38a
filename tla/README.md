# Opus8-CF in TLA+

Opus8-CF is a control plane (one Cloudflare Worker over a D1 database and KV) that manages
edge nodes (Workers that carry subscribers' traffic), with an administration site and CI
scripts around them. The modules here specify the parts whose correctness depends on
interleavings, retries and failures: who is let in, what is charged, which secrets and which
policy a node uses, when a node is taken out of service, how keys are rotated, what an
administrator's overlapping edits leave behind, and what operators are told.

Paths are relative to the repository; `cp/` stands for `packages/control-plane/src/`,
`prelude` for `packages/edge-node/build/opus8-prelude.js`.

## 1. Inventory

### How the parts talk

    administrators --HTTP--> cp/index.ts --D1 statements, DB.batch--> D1
    CI jobs (infra/scripts) --signed HTTP--> cp/index.ts
    edge node (prelude) --signed HTTP--> cp/index.ts:
          register, heartbeat, admission, usage, /uuids (policy and landings)
    cp/policy-cache.ts --signed HTTP--> prelude: /__opus8/policy/invalidate
    prelude --get/put/delete--> the node's own KV (policy cache, invalidation mark)
    subscribers --GET /sub/:token--> cp/index.ts --> D1, KV (optimized IP pool)
    FreedomPost --signed HTTP--> cp/index.ts: webmaster benefit claims
    administration site --JWT, polling every 30 or 60 s--> cp/index.ts

A Worker handles requests concurrently in many isolates. Nothing is shared between them but D1
and KV. A D1 statement is atomic and so is a `DB.batch`; two queries of one handler are not. A
handler may stop between any two of them, and a caller whose request timed out does not know
whether it was handled.

### Components

| Component | State | Operations | What is hard | What makes it correct |
|---|---|---|---|---|
| Connection admission, `cp/usage.ts`, `cp/data-maintenance.ts` | `active_leases`, `ip_history`, `user_limits`, `users` | admit or renew, purge, clear leases, change limits | batches of several nodes commit in any order with an old `now`; three jobs write the same rows | live addresses and daily churn stay within the limits; leases do not lose time |
| Usage reporting, `prelude` 700-1077, `cp/usage.ts` 252-372 | the session's counters, event queue and flush promise; `usage_events`, usage rows | count, queue, flush, renew, record, reset, purge | overlapping flushes on one promise field, lost answers, repeated and late reports | every byte charged at most once; an unconfirmed event stays queued; waiters resume |
| Node enrollment, `cp/node-enrollment.ts`, `cp/node-auth.ts`, `infra/scripts/deploy-node.sh` | `nodes`, `node_credentials`, `node_enrollments`, the deployed Worker's secret | create, exchange, register, retire, revoke, delete | check-then-act across queries, repeated registrations, a job that dies between activation and deployment | a token is redeemed once; withdrawn secrets stay out; rotation keeps the Worker in |
| Policy distribution, `cp/policy-cache.ts`, `/uuids` of `cp/index.ts`, `prelude` 430-668 | policy version, KV cache and mark of a node | change, advance version, notify, fetch, cache, serve | late cache fills, lost and overlapping notices, KV failures | a revoked user is not served after an invalidation, or for a bounded time |
| Node health, `cp/node-health.ts`, `infra/scripts/healthcheck-nodes.sh` | `nodes.health`, counters, `node_health_runs` | report, gate, apply | repeated reports overlap; counters are read and written back | thresholds take effect, a run counts once |
| Landings and their key, `cp/landings.ts`, `cp/landing-key-rotation.ts`, `infra/scripts/deploy-control.sh` | `landings`, the Worker's key bindings | create, edit, delete, probe, migrate, retire a key | whole-row writes from an earlier read against re-encryption; partial migrations | stored credentials always open; a migration changes no password |
| Users and limits, `cp/index.ts` 534-634, 819-914, `cp/db.ts` | `users`, `user_limits` | create, edit, delete | check-then-act edits that overlap; an edit of a user who is being deleted | rows belong to users; limits stay consistent; the lock lets nobody grow |
| Webmaster benefit, `cp/webmaster-benefit.ts`, `cp/db.ts` 359-496 | `integration_claims` with a user and a device | claim | two claims of one benefit, a deletion between look-up and read | one account per claim, the same for every answer |
| Devices and hardware binding, `cp/index.ts` 636-817, 1453-1612, `cp/db.ts` 510-642 | `user_devices` | subscribe and bind, create, edit, replace, rotate, reset, delete; the schema is replayed by deployments | two clients racing to bind; counts checked before inserts and deletes | a verified subscription is bound; limits hold; a replaced token stays out, but for the replayed row |
| Automation requests, sessions, audit, `cp/automation-auth.ts`, `cp/admin-audit.ts`, `cp/key-rotation.ts` | `automation_request_nonces`, `admin_audit_log`, JWT bindings, the page's token | sign, log in, authorise, claim, record, purge, rotate | copies and clocks at the edge of a window, a purge from an older now, entries written after the answer | once per signature; a log that tells what was done |
| Alert incidents, `cp/operations.ts`, `cp/alert-incidents.ts` | `alert_incidents` | read an overview, reconcile, purge | overlapping reconciliations of older and newer snapshots | rows rest on evidence; they settle |
| Optimized IP pool, `infra/scripts/optimize-ip.sh`, `cp/index.ts` 1394-1430, 1639-1801, `cp/operations.ts` 116-208 | one KV value | measure, publish, serve, show | hosts that change after they were read, measured or stored; three readers with rules of their own | only addresses measured for the name are served, and the pages say so |
| Edge admission gate, `prelude` 771-1008 | a connection's runtime, the isolate's `admissionCache` | admit, remember, renew, close | what an edge believes is older than what the control plane decided; no answer admits | limits hold across edges; a refusal is felt in time |
| Routing, compliance, CORS, login limits | settings | check | - | the lock is part of three modules, the rest is stateless |
| Backups, deployment gates, drills | files | shell jobs | sequential scripts against third parties | not modelled |
| Transport gateway, patched vendor core, platform helpers | sockets | byte-level protocol | - | not modelled: vendored code; helpers are not part of the built Worker |
| Administration site | browser state | forms, tables, polling | answers that arrive late | its token, its polling and its view of the pool are in the modules above; the rest keeps no authoritative state |
| Shared library | none | - | - | not modelled: pure functions |

`PROJECT.json` lists every component with its status and every hazard at its line.

## 2. Modules and how they correspond to the code

Each component module has one action per query, or per continuation between two awaits, of
each handler. `map` in `PROJECT.json` names the lines of every definition. Operators whose
comment says *mutant* are variants of the operator next to them with a plausible bug; no
action uses them, they serve to show that a property can fail.

Four modules of proofs cover two components each, side by side: nothing is claimed of the two
together. So that both can be extended at once, `Accounts`, `Devices`, `AlertIncidents` and
`OptimizedIps` name their specification after themselves (`AccountsSpec`, `DevicesSpec`,
`AlertsSpec`, `PoolSpec`, and likewise `Init`, `Next`, `TypeOK` and `vars`).

**`Admission`** (with `DevicesAndAdmission_proofs`, `MC_Admission`). One subscriber: every query is keyed
by `user_id`. `Receive` is the signed request with the handler's `Date.now()`, `ResolveOwner`
the queries before the batch, `CommitBatch` the whole D1 batch and the reads of its answer.
`RunDataMaintenance` and `ClearUserLeases` write the same tables, `UpdateAccount` changes what
the batch checks. A table is a function whose domain is the keys with a row. Clocks of the
isolates agree; a batch may still commit with a `now` that has been overtaken.
Authentication's two reads are one step here because only its result matters.

**`UsageReporting`** (with `AccountsAndUsage_proofs`) refining **`UsageLedger`**. One edge session and its account.
`QueueUsageEvent` is part of every flush. `Settle` is what JavaScript does when a flush ends:
clear `runtime.flushPromise` whoever owns it, and resume every waiter before any other event.
`FlushFailed` and `AnswerLost` are a fetch that throws or answers with an error, before or
after the control plane stored the report; `late` holds reports that arrive after the edge
gave them up. `RecordUsage` is the `INSERT ... ON CONFLICT` batch. When a flush is due is left
open (`Flush` needs pending bytes only), so every schedule of sizes and intervals is covered.
`UsageLedger` is the promise: an issued event is credited at most once per accounting period, and
the account's usage grows by nothing else but what other sessions report (`used` is the ledger's
`total`, `otherUsage` its `others`).

**`NodeEnrollment`** (with `NodeEnrollment_proofs`). One node, its rows and the CI job. A secret
is named by its enrollment; `Root` is the shared legacy secret. Handlers are split at their awaits; `Job` follows
`deploy-node.sh` and may die anywhere (`JobFails`), after which its requests may still be in
flight. `Withdraw` is what an administrator or time takes back: an enrollment, the credential (with
the node disabled, even when there is no credential to revoke), the previous secret at any time
(`RetirePrevious`), the node.

**`PolicySync`** (with `PolicySync_proofs`). One node. A policy is its revision, the number of changes committed when it
was read. `Publish` is the handler of a change, `Invalidate` the node's handler of the notice
(it may never come), `GetActiveState` a data request: mark, fresh cache, control plane, stale
cache. The two reads of the `/uuids` answer happen in either order. KV is taken to be
consistent; its operations may fail.

**`NodeHealth`** (with `HealthAndIncidents_proofs`). One probe job at a time (the workflow has a concurrency group) whose report
may be sent again, so that several handlers hold the same report. `AfterProbe` is the row
update, `Commit` the batch with the primary key on the run id.

**`LandingKeys`** (with `LandingsAndPool_proofs`, `MC_LandingKeys`). The landings table during one rotation of the sealing key. A credential is
the connection it describes and the key that seals it; a handler keeps the bindings it started
with. A PATCH gives any of three fields, connection, enabled and the hosts the landing is
responsible for (`Inputs` bounds the combinations), and is check, read and whole-row write, of
which the model keeps the row that will be written; the migration inspects, then commits batches of
compare-and-set statements, and may stop between them. The operator follows P6.9: deploy, wait
for the end of the deployment job (requests with the old bindings have ended by then, the one
assumption about time), migrate, read a clean status, retire.

**`Accounts`** (with `AccountsAndUsage_proofs`). All users with their limits, and the claims of one integration. `CheckPatch` is
the handler of PATCH up to its decision (read limits, ask the lock, compare), `UpdateUserPolicy`
its batch, which runs later on rows that may have changed; a field that was not given is written
back from the row by the statement itself (`COALESCE`). `GetProvisioning`, `CreateAtomic` and
`ReadWinner` are a claim: look-up, batch with the claim's primary key, read of what is stored. A
deletion cascades.

**`Devices`** (with `DevicesAndAdmission_proofs`). One user's devices. A subscription is `ReadPrincipal`, `Bind` (one UPDATE guarded
by the empty binding), `Reread` and `Serve`; creating a device is a count and an insert that may
be apart, and the other endpoints are one step each, since their statements check for
themselves. `ReplaySchema` is the compatibility INSERT every deployment runs. A row has its
token, its hardware mode and binding, and whether it is enabled.

**`AdminRequests`** (with `AdminRequests_proofs`). A request for a change carries a signature, a
JWT, or both; copies of it arrive several times. `Arrive` checks the window, `Authorize` the JWT,
`Claim` inserts the nonce, `Perform` stands for the change itself (its statements are in the
other modules), then `Reauthenticate` and `RecordAudit` write the entry. Maintenance reads its
`now` in one step and deletes in another. The page's session and one rotation of `JWT_SECRET`
run beside it. A login keeps the key it started with (`StartLogin`) until it signs (`SignToken`). A
binding that was put (`Put`) reaches one isolate after the other: `live` holds the bindings an
invocation may start with, `Deployed` is the moment all isolates have the last ones, and from then on
`RetirePrevious` waits for the longest life of a token, as the operator is told to
(P6.9:94-97). Which identities are configured, and the automation secret, are fixed; there is one
clock of the control plane, and the caller's may be off.

**`AlertIncidents`** (with `HealthAndIncidents_proofs`). An overview reads nodes, landings and users (`ReadSources`, which the code
starts together), then the pool of addresses (`ReadPool`), then the open rows (`ReadRows`), and
writes its batch later (`Reconcile`). Overlapping overviews are two pages polling. Rows of
nodes, landings and users come, change and go by the handlers that write them: a registration
may rename a node, one PATCH of a landing may switch, rename and reconnect it, and only the last
resets its health. Of the pool only the keys of its alerts are kept (`ChangePool`); what raises
them is `PoolAlerts` of `OptimizedIps`.

**`OptimizedIps`** (with `LandingsAndPool_proofs`). `optimize-ip.sh` reads the nodes (`ReadEligible`), measures
one after another under the hostnames it read (`Measure`), and stamps and posts what it found
(`Publish`), all within the job's 25 minutes; the handler compares
hosts with the nodes as they are then and stores one value, which reaches the KV locations one
by one (`Propagate`, from `kv` to `kvSeen`). Subscriptions, the overview and the nodes page read
it with their own rules (`Answer` and `IpsByNode`, `Fallback` and `PoolAlerts`,
`PanelShowsIps`).

**`EdgeGate`** (with `EdgeGate_proofs`). The other end of `Admission`, for one account on several
edge processes. A session's `check` is its `admissionPromise`, split where it awaits: the HMAC,
the request, the answer. `AdmitConnection` is the D1 batch at the `now` its handler read,
`NoAnswer` everything the edge takes for an unreachable control plane, `TakeRefusal` everything
that makes the promise throw. `Carry` is a data event of a session whose admission is due. The
daily limit is a refusal that may come for an address without a lease, and the local quota one
that may always come; `Admission` and `UsageReporting` have them in full. `granted` is a ghost:
the `now` of the grant that an admission, or a remembered entry, rests on.

`provisioningAllowed` in these modules is `COMPLIANCE_PROXY_ALLOWED`, fixed by the deployment:
each run covers both values.

## 3. Runs

Passing runs, and why their bounds are enough:

| Run | Shows | Bounds |
|---|---|---|
| `Admission` | `LiveWithinLimit`, `ChurnWithinLimit`, `RefusalRunsOut`, `LeasesNeverShrink` | three addresses against limits of one live and one or two a day, so both limits bind and the daily one changes under a request; two handlers overlap; a lease of two ticks can be renewed; ticks pass the lease, the day and the retention |
| `UsageReports` | `CreditsOnce` (refinement), `BytesAccounted` (types, `NeverOvercharges`, `AckedUntilDoubled`), `EventsLeaveWhenConfirmed`, `QuotaBaseNearOthers`, `WaitersResume` | three calls are the fewest with two waiters on one promise; one unit of bytes gives two events, the empty first one and the bytes, which are posted apart or, as batches hold two, together and then refused together; what one event with bytes does to others is left to the theorems, for batches of any length |
| `NodeCredentials` | `TokensSound` (types, `TokenRedeemedOnce`), `WithdrawnStaysOut`, `RotationKeepsWorker`, `LockedCreatesNoNode` | two enrollments are the first and its rotation, two requests overlap, also two registrations of one secret. Deadlock is not checked: the enrollments run out |
| `Policy` | `InvalidatedStaysOut`, `StalenessIsBounded` | two changes with their notices, one request after another with a cache between them, enough ticks to outlive the KV entry and a fetch |
| `Health` | `ThresholdsHold` (types, `ThresholdsDecide`, `RunCountsOnce`), `BanNeedsFailures`, `LockedBanHolds` | seven runs with the real thresholds 3 and 2 remove a node, bring it back, also after a good and a bad probe, and remove it again; two handlers hold one report |
| `Landings` | `CredentialsStayReadable`, `MigrationKeepsSecrets`, `LockedNeverExpands` | two rows with batches of one leave a migration half done; two requests overlap an edit with it; a PATCH carries no field, a connection, alone or while it disables, a switch or the empty list of hosts, which is the widest |
| `Devices` | `VerifiedIsBound`, `DevicesSound` (types, `BindingFollowsToken`, `DeviceLimitHolds`, `KeepsADevice`, `OnlyReplayRevives`), `AnswersHoldNow`, `CreatedUnlessOvertaken` | a default or a benefit device and two new ones under a limit of two, two hardware ids and two handlers: both races have their smallest case; two administrators' changes give a replacement and a reset, and the schema is replayed at any time. Deadlock is not checked: changes run out |
| `Accounts` | `AccountsSound` (types, `RowsHaveUsers`, `OneAccountPerClaim`, `ClaimAnswersAgree`), `LimitsConsistent`, `EditsStayInBounds` (`LockedNeverGrows`, `AllowanceHolds`) | two users and one claim, two handlers that edit, claim and delete, limits up to two, two edits, which are the fewest that overlap; a PATCH may enable or disable and raise a limit at once. Deadlock is not checked: edits run out |
| `Incidents` | `RowsSound` (types, `RowsHaveEvidence`), `MissesOnlyWhenOvertaken`, `IncidentsSettle` | a node, a landing, a user and an alert of the pool, with or without rows at first; one change in all, of any of them, next to a tick that makes checks stale, expiries near and rows old enough to purge; two overviews, one of which is asked for again and again. Deadlock is not checked: the clock stops |
| `OptimizedIps` | `ServesExactlyWhatIsValid` (types, `ServedWasValidated`, `ServesWhatIsValid`), `PagesAgree` | two nodes that may take each other's hostname, two addresses against limits of two stored and one served, one measuring run that may lag a tick behind its measurements, and three changes of nodes, any time before, within or after it; a pool that warns and expires while one subscription is being answered, and a location of KV that still has what was there before. Deadlock is not checked: the clock and the changes run out |
| `AdminRequests` | `SignedOnce`, `NonceOutlivesSignature`, `AuditIsExact`, `RotationKeepsSessions` | two copies of a request in two invocations, a caller whose clock may be a tick ahead or behind, and instants from 1 to 3 with a window, a skew, a token's life and a retention of one: each of them ends, and the old key is retired; one login at a time, and every order of four deployments |
| `EdgeGate` | `LimitHoldsAtEdges`, `RefusalTakesEffect` (`RefusalIsFelt`, `OverdueSessionsEnd`) | two sessions of two addresses on two processes under a limit of one; a tick for a check, a remembered grant and a renewal, and the shortest lease the assumption allows (with one tick less `LimitHoldsAtEdges` fails), so four ticks reach the hand-over of a lease |

Related invariants of a module are checked together under one name, given with its parts in
parentheses. The type invariants of `Admission`, `LandingKeys`, `AdminRequests` and `EdgeGate`, as
well as `LeaseIsRemembered` and `RememberedIsLeased`, are proved (section 4) and take no run.

The passing properties are as strong as the code allows: `AckedUntilDoubled`,
`EventsLeaveWhenConfirmed` and `QuotaBaseNearOthers` hold until two waiters post the same events
(ghost `doubled`); `CredentialsStayReadable` until an edit, after the old key is retired, puts
back a credential sealed with it over one that was re-encrypted after the edit's checks (ghost
`raced`); `LockedNeverExpands` for all writes but those of a row that changed after the edit's
checks (`StaleWrite`), and for those it bounds what they enable; `InvalidatedStaysOut` for answers that were not
torn and requests that saw the mark; `SignedOnce` for requests no maintenance overtook (ghost
`overtaken`); `LimitsConsistent` until edits of one user overlap; `LockedNeverGrows` for all writes but
those whose account changed after the edit's check, and `AllowanceHolds` bounds what these do;
`LimitHoldsAtEdges` for sessions an answer let in since the leases were last cleared.

### Known deviations

Where a document, a comment or the site promises more than the code does. The modules show each
of them; no run is spent on repeating it.

| Statement | What happens | Module |
|---|---|---|
| DEPLOYMENT.md:72-73, an old request cannot extend a lease | the signed time is checked but the row is stamped with the time of arrival (`cp/usage.ts:123`) | `Admission` |
| ARCHITECTURE.md:104, a renewal subtracts what was confirmed | two calls that awaited one promise both resume and post the same head of the queue; both count it (`prelude` 1044) | `UsageReporting` |
| DEPLOYMENT.md:67-68, a failed rotation leaves the old Worker working | a second activation drops the salt the Worker still uses (`cp/node-enrollment.ts:632`) | `NodeEnrollment` |
| README.md:76, revoked users are not let through after an invalidation | policy and version are read by two queries; the old policy carries the new version (`cp/index.ts:1429`) | `PolicySync` |
| README.md:86, a removed node recovers after two good probes | a failure after one good probe sets it to `degraded`, back in the subscriptions (`cp/node-health.ts:226`, 233). `ThresholdsDecide` states what decides instead | `NodeHealth` |
| P6.9:105-107, after `previous=0` the old key may be retired | an edit that read its row before the migration writes the old text back (`cp/landings.ts:244`) | `LandingKeys` |
| Users.tsx:376, the old subscription stops working at once when a device is replaced | the schema a deployment replays inserts a default device with the user's first token unless one exists (`schema.sql:187`); a subscriber created by a benefit claim has none, so the replaced token works again, without hardware binding | `Devices` |
| P6.8:32, README.md:95, DEPLOYMENT.md:177-178, no user is created while provisioning is locked | the claim endpoint (`cp/index.ts:290-380`) never asks the lock | `Accounts` |
| P6.7:11-20, D1 is written when an alert appears, returns, changes its severity or recovers, and `occurrence_count` counts returns and escalations | a new title of an open incident (a landing renamed, a hostname respelled) is written and counted too (`cp/alert-incidents.ts:143-148`). `MissesOnlyWhenOvertaken` asks for the document's transitions only | `AlertIncidents` |
| schema.sql:341, a signature is accepted once | a copy verified before the window closed, whose claim comes after maintenance removed the row, is accepted again | `AdminRequests` |
| P6.10:33, every administrator's change is logged | a change that a JWT allowed and whose JWT expires before the second authentication (`cp/index.ts:194`), or, with either credential, whose INSERT fails or whose invocation ends before it, has no entry. `AuditIsExact` admits these two cases, by name, and nothing else within the retention | `AdminRequests` |
| Users.tsx:974 (a disabled account stops at once), `prelude` 973 (admitting without an answer is for short outages) | the admission of a disabled or expired account, or of a disabled device, ends in an error 400 (`cp/index.ts:1356`), which the edge takes for an unreachable control plane: a session that is live at that moment is renewed for as long as it carries data. `RefusalIsFelt` therefore speaks of accounts over their quota | `EdgeGate` |

Further windows the premises of the properties name:

* An admission check has no timeout. While its request hangs, the session goes on with an
  admission that is no longer renewed; `CheckLimit` bounds this.
* After an administrator cleared the leases, remembered grants and live sessions use up their
  time while other addresses are let in.
* A lowered limit applies to addresses that have no lease: those that have one go on renewing it
  (`cp/usage.ts:157`). `LiveWithinLimit` and `ChurnWithinLimit` speak of the limits there have been.
* A request that was in flight with a device's former token may still bind the replaced device;
  a creation that races at the limit answers 201 although no row was inserted; the credential
  a subscription serves is the one read before its binding; the replayed row may go beyond the
  device limit.
* Two overlapping PATCHes of one landing may enable it again, or bring back an older connection
  or wider list of hosts, under the lock (`cp/landings.ts:244`); a PATCH that disables a landing
  may change its connection, which takes effect when the lock is opened and it is enabled.
* When two edits of a user overlap, the limits may become inconsistent (`overlapped`), and under
  the lock the later write may enable an account again that the other one disabled, or put back a
  larger limit than the other one stored (`cp/index.ts:854`); never more than the account could use
  under the lock, unless it was disabled in between (`AllowanceHolds`).
* With overlapping overviews, occurrence counts may be lost or fall, an older overview may
  resolve what a newer one opened, and `last_changed` may precede `first_seen`; a purge between
  an overview's read and its UPDATE leaves an alert without a row until the next overview.
* A node whose hostname was stored with upper-case letters (`cp/index.ts:1303-1305`) makes the
  whole publication fail (`cp/index.ts:1403`); one respelled after the publication is served by
  address while both pages report a fall-back. A node whose transport path may not be used, which
  only a row from before the path was reserved can have, is in no subscription
  (`cp/subscription.ts:29`), while both pages count it as reached by address; `PagesAgree` leaves
  both kinds out. `validatedAt` is the time of the publication, not of the measurement
  (`optimize-ip.sh:468`), so that an address may be served up to the time of a run (25 minutes)
  longer than a lifetime after both vantages validated it: this is what `ServedWasValidated` says.
  The subscription's hostname is the one of the row it read before the pool.
* A request that is refused, or fails, after its claim has used up its nonce.
* A login that began before the last isolate had the new key signs with the old one; if it does so
  after the rollout, its token (`stray`) ends when the old key is retired. During the rollout an
  isolate that has not been given the new key yet refuses its tokens, and the page, answered with
  401, clears its session. `RotationKeepsSessions` leaves out both.
* The usage in a renewal's answer and the confirmed bytes subtracted from it are of different
  moments (`prelude` 734-742). A report that was stored before the answer and confirmed after it was
  taken in makes the local quota too strict, by the bytes of the events still queued; one stored
  after the answer and confirmed before it was taken in makes it too lax, by the bytes confirmed
  meanwhile, and so do bytes a reset or a time without a quota forgot. `QuotaBaseNearOthers` says it
  is off by no more than that; the next renewal corrects what is too lax, nothing what is too strict.
* A registration that outlives its job and is activated later (`overtaken`), a second secret
  activated before a deployment, or two registrations of one secret that were both past the SELECT
  before either committed (`doubled` of `NodeEnrollment`; the job repeats a registration that timed
  out), may leave the running Worker without an accepted secret; `RotationKeepsWorker` excludes
  exactly these. So may an administrator who retires the previous secret before the Worker was
  deployed with the current one, which counts as taking it back.
* Revoking a credential that is revoked already or was never there is answered 404, but still
  disables the node and revokes its enrollments, and does not publish the policy
  (`cp/node-enrollment.ts:662-674`, `cp/index.ts:1169`).
* `WithdrawnStaysOut` leaves out secrets taken back while their own activation was past its
  SELECT, and the root secret, which no endpoint withdraws.
* A registration in flight whose secret the deletion of the node took back may create the node
  again under the lock; `LockedCreatesNoNode` admits this and nothing else.
* Two notices that overlap at a node can move its mark back, because it is read and put without
  a comparison; a request then does not see the highest mark (`Warned`).

**Fairness.** Two modules assume any. `UsageReporting`: weak fairness of `FlushSteps` for each
call, that is, a `fetch` returns or throws in the end; nothing is assumed about answers being
successes. `AlertIncidents`: time passes, one page (`Polled`) begins its overview again and again,
and infinitely often gets to each of its steps (strong fairness, since it may fail in between).
The page loads it every 30 seconds (`Dashboard.tsx:86-90`, P6.6:3); without an open page nothing
settles. The other overviews may stop, fail or write at any time.

**Other assumptions.** `Purge` in `UsageReporting` removes an event's row only when no copy of
the event can still be sent, which is what the code's comment at `cp/usage.ts:361` takes for
granted about two days. `Tick` in `PolicySync` lets a fetch take at most `FetchLimit` and a
request finish with its answer within a tick. `Tick` in `EdgeGate` lets an admission check take at
most `CheckLimit`; the properties need `2 * CheckLimit + CacheLife + Renew <= LeaseTtl`, which
leaves a check 67 of the code's 300 seconds. The workflow's concurrency group makes one measuring
run of `OptimizedIps`, and one probe run of `NodeHealth`, follow the other.

Two sequences no document decides are left without a property: a node disabled by the
revocation of its credential stays disabled when it registers again (`cp/db.ts:156`), and
migrating a revoked node lets the shared legacy secret authenticate it until it is retired
(`cp/node-enrollment.ts:657`). Nor has the health an administrator's probe of a landing writes
after the landing's address was changed (`cp/landings.ts:395`): in `AlertIncidents` the result of a
probe (`CheckLanding`) may come after any edit.

Bounds of the models that are not in the code: `MaxClock`, `MaxTime`, `MaxBytes`, `MaxOther`,
`MaxRuns`, `MaxChanges`, `MaxEdits`, `MaxIssued`, `MaxCopies`, `MaxLimit`, `MaxTraffic`, and the sizes
of the constant sets.

## 4. Proofs

`DevicesAndAdmission_proofs` proves of `Admission`, for every number of addresses and handlers, all durations with
`LeaseTtl <= Day <= HistoryKeep`, all sets of limits and all bounds of the clock:

| Theorem | Property |
|---|---|
| `TypeCorrect` | `TypeOK` |
| `InvariantCorrect` | `AdmissionInvariant` |
| `DeviceLimitHolds` | `LiveWithinLimit` |
| `LeasesRemembered` | `LeaseIsRemembered` |
| `IpLimitHolds` | `ChurnWithinLimit` |
| `RefusedLeasesRunOut` | `RefusalRunsOut` |
| `LeasesKept` | `LeasesNeverShrink` |

`LiveWithinLimit` is not inductive: a batch with an overtaken `now` counts only rows that are
live at *its* time and could leave others. `AdmissionInvariant` says more: *all* rows of both
tables stay within the limits (a batch first deletes what its `now` outdates, and then inserts
at most up to the limit among what is left), a lease expires at most `LeaseTtl` after
`lastSeen`, and every lease has a history row at least as recent. The last part is why a
renewal, which skips the churn check, is no way around the daily limit: the address it renews is
already among the recent ones. For `RefusalRunsOut` the ghost `goodUntil` covers every time up to the
clock for which the account's row is good, so whatever `now` a batch carries, it grants or renews
only up to a lease after `goodUntil`. The argument for churn needs `LeaseTtl <= Day <= HistoryKeep`,
which is the assumption `AdmissionAssumption`; the constants of the code satisfy it.
`IsFiniteSet(Ips)` is needed for cardinalities.

`LandingsAndPool_proofs` proves of `LandingKeys`, for any landings, connections, requests and size of a batch:

| Theorem | Property |
|---|---|
| `InvariantCorrect` | `LandingInvariant` |
| `TypeCorrect` | `TypeOK` |
| `CredentialsReadable` | `CredentialsStayReadable` |
| `SecretsKept` | `MigrationKeepsSecrets` |
| `LockHolds` | `LockedNeverExpands` |

Whether a credential opens depends on more than the table: a request keeps the bindings it
started with and may write what it read long ago. `LandingInvariant` ties all three to the
stage of the rotation: the stage determines the bindings; in the first two stages nothing, in
the table or read by a request, is sealed with the new key; once the deployment has ended no
request holds the old current key; and once a clean status was read all rows are current until
an update puts an older credential back (`raced`). For the lock it says that a row an update
checked, and nobody has changed since, still passes that check, that the row it will write is
then no more capable, and that all requests on their way enable only landings that were enabled
when the lock was deployed (`LockFits`). The proofs work on the same
invariant regrouped by request (`Sorted`), with one lemma for steps that move a request and one
for writes of the table. The one assumption, `LandingAssumption`, makes `None` distinct from rows,
keys and what the fields of a PATCH may hold.

`EdgeGate_proofs` proves, for any sessions, edge processes and addresses, every limit and all
durations that satisfy `EdgeGateAssumption`:

| Theorem | Property |
|---|---|
| `TypeCorrect` | `TypeOK` |
| `EdgesKeepLimit` | `LimitHoldsAtEdges` |
| `RememberedAreLeased` | `RememberedIsLeased` |
| `RefusalFelt` | `RefusalIsFelt` |
| `OverdueEnd` | `OverdueSessionsEnd` |
| `RefusalsTakeEffect` | `RefusalTakesEffect` |

The invariant `Inv` follows a grant from its batch to every place that relies on it. A grant
decided at `g` *stands* when its lease still lasts until `g + LeaseTtl`, or has had that time
already; no batch, overtaken or not, takes this away, because it deletes only what its own `now`
outdates. An answer under way, a remembered entry and a live session that rests on an answer all
rest on a standing grant, and are younger than a check and a remembered grant can be old. So at
the moment such a session is late for its renewal its lease is still there; and there are never
more rows, expired ones included, than the limit. `LimitHoldsAtEdges` alone is not inductive: it
does not say why the addresses it counts have leases.

`AdminRequests_proofs` proves, for any number of requests, copies and invocations, and all
windows, skews, lives and retentions that satisfy `AdminRequestsAssumption`:

| Theorem | Property |
|---|---|
| `TypeCorrect` | `TypeOK` |
| `SessionsSurviveRotation` | `RotationKeepsSessions` |
| `NoncesOutliveSignatures` | `NonceOutlivesSignature` |
| `SignaturesGoodOnce` | `SignedOnce` |
| `LogIsExact` | `AuditIsExact` |

`TypeOK` says what the variables look like without the bounds of the model. For sessions
(`SessionsFit`) a token of the old key that is no `stray` ends within its life from the moment the
last isolate had the new key, and the old key is retired only after that (`BindingsFit` says which
bindings can be live at each stage). For nonces (`NoncesFit`) a row carries the
end of its own signature's window, so that it is gone only after the signature is; a claim that
was counted has its row or is past the window. For `SignedOnce` (`OnceHolds`) a claim is being
spent by one invocation or has been spent on one change, never both. For the log (`LogFits`)
the changes of a request are numbered, so that no two entries to be written tell of the same
one, and every change is told of by an entry, an invocation on its way to it, or a reason why not
(`LogHolds`, `Accounted`); that an expired JWT is the reason only for changes a JWT allowed rests on
`Admitted`, what an invocation at each place has been let in by, and `ExpiryFits`. `None` must differ from every time, which is part of the assumption.

`NodeEnrollment_proofs` proves, for any enrollments and any number of requests in flight:

| Theorem | Property |
|---|---|
| `TokensRedeemedOnce` | `TokensSound` |
| `WithdrawnSecretsStayOut` | `WithdrawnStaysOut` |
| `WorkerKeepsAccess` | `RotationKeepsWorker` |
| `LockHolds` | `LockedCreatesNoNode` |

None of the four is inductive, because a registration works for five awaits from what it read in
the first. `Inv` says of every request what still holds of its reading (`CallFits`): it names an
enrollment whose status only moves forward, an activation past its SELECT will not install a
withdrawn secret unless it was overtaken there (ghost `raced`), and no two requests create the
same enrollment (`Distinct`). `WithdrawnFit` says that a secret taken back never becomes pending
or issued again; `WorkerFits` says which secret the Worker holds at each stage of its job, by the
number of secrets activated since it was deployed: the current one before the next, the previous one
or the legacy fallback after it. That a repeated registration does not activate its secret again
is `Apart`: unless two of one secret were past the SELECT together, none on its way to the batch is
of a secret that is current already, since the batch that made it so ended the status the SELECT asks
for. `LockedCreatesNoNode` needs the part of `CallFits` that ties a
locked, absent node to the withdrawal of the secrets still being registered. `EnrollmentAssumption`
makes `Root` and `None` distinct from enrollments and those finitely many.

`AccountsAndUsage_proofs` proves of `UsageReporting`, for any flush calls, any sizes and any `BatchLimit`:

| Theorem | Property |
|---|---|
| `UsageImplementsLedger` | `CreditsOnce` |
| `EventsKeptUntilConfirmed` | `EventsLeaveWhenConfirmed` |
| `BytesAccountedFor` | `BytesAccounted` |
| `QuotaFollowsOthers` | `QuotaBaseNearOthers` |

For the refinement every step of `UsageReporting` is shown to be a step of `UsageLedger` or to
leave it alone. The queue, every request under way and every late copy consist of events that are
`Safe`: issued and, if credited, still with a row in `usage_events`. This is what a reset (which
deletes the rows and the credits together) and a purge (which spares rows of events that may still
be sent) must not break, and what makes the events `recordUsage` finds without a row new to the
ledger. For the queue the invariant says that until calls were doubled the one call that posts
holds the promise and the head of the queue.

The bytes need more. `BytesInv` adds who awaits whose promise (`WaitersFit`: a call that waits
waits for one promise, whose call still posts), since a call resumed by another's promise is what
doubles; and the sums (`BytesFit`): the session's bytes are those pending and those of the events
issued, the usage is what others used and the events credited, and what is counted as confirmed
is what was issued and is no longer queued. `Bytes` and `BytesOf` are folds of the community
modules, over a set and over a sequence. The prover cannot use induction theorems that take an
operator, so the module derives what it needs of folds from well-founded sets instead: among the
subsets of a finite set for which a statement failed there would be a smallest one (`Smallest`).
So the function that a fold computes exists and is unique (`SumExists`, `SumUnique`), its choice
of elements does not matter (`SumAdd`), and sums of disjoint sets add up (`SumUnion`); for
sequences, what is cut off and what remains add up to the whole (`BytesOfSplit`).

For the quota `CountsInv` adds that an event which left the queue is `Counted`: credited, or forgotten
by a reset or for want of a quota (`QueueCounted`). So when a renewal is answered the usage in it
covers the bytes confirmed by then, and an answer on its way keeps saying so (`RenewalFits`),
whatever is confirmed, issued or reset before it is taken in.

`AccountsAndUsage_proofs` proves of `Accounts`, for any users, claims, requests and limits that
satisfy `AccountsAssumption`:

| Theorem | Property |
|---|---|
| `AccountsStaySound` | `AccountsSound` |
| `LimitsStayConsistent` | `LimitsConsistent` |
| `EditsAreBounded` | `EditsStayInBounds` |

What PATCH compares it compares with limits it read earlier, and the batch runs on whatever is
stored then. `AccountsInv` says of an edit in flight that its decision still holds of the stored
row unless another edit came between (`EditFits`; the second one is what `overlapped` records), that
the edit of a locked account asks for no more than it could use under the lock (`LockInv`),
and of a claim in flight that the account it creates has an id of its own and the one it answers
with is the claim's, or deleted (`ClaimFits`). With `UsersFit` and `RowsFit` (no row without its
user, no claim's name twice) each property follows. The assumption says that the default limits
(2 and 5) are consistent, and what `None` differs from.

`DevicesAndAdmission_proofs` proves of `Devices`, for any devices, hardware, tokens and requests:

| Theorem | Property |
|---|---|
| `DevicesStaySound` | `DevicesSound` |
| `OneHardwareIsLetIn` | `VerifiedIsBound` |
| `AnswersHold` | `AnswersHoldNow` |
| `CreationsTakeEffect` | `CreatedUnlessOvertaken` |

`DevicesInv` says of a request in flight what it may still rely on (`RequestsFit`): a creation
that nothing overtook still finds room, a subscription that nothing overtook still finds its
device as it read it, and one that passed the hardware check still finds its own hardware in the
row. The table (`TableFits`) has one row per token, all drawn; an id without a row has let no
hardware in (`GhostsFit`), which is what an insertion of a used id would break.

`PolicySync_proofs` proves, for any finite set of changes, any number of requests, and all
lifetimes with `0 < Ttl <= KvLife`:

| Theorem | Property |
|---|---|
| `TypeCorrect` | `TypeOK` |
| `InvalidatedNotServed` | `InvalidatedStaysOut` |
| `StalenessBounded` | `StalenessIsBounded` |

The counters are tied to the handlers of changes: the revision is the number of those that
committed, the version the number of those that advanced, so that the version never runs ahead.
Every policy, in the cache, in a fetch or served, contains the changes of the version its reader
saw (`Reads`), and what it misses was committed after its fetch began (`MissesSince`); a cache
entry ends in time for that (`CacheFits`).

`HealthAndIncidents_proofs` proves of `NodeHealth`, for any nodes, handlers, number of runs and positive thresholds:

| Theorem | Property |
|---|---|
| `ThresholdsAlwaysHold` | `ThresholdsHold` |
| `BansAreEarned` | `BanNeedsFailures` |
| `LockKeepsBans` | `LockedBanHolds` |

Each counter is the length of the last streak of like outcomes that took effect (`DownStreak`,
`UpStreak`), and after a good probe the failures before it are still those of the ban as long as
the good ones are too few (`RemovedByFailure`, `RemovedAfterSuccess`): this is why `Removed` is an
invariant reading of `health`. A handler about to write a run that has no row yet holds the rows as they are
(`Current`) and, under the lock, passed the gate on them (`Gated`): the primary key of
`node_health_runs` is what keeps overlapping reports from counting twice.

`HealthAndIncidents_proofs` proves of `AlertIncidents`, for any nodes, landings, users, alerts of
the pool and overviews:

| Theorem | Property |
|---|---|
| `IncidentsStaySound` | `RowsSound` |
| `OverviewsTakeEffect` | `MissesOnlyWhenOvertaken` |

`AlertsInv` says of an overview in flight that everything it is about to write was seen at its own
time: of each key its alert, severity and title together, or that there was none (`AlertsFit`), and
that the rows it holds were open or belong to its alerts (`ReadFits`). The reconciliation is shown
key by key, once for each branch of the code. `AlertsAssumption` makes the four kinds of keys
disjoint, since the code's key is kind and id.

`LandingsAndPool_proofs` proves of `OptimizedIps`, for any nodes, hostnames, addresses and times:

| Theorem | Property |
|---|---|
| `ServesOnlyValid` | `ServesExactlyWhatIsValid` |
| `PagesKeepAgreeing` | `PagesAgree` |

`PoolInv` carries the evidence of each address from its measurement (`FoundFits`: validated since
the run began, for the hostname the run read) through the POST to both values KV may answer with:
validated for the entry's hostname, no longer than a run and a lifetime before it expires
(`EntryFits`); what is stored has its hostnames in lower case
(`StoredFits`), without which the overview, which compares them as registered, would differ from
the subscriptions, which do not. `NoPoolAssumption` says that the two values of KV that are no
pool are no function of nodes to entries. Alerts are told apart by title and id: a node may be
called like an alert of the pool, since no check of a node's name prevents it, and by their ids
alone the pages would then disagree.

Every safety property of a run is thus stated by a theorem. Only model-checked are the two
liveness properties, `WaitersResume` and `IncidentsSettle`, since the prover does not cover
fairness; and that the assumptions on the constants can be met together, which TLC evaluates on
each instance.

## 5. What is left

Not modelled, and why:

* The transport gateway, the patched core and landing egress move bytes; the core is vendored and
  patched by text.
* Backups, deployment gates and drills are sequential jobs against third parties. The steps of a
  deployment that others can see (bindings, the replayed schema, the migration) are part of
  `LandingKeys`, `AdminRequests` and `Devices`.
* Rendering subscriptions, assigning nodes, classifying routes, CORS and login limits are pure
  functions or single writes: a unit test reaches them.
* Forms, tables and charts of the administration site keep no state others rely on.
* The SOCKS5 exchange of a landing's probe (`cp/landings.ts:343-383`); its outcome is open.

Worth doing next: a clock for the two days an event row is kept (`cp/usage.ts:361`);
`Admission` and `EdgeGate` under one clock with the local quota.

## 6. Running

    tlc -config Admission.cfg MC_Admission
    tlapm DevicesAndAdmission_proofs.tla
    tlapm AccountsAndUsage_proofs.tla
    tlapm NodeEnrollment_proofs.tla
    tlapm PolicySync_proofs.tla
    tlapm HealthAndIncidents_proofs.tla
    tlapm LandingsAndPool_proofs.tla
    tlapm AdminRequests_proofs.tla
    tlapm EdgeGate_proofs.tla

Every `.cfg` is named after its run; `PROJECT.json` says which module it belongs to.
