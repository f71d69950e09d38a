---------------------------- MODULE LandingKeys ----------------------------
(***************************************************************************)
(* The landing servers' stored credentials and the rotation of the key     *)
(* that seals them (control plane: landings.ts, landing-key-rotation.ts,   *)
(* secret-box.ts, the handlers of index.ts, and deploy-control.sh, which   *)
(* changes the Worker's key bindings).                                     *)
(*                                                                         *)
(* A credential is the connection it describes, host and password alike,   *)
(* and the key that seals it.  A handler keeps the bindings it started     *)
(* with, every query is a step, and a PATCH writes back the whole row it   *)
(* read.  One rotation from the old to the new key is modelled; the        *)
(* operator retires the old key after a status report without credentials  *)
(* under it, as P6.9-DISASTER-RECOVERY-AND-KEY-ROTATION.md:98-107 orders.  *)
(***************************************************************************)
EXTENDS Naturals, FiniteSets

CONSTANTS
  Landings,    \* rows the landings table may have
  Secrets,     \* what an administrator may enter as a connection
  Domains,     \* hosts a landing may be made responsible for
  Inputs,      \* the PATCH bodies that are sent
  Handlers,    \* requests in progress
  None,        \* no row, no key
  BatchLimit   \* statements per migration batch, 50 in the code

VARIABLES
  rows,      \* the landings table
  bindings,  \* LANDING_CONFIG_KEY and LANDING_CONFIG_KEY_PREVIOUS
  stage,     \* how far the operator's rotation is
  provisioningAllowed, \* the compliance lock is open, fixed by deployment
  enabledAtStart, \* ghost: landings enabled when the lock was deployed
  handler,   \* the request each handler serves
  raced      \* ghost: an update put a credential back under the old key that
             \* had changed to the new one after the update's checks

vars == <<rows, bindings, stage, provisioningAllowed, enabledAtStart, handler, raced>>

-----------------------------------------------------------------------------
Credential == [secret : Secrets, key : {"old", "new"}]
\* No host in match_hosts makes the landing responsible for every host.
Row == [credential : Credential, enabled : BOOLEAN, scope : SUBSET Domains]
ASSUME LandingAssumption ==
  /\ None \notin Landings \union Secrets \union Row \union {"old", "new"}
  /\ \A given \in BOOLEAN \union SUBSET Domains : given # None
  /\ BatchLimit \in Nat \ {0}
\* A PATCH body: any of the fields, None for one that is not given.
Input == [secret  : {None} \union Secrets,
          enabled : {None} \union BOOLEAN,
          scope   : {None} \union SUBSET Domains]
ASSUME InputAssumption == Inputs \subseteq Input

Bindings == [current : {"old", "new"}, previous : {"old", None}]

Change == [id : Landings, from : Credential, to : Credential]

Idle == [pc |-> "idle"]
Request ==
  [pc : {"create"}, id : Landings, secret : Secrets, env : Bindings] \union
  [pc : {"checked"}, id : Landings, input : Inputs, env : Bindings, fresh : BOOLEAN] \union
  [pc : {"read"}, id : Landings, env : Bindings, fresh : BOOLEAN, row : Row] \union
  [pc : {"migrate"}, env : Bindings, todo : SUBSET Change]

Present == {l \in Landings : rows[l] # None}

\* openJsonWithRotation.
Opens(env, credential) == credential.key \in {env.current, env.previous}
Sealed(env, secret) == [secret |-> secret, key |-> env.current]

Init ==
  /\ rows \in [Landings -> {row \in Row : row.credential.key = "old"} \union {None}]
  /\ bindings = [current |-> "old", previous |-> None]
  /\ stage = "before"
  /\ provisioningAllowed \in BOOLEAN
  /\ enabledAtStart = {l \in Present : rows[l].enabled /\ ~provisioningAllowed}
  /\ handler = [h \in Handlers |-> Idle]
  /\ raced = FALSE

\* Writes the table; what other updates of the same row have checked or read
\* is then out of date.
Store(h, after, next) ==
  /\ rows' = after
  /\ handler' = [g \in Handlers |->
       IF g = h THEN next
       ELSE IF /\ handler[g].pc \in {"checked", "read"}
               /\ after[handler[g].id] # rows[handler[g].id]
       THEN [handler[g] EXCEPT !.fresh = FALSE]
       ELSE handler[g]]

-----------------------------------------------------------------------------
(* Administration.                                                         *)

\* POST /api/landings, with a random id nothing else refers to.
CreateStarts(h, l, secret) ==
  /\ handler[h] = Idle /\ provisioningAllowed
  /\ rows[l] = None
  /\ \A g \in Handlers : handler[g].pc \in {"create", "checked", "read"} =>
       handler[g].id # l
  /\ handler' = [handler EXCEPT ![h] =
       [pc |-> "create", id |-> l, secret |-> secret, env |-> bindings]]
  /\ UNCHANGED <<rows, bindings, stage, raced>>

CreateInserts(h) ==
  /\ handler[h].pc = "create"
  /\ \E enabled \in BOOLEAN, scope \in SUBSET Domains :
       Store(h, [rows EXCEPT ![handler[h].id] =
                   [credential |-> Sealed(handler[h].env, handler[h].secret),
                    enabled |-> enabled, scope |-> scope]], Idle)
  /\ UNCHANGED <<bindings, stage, raced>>

\* domainScopeIncreases, where no host means all.
Widens(current, requested) ==
  current # {} /\ (requested = {} \/ ~(requested \subseteq current))

\* While provisioning is locked a landing may not get more capable; a PATCH
\* that disables it may change anything else with it.
ExpandsOnEnabling(row, input) == ~row.enabled /\ input.enabled = TRUE  \* mutant
Expands(row, input) ==
  /\ input.enabled # FALSE
  /\ \/ ~row.enabled /\ input.enabled = TRUE
     \/ /\ row.enabled
        /\ \/ input.secret # None
           \/ input.scope # None /\ Widens(row.scope, input.scope)

\* PATCH /api/landings/:id lists all landings, which fails when a credential
\* does not open, and decides; updateLanding reads the row again and writes
\* all of it back with the given fields changed.
PatchChecks(h, l, input) ==
  /\ handler[h] = Idle
  /\ l \in Present
  /\ \A k \in Present : Opens(bindings, rows[k].credential)
  /\ provisioningAllowed \/ ~Expands(rows[l], input)
  /\ handler' = [handler EXCEPT ![h] =
       [pc |-> "checked", id |-> l, input |-> input, env |-> bindings, fresh |-> TRUE]]
  /\ UNCHANGED <<rows, bindings, stage, raced>>

Updated(row, input, env) ==
  [credential |-> IF input.secret = None THEN row.credential
                  ELSE Sealed(env, input.secret),
   enabled |-> IF input.enabled = None THEN row.enabled ELSE input.enabled,
   scope   |-> IF input.scope = None THEN row.scope ELSE input.scope]

PatchReads(h) ==
  /\ handler[h].pc = "checked"
  /\ LET q == handler[h] IN
     handler' = [handler EXCEPT ![h] =
       IF rows[q.id] = None THEN Idle
       ELSE [pc |-> "read", id |-> q.id, env |-> q.env, fresh |-> q.fresh,
             row |-> Updated(rows[q.id], q.input, q.env)]]
  /\ UNCHANGED <<rows, bindings, stage, raced>>

PatchWrites(h) ==
  /\ handler[h].pc = "read"
  /\ LET l == handler[h].id
         row == handler[h].row
     IN IF l \in Present
        THEN /\ Store(h, [rows EXCEPT ![l] = row], Idle)
             /\ raced' = \/ raced
                         \/ /\ ~handler[h].fresh
                            /\ rows[l].credential.key = "new"
                            /\ row.credential.key = "old"
        ELSE Store(h, rows, Idle) /\ UNCHANGED raced
  /\ UNCHANGED <<bindings, stage>>

\* DELETE /api/landings/:id.
Delete(h, l) ==
  /\ handler[h] = Idle
  /\ l \in Present
  /\ Store(h, [rows EXCEPT ![l] = None], Idle)
  /\ UNCHANGED <<bindings, stage, raced>>

-----------------------------------------------------------------------------
(* The rotation.                                                           *)

PutCurrentFirst ==  \* mutant of PutPrevious: the secrets in the other order
  /\ stage = "before"
  /\ bindings' = [bindings EXCEPT !.current = "new"]
  /\ stage' = "fallback"
  /\ UNCHANGED <<rows, handler, raced>>

\* deploy-control.sh installs the fallback binding first.
PutPrevious ==
  /\ stage = "before"
  /\ bindings' = [bindings EXCEPT !.previous = "old"]
  /\ stage' = "fallback"
  /\ UNCHANGED <<rows, handler, raced>>

PutCurrent ==
  /\ stage = "fallback"
  /\ bindings' = [bindings EXCEPT !.current = "new"]
  /\ stage' = "rotated"
  /\ UNCHANGED <<rows, handler, raced>>

\* The job ends minutes later, after it has seen the new version answer and
\* tested it: requests that started with the old bindings have ended by then.
DeploymentEnds ==
  /\ stage = "rotated"
  /\ \A h \in Handlers : handler[h] # Idle => handler[h].env.current = "new"
  /\ stage' = "deployed"
  /\ UNCHANGED <<rows, bindings, handler, raced>>

\* migrateLandingCredentialsToCurrentKey: inspect every row, refuse if one
\* does not open, seal those under the previous key again, and update each
\* only if it still holds the text that was read.
Outdated(env) == {l \in Present : rows[l].credential.key # env.current}
Migrations(env) ==
  {[id |-> l, from |-> rows[l].credential,
    to |-> Sealed(env, rows[l].credential.secret)] : l \in Outdated(env)}

MigrateInspects(h) ==
  /\ handler[h] = Idle
  /\ bindings.previous \notin {None, bindings.current}
  /\ \A l \in Present : Opens(bindings, rows[l].credential)
  /\ handler' = [handler EXCEPT ![h] =
       [pc |-> "migrate", env |-> bindings, todo |-> Migrations(bindings)]]
  /\ UNCHANGED <<rows, bindings, stage, raced>>

AppliesBlindly(change) == rows[change.id] # None  \* mutant: no compare
Applies(change) ==
  /\ rows[change.id] # None
  /\ rows[change.id].credential = change.from

MigrateBatch(h) ==
  /\ handler[h].pc = "migrate"
  /\ \E batch \in SUBSET handler[h].todo :
       /\ batch # {} /\ Cardinality(batch) <= BatchLimit
       /\ Store(h,
            [l \in Landings |->
               LET applied == {change \in batch : change.id = l /\ Applies(change)}
               IN IF applied = {} THEN rows[l]
                  ELSE [rows[l] EXCEPT !.credential =
                          (CHOOSE change \in applied : TRUE).to]],
            [handler[h] EXCEPT !.todo = @ \ batch])
  /\ UNCHANGED <<bindings, stage, raced>>

\* landingCredentialRotationStatus with previous = 0 and unreadable = 0.
AllCurrent(env) == \A l \in Present : rows[l].credential.key = env.current

Confirmed(env) ==
  stage' = IF stage = "deployed" /\ AllCurrent(env)
           THEN "confirmed" ELSE stage

\* The migration's answer carries the status, read after the last batch.
MigrateAnswers(h) ==
  /\ handler[h].pc = "migrate" /\ handler[h].todo = {}
  /\ Confirmed(handler[h].env)
  /\ handler' = [handler EXCEPT ![h] = Idle]
  /\ UNCHANGED <<rows, bindings, raced>>

\* GET /api/operations/key-rotation.
KeyRotationStatus ==
  /\ Confirmed(bindings)
  /\ UNCHANGED <<rows, bindings, handler, raced>>

\* The Worker is stopped between two queries of a request.
Crash(h) ==
  /\ handler[h] # Idle
  /\ handler' = [handler EXCEPT ![h] = Idle]
  /\ UNCHANGED <<rows, bindings, stage, raced>>

\* A later run of the deployment deletes the previous binding.
Retire ==
  /\ stage = "confirmed"
  /\ bindings' = [bindings EXCEPT !.previous = None]
  /\ stage' = "retired"
  /\ UNCHANGED <<rows, handler, raced>>

Administration(h) ==
  \/ \E l \in Landings : \/ \E secret \in Secrets : CreateStarts(h, l, secret)
                         \/ \E input \in Inputs : PatchChecks(h, l, input)
                         \/ Delete(h, l)
  \/ CreateInserts(h) \/ PatchReads(h) \/ PatchWrites(h)

Migration(h) == MigrateInspects(h) \/ MigrateBatch(h) \/ MigrateAnswers(h)

Step ==
  \/ \E h \in Handlers : Administration(h) \/ Migration(h) \/ Crash(h)
  \/ PutPrevious \/ PutCurrent \/ DeploymentEnds \/ KeyRotationStatus \/ Retire

Next == Step /\ UNCHANGED <<provisioningAllowed, enabledAtStart>>

Spec == Init /\ [][Next]_vars

-----------------------------------------------------------------------------
(* Properties.                                                             *)

TypeOK ==
  /\ rows \in [Landings -> Row \union {None}]
  /\ bindings \in Bindings
  /\ stage \in {"before", "fallback", "rotated", "deployed", "confirmed", "retired"}
  /\ {provisioningAllowed, raced} \subseteq BOOLEAN
  /\ enabledAtStart \subseteq Landings
  /\ handler \in [Handlers -> Request \union {Idle}]
  /\ \A h \in Handlers : handler[h].pc = "migrate" =>
       /\ handler[h].env.current = "new"
       /\ \A change \in handler[h].todo :
            /\ change.from.secret = change.to.secret
            /\ change.from.key = "old" /\ change.to.key = "new"

\* Every stored credential opens with the bindings a new request gets: at any
\* point of the deployment (deploy-control.sh:453), during a migration that
\* may be cut short between batches, and after the retirement of the old key,
\* unless an update has written back a row that changed under it.
CredentialsStayReadable ==
  \A l \in Present : Opens(bindings, rows[l].credential) \/ (stage = "retired" /\ raced)

\* Re-encryption changes no connection: a password entered while a migration
\* is on its way is never replaced by the older one it read.
MigrationKeepsSecrets ==
  [][\A h \in Handlers : MigrateBatch(h) =>
       \A l \in Present : /\ rows'[l] # None
                          /\ rows'[l].credential.secret = rows[l].credential.secret
                          /\ rows'[l].enabled = rows[l].enabled
                          /\ rows'[l].scope = rows[l].scope]_vars

\* While provisioning is locked (P6.8) no landing is added, and one that ends
\* a step enabled was enabled before it, with the same connection and no
\* wider scope.  The only steps exempted are the writes of a PATCH whose
\* row changed after its checks, for the row they write, and even those enable
\* only a landing that was enabled when the lock was deployed.
Contained(before, after) ==
  after.enabled => /\ before.enabled
                   /\ after.credential.secret = before.credential.secret
                   /\ ~Widens(before.scope, after.scope)

StaleWrite(h, l) == PatchWrites(h) /\ handler[h].id = l /\ ~handler[h].fresh

LockedNeverExpands ==
  [][~provisioningAllowed =>
       \A l \in Landings : rows'[l] # None =>
         /\ rows[l] # None
         /\ rows'[l].enabled => l \in enabledAtStart
         /\ \/ Contained(rows[l], rows'[l])
            \/ \E h \in Handlers : StaleWrite(h, l)]_vars

\* The inductive invariant behind them.  The stage determines the bindings;
\* nothing is sealed with the new key before it is installed, and nothing with
\* the old one any more when the deployment has ended; what a fresh request
\* has read is what the table holds; so once confirmed, every row is current
\* until an edit writes a stale one.
BindingsAt ==
  [before    |-> [current |-> "old", previous |-> None],
   fallback  |-> [current |-> "old", previous |-> "old"],
   rotated   |-> [current |-> "new", previous |-> "old"],
   deployed  |-> [current |-> "new", previous |-> "old"],
   confirmed |-> [current |-> "new", previous |-> "old"],
   retired   |-> [current |-> "new", previous |-> None]]

StageFits ==
  /\ bindings = BindingsAt[stage]
  /\ stage \in {"before", "fallback"} =>
       /\ \A l \in Present : rows[l].credential.key = "old"
       /\ \A h \in Handlers :
            /\ handler[h] # Idle => handler[h].env.current = "old"
            /\ handler[h].pc = "read" => handler[h].row.credential.key = "old"
  /\ stage \in {"deployed", "confirmed", "retired"} =>
       \A h \in Handlers : handler[h] # Idle => handler[h].env.current = "new"
  /\ stage \in {"confirmed", "retired"} /\ ~raced => AllCurrent(bindings)

\* Under the lock, what is enabled, or is on its way to be, was so before it.
LockFits ==
  ~provisioningAllowed =>
    /\ \A l \in Present : rows[l].enabled => l \in enabledAtStart
    /\ \A h \in Handlers :
         /\ handler[h].pc = "read" /\ handler[h].row.enabled =>
              handler[h].id \in enabledAtStart
         /\ handler[h].pc = "checked" /\ handler[h].input.enabled = TRUE =>
              handler[h].id \in enabledAtStart

FreshFits ==
  \A h \in Handlers :
    /\ handler[h].pc = "checked" /\ handler[h].fresh /\ ~provisioningAllowed =>
         /\ rows[handler[h].id] # None
         /\ ~Expands(rows[handler[h].id], handler[h].input)
    /\ handler[h].pc = "read" /\ handler[h].fresh =>
         /\ rows[handler[h].id] # None
         /\ handler[h].row.credential.key
              \in {rows[handler[h].id].credential.key, handler[h].env.current}
         /\ ~provisioningAllowed => Contained(rows[handler[h].id], handler[h].row)
    /\ ~provisioningAllowed => handler[h].pc # "create"

LandingInvariant == TypeOK /\ StageFits /\ LockFits /\ FreshFits
=============================================================================
