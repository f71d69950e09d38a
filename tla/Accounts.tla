------------------------------ MODULE Accounts ------------------------------
(***************************************************************************)
(* User accounts: their creation by an administrator or by a benefit       *)
(* claim, the edits of their limits, and their deletion (handlers of       *)
(* /api/users and of the claim endpoint in                                 *)
(* packages/control-plane/src/index.ts, db.ts, webmaster-benefit.ts).      *)
(*                                                                         *)
(* PATCH decides on limits it read before and writes later; a claim looks  *)
(* an account up, tries to insert one and looks again when it lost.  Both  *)
(* handlers are split at their awaits.                                     *)
(***************************************************************************)
EXTENDS Naturals, FiniteSets, Functions

CONSTANTS UserIds,     \* random ids of accounts
          Claims,      \* external claim ids of the benefit campaign
          Handlers,    \* requests that may be in flight
          None,
          MaxLimit,    \* the largest limit an edit asks for
          MaxTraffic,  \* the largest traffic quota; 0 means unlimited
          DefaultDevice, DefaultIp, \* limits without a row: 2 and 5
          BenefitIp,   \* both address limits of a benefit account: 2
          MaxEdits     \* bound on the edits of accounts

ASSUME AccountsAssumption ==
    /\ {MaxLimit, DefaultDevice, DefaultIp, BenefitIp} \subseteq Nat \ {0}
    /\ DefaultDevice <= DefaultIp
    /\ MaxTraffic \in Nat \ {0} /\ MaxEdits \in Nat
    /\ None \notin UserIds \cup Claims \cup BOOLEAN

VARIABLES users,     \* table users: a function of the ids with a row
          limits,    \* table user_limits, likewise
          claims,    \* integration_claims: the account of each claim with a row
          handler,   \* the request each handler holds
          provisioningAllowed, \* COMPLIANCE_PROXY_ALLOWED = "1", fixed by deployment
          edits,     \* edits made
          deleted,   \* ghost: ids of deleted accounts
          answered,  \* ghost: the accounts each claim was answered with
          overlapped,\* ghost: accounts edited on limits that had changed since
          allowance  \* ghost, under the lock: what each account that the lock
                     \* found, or a claim made, enabled could use then; None
                     \* once it has been disabled

tables == <<users, limits, claims>>
ghosts == <<deleted, answered, overlapped, allowance>>
accountsVars == <<tables, handler, provisioningAllowed, edits, ghosts>>

Limits == [device : Nat \ {0}, ip : Nat \ {0}, traffic : Nat]
\* The name tells the claim of a benefit account; other names do not matter.
User == [name : Claims \cup {None}, enabled : BOOLEAN, unlock : BOOLEAN]

NoRequest == [at |-> "idle"]

\* What applies to a user: the row, or the defaults where there is none.
DefaultLimits == [device |-> DefaultDevice, ip |-> DefaultIp, traffic |-> 0]
LimitsIn(table, u) == IF u \in DOMAIN table THEN table[u] ELSE DefaultLimits
LimitsOf(u) == LimitsIn(limits, u)

\* What an account with this row may use, and no more than which.
Allowances == [device : Nat \ {0}, ip : Nat \ {0}, traffic : Nat, unlock : BOOLEAN]
Allowance(user, table, u) ==
    [device |-> LimitsIn(table, u).device, ip |-> LimitsIn(table, u).ip,
     traffic |-> LimitsIn(table, u).traffic, unlock |-> user.unlock]
NoMoreThan(now, before) ==
    /\ now.device <= before.device /\ now.ip <= before.ip
    /\ before.traffic # 0 => now.traffic # 0 /\ now.traffic <= before.traffic
    /\ now.unlock => before.unlock

With(table, k, row) == [x \in DOMAIN table \cup {k} |-> IF x = k THEN row ELSE table[x]]
Without(table, k) == Restrict(table, DOMAIN table \ {k})

\* The lock may be deployed over accounts; one from before user_limits has no
\* row there.
AccountsInit ==
    /\ \E old \in SUBSET UserIds, enabled \in BOOLEAN :
         /\ Cardinality(old) <= 1
         /\ users = [u \in old |-> [name |-> None, enabled |-> enabled, unlock |-> FALSE]]
    /\ limits = Restrict(users, {}) /\ claims = Restrict(users, {})
    /\ handler = [h \in Handlers |-> NoRequest]
    /\ provisioningAllowed \in BOOLEAN
    /\ edits = 0
    /\ deleted = {} /\ answered = [c \in Claims |-> {}] /\ overlapped = {}
    /\ allowance = [u \in {u \in DOMAIN users : users[u].enabled /\ ~provisioningAllowed} |->
                      Allowance(users[u], limits, u)]

\* Random ids do not come twice.
Fresh(u) ==
    /\ u \notin DOMAIN users \cup deleted
    /\ \A h \in Handlers : handler[h].at = "create" => handler[h].user # u

----------------------------------------------------------------------------
\* POST /api/users: the batch inserts the user, its device and its limits.
CreateUser(u, unlock, device, ip, traffic) ==
    /\ provisioningAllowed
    /\ Fresh(u)
    /\ device <= ip
    /\ users' = With(users, u, [name |-> None, enabled |-> TRUE, unlock |-> unlock])
    /\ limits' = With(limits, u, [device |-> device, ip |-> ip, traffic |-> traffic])
    /\ UNCHANGED <<claims, handler, provisioningAllowed, edits, ghosts>>

\* DELETE /api/users/:id: every table cascades.
DeleteUser(u) ==
    /\ u \in DOMAIN users
    /\ users' = Without(users, u)
    /\ limits' = Without(limits, u)
    /\ claims' = Restrict(claims, {c \in DOMAIN claims : claims[c] # u})
    /\ deleted' = deleted \cup {u}
    /\ overlapped' = overlapped \ {u} /\ allowance' = Without(allowance, u)
    /\ UNCHANGED <<handler, provisioningAllowed, edits, answered>>

\* DELETE of the benefit device, once the account has another one: the claim
\* goes with the device, the account stays.
DeleteBenefitDevice(c) ==
    /\ c \in DOMAIN claims
    /\ claims' = Without(claims, c)
    /\ UNCHANGED <<users, limits, handler, provisioningAllowed, edits, ghosts>>

----------------------------------------------------------------------------
\* The fields of a PATCH that are given; the others are None.
Nothing == [enabled |-> None, unlock |-> None, device |-> None, ip |-> None,
            traffic |-> None]
AddressChanges ==
    {[Nothing EXCEPT !.device = d, !.ip = i] : d, i \in {None} \cup 1..MaxLimit}
Changes ==
    {[Nothing EXCEPT !.unlock = TRUE]}
    \cup {[Nothing EXCEPT !.enabled = b, !.device = MaxLimit] : b \in BOOLEAN}
    \cup {[Nothing EXCEPT !.enabled = b] : b \in BOOLEAN}
    \cup (AddressChanges \ {Nothing})
    \cup {[Nothing EXCEPT !.traffic = t] : t \in 0..MaxTraffic}

Given(field, current) == IF field = None THEN current ELSE field

\* Mutant of TrafficIncreases: zero counts as a small quota.
TrafficIncreasesPlainly(current, asked) == asked # None /\ asked > current
TrafficIncreases(current, asked) ==
    asked # None /\ current # 0 /\ (asked = 0 \/ asked > current)

\* Does the edit enable the account, or widen what an enabled one may use?
Expands(change, user, current) ==
    \/ ~user.enabled /\ change.enabled = TRUE
    \/ /\ user.enabled /\ change.enabled # FALSE
       /\ \/ Given(change.device, 0) > current.device
          \/ Given(change.ip, 0) > current.ip
          \/ TrafficIncreases(current.traffic, change.traffic)
          \/ ~user.unlock /\ change.unlock = TRUE

\* Mutant of Consistent: a limit that is not given is not looked up.
ConsistentAlone(change, current) ==
    change.device # None /\ change.ip # None => change.device <= change.ip
Consistent(change, current) ==
    Given(change.device, current.device) <= Given(change.ip, current.ip)

\* PATCH /api/users/:id up to the update: the limits are read and the edit is
\* refused or goes on.
CheckPatch(h, u, change) ==
    /\ handler[h] = NoRequest
    /\ u \in DOMAIN users
    /\ provisioningAllowed \/ ~Expands(change, users[u], LimitsOf(u))
    /\ Consistent(change, LimitsOf(u))
    /\ handler' = [handler EXCEPT ![h] =
            [at |-> "update", user |-> u, change |-> change, overtaken |-> FALSE]]
    /\ UNCHANGED <<tables, provisioningAllowed, edits, ghosts>>

\* INSERT ... ON CONFLICT DO UPDATE with COALESCE on every field.
Updated(u, change) ==
    [device |-> Given(change.device, LimitsOf(u).device),
     ip |-> Given(change.ip, LimitsOf(u).ip),
     traffic |-> Given(change.traffic, LimitsOf(u).traffic)]

\* The foreign key undoes the batch when the user is gone.
Writable(u) == u \in DOMAIN users

\* The batch of updateUserPolicy.
UpdateUserPolicy(h) ==
    /\ handler[h].at = "update" /\ edits < MaxEdits
    /\ LET u == handler[h].user
           change == handler[h].change
           setsLimits == \E f \in {"device", "ip", "traffic"} : change[f] # None IN
       /\ users' = IF u \notin DOMAIN users THEN users ELSE
                   [users EXCEPT ![u].enabled = Given(change.enabled, @),
                                 ![u].unlock = Given(change.unlock, @)]
       /\ limits' = IF setsLimits /\ Writable(u)
                    THEN With(limits, u, Updated(u, change)) ELSE limits
       /\ overlapped' = IF handler[h].overtaken /\ u \in DOMAIN users
                        THEN overlapped \cup {u} ELSE overlapped
       /\ allowance' = IF u \in DOMAIN allowance /\ change.enabled = FALSE
                       THEN With(allowance, u, None) ELSE allowance
       /\ handler' = [g \in Handlers |->
            IF g = h THEN NoRequest
            ELSE IF handler[g].at = "update" /\ handler[g].user = u
            THEN [handler[g] EXCEPT !.overtaken = TRUE] ELSE handler[g]]
    /\ edits' = edits + 1
    /\ UNCHANGED <<claims, provisioningAllowed, deleted, answered>>

----------------------------------------------------------------------------
\* A claim looks its account up: claim, user, device and limits joined.
GetProvisioning(h, c, candidate) ==
    /\ handler[h] = NoRequest
    /\ IF c \in DOMAIN claims
       THEN handler' = [handler EXCEPT ![h] =
                [at |-> "answer", claim |-> c, user |-> claims[c]]]
       ELSE /\ Fresh(candidate)
            /\ handler' = [handler EXCEPT ![h] =
                   [at |-> "create", claim |-> c, user |-> candidate]]
    /\ UNCHANGED <<tables, provisioningAllowed, edits, ghosts>>

\* Mutant of Taken: users.username is not unique.
TakenByClaim(c) == c \in DOMAIN claims
\* The username of a benefit account is made of the claim id and unique.
Taken(c) == c \in DOMAIN claims \/ \E u \in DOMAIN users : users[u].name = c

\* The batch inserts user, device, limits and claim, or nothing.  The claim
\* endpoint does not ask for provisioningAllowed.
CreateAtomic(h) ==
    /\ handler[h].at = "create"
    /\ LET u == handler[h].user
           c == handler[h].claim IN
       IF Taken(c)
       THEN /\ handler' = [handler EXCEPT ![h] =
                              [at |-> "conflict", claim |-> c, user |-> u]]
            /\ UNCHANGED <<tables, ghosts>>
       ELSE /\ users' = With(users, u, [name |-> c, enabled |-> TRUE, unlock |-> FALSE])
            /\ limits' = With(limits, u, [device |-> BenefitIp, ip |-> BenefitIp,
                                          traffic |-> MaxTraffic])
            /\ claims' = With(claims, c, u)
            /\ handler' = [handler EXCEPT ![h].at = "answer"]
            /\ allowance' = IF provisioningAllowed THEN allowance
                            ELSE With(allowance, u, Allowance(users'[u], limits', u))
            /\ UNCHANGED <<deleted, answered, overlapped>>
    /\ UNCHANGED <<provisioningAllowed, edits>>

\* After a conflict the claim is looked up twice, to tell a lost race from
\* another error and to answer with the winner's account; if either look-up
\* finds nothing the request fails.
ReadWinner(h) ==
    /\ handler[h].at \in {"conflict", "winner"}
    /\ handler' = [handler EXCEPT ![h] =
            IF handler[h].claim \notin DOMAIN claims THEN NoRequest
            ELSE IF handler[h].at = "conflict" THEN [handler[h] EXCEPT !.at = "winner"]
            ELSE [handler[h] EXCEPT !.at = "answer", !.user = claims[handler[h].claim]]]
    /\ UNCHANGED <<tables, provisioningAllowed, edits, ghosts>>

Answer(h) ==
    /\ handler[h].at = "answer"
    /\ answered' = [answered EXCEPT ![handler[h].claim] = @ \cup {handler[h].user}]
    /\ handler' = [handler EXCEPT ![h] = NoRequest]
    /\ UNCHANGED <<tables, provisioningAllowed, edits, deleted, overlapped, allowance>>

\* A request fails between two awaits; publishing the change may, too.
Fail(h) ==
    /\ handler[h] # NoRequest
    /\ handler' = [handler EXCEPT ![h] = NoRequest]
    /\ UNCHANGED <<tables, provisioningAllowed, edits, ghosts>>

AccountsNext ==
    \/ \E u \in UserIds, device, ip \in 1..MaxLimit, traffic \in 0..MaxTraffic :
          CreateUser(u, FALSE, device, ip, traffic)
    \/ \E u \in UserIds : DeleteUser(u)
    \/ \E c \in Claims : DeleteBenefitDevice(c)
    \/ \E h \in Handlers :
         \/ \E u \in UserIds, change \in Changes : CheckPatch(h, u, change)
         \/ UpdateUserPolicy(h)
         \/ \E c \in Claims, u \in UserIds : GetProvisioning(h, c, u)
         \/ CreateAtomic(h)
         \/ ReadWinner(h)
         \/ Answer(h)
         \/ Fail(h)

AccountsSpec == AccountsInit /\ [][AccountsNext]_accountsVars

----------------------------------------------------------------------------
\* Every variable has its type.
AccountsTypeOK ==
    /\ DOMAIN users \subseteq UserIds /\ \A u \in DOMAIN users : users[u] \in User
    /\ \A u \in DOMAIN limits : limits[u] \in Limits
    /\ DOMAIN claims \subseteq Claims /\ \A c \in DOMAIN claims : claims[c] \in UserIds
    /\ \A h \in Handlers :
         \/ handler[h] = NoRequest
         \/ handler[h] \in [at : {"update"}, user : UserIds, change : Changes,
                            overtaken : BOOLEAN]
         \/ handler[h] \in [at : {"create", "conflict", "winner", "answer"},
                            claim : Claims, user : UserIds]
    /\ provisioningAllowed \in BOOLEAN /\ edits \in 0..MaxEdits
    /\ deleted \subseteq UserIds /\ overlapped \subseteq UserIds
    /\ answered \in [Claims -> SUBSET UserIds]
    /\ \A u \in DOMAIN allowance :
         allowance[u] = None \/ allowance[u] \in Allowances

\* No row outlives its user, even when an edit that found the user there
\* inserts its limits after the deletion.
RowsHaveUsers ==
    /\ DOMAIN limits \subseteq DOMAIN users
    /\ \A c \in DOMAIN claims : claims[c] \in DOMAIN users /\ users[claims[c]].name = c

\* A benefit is given once: claims that race, repeat, or come back after the
\* account lost its claim never make a second account.
OneAccountPerClaim ==
    \A u, v \in DOMAIN users : users[u].name # None /\ users[u].name = users[v].name => u = v

\* All answers to one claim name the same account, and one that was stored,
\* until an administrator deletes it.
ClaimAnswersAgree ==
    \A c \in Claims :
        /\ answered[c] \subseteq DOMAIN users \cup deleted
        /\ Cardinality(answered[c] \cap DOMAIN users) <= 1

\* A user's daily address limit is never below its concurrent one, unless an
\* edit was decided on limits that another edit changed before it was written.
LimitsConsistent ==
    \A u \in DOMAIN users \ overlapped : LimitsOf(u).device <= LimitsOf(u).ip

\* While provisioning is locked no administrator adds an account (a claim
\* does), and none is enabled or, enabled, gets more addresses, traffic or
\* egress, but by the write of an edit whose account another edit changed after
\* its check.
Grows(u) ==
    /\ users'[u].enabled
    /\ \/ ~users[u].enabled
       \/ ~NoMoreThan(Allowance(users'[u], limits', u), Allowance(users[u], limits, u))
WritesOvertaken(u) ==
    \E h \in Handlers : /\ UpdateUserPolicy(h)
                        /\ handler[h].user = u /\ handler[h].overtaken
LockedNeverGrows ==
    ~provisioningAllowed =>
        \A u \in DOMAIN users' :
            IF u \in DOMAIN users THEN Grows(u) => WritesOvertaken(u)
            ELSE users'[u].name # None

\* However edits overlap, under the lock: who is enabled was so when the lock
\* was deployed, or when a claim made the account, and one that was never
\* disabled since may use no more than it could then.
AllowanceHolds ==
    ~provisioningAllowed =>
        \A u \in DOMAIN users :
            /\ users[u].enabled => u \in DOMAIN allowance
            /\ u \in DOMAIN allowance /\ allowance[u] # None =>
                 NoMoreThan(Allowance(users[u], limits, u), allowance[u])

\* Whatever edits, claims and deletions overlap (index.ts:815-930,
\* webmaster-benefit.ts:119-180), rows belong to users that exist, a benefit has
\* one account, and every caller was told of that one.
AccountsSound == AccountsTypeOK /\ RowsHaveUsers /\ OneAccountPerClaim /\ ClaimAnswersAgree

\* The provisioning lock (index.ts:846-867) stops every expansion that an edit
\* decides on the account as it is; what an edit decided before another one
\* wrote may do stays within what accounts could use under the lock before.
EditsStayInBounds == [][LockedNeverGrows /\ AllowanceHolds']_accountsVars
=============================================================================
