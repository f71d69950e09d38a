------------------------------ MODULE Devices ------------------------------
(***************************************************************************)
(* The devices of one subscriber and the subscription requests that bind   *)
(* them to hardware (packages/control-plane/src/db.ts, the handlers of     *)
(* /api/users/:id/devices and /sub/:token in index.ts, schema.sql).        *)
(*                                                                         *)
(* A device row is read by a request and acted on several awaits later,    *)
(* while administrators replace, reset, disable or delete it, other        *)
(* requests bind it, and a deployment replays the schema.  An              *)
(* administrator's change of one device is one SQL statement and one step; *)
(* the creation of a device checks first and inserts later.                *)
(***************************************************************************)
EXTENDS Naturals, FiniteSets, Functions

CONSTANTS Legacy,      \* the device id 'legacy-' || users.id
          Benefit,     \* the device id of a webmaster benefit
          NewDevices,  \* ids an administrator's POST can draw
          Hardware,    \* hardware ids clients present
          Requests,    \* requests that may be in flight
          None,
          MaxDevices,  \* devices per user: 20 in the code
          MaxChanges,  \* bound on the changes administrators make
          MaxIssued    \* bound on the tokens drawn after the account's own

ASSUME DevicesAssumption ==
    /\ MaxDevices \in Nat \ {0} /\ MaxIssued \in Nat /\ MaxChanges \in Nat
    /\ Legacy # Benefit /\ {Legacy, Benefit} \cap NewDevices = {}
    /\ None \notin Hardware \cup NewDevices \cup {Legacy, Benefit, "active", "barred"}

DeviceIds == NewDevices \cup {Legacy, Benefit}
Modes == {"off", "optional", "required"}   \* hwid_mode

\* Random tokens are numbered as they are drawn; 0 is users.sub_token.  The
\* connection UUID drawn with a token is not kept: no decision here reads it,
\* and users.uuid is no device's but in the row a replay of the schema adds.
Tokens == 0..MaxIssued

Device == [token : Tokens, mode : Modes, bound : Hardware \cup {None},
           enabled : BOOLEAN]

VARIABLES user,      \* its row in users: "active", "barred" (disabled, expired), None
          devices,   \* user_devices of the user: a function of the ids with a row
          issued,    \* tokens drawn
          changes,   \* changes administrators have made
          request,   \* where each request in flight stands
          kind,      \* how the account was made: "ordinary" or "benefit"
          verified,  \* ghost: hardware let in since the device was last unbound
          boundBy,   \* ghost: the token a device was bound with, None if overtaken
          retired,   \* ghost: tokens that an administrator replaced or deleted
          revived    \* ghost: a replay of the schema inserted a row

ghosts == <<verified, boundBy, retired, revived>>
devicesVars == <<user, devices, issued, changes, request, kind, ghosts>>

NoRequest == [at |-> "idle"]

NewRow(token, mode) ==
    [token |-> token, mode |-> mode, bound |-> None, enabled |-> TRUE]

\* POST /api/users or a benefit claim: one batch inserts the user and its
\* first device, which shares the user's token.
DevicesInit ==
    /\ kind \in {"ordinary", "benefit"}
    /\ user = "active"
    /\ issued = 0 /\ changes = 0
    /\ \E mode \in IF kind = "benefit" THEN {"required"} ELSE Modes :
         devices = [d \in {IF kind = "benefit" THEN Benefit ELSE Legacy} |->
                      NewRow(0, mode)]
    /\ request = [h \in Requests |-> NoRequest]
    /\ verified = [d \in DeviceIds |-> {}]
    /\ boundBy = [d \in DeviceIds |-> None]
    /\ retired = {} /\ revived = FALSE

----------------------------------------------------------------------------
\* Requests that hold the row of a device in D learn that it was changed.  A
\* device that is being created has no row yet: its id joins D when the table
\* fills up or the user goes.
Created == {d \in NewDevices : d \notin DOMAIN devices}
Overtake(D) ==
    request' = [h \in Requests |->
        IF request[h] # NoRequest /\ request[h].device \in D
        THEN [request[h] EXCEPT !.overtaken = TRUE] ELSE request[h]]

\* An administrator's change of the rows of D.
Administer(D) ==
    /\ changes < MaxChanges
    /\ changes' = changes + 1
    /\ Overtake(D)

Withdraw(tokens) == retired' = retired \cup tokens

\* Statements on a row that is gone change nothing.
Change(d, row) == devices' = [devices EXCEPT ![d] = row]
Unbind(d) == /\ verified' = [verified EXCEPT ![d] = {}]
             /\ boundBy' = [boundBy EXCEPT ![d] = None]

\* Turning the mode off forgets the hardware.
Updated(row, enabled, mode) ==
    [row EXCEPT !.enabled = enabled, !.mode = mode,
                !.bound = IF mode = "off" THEN None ELSE @]

\* PATCH .../devices/:id
UpdateUserDevice(d, enabled, mode) ==
    /\ d \in DOMAIN devices
    /\ Change(d, Updated(devices[d], enabled, mode))
    /\ IF mode = "off" THEN Unbind(d) ELSE UNCHANGED <<verified, boundBy>>
    /\ Administer({d})
    /\ UNCHANGED <<user, issued, kind, retired, revived>>

Unbound(row) == [row EXCEPT !.bound = None]

\* POST .../devices/:id/hwid/reset
ResetUserDeviceHwid(d) ==
    /\ d \in DOMAIN devices
    /\ Change(d, Unbound(devices[d]))
    /\ Unbind(d) /\ Administer({d})
    /\ UNCHANGED <<user, issued, kind, retired, revived>>

\* Mutant of Replaced: the token stays valid.
ReplacedKeepingToken(row, token) == [row EXCEPT !.bound = None]
Replaced(row, token) == [row EXCEPT !.token = token, !.bound = None]

\* POST .../devices/:id/rotate: the device is replaced altogether.
RotateUserDeviceCredential(d) ==
    /\ d \in DOMAIN devices /\ issued < MaxIssued
    /\ issued' = issued + 1
    /\ Change(d, Replaced(devices[d], issued'))
    /\ Withdraw({devices[d].token})
    /\ verified' = [verified EXCEPT ![d] = {}]
    /\ Administer({d})
    /\ UNCHANGED <<user, kind, boundBy, revived>>

\* POST .../devices/:id/credential/rotate: the token and the hardware stay,
\* answers in flight carry the credential of before.
RotateConnectionCredential(d) ==
    /\ d \in DOMAIN devices
    /\ Administer({d})
    /\ UNCHANGED <<user, devices, issued, kind, ghosts>>

Deletable(d) == d # Legacy /\ Cardinality(DOMAIN devices) > 1

\* DELETE .../devices/:id
DeleteUserDevice(d) ==
    /\ d \in DOMAIN devices /\ Deletable(d)
    /\ devices' = Restrict(devices, DOMAIN devices \ {d})
    /\ Withdraw({devices[d].token})
    /\ Unbind(d) /\ Administer({d})
    /\ UNCHANGED <<user, issued, kind, revived>>

\* PATCH /api/users/:id with enabled, or expire_at has passed.
UpdateUser(status) ==
    /\ user # None
    /\ user' = status
    /\ Administer(DOMAIN devices)
    /\ UNCHANGED <<devices, issued, kind, ghosts>>

\* DELETE /api/users/:id: the devices go with the user.
DeleteUser ==
    /\ user # None
    /\ user' = None
    /\ devices' = Restrict(devices, {})
    /\ Withdraw({devices[d].token : d \in DOMAIN devices})
    /\ verified' = [d \in DeviceIds |-> {}]
    /\ boundBy' = [d \in DeviceIds |-> None]
    /\ Administer(DeviceIds)
    /\ UNCHANGED <<issued, kind, revived>>

Insertable ==
    /\ Legacy \notin DOMAIN devices
    /\ \A d \in DOMAIN devices : devices[d].token # 0

\* Every deployment of the control plane applies schema.sql, whose last
\* insert gives each user without one a default device with the user's own
\* token; OR IGNORE drops it when the token or the uuid is taken.
ReplaySchema ==
    /\ user # None /\ Insertable
    /\ \E enabled \in BOOLEAN :   \* users.enabled, which an expired user may keep
         /\ user = "active" => enabled
         /\ devices' = [d \in DOMAIN devices \cup {Legacy} |->
                         IF d = Legacy THEN [NewRow(0, "off") EXCEPT !.enabled = enabled]
                         ELSE devices[d]]
    /\ revived' = TRUE
    /\ Overtake({Legacy} \cup Created)
    /\ UNCHANGED <<user, issued, changes, kind, verified, boundBy, retired>>

----------------------------------------------------------------------------
\* POST .../devices.  The first two reads see a user and room for a device.
CheckCreation(h, d) ==
    /\ request[h] = NoRequest
    /\ user # None /\ Cardinality(DOMAIN devices) < MaxDevices
    /\ \A g \in Requests : request[g].at = "create" => request[g].device # d
    /\ d \notin DOMAIN devices /\ issued < MaxIssued
    /\ request' = [request EXCEPT ![h] =
            [at |-> "create", device |-> d, overtaken |-> FALSE]]
    /\ UNCHANGED <<user, devices, issued, changes, kind, ghosts>>

\* Mutant of HasRoom: the limit is one less.
HasRoomBelow == user # None /\ Cardinality(DOMAIN devices) < MaxDevices - 1

\* What the INSERT ... SELECT asks again.
HasRoom == user # None /\ Cardinality(DOMAIN devices) < MaxDevices

\* The insertion; the answer is 201 with a credential whether or not the
\* statement inserted a row.
CreateUserDevice(h, mode) ==
    /\ request[h].at = "create"
    /\ LET d == request[h].device
           others == [request EXCEPT ![h] = NoRequest] IN
       /\ IF HasRoom
          THEN /\ issued < MaxIssued /\ issued' = issued + 1
               /\ devices' = [x \in DOMAIN devices \cup {d} |->
                               IF x = d THEN NewRow(issued', mode)
                                        ELSE devices[x]]
               /\ request' = [g \in Requests |->
                               IF others[g].at = "create"
                               THEN [others[g] EXCEPT !.overtaken = TRUE]
                               ELSE others[g]]
          ELSE request' = others /\ UNCHANGED <<devices, issued>>
    /\ UNCHANGED <<user, changes, kind, ghosts>>

----------------------------------------------------------------------------
\* What the two rate limiters answer; without them, or when they fail, a
\* request passes unless the deployment requires them.
RateLimited(source, token, required) ==
    IF "refuses" \in {source, token} THEN source # "fails" ELSE
    "fails" \in {source, token} /\ required

\* One row of user_devices joined with its user, which must be enabled too.
Principal(d) == [devices[d] EXCEPT !.enabled = @ /\ user = "active"]

\* GET /sub/:token with a hardware id or none: what the principal shows
\* decides whether the hardware is compared at once, bound, or not asked for.
ReadPrincipal(h, d, hw) ==
    /\ request[h] = NoRequest
    /\ d \in DOMAIN devices
    /\ \E source, token \in {"admits", "refuses", "fails"}, required \in BOOLEAN :
         ~RateLimited(source, token, required)
    /\ LET row == Principal(d)
           checks == row.mode # "off" /\ hw # None IN
       /\ row.enabled
       /\ row.mode = "required" => hw # None
       /\ checks => row.bound \in {None, hw}
       /\ request' = [request EXCEPT ![h] =
              [at |-> IF checks /\ row.bound = None THEN "bind" ELSE "render",
               device |-> d, hw |-> hw, overtaken |-> FALSE]]
       /\ verified' = [verified EXCEPT ![d] = IF checks /\ row.bound = hw
                                              THEN @ \cup {hw} ELSE @]
    /\ UNCHANGED <<user, devices, issued, changes, kind, boundBy, retired, revived>>

\* Mutant of Bindable: the statement does not ask whether the device is bound.
BindableAgain(d) == d \in DOMAIN devices /\ devices[d].enabled
Bindable(d) == d \in DOMAIN devices /\ devices[d].enabled /\ devices[d].bound = None

\* The UPDATE of bindUserDeviceHwid, which names the device by its id.
Bind(h) ==
    /\ request[h].at = "bind"
    /\ LET d == request[h].device IN
       IF Bindable(d)
       THEN /\ Change(d, [devices[d] EXCEPT !.bound = request[h].hw])
            /\ boundBy' = [boundBy EXCEPT ![d] =
                             IF request[h].overtaken THEN None
                             ELSE devices[d].token]
       ELSE UNCHANGED <<devices, boundBy>>
    /\ request' = [request EXCEPT ![h].at = "reread"]
    /\ UNCHANGED <<user, issued, changes, kind, verified, retired, revived>>

\* Mutant of Reread: the row is not compared with the hardware presented.
RereadTrusting(h) ==
    /\ request[h].at = "reread"
    /\ LET d == request[h].device IN
       /\ request' = [request EXCEPT ![h] = [request[h] EXCEPT !.at = "render"]]
       /\ verified' = [verified EXCEPT ![d] = @ \cup {request[h].hw}]
    /\ UNCHANGED <<user, devices, issued, changes, kind, boundBy, retired, revived>>

\* The SELECT after it: only the hardware that is bound now goes on.
Reread(h) ==
    /\ request[h].at = "reread"
    /\ LET d == request[h].device
           accepted == d \in DOMAIN devices /\ devices[d].bound = request[h].hw IN
       /\ request' = [request EXCEPT ![h] =
              IF accepted THEN [request[h] EXCEPT !.at = "render"] ELSE NoRequest]
       /\ verified' = [verified EXCEPT ![d] =
              IF accepted THEN @ \cup {request[h].hw} ELSE @]
    /\ UNCHANGED <<user, devices, issued, changes, kind, boundBy, retired, revived>>

\* The nodes are listed and the subscription rendered with the credential of
\* the row that was read.
Serve(h) ==
    /\ request[h].at = "render"
    /\ request' = [request EXCEPT ![h] = NoRequest]
    /\ UNCHANGED <<user, devices, issued, changes, kind, ghosts>>

\* A request fails between two awaits, or there is no node or no such format.
Fail(h) ==
    /\ request[h] # NoRequest
    /\ request' = [request EXCEPT ![h] = NoRequest]
    /\ UNCHANGED <<user, devices, issued, changes, kind, ghosts>>

DevicesNext ==
    \/ \E d \in DeviceIds :
         \/ \E enabled \in BOOLEAN, mode \in Modes : UpdateUserDevice(d, enabled, mode)
         \/ ResetUserDeviceHwid(d)
         \/ RotateUserDeviceCredential(d)
         \/ RotateConnectionCredential(d)
         \/ DeleteUserDevice(d)
    \/ \E status \in {"active", "barred"} \ {user} : UpdateUser(status)
    \/ DeleteUser
    \/ ReplaySchema
    \/ \E h \in Requests :
         \/ \E d \in NewDevices : CheckCreation(h, d)
         \/ \E mode \in Modes : CreateUserDevice(h, mode)
         \/ \E d \in DeviceIds, hw \in Hardware \cup {None} : ReadPrincipal(h, d, hw)
         \/ Bind(h)
         \/ Reread(h)
         \/ Serve(h)
         \/ Fail(h)

DevicesSpec == DevicesInit /\ [][DevicesNext]_devicesVars

----------------------------------------------------------------------------
Held(h) == [at : {"create"}, device : NewDevices, overtaken : BOOLEAN]
           \cup [at : {"bind", "reread", "render"}, device : DeviceIds,
                 hw : Hardware \cup {None}, overtaken : BOOLEAN]

\* Every variable has its type; the token is a unique column.
DevicesTypeOK ==
    /\ user \in {"active", "barred", None}
    /\ DOMAIN devices \subseteq DeviceIds
    /\ \A d \in DOMAIN devices : devices[d] \in Device
    /\ \A d, e \in DOMAIN devices :
         d # e => devices[d].token # devices[e].token
    /\ issued \in Tokens /\ changes \in 0..MaxChanges
    /\ \A h \in Requests : request[h] = NoRequest \/ request[h] \in Held(h)
    /\ kind \in {"ordinary", "benefit"}
    /\ verified \in [DeviceIds -> SUBSET Hardware]
    /\ boundBy \in [DeviceIds -> Tokens \cup {None}]
    /\ retired \subseteq Tokens /\ revived \in BOOLEAN

\* Two clients that race to bind a device cannot both be let in: between two
\* resets, every request that passed the hardware check came from the one
\* hardware the row names (bindUserDeviceHwid and the comparison after it).
VerifiedIsBound ==
    \A d \in DOMAIN devices : verified[d] \subseteq {devices[d].bound}

\* The hardware a replaced device is bound to came with the token that is
\* valid now, except from a request that read the row before the change: a
\* replacement really clears the binding.
BindingFollowsToken ==
    \A d \in DOMAIN devices : devices[d].bound # None =>
        boundBy[d] \in {devices[d].token, None}

\* However creations overlap, a user has at most MaxDevices devices, beside
\* the one a replay of the schema may add.
DeviceTableBounded ==
    Cardinality(DOMAIN devices) <= MaxDevices + (IF revived THEN 1 ELSE 0)

\* A user always has a device: overlapping deletions cannot remove the last.
KeepsADevice == user # None => DOMAIN devices # {}

\* A token that an administrator took back leads to no device again, except
\* to the default device a replay of the schema inserts.
OnlyReplayRevives ==
    \A d \in DOMAIN devices : devices[d].token \in retired => d = Legacy /\ revived

\* A subscription is served on a row read several awaits before; unless an
\* administrator changed the device or its user meanwhile, the answer is right
\* by the rows as they are now, whatever other requests have bound.
Complies(h) ==
    LET d == request[h].device IN
    /\ user = "active"
    /\ d \in DOMAIN devices /\ devices[d].enabled
    /\ devices[d].mode = "required" => request[h].hw # None
    /\ devices[d].mode # "off" /\ request[h].hw # None => devices[d].bound = request[h].hw
AnswersHoldNow ==
    [][\A h \in Requests : Serve(h) /\ ~request[h].overtaken => Complies(h)]_devicesVars

\* A creation answered with 201 has inserted its device, unless another
\* insertion, a deletion or a replay came between its check and its insert.
CreatedUnlessOvertaken ==
    [][\A h \in Requests, mode \in Modes :
         CreateUserDevice(h, mode) /\ ~request[h].overtaken =>
           request[h].device \in DOMAIN devices']_devicesVars

\* However requests overlap (db.ts:498-643), the rows of a user's devices stay
\* sound: tokens are unique, bindings belong to the token that is valid, the
\* limit and the last device hold, and no token comes back but by the replay.
DevicesSound ==
    /\ DevicesTypeOK
    /\ BindingFollowsToken
    /\ DeviceTableBounded
    /\ KeepsADevice
    /\ OnlyReplayRevives
=============================================================================
