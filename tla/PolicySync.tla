---------------------------- MODULE PolicySync ----------------------------
(***************************************************************************)
(* How a committed policy change reaches the requests of ONE edge node:    *)
(* the policy version and its invalidation notice on the control plane     *)
(* (packages/control-plane/src/policy-cache.ts, the /uuids handler of      *)
(* index.ts), the node's two KV keys, and OPUS8_getActiveState and         *)
(* OPUS8_handleControlRequest of                                           *)
(* packages/edge-node/build/opus8-prelude.js.                              *)
(*                                                                         *)
(* A policy is abstracted to its revision, the number of changes committed *)
(* when it was read.  Every database and KV operation is an action of its  *)
(* own; the two reads of the /uuids answer, which Promise.all starts       *)
(* together, happen in either order.  KV is taken to be consistent.        *)
(***************************************************************************)
EXTENDS Naturals, FiniteSets

CONSTANTS Changes,     \* administrative changes, one handler run each
          Requests,    \* data-plane requests the node serves at a time
          None,        \* no value
          Ttl,         \* ticks a cached policy is fresh (ttl: 15 s)
          KvLife,      \* ticks until KV drops the entry (max(60, 4 * ttl) s)
          FetchLimit,  \* ticks a policy fetch may take
          KvErrors,    \* whether KV reads and writes may fail
          MaxClock     \* bound on the number of ticks

ASSUME PolicyAssumption ==
    /\ IsFiniteSet(Changes)
    /\ None \notin Changes \cup Requests
    /\ {Ttl, KvLife, FetchLimit, MaxClock} \subseteq Nat
    /\ 0 < Ttl /\ Ttl <= KvLife
    /\ KvErrors \in BOOLEAN

VARIABLES clock,
          revision,    \* committed policy changes
          version,     \* runtime_state.edge_policy_version
          change,      \* where the handler of each change is
          mark,        \* KV opus8:policy:invalidated:v1
          cache,       \* KV opus8:policy:v4, or None
          request,     \* where each request is in OPUS8_getActiveState
          committedAt, \* ghost: the tick each revision was committed
          floor,       \* ghost: revision committed when each version was advanced
          acked        \* ghost: highest version an invalidation reported stored

vars == <<clock, revision, version, change, mark, cache, request,
          committedAt, floor, acked>>

Versions == 0..Cardinality(Changes)

Larger(a, b) == IF a < b THEN b ELSE a

\* A policy answer: the revision and version read, and (ghost) the version
\* the database held when the revision was read.
Policy == [revision : Versions, version : Versions, heldAt : Versions]

NewRequest == [at |-> "idle", mark |-> 0, content |-> None, heldAt |-> 0,
               version |-> None, began |-> 0, failed |-> FALSE,
               policy |-> None, acked |-> 0]

NewChange == [at |-> "idle", version |-> 0, seen |-> 0, put |-> FALSE, deleted |-> FALSE]

Init ==
    /\ clock = 0 /\ revision = 0 /\ version = 0
    /\ change = [c \in Changes |-> NewChange]
    /\ mark = 0 /\ cache = None
    /\ request = [r \in Requests |-> NewRequest]
    /\ committedAt = [n \in Versions |-> 0]
    /\ floor = [v \in Versions |-> 0]
    /\ acked = 0

control == <<revision, version, committedAt, floor>>
node == <<mark, cache, acked>>

----------------------------------------------------------------------------
(* A change on the control plane: the handler's own write, then            *)
(* publishEdgePolicyChange = advance the version, read it back, notify.    *)

ChangeCommits(c) ==
    /\ change[c].at = "idle"
    /\ revision' = revision + 1
    /\ committedAt' = [committedAt EXCEPT ![revision + 1] = clock]
    /\ change' = [change EXCEPT ![c].at = "advance"]
    /\ UNCHANGED <<clock, version, floor, node, request>>

\* Mutant of ChangeAdvances: the version is advanced before the write commits.
ChangeAdvancesFirst(c) ==
    /\ change[c].at = "idle"
    /\ version' = version + 1
    /\ floor' = [floor EXCEPT ![version + 1] = revision]
    /\ change' = [change EXCEPT ![c].at = "read-back"]
    /\ UNCHANGED <<clock, revision, committedAt, node, request>>

ChangeAdvances(c) ==
    /\ change[c].at = "advance"
    /\ version' = version + 1
    /\ floor' = [floor EXCEPT ![version + 1] = revision]
    /\ change' = [change EXCEPT ![c].at = "read-back"]
    /\ UNCHANGED <<clock, revision, committedAt, node, request>>

ChangeReadsBack(c) ==
    /\ change[c].at = "read-back"
    /\ change' = [change EXCEPT ![c].at = "sent", ![c].version = version]
    /\ UNCHANGED <<clock, control, node, request>>

----------------------------------------------------------------------------
(* POST /__opus8/policy/invalidate at the node, at any later time or never *)

InvalidationReads(c) ==
    /\ change[c].at = "sent"
    /\ \E seen \in {mark} \cup (IF KvErrors THEN {0} ELSE {}) :
         change' = [change EXCEPT ![c].at = "store", ![c].seen = seen]
    /\ UNCHANGED <<clock, control, node, request>>

\* Promise.all: the put and the delete complete in either order.
InvalidationPuts(c) ==
    /\ change[c].at = "store" /\ ~change[c].put
    /\ mark' = Larger(change[c].seen, change[c].version)
    /\ change' = [change EXCEPT ![c].put = TRUE]
    /\ UNCHANGED <<clock, control, cache, acked, request>>

InvalidationDeletes(c) ==
    /\ change[c].at = "store" /\ ~change[c].deleted
    /\ cache' = None
    /\ change' = [change EXCEPT ![c].deleted = TRUE]
    /\ UNCHANGED <<clock, control, mark, acked, request>>

InvalidationAnswers(c) ==
    /\ change[c].at = "store" /\ change[c].put /\ change[c].deleted
    /\ acked' = Larger(acked, change[c].version)
    /\ change' = [change EXCEPT ![c] = [NewChange EXCEPT !.at = "done"]]
    /\ UNCHANGED <<clock, control, mark, cache, request>>

----------------------------------------------------------------------------
(* OPUS8_getActiveState: mark, fresh cache, control plane, stale cache     *)

\* What a request keeps once its fetch is over: what it saw when it began.
Settled(r) == [NewRequest EXCEPT !.mark = request[r].mark, !.acked = request[r].acked,
                                 !.failed = request[r].failed]

Serve(r, policy) ==
    request' = [request EXCEPT ![r] =
        [Settled(r) EXCEPT !.at = "served", !.policy = policy]]

CachedForever == cache # None  \* mutant: no expirationTtl
Cached == cache # None /\ clock < cache.gone

RequestReadsMark(r) ==
    /\ request[r].at = "idle"
    /\ \E seen \in {mark} \cup (IF KvErrors THEN {0} ELSE {}) :
         request' = [request EXCEPT ![r] =
             [NewRequest EXCEPT !.at = "cache", !.mark = seen, !.acked = acked]]
    /\ UNCHANGED <<clock, control, change, node>>

UsableUnmarked(r) == Cached  \* mutant: the mark is not compared
Usable(r) == Cached /\ cache.policy.version >= request[r].mark

RequestTriesCache(r) ==
    /\ request[r].at = "cache"
    /\ \/ Usable(r) /\ clock < cache.exp /\ Serve(r, cache.policy)
       \/ /\ ~(Usable(r) /\ clock < cache.exp) \/ KvErrors
          /\ request' = [request EXCEPT ![r].at = "fetch", ![r].began = clock]
    /\ UNCHANGED <<clock, control, change, node>>

\* The /uuids handler at the control plane.
FetchReadsPolicy(r) ==
    /\ request[r].at = "fetch" /\ request[r].content = None
    /\ request' = [request EXCEPT ![r].content = revision, ![r].heldAt = version]
    /\ UNCHANGED <<clock, control, change, node>>

FetchReadsVersion(r) ==
    /\ request[r].at = "fetch" /\ request[r].version = None
    /\ request' = [request EXCEPT ![r].version = version]
    /\ UNCHANGED <<clock, control, change, node>>

Answer(r) == [revision |-> request[r].content, version |-> request[r].version,
              heldAt |-> request[r].heldAt]

FetchReturns(r) ==
    /\ request[r].at = "fetch"
    /\ request[r].content # None /\ request[r].version # None
    /\ IF request[r].version < request[r].mark
       THEN Serve(r, None) /\ UNCHANGED cache
       ELSE /\ Serve(r, Answer(r))
            /\ \/ cache' = [policy |-> Answer(r), exp |-> clock + Ttl,
                            gone |-> clock + KvLife]
               \/ KvErrors /\ UNCHANGED cache
    /\ UNCHANGED <<clock, control, change, mark, acked>>

\* Network failure or an error status: fall through to the stale cache.
FetchFails(r) ==
    /\ request[r].at = "fetch"
    /\ request' = [request EXCEPT ![r] =
        [Settled(r) EXCEPT !.at = "stale", !.failed = TRUE]]
    /\ UNCHANGED <<clock, control, change, node>>

RequestTriesStale(r) ==
    /\ request[r].at = "stale"
    /\ \/ Usable(r) /\ Serve(r, cache.policy)
       \/ (~Usable(r) \/ KvErrors) /\ Serve(r, None)
    /\ UNCHANGED <<clock, control, change, node>>

RequestEnds(r) ==
    /\ request[r].at = "served"
    /\ request' = [request EXCEPT ![r] = NewRequest]
    /\ UNCHANGED <<clock, control, change, node>>

----------------------------------------------------------------------------
\* Time passes; a fetch takes at most FetchLimit ticks and what a request
\* was answered is used within the tick.
Tick ==
    /\ clock < MaxClock
    /\ \A r \in Requests :
         /\ request[r].at \in {"idle", "fetch"}
         /\ request[r].at = "fetch" => clock < request[r].began + FetchLimit
    /\ clock' = clock + 1
    /\ UNCHANGED <<control, change, node, request>>

Publish(c) == \/ ChangeCommits(c) \/ ChangeAdvances(c) \/ ChangeReadsBack(c)

Invalidate(c) == \/ InvalidationReads(c) \/ InvalidationPuts(c)
                 \/ InvalidationDeletes(c) \/ InvalidationAnswers(c)

GetActiveState(r) == \/ RequestReadsMark(r) \/ RequestTriesCache(r)
                     \/ FetchReadsPolicy(r) \/ FetchReadsVersion(r)
                     \/ FetchReturns(r) \/ FetchFails(r)
                     \/ RequestTriesStale(r) \/ RequestEnds(r)

Next == \/ \E c \in Changes : Publish(c) \/ Invalidate(c)
        \/ \E r \in Requests : GetActiveState(r)
        \/ Tick

Spec == Init /\ [][Next]_vars

----------------------------------------------------------------------------
(* Properties *)

\* Shapes; versions and marks never run ahead of the committed changes.
TypeOK ==
    /\ clock \in 0..MaxClock
    /\ version \in Versions /\ revision \in Versions /\ version <= revision
    /\ change \in [Changes ->
            [at : {"idle", "advance", "read-back", "sent", "store", "done"},
             version : 0..version, seen : 0..version, put : BOOLEAN, deleted : BOOLEAN]]
    /\ mark \in 0..version /\ acked \in 0..version
    /\ cache \in {None} \cup [policy : Policy, exp : Nat, gone : Nat]
    /\ request \in [Requests ->
            [at : {"idle", "cache", "fetch", "stale", "served"}, mark : 0..version,
             content : Versions \cup {None}, heldAt : 0..version,
             version : (0..version) \cup {None}, began : 0..clock,
             failed : BOOLEAN, policy : Policy \cup {None}, acked : 0..version]]
    /\ committedAt \in [Versions -> 0..clock]
    /\ floor \in [Versions -> 0..revision]

Served(r) == request[r].at = "served" /\ request[r].policy # None

\* The node was told of a newer version, and the request saw it.
Warned(r) == request[r].mark >= request[r].acked

\* The version was not advanced between the two reads of the answer.
Untorn(policy) == policy.version <= policy.heldAt

Covers(policy, v) == policy.revision >= floor[v]

\* Once an invalidation is stored, a request that starts later and sees the
\* mark is never served a policy older than the invalidated change, whatever
\* late cache fills and notices interleave, if the answer was read untorn.
InvalidatedStaysOut ==
    \A r \in Requests :
        Served(r) /\ Warned(r) /\ Untorn(request[r].policy)
            => Covers(request[r].policy, request[r].acked)

\* A served policy misses a committed change for at most the cache TTL (the
\* KV life when the control plane cannot be reached) plus one fetch, even if
\* no invalidation ever arrives.
StalenessIsBounded ==
    \A r \in Requests :
        Served(r) /\ request[r].policy.revision < revision =>
            clock <= committedAt[request[r].policy.revision + 1] + FetchLimit
                     + (IF request[r].failed THEN KvLife ELSE Ttl)
=============================================================================
