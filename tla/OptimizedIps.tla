---------------------------- MODULE OptimizedIps ----------------------------
(***************************************************************************)
(* The pool of validated addresses, from the workflow that publishes it    *)
(* to the subscriptions that serve it and the pages that show it           *)
(* (packages/control-plane/src/index.ts, subscription.ts, operations.ts,   *)
(* packages/admin-ui/src/views/Nodes.tsx, infra/scripts/optimize-ip.sh).   *)
(*                                                                         *)
(* The pool is one value in KV, read by three pieces of code that each     *)
(* filter it in their own way.  Nodes change their hostname and come and   *)
(* go between a probe, its publication and the requests that use it.       *)
(***************************************************************************)
EXTENDS Naturals, Sequences, FiniteSets, Functions, SequencesExt

CONSTANTS NodeIds,
          Names,     \* hostnames in lower case
          Ips,
          Requests,  \* subscription requests in flight
          NoPool,
          Old,       \* a value of KV from before version 3
          MaxIps,    \* addresses published of one node: 8
          UseOptimizedIps, \* USE_OPTIMIZED_IPS = "1"
          SubIps,    \* SUB_MAX_OPTIMIZED_IPS_PER_NODE
          Lifetime,  \* validity of an entry: 12 hours
          RunFor,    \* time a run may take, timeout-minutes: 25 minutes
          FreshFor,  \* age at which a publication is refused: 15 minutes
          WarnAfter, \* an expiry this near is told: 90 minutes
          MaxTime,   \* bound on the clock, in ticks
          MaxChanges, \* bound on changes of nodes
          MaxRuns    \* bound on runs of the workflow

ASSUME PoolAssumption ==
    /\ {Lifetime, RunFor, FreshFor, WarnAfter, MaxTime, MaxChanges, MaxRuns} \subseteq Nat
    /\ {MaxIps, SubIps} \subseteq Nat \ {0} /\ SubIps <= MaxIps
    /\ UseOptimizedIps \in BOOLEAN
    /\ NoPool # Old /\ {NoPool, Old} \cap (NodeIds \cup Names \cup Ips) = {}

VARIABLES nodes,     \* table nodes: a function of the ids with a row
          kv,        \* opus8:opt-ips as last written
          kvSeen,    \* what a location that has not seen the last write reads
          workflow,  \* the one run of optimize-ip, then its POST
          request,   \* what each subscription request holds
          clock,
          changes,   \* changes of nodes made
          runs,      \* runs of the workflow made
          validated  \* ghost: <<name, ip, time>> both vantages validated

tables == <<nodes, changes>>
kvs == <<kv, kvSeen>>
job == <<workflow, runs>>
poolVars == <<tables, kvs, job, request, clock, validated>>

Time == 0..MaxTime

\* Registration keeps the hostname as the node spells it: canonical is FALSE
\* if it has upper case.
Hostname == [name : Names, canonical : BOOLEAN]
Lower(hostname) == [hostname EXCEPT !.canonical = TRUE]
\* routed: its transport path is one that may be used (nodeTransportPath).
Node == [hostname : Hostname, enabled : BOOLEAN, banned : BOOLEAN, routed : BOOLEAN]
Enrolled(hostname) ==
    [hostname |-> hostname, enabled |-> TRUE, banned |-> FALSE, routed |-> TRUE]
IpLists == {ips \in SeqOf(Ips, MaxIps) : ips # <<>> /\ IsInjective(ips)}
Entry == [hostname : Hostname, ips : IpLists, expiresAt : Nat]
ASSUME NoPoolAssumption ==
    \A on \in SUBSET NodeIds : NoPool \notin [on -> Entry] /\ Old \notin [on -> Entry]

AtRest == [at |-> "idle"]

\* A row written before its transport path was reserved may have one that is.
PoolInit ==
    /\ \E name \in Names, routed \in [NodeIds -> BOOLEAN] : nodes = [n \in NodeIds |->
         [Enrolled([name |-> name, canonical |-> TRUE]) EXCEPT !.routed = routed[n]]]
    /\ kv \in {NoPool, Old} /\ kvSeen = kv
    /\ workflow = AtRest
    /\ request = [r \in Requests |-> AtRest]
    /\ clock = 0 /\ changes = 0
    /\ validated = {} /\ runs = 0

\* The nodes that a run measures and that the overview counts.
Eligible == {n \in DOMAIN nodes : nodes[n].enabled /\ ~nodes[n].banned}

----------------------------------------------------------------------------
\* What other components do to nodes: a deletion, an enrollment (which stores
\* the hostname in lower case), a re-registration (which may only respell it,
\* and gives a path or leaves it), a health result, and a revocation, which
\* nothing undoes but another row.
ChangeNodes(table) ==
    /\ changes < MaxChanges
    /\ nodes' = table
    /\ changes' = changes + 1
    /\ UNCHANGED <<kvs, job, request, clock, validated>>

DeleteNode(n) ==
    /\ n \in DOMAIN nodes
    /\ ChangeNodes(Restrict(nodes, DOMAIN nodes \ {n}))

EnrollNode(n, name) ==
    /\ n \notin DOMAIN nodes
    /\ ChangeNodes([m \in DOMAIN nodes \cup {n} |->
            IF m = n THEN Enrolled([name |-> name, canonical |-> TRUE]) ELSE nodes[m]])

RegisterNode(n, hostname, path) ==
    /\ n \in DOMAIN nodes
    /\ Lower(hostname) = Lower(nodes[n].hostname)
    /\ ChangeNodes([nodes EXCEPT ![n].hostname = hostname,
                                 ![n].routed = nodes[n].routed \/ path])

CheckNode(n, banned) ==
    /\ n \in DOMAIN nodes
    /\ ChangeNodes([nodes EXCEPT ![n].banned = banned])

RevokeNode(n) ==
    /\ n \in DOMAIN nodes
    /\ ChangeNodes([nodes EXCEPT ![n].enabled = FALSE])

Tick ==
    /\ clock < MaxTime
    /\ clock' = clock + 1
    /\ UNCHANGED <<tables, kvs, job, request, validated>>

----------------------------------------------------------------------------
\* A run reads the eligible nodes with their hostnames ...
ReadEligible ==
    /\ workflow = AtRest /\ runs < MaxRuns
    /\ Eligible # {}
    /\ workflow' = [at |-> "measure", startedAt |-> clock, found |-> <<>>,
                    hosts |-> [n \in Eligible |-> nodes[n].hostname]]
    /\ runs' = runs + 1
    /\ UNCHANGED <<tables, kvs, request, clock, validated>>

\* The job is cut off when its time is up.
InTime == clock <= workflow.startedAt + RunFor

\* ... probes one after another from two vantages and keeps the best of what
\* both validated; a node without any is left out ...
Measure(n, ips) ==
    /\ workflow.at = "measure" /\ InTime
    /\ n \in DOMAIN workflow.hosts \ DOMAIN workflow.found
    /\ workflow' = [workflow EXCEPT !.found =
            [m \in DOMAIN workflow.found \cup {n} |->
                IF m = n THEN ips ELSE workflow.found[m]]]
    /\ validated' = validated \cup
            {<<workflow.hosts[n].name, ip, clock>> : ip \in Range(ips)}
    /\ UNCHANGED <<tables, kvs, runs, request, clock>>

\* ... and stamps what it found with the time of its POST, not of the probes.
\* A run that found nothing posts nothing.
Publish ==
    /\ workflow.at = "measure" /\ InTime
    /\ workflow.found # <<>>
    /\ workflow' = [at |-> "post", validatedAt |-> clock,
                    pool |-> [n \in DOMAIN workflow.found |->
                        [hostname |-> workflow.hosts[n], ips |-> workflow.found[n],
                         expiresAt |-> clock + Lifetime]]]
    /\ UNCHANGED <<tables, kvs, runs, request, clock, validated>>

Normalized(entry) == [entry EXCEPT !.hostname = Lower(entry.hostname)]

\* POST /api/optimized-ips: one entry that is stale, or of a node that is not
\* registered under exactly its hostname, refuses all.
Acceptable(pool, validatedAt) ==
    /\ clock <= validatedAt + FreshFor
    /\ \A n \in DOMAIN pool :
         /\ pool[n].expiresAt > clock
         /\ n \in DOMAIN nodes /\ nodes[n].hostname = pool[n].hostname

CheckPool ==
    /\ workflow.at = "post"
    /\ LET pool == [n \in DOMAIN workflow.pool |-> Normalized(workflow.pool[n])] IN
       workflow' = IF Acceptable(pool, workflow.validatedAt)
                   THEN [at |-> "put", pool |-> pool] ELSE AtRest
    /\ UNCHANGED <<tables, kvs, runs, request, clock, validated>>

PutPool ==
    /\ workflow.at = "put"
    /\ kvSeen' = kv /\ kv' = workflow.pool
    /\ workflow' = AtRest
    /\ UNCHANGED <<tables, runs, request, clock, validated>>

\* A run ends anywhere: it fails, finds nothing, or is cut off when its time is
\* up; while provisioning is locked its POST is refused.
FailRun ==
    /\ workflow # AtRest
    /\ workflow' = AtRest
    /\ UNCHANGED <<tables, kvs, runs, request, clock, validated>>

\* The write reaches the last location.
Propagate ==
    /\ kvSeen # kv
    /\ kvSeen' = kv
    /\ UNCHANGED <<tables, kv, job, request, clock, validated>>

----------------------------------------------------------------------------
Unexpired(pool, now) == {n \in DOMAIN pool : pool[n].expiresAt > now}

\* getOptimizedIpPool: the entries that may still be used, or null.
ActivePool(pool, now) ==
    IF pool \in {NoPool, Old} \/ Unexpired(pool, now) = {} THEN NoPool
    ELSE Restrict(pool, Unexpired(pool, now))

\* Mutant of SameHost: the entry of a node is its own whatever its name.
SameHostForId(hostname, entry) == TRUE
SameHost(hostname, entry) == Lower(hostname) = entry.hostname

\* getOptimizedIpsByNode, for the nodes of one subscription.
IpsByNode(pool, table, now) ==
    LET active == ActivePool(pool, now) IN
    IF active = NoPool THEN <<>>
    ELSE Restrict([n \in DOMAIN active |-> active[n].ips],
                  {n \in DOMAIN active \cap DOMAIN table :
                     SameHost(table[n].hostname, active[n])})

\* resolveSubscriptionNodes: the first addresses of a node, or its hostname
\* (here none).
Addresses(n, ips) ==
    IF n \notin DOMAIN ips THEN <<>>
    ELSE SubSeq(ips[n], 1, IF Len(ips[n]) < SubIps THEN Len(ips[n]) ELSE SubIps)

\* nodesForUser: of the eligible nodes those with a path; an empty group is
\* every node.
Routed == {n \in Eligible : nodes[n].routed}
NodesForUser(group) ==
    Restrict(nodes, {n \in Routed : group = {} \/ n \in group})

\* GET /sub/:token past the device (module Devices) reads the nodes ...
ReadNodes(r, group) ==
    /\ request[r] = AtRest
    /\ NodesForUser(group) # <<>>
    /\ request' = [request EXCEPT ![r] = [at |-> "pool", nodes |-> NodesForUser(group)]]
    /\ UNCHANGED <<tables, kvs, job, clock, validated>>

\* What it answers with: the addresses of every node.
Answer(table, pool) ==
    LET ips == IF UseOptimizedIps THEN IpsByNode(pool, table, clock) ELSE <<>> IN
    [n \in DOMAIN table |-> Addresses(n, ips)]

\* ... then the pool, of whichever write its location sees, and sends
\* Answer(request[r].nodes, pool) for a pool in {kv, kvSeen}.
Serve(r) ==
    /\ request[r].at = "pool"
    /\ request' = [request EXCEPT ![r] = AtRest]
    /\ UNCHANGED <<tables, kvs, job, clock, validated>>

----------------------------------------------------------------------------
\* Mutant of Fallback: the overview takes entries that expired.
FallbackButExpiry(n, pool, now) ==
    n \notin DOMAIN pool \/ pool[n].hostname # nodes[n].hostname
\* optimizedIpOperations: does a node fall back to its hostname?  It compares
\* the hostname as registered.
Fallback(n, pool, now) ==
    \/ n \notin DOMAIN pool
    \/ pool[n].hostname # nodes[n].hostname
    \/ pool[n].expiresAt <= now

\* The overview's alerts about the pool.  A node's alert has the node's id, the
\* pool's have ids of their own; only the title tells them apart for certain.
FallsBack(n) == [title |-> "falls back", id |-> n]
OfPool(id) == [title |-> id, id |-> id]
PoolAlerts(pool, now) ==
    LET active == {n \in Eligible : ~Fallback(n, pool, now)} IN
    IF Eligible = {} THEN {}
    ELSE IF ~UseOptimizedIps THEN {OfPool("subscription-disabled")}
    ELSE IF pool \in {NoPool, Old} THEN {OfPool("pool-unavailable")}
    ELSE {FallsBack(n) : n \in Eligible \ active}
         \cup (IF active = {} THEN {OfPool("zero-coverage")}
               ELSE IF \E n \in active : pool[n].expiresAt <= now + WarnAfter
               THEN {OfPool("pool-expiring")} ELSE {})

\* optimizationState of the nodes page, from what GET /api/optimized-ips says.
PanelShowsIps(n, pool, now) ==
    /\ n \in Eligible
    /\ UseOptimizedIps
    /\ ActivePool(pool, now) # NoPool
    /\ n \in Unexpired(pool, now) /\ pool[n].hostname = nodes[n].hostname

----------------------------------------------------------------------------
PoolNext ==
    \/ \E n \in NodeIds :
         \/ DeleteNode(n)
         \/ \E name \in Names : EnrollNode(n, name)
         \/ \E hostname \in Hostname, path \in BOOLEAN : RegisterNode(n, hostname, path)
         \/ \E banned \in BOOLEAN : CheckNode(n, banned)
         \/ RevokeNode(n)
         \/ \E ips \in IpLists : Measure(n, ips)
    \/ ReadEligible \/ Publish
    \/ CheckPool \/ PutPool \/ FailRun \/ Propagate
    \/ \E r \in Requests :
         \/ \E group \in {{}} \cup {{n} : n \in NodeIds} : ReadNodes(r, group)
         \/ Serve(r)
    \/ Tick

PoolSpec == PoolInit /\ [][PoolNext]_poolVars

----------------------------------------------------------------------------
Pool(value) == value \in {NoPool, Old} \/
    (DOMAIN value \subseteq NodeIds /\ \A n \in DOMAIN value : value[n] \in Entry)
Stored(value) ==
    Pool(value) /\ (value \notin {NoPool, Old} =>
        \A n \in DOMAIN value : value[n].hostname.canonical)

Measuring ==
    /\ workflow.at = "measure" /\ workflow.startedAt \in 0..clock
    /\ DOMAIN workflow.hosts \subseteq NodeIds
    /\ DOMAIN workflow.found \subseteq DOMAIN workflow.hosts
    /\ \A n \in DOMAIN workflow.hosts : workflow.hosts[n] \in Hostname
    /\ \A n \in DOMAIN workflow.found : workflow.found[n] \in IpLists

\* Every variable has its type; what is stored has its hostnames normalised.
PoolTypeOK ==
    /\ DOMAIN nodes \subseteq NodeIds /\ \A n \in DOMAIN nodes : nodes[n] \in Node
    /\ Stored(kv) /\ Stored(kvSeen)
    /\ workflow = AtRest \/ Measuring
         \/ (workflow.at \in {"post", "put"} /\ Pool(workflow.pool))
    /\ \A r \in Requests : request[r] # AtRest =>
         /\ request[r].at = "pool"
         /\ \A n \in DOMAIN request[r].nodes : request[r].nodes[n] \in Node
    /\ clock \in Time /\ changes \in 0..MaxChanges /\ runs \in 0..MaxRuns
    /\ validated \subseteq Names \X Ips \X Time

\* An address is served for a node only if both vantages validated it for the
\* hostname the same answer gives the node, less than a lifetime and the time
\* of a run ago: the lifetime counts from the stamp of the publication, which
\* the measurement precedes.  So however old the value of KV, and whatever
\* became of the node since the run read its hostname.
ServedWasValidated ==
    \A r \in Requests, pool \in {kv, kvSeen} : request[r].at = "pool" =>
        LET table == request[r].nodes IN
        \A n \in DOMAIN table : \A ip \in Range(Answer(table, pool)[n]) :
            \E t \in Time : /\ <<table[n].hostname.name, ip, t>> \in validated
                            /\ clock < t + RunFor + Lifetime

\* An answer has every node of its user, and a node's addresses do not depend
\* on the entries of other nodes: what is valid for it is served, in order and
\* up to the limit.
ServesWhatIsValid ==
    \A r \in Requests, pool \in {kv, kvSeen} : request[r].at = "pool" =>
        LET table == request[r].nodes IN
        \A n \in DOMAIN table :
            LET addresses == Answer(table, pool)[n] IN
            IF /\ UseOptimizedIps /\ pool \notin {NoPool, Old}
               /\ n \in DOMAIN pool
               /\ pool[n].hostname.name = table[n].hostname.name
               /\ clock < pool[n].expiresAt
            THEN /\ IsPrefix(addresses, pool[n].ips)
                 /\ Len(addresses) <= SubIps
                 /\ Len(addresses) < SubIps => addresses = pool[n].ips
            ELSE addresses = <<>>

\* For one value of KV the overview, the nodes page and the subscriptions
\* agree on which nodes are reached by address: docs/P6.6-ALERT-CENTER.md:34.
\* Two kinds of node are outside: one whose hostname is not spelled in lower
\* case is served by address and shown as falling back, and one whose transport
\* path may not be used is shown as reached and in no subscription.
PagesAgree ==
    \A pool \in {kv, kvSeen}, n \in DOMAIN nodes :
      nodes[n].hostname.canonical /\ nodes[n].routed =>
        LET served == UseOptimizedIps /\ n \in Routed /\ n \in DOMAIN IpsByNode(pool, nodes, clock)
            alerts == PoolAlerts(pool, clock) IN
        /\ PanelShowsIps(n, pool, clock) <=> served
        /\ n \in Eligible => (served <=>
             alerts \cap {FallsBack(n), OfPool("subscription-disabled"),
                          OfPool("pool-unavailable")} = {})
        /\ OfPool("zero-coverage") \in alerts => ~served
        /\ served /\ pool[n].expiresAt <= clock + WarnAfter =>
             OfPool("pool-expiring") \in alerts

\* A subscription is served by address exactly where the value of KV that it
\* read has an unexpired entry for the hostname of the row that it read before
\* (index.ts:1751-1806), and by no address that was not measured for that name
\* (optimize-ip.sh:355-484), whatever its write, its readers and the nodes did
\* in between.
ServesExactlyWhatIsValid == PoolTypeOK /\ ServedWasValidated /\ ServesWhatIsValid
=============================================================================
