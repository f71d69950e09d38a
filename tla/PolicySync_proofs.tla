------------------------- MODULE PolicySync_proofs -------------------------
(***************************************************************************)
(* Proofs about PolicySync, for any finite set of changes, any number of   *)
(* requests, and all lengths of caches and fetches.  Inv says of every     *)
(* policy that is held somewhere, in the cache, by a fetch or by a served  *)
(* request, which changes it contains and how old it can be.               *)
(***************************************************************************)
EXTENDS PolicySync, FiniteSetTheorems, TLAPS

\* The changes whose write, and whose version, are in the database.
Committed == {c \in Changes : change[c].at # "idle"}
Advanced == {c \in Changes : change[c].at \notin {"idle", "advance"}}

ChangeState ==
  [at : {"idle", "advance", "read-back", "sent", "store", "done"},
   version : 0..version, seen : 0..version, put : BOOLEAN, deleted : BOOLEAN]

RequestState ==
  [at : {"idle", "cache", "fetch", "stale", "served"}, mark : 0..version,
   content : Versions \cup {None}, heldAt : 0..version,
   version : (0..version) \cup {None}, began : 0..clock,
   failed : BOOLEAN, policy : Policy \cup {None}, acked : 0..version]

\* The database's counters are the numbers of changes, and a later version
\* stands for no fewer of them.
TablesFit ==
  /\ clock \in 0..MaxClock
  /\ change \in [Changes -> ChangeState]
  /\ revision = Cardinality(Committed) /\ version = Cardinality(Advanced)
  /\ mark \in 0..version /\ acked \in 0..version
  /\ committedAt \in [Versions -> 0..clock]
  /\ floor \in [Versions -> 0..revision]
  /\ \A v, w \in 0..version : v <= w => floor[v] <= floor[w]

\* A revision read while the database held version v contains v's changes.
Reads(n, v) == n \in 0..revision /\ v \in 0..version /\ floor[v] <= n

Fine(p) == p \in Policy /\ Reads(p.revision, p.heldAt) /\ p.version <= version

\* Whatever the policy of revision n misses was committed no earlier than
\* what it is compared with.
MissesSince(n, t) == n < revision => t <= committedAt[n + 1]

CacheFits == cache # None =>
  /\ cache \in [policy : Policy, exp : Nat, gone : Nat]
  /\ Fine(cache.policy)
  /\ cache.exp <= clock + Ttl /\ cache.gone <= clock + KvLife
  /\ cache.policy.revision < revision =>
       LET since == committedAt[cache.policy.revision + 1] + FetchLimit
       IN  cache.exp <= since + Ttl /\ cache.gone <= since + KvLife

RequestFits(q) ==
  /\ q \in RequestState
  /\ q.at = "cache" => q.content = None
  /\ q.at = "fetch" => /\ clock <= q.began + FetchLimit
                       /\ q.content # None => /\ Reads(q.content, q.heldAt)
                                              /\ MissesSince(q.content, q.began)
  /\ q.at = "stale" => q.failed
  /\ q.at = "served" /\ q.policy # None =>
       /\ Fine(q.policy) /\ q.mark <= q.policy.version
       /\ q.policy.revision < revision =>
            clock <= committedAt[q.policy.revision + 1] + FetchLimit
                     + (IF q.failed THEN KvLife ELSE Ttl)

RequestsFit ==
  /\ request \in [Requests -> RequestState]
  /\ \A r \in Requests : RequestFits(request[r])

Inv == TablesFit /\ CacheFits /\ RequestsFit

----------------------------------------------------------------------------
LEMMA Limits ==
  /\ {Ttl, KvLife, FetchLimit, MaxClock} \subseteq Nat
  /\ 0 < Ttl /\ Ttl <= KvLife
  /\ Cardinality(Changes) \in Nat
  BY PolicyAssumption, FS_CardinalityType

\* Each counter is within the number of changes, and the version behind.
LEMMA Counters ==
  ASSUME TablesFit
  PROVE  /\ revision \in Nat /\ version \in Nat
         /\ version <= revision /\ revision <= Cardinality(Changes)
         /\ revision \in Versions /\ version \in Versions
         /\ 0..version \subseteq Versions /\ 0..revision \subseteq Versions
<1>1. Committed \in SUBSET Changes /\ Advanced \in SUBSET Committed
  BY DEF Committed, Advanced
<1>2. /\ IsFiniteSet(Committed) /\ revision <= Cardinality(Changes)
      /\ revision \in Nat
  BY <1>1, PolicyAssumption, FS_Subset, FS_CardinalityType DEF TablesFit
<1>3. version <= revision /\ version \in Nat
  BY <1>1, <1>2, FS_Subset, FS_CardinalityType DEF TablesFit
<1> QED BY <1>2, <1>3, Limits DEF Versions

\* A change that is not committed, or whose version is not advanced, leaves
\* room for one more.
LEMMA RoomForOne ==
  ASSUME TablesFit, NEW c \in Changes
  PROVE  /\ change[c].at = "idle" => revision + 1 \in Versions
         /\ change[c].at = "advance" => version < revision
<1>1. /\ Committed \in SUBSET Changes /\ IsFiniteSet(Committed)
      /\ Advanced \in SUBSET Committed /\ IsFiniteSet(Advanced)
  <2>1. Committed \in SUBSET Changes /\ Advanced \in SUBSET Changes
    BY DEF Committed, Advanced
  <2> QED BY <2>1, PolicyAssumption, FS_Subset DEF Committed, Advanced
<1>0. /\ revision = Cardinality(Committed) /\ version = Cardinality(Advanced)
      /\ revision \in Nat /\ version \in Nat
      /\ version <= revision /\ revision <= Cardinality(Changes)
  BY Counters DEF TablesFit
<1>2. ASSUME change[c].at = "idle" PROVE revision + 1 \in Versions
  <2>1. Committed # Changes
    BY <1>2 DEF Committed
  <2>2. Cardinality(Committed) # Cardinality(Changes)
    BY <2>1, <1>1, PolicyAssumption, FS_Subset
  <2> QED BY <2>2, <1>0, Limits DEF Versions
<1>3. ASSUME change[c].at = "advance" PROVE version < revision
  <2>1. Committed # Advanced
    BY <1>3 DEF Committed, Advanced
  <2>2. Cardinality(Committed) # Cardinality(Advanced)
    BY <2>1, <1>1, FS_Subset
  <2> QED BY <2>2, <1>0
<1> QED BY <1>2, <1>3

LEMMA InitFits == Init => Inv
<1> SUFFICES ASSUME Init PROVE Inv
  OBVIOUS
<1>1. Committed = {} /\ Advanced = {}
  BY DEF Init, Committed, Advanced, NewChange
<1>2. Cardinality(Committed) = 0 /\ Cardinality(Advanced) = 0
  BY <1>1, FS_EmptySet
<1>3. 0 \in Versions
  BY Limits DEF Versions
<1>4. TablesFit
  BY <1>2, <1>3, Limits DEF Init, TablesFit, ChangeState, NewChange
<1>5. CacheFits
  BY DEF Init, CacheFits
<1>6. RequestsFit
  <2>1. NewRequest \in RequestState
    BY <1>3 DEF Init, NewRequest, RequestState
  <2>2. RequestFits(NewRequest)
    BY <2>1 DEF RequestFits, NewRequest
  <2> QED BY <2>1, <2>2 DEF Init, RequestsFit
<1> QED BY <1>4, <1>5, <1>6 DEF Inv

\* A step of one request; what it reads may become the new cache.
LEMMA RequestMoves ==
  ASSUME Inv, NEW r \in Requests, NEW q, RequestFits(q),
         request' = [request EXCEPT ![r] = q],
         UNCHANGED <<clock, control, change, mark, acked>>,
         CacheFits'
  PROVE  Inv'
<1>1. TablesFit'
  BY DEF Inv, TablesFit, Committed, Advanced, ChangeState, control
<1>2. request' \in [Requests -> RequestState]
  BY DEF Inv, RequestsFit, RequestFits
<1>3. \A s \in Requests : RequestFits(request'[s])
  BY DEF Inv, RequestsFit
<1>4. RequestsFit'
  <2>1. \A s \in Requests : RequestFits(request[s])'
    BY <1>3 DEF RequestFits, RequestState, Fine, Reads, MissesSince, control
  <2> QED BY <1>2, <2>1 DEF RequestsFit, RequestState, control
<1> QED BY <1>1, <1>4 DEF Inv

\* The cache stays as it is while nothing it is compared with changes.
LEMMA CacheKept ==
  ASSUME CacheFits, UNCHANGED <<clock, control, cache>>
  PROVE  CacheFits'
  BY DEF CacheFits, Fine, Reads, control

LEMMA NewRequestFits ==
  ASSUME TablesFit
  PROVE  RequestFits(NewRequest) /\ NewRequest \in RequestState
<1>1. NewRequest \in RequestState
  BY Counters DEF NewRequest, RequestState, TablesFit
<1> QED BY <1>1 DEF RequestFits, NewRequest

\* What a request is served.
LEMMA Serves ==
  ASSUME Inv, NEW r \in Requests, NEW p,
         p = None \/ /\ Fine(p) /\ request[r].mark <= p.version
                     /\ p.revision < revision =>
                          clock <= committedAt[p.revision + 1] + FetchLimit
                                   + (IF request[r].failed THEN KvLife ELSE Ttl)
  PROVE  RequestFits([Settled(r) EXCEPT !.at = "served", !.policy = p])
<1> DEFINE q == [Settled(r) EXCEPT !.at = "served", !.policy = p]
<1>1. request[r] \in RequestState
  BY DEF Inv, RequestsFit
<1>2. q \in RequestState
  BY <1>1, NewRequestFits DEF Inv, Settled, RequestState, Fine
<1>3. /\ q.at = "served" /\ q.policy = p
      /\ q.mark = request[r].mark /\ q.failed = request[r].failed
  BY <1>1 DEF Settled, NewRequest, RequestState
<1> HIDE DEF q
<1>4. RequestFits(q)
  BY <1>2, <1>3 DEF RequestFits
<1> QED BY <1>4 DEF q

\* A served copy of the cache is as young as the entry's end says.
LEMMA ServesCache ==
  ASSUME Inv, NEW r \in Requests, Usable(r), clock < cache.exp \/ request[r].failed
  PROVE  RequestFits([Settled(r) EXCEPT !.at = "served", !.policy = cache.policy])
<1>1. /\ cache # None /\ clock < cache.gone
      /\ request[r].mark <= cache.policy.version
  <2>1. cache.policy.version >= request[r].mark
    BY DEF Usable
  <2>2. cache.policy.version \in Nat /\ request[r].mark \in Nat
    BY Counters, Limits DEF Inv, RequestsFit, RequestState, CacheFits, Usable, Cached,
       Policy, Versions, TablesFit
  <2> QED BY <2>1, <2>2 DEF Usable, Cached
<1>2. Fine(cache.policy)
  BY <1>1 DEF Inv, CacheFits
<1>3. ASSUME cache.policy.revision < revision
      PROVE  clock <= committedAt[cache.policy.revision + 1] + FetchLimit
                      + (IF request[r].failed THEN KvLife ELSE Ttl)
  <2> DEFINE since == committedAt[cache.policy.revision + 1] + FetchLimit
  <2>1. cache.exp <= since + Ttl /\ cache.gone <= since + KvLife
    BY <1>1, <1>3 DEF Inv, CacheFits
  <2>2. /\ clock \in Nat /\ cache.exp \in Nat /\ cache.gone \in Nat
        /\ committedAt[cache.policy.revision + 1] \in Nat
    <3>1. cache.policy.revision + 1 \in Versions
      BY <1>2, <1>3, Counters, Limits DEF Inv, Fine, Reads, Versions
    <3> QED BY <3>1, <1>1 DEF Inv, TablesFit, CacheFits
  <2>3. clock <= since + Ttl \/ (request[r].failed /\ clock <= since + KvLife)
    BY <1>1, <2>1, <2>2, Limits
  <2> QED BY <2>2, <2>3, Limits
<1> QED BY <1>2, <1>3, <1>1, Serves

LEMMA CacheReadingFits ==
  ASSUME Inv, NEW r \in Requests, UNCHANGED <<clock, control, change, node>>,
         \/ RequestReadsMark(r) \/ RequestTriesCache(r) \/ RequestTriesStale(r)
         \/ FetchFails(r) \/ RequestEnds(r)
  PROVE  Inv'
<1>0. /\ UNCHANGED <<clock, control, change, mark, acked>>
      /\ request[r] \in RequestState /\ RequestFits(request[r])
      /\ NewRequest \in RequestState /\ CacheFits'
  BY NewRequestFits, CacheKept DEF Inv, RequestsFit, node
<1>1. CASE RequestReadsMark(r)
  <2> PICK seen \in {mark} \cup (IF KvErrors THEN {0} ELSE {}) :
        request' = [request EXCEPT ![r] =
             [NewRequest EXCEPT !.at = "cache", !.mark = seen, !.acked = acked]]
    BY <1>1 DEF RequestReadsMark
  <2> DEFINE q == [NewRequest EXCEPT !.at = "cache", !.mark = seen, !.acked = acked]
  <2>1. seen \in 0..version /\ acked \in 0..version
    BY Counters DEF Inv, TablesFit
  <2>2. q \in RequestState /\ q.at = "cache" /\ q.content = None
    BY <1>0, <2>1 DEF NewRequest, RequestState
  <2> HIDE DEF q
  <2>3. RequestFits(q)
    BY <2>2 DEF RequestFits
  <2>4. request' = [request EXCEPT ![r] = q]
    BY DEF q
  <2> QED BY <1>0, <2>3, <2>4, RequestMoves
<1>2. CASE RequestTriesCache(r)
  <2>1. CASE Usable(r) /\ clock < cache.exp /\ Serve(r, cache.policy)
    <3> DEFINE q == [Settled(r) EXCEPT !.at = "served", !.policy = cache.policy]
    <3>1. RequestFits(q) /\ request' = [request EXCEPT ![r] = q]
      BY <2>1, ServesCache DEF Serve
    <3> HIDE DEF q
    <3> QED BY <1>0, <3>1, RequestMoves
  <2>2. CASE request' = [request EXCEPT ![r].at = "fetch", ![r].began = clock]
    <3> DEFINE q == [request[r] EXCEPT !.at = "fetch", !.began = clock]
    <3>1. request[r].at = "cache" /\ request[r].content = None
      BY <1>2, <1>0 DEF RequestTriesCache, RequestFits
    <3>2. /\ q \in RequestState /\ q.at = "fetch" /\ q.content = None
          /\ q.began = clock /\ clock \in Nat
      <4>1. clock \in 0..clock /\ clock \in Nat
        BY DEF Inv, TablesFit
      <4> QED BY <1>0, <3>1, <4>1 DEF RequestState
    <3>3. request' = [request EXCEPT ![r] = q]
      BY <2>2, <1>0 DEF Inv, RequestsFit
    <3> HIDE DEF q
    <3>4. RequestFits(q)
      BY <3>2, Limits DEF RequestFits
    <3> QED BY <1>0, <3>3, <3>4, RequestMoves
  <2> QED BY <1>2, <2>1, <2>2 DEF RequestTriesCache
<1>3. CASE RequestTriesStale(r)
  <2>1. CASE Usable(r) /\ Serve(r, cache.policy)
    <3> DEFINE q == [Settled(r) EXCEPT !.at = "served", !.policy = cache.policy]
    <3>1. request[r].failed
      BY <1>3, <1>0 DEF RequestTriesStale, RequestFits
    <3>2. RequestFits(q) /\ request' = [request EXCEPT ![r] = q]
      BY <2>1, <3>1, ServesCache DEF Serve
    <3> HIDE DEF q
    <3> QED BY <1>0, <3>2, RequestMoves
  <2>2. CASE Serve(r, None)
    <3> DEFINE q == [Settled(r) EXCEPT !.at = "served", !.policy = None]
    <3>1. RequestFits(q) /\ request' = [request EXCEPT ![r] = q]
      BY <2>2, Serves DEF Serve
    <3> HIDE DEF q
    <3> QED BY <1>0, <3>1, RequestMoves
  <2> QED BY <1>3, <2>1, <2>2 DEF RequestTriesStale
<1>4. CASE FetchFails(r)
  <2> DEFINE q == [Settled(r) EXCEPT !.at = "stale", !.failed = TRUE]
  <2>1. q \in RequestState /\ q.at = "stale" /\ q.failed
    BY <1>0 DEF Settled, RequestState
  <2>2. request' = [request EXCEPT ![r] = q]
    BY <1>4 DEF FetchFails
  <2> HIDE DEF q
  <2>3. RequestFits(q)
    BY <2>1 DEF RequestFits
  <2> QED BY <1>0, <2>2, <2>3, RequestMoves
<1>5. CASE RequestEnds(r)
  BY <1>0, <1>5, NewRequestFits, RequestMoves DEF RequestEnds, Inv
<1> QED BY <1>1, <1>2, <1>3, <1>4, <1>5

LEMMA FetchingFits ==
  ASSUME Inv, NEW r \in Requests, UNCHANGED <<clock, control, change, mark, acked>>,
         FetchReadsPolicy(r) \/ FetchReadsVersion(r) \/ FetchReturns(r)
  PROVE  Inv'
<1>0. request[r] \in RequestState /\ RequestFits(request[r]) /\ request[r].at = "fetch"
  BY DEF Inv, RequestsFit, FetchReadsPolicy, FetchReadsVersion, FetchReturns
<1>1. /\ clock \in Nat /\ request[r].began \in Nat /\ request[r].began <= clock
      /\ clock <= request[r].began + FetchLimit
      /\ version \in Nat /\ revision \in Nat /\ version <= revision
      /\ revision \in Versions
  BY <1>0, Counters DEF Inv, TablesFit, RequestFits, RequestState
<1>2. CASE FetchReadsPolicy(r)
  <2> DEFINE q == [request[r] EXCEPT !.content = revision, !.heldAt = version]
  <2>1. /\ q \in RequestState /\ q.at = "fetch" /\ q.content = revision
        /\ q.heldAt = version /\ q.began = request[r].began
    <3>1. version \in 0..version
      BY <1>1
    <3> QED BY <1>0, <1>1, <3>1 DEF RequestState
  <2>2. request' = [request EXCEPT ![r] = q]
    BY <1>2 DEF FetchReadsPolicy, Inv, RequestsFit
  <2>3. Reads(revision, version)
    BY <1>1, Counters DEF Reads, Inv, TablesFit
  <2> HIDE DEF q
  <2>4. RequestFits(q)
    BY <2>1, <2>3, <1>1 DEF RequestFits, MissesSince
  <2>5. CacheFits'
    BY <1>2, CacheKept DEF FetchReadsPolicy, Inv, node
  <2> QED BY <2>2, <2>4, <2>5, RequestMoves
<1>3. CASE FetchReadsVersion(r)
  <2> DEFINE q == [request[r] EXCEPT !.version = version]
  <2>1. /\ q \in RequestState /\ q.at = "fetch" /\ q.content = request[r].content
        /\ q.heldAt = request[r].heldAt /\ q.began = request[r].began
    BY <1>0, <1>1 DEF RequestState
  <2>2. request' = [request EXCEPT ![r] = q]
    BY <1>3 DEF FetchReadsVersion, Inv, RequestsFit
  <2> HIDE DEF q
  <2>4. RequestFits(q)
    BY <2>1, <1>0 DEF RequestFits
  <2>5. CacheFits'
    BY <1>3, CacheKept DEF FetchReadsVersion, Inv, node
  <2> QED BY <2>2, <2>4, <2>5, RequestMoves
<1>4. CASE FetchReturns(r)
  <2> PICK p : p = Answer(r)
    OBVIOUS
  <2>1. /\ p = [revision |-> request[r].content, version |-> request[r].version,
                heldAt |-> request[r].heldAt]
        /\ request[r].content # None /\ request[r].version # None
    BY <1>4 DEF FetchReturns, Answer
  <2>2. /\ request[r].content \in Versions /\ request[r].version \in 0..version
        /\ Reads(request[r].content, request[r].heldAt)
        /\ MissesSince(request[r].content, request[r].began)
    BY <2>1, <1>0 DEF RequestFits, RequestState
  <2>3. Fine(p) /\ MissesSince(p.revision, request[r].began) /\ p.version = request[r].version
    BY <2>1, <2>2, <1>1, Counters DEF Fine, Policy, Reads, Inv, Versions
  <2>4. ASSUME p.revision < revision
        PROVE  /\ committedAt[p.revision + 1] \in Nat
               /\ clock <= committedAt[p.revision + 1] + FetchLimit
    <3>1. p.revision + 1 \in Versions
      BY <2>3, <2>4, <1>1, Limits DEF Fine, Reads, Versions
    <3>2. committedAt[p.revision + 1] \in Nat
      BY <3>1 DEF Inv, TablesFit
    <3> QED BY <3>2, <2>3, <2>4, <1>1, Limits DEF MissesSince
  <2>5. CacheFits'
    <3>1. CASE UNCHANGED cache
      BY <3>1, CacheKept DEF Inv
    <3>2. CASE cache' = [policy |-> p, exp |-> clock + Ttl, gone |-> clock + KvLife]
      <4>1. /\ cache'.policy = p /\ cache'.exp = clock + Ttl /\ cache'.gone = clock + KvLife
            /\ cache' \in [policy : Policy, exp : Nat, gone : Nat]
        BY <3>2, <2>3, <1>1, Limits DEF Fine
      <4>2. Fine(p)'
        BY <2>3 DEF Fine, Reads, control
      <4> QED BY <4>1, <4>2, <2>4, <1>1, Limits DEF CacheFits, control
    <3> QED BY <1>4, <3>1, <3>2 DEF FetchReturns
  <2>6. PICK o : request' = [request EXCEPT ![r] =
                   [Settled(r) EXCEPT !.at = "served", !.policy = o]]
               /\ \/ o = None
                  \/ o = p /\ request[r].mark <= p.version
    <3>1. CASE request[r].version < request[r].mark
      BY <1>4, <3>1 DEF FetchReturns, Serve
    <3>2. CASE ~(request[r].version < request[r].mark)
      <4>1. request[r].mark <= p.version
        BY <3>2, <2>2, <2>3, <1>0, <1>1 DEF RequestState
      <4> QED BY <1>4, <3>2, <4>1 DEF FetchReturns, Serve
    <3> QED BY <3>1, <3>2
  <2> DEFINE q == [Settled(r) EXCEPT !.at = "served", !.policy = o]
  <2>7. RequestFits(q)
    <3>1. p.revision < revision =>
            clock <= committedAt[p.revision + 1] + FetchLimit
                     + (IF request[r].failed THEN KvLife ELSE Ttl)
      BY <2>4, <1>1, Limits
    <3> QED BY <3>1, <2>3, <2>6, Serves
  <2>8. request' = [request EXCEPT ![r] = q]
    BY <2>6
  <2> HIDE DEF q
  <2> QED BY <2>5, <2>7, <2>8, RequestMoves
<1> QED BY <1>2, <1>3, <1>4

\* The handler of a change or of its notice goes on, past the advance.
LEMMA ChangeMoves ==
  ASSUME Inv, NEW c \in Changes, NEW i, i \in ChangeState,
         change[c].at \notin {"idle", "advance"}, i.at \notin {"idle", "advance"},
         change' = [change EXCEPT ![c] = i],
         UNCHANGED <<clock, control, request>>,
         mark' \in 0..version, acked' \in 0..version,
         cache' = None \/ cache' = cache
  PROVE  Inv'
<1>1. change' \in [Changes -> ChangeState]
  BY DEF Inv, TablesFit
<1>2. Committed' = Committed /\ Advanced' = Advanced
  <2>1. \A d \in Changes : d # c => change'[d] = change[d]
    BY DEF Inv, TablesFit
  <2>2. change'[c] = i
    BY DEF Inv, TablesFit
  <2>3. \A d \in Changes :
          /\ change'[d].at # "idle" <=> change[d].at # "idle"
          /\ change'[d].at \notin {"idle", "advance"} <=>
               change[d].at \notin {"idle", "advance"}
    BY <2>1, <2>2
  <2> QED BY <2>3 DEF Committed, Advanced
<1>3. TablesFit'
  BY <1>1, <1>2 DEF Inv, TablesFit, ChangeState, control
<1>4. CacheFits'
  BY CacheKept DEF Inv, CacheFits
<1>5. RequestsFit'
  BY DEF Inv, RequestsFit, RequestFits, RequestState, Fine, Reads, MissesSince, control
<1> QED BY <1>3, <1>4, <1>5 DEF Inv

LEMMA NoticeFits ==
  ASSUME Inv, NEW c \in Changes, ChangeReadsBack(c) \/ Invalidate(c)
  PROVE  Inv'
<1>0. /\ change[c] \in ChangeState /\ change \in [Changes -> ChangeState]
      /\ mark \in 0..version /\ acked \in 0..version
      /\ version \in 0..version /\ 0 \in 0..version
  BY Counters DEF Inv, TablesFit
<1>1. CASE ChangeReadsBack(c)
  <2> DEFINE i == [change[c] EXCEPT !.at = "sent", !.version = version]
  <2>1. i \in ChangeState /\ i.at = "sent" /\ change' = [change EXCEPT ![c] = i]
    BY <1>0, <1>1 DEF ChangeState, ChangeReadsBack
  <2> HIDE DEF i
  <2> QED BY <1>0, <1>1, <2>1, ChangeMoves DEF ChangeReadsBack, node
<1>2. CASE InvalidationReads(c)
  <2> PICK seen \in {mark} \cup (IF KvErrors THEN {0} ELSE {}) :
        change' = [change EXCEPT ![c].at = "store", ![c].seen = seen]
    BY <1>2 DEF InvalidationReads
  <2> DEFINE i == [change[c] EXCEPT !.at = "store", !.seen = seen]
  <2>0. seen \in 0..version
    BY <1>0
  <2>1. i \in ChangeState /\ i.at = "store" /\ change' = [change EXCEPT ![c] = i]
    BY <1>0, <2>0 DEF ChangeState
  <2> HIDE DEF i
  <2> QED BY <1>0, <1>2, <2>1, ChangeMoves DEF InvalidationReads, node
<1>3. CASE InvalidationPuts(c)
  <2> DEFINE i == [change[c] EXCEPT !.put = TRUE]
  <2>1. i \in ChangeState /\ i.at = "store" /\ change' = [change EXCEPT ![c] = i]
    BY <1>0, <1>3 DEF ChangeState, InvalidationPuts
  <2>2. mark' \in 0..version
    BY <1>0, <1>3 DEF ChangeState, InvalidationPuts, Larger
  <2> HIDE DEF i
  <2> QED BY <1>0, <1>3, <2>1, <2>2, ChangeMoves DEF InvalidationPuts
<1>4. CASE InvalidationDeletes(c)
  <2> DEFINE i == [change[c] EXCEPT !.deleted = TRUE]
  <2>1. i \in ChangeState /\ i.at = "store" /\ change' = [change EXCEPT ![c] = i]
    BY <1>0, <1>4 DEF ChangeState, InvalidationDeletes
  <2> HIDE DEF i
  <2> QED BY <1>0, <1>4, <2>1, ChangeMoves DEF InvalidationDeletes
<1>5. CASE InvalidationAnswers(c)
  <2> DEFINE i == [NewChange EXCEPT !.at = "done"]
  <2>1. i \in ChangeState /\ i.at = "done" /\ change' = [change EXCEPT ![c] = i]
    BY <1>0, <1>5 DEF ChangeState, NewChange, InvalidationAnswers
  <2>2. acked' \in 0..version
    BY <1>0, <1>5 DEF ChangeState, InvalidationAnswers, Larger
  <2> HIDE DEF i
  <2> QED BY <1>0, <1>5, <2>1, <2>2, ChangeMoves DEF InvalidationAnswers
<1> QED BY <1>1, <1>2, <1>3, <1>4, <1>5 DEF Invalidate

\* The handler's own write: one more revision, which nothing held so far
\* contains.
LEMMA CommitFits ==
  ASSUME Inv, NEW c \in Changes, ChangeCommits(c)
  PROVE  Inv'
<1>0. /\ change[c].at = "idle" /\ revision' = revision + 1
      /\ committedAt' = [committedAt EXCEPT ![revision + 1] = clock]
      /\ change' = [change EXCEPT ![c].at = "advance"]
      /\ UNCHANGED <<clock, version, floor, mark, cache, acked, request>>
  BY DEF ChangeCommits, node
<1>1. /\ revision + 1 \in Versions /\ clock \in Nat /\ revision \in Nat
      /\ version \in Nat /\ version <= revision
      /\ committedAt \in [Versions -> 0..clock] /\ change \in [Changes -> ChangeState]
      /\ committedAt' \in [Versions -> 0..clock]
  BY <1>0, RoomForOne, Counters DEF Inv, TablesFit
<1>2. change' \in [Changes -> ChangeState] /\ change'[c].at = "advance"
  <2> DEFINE i == [change[c] EXCEPT !.at = "advance"]
  <2>1. i \in ChangeState /\ i.at = "advance"
    BY <1>1 DEF ChangeState
  <2>2. change' = [change EXCEPT ![c] = i]
    BY <1>0
  <2> HIDE DEF i
  <2> QED BY <1>1, <2>1, <2>2
<1>3. Committed' = Committed \cup {c} /\ c \notin Committed /\ Advanced' = Advanced
  <2>1. \A d \in Changes : d # c => change'[d] = change[d]
    BY <1>0, <1>1
  <2> QED BY <2>1, <1>0, <1>2 DEF Committed, Advanced
<1>4. revision' = Cardinality(Committed')
  <2>1. IsFiniteSet(Committed)
    BY PolicyAssumption, FS_Subset DEF Committed
  <2> QED BY <1>0, <1>3, <2>1, FS_AddElement DEF Inv, TablesFit
<1>5. TablesFit'
  <2>1. floor \in [Versions -> 0..(revision + 1)]
    BY <1>1 DEF Inv, TablesFit
  <2> QED BY <1>0, <1>1, <1>2, <1>3, <1>4, <2>1 DEF Inv, TablesFit, ChangeState
\* Nothing that is held has the new revision.
<1>6. /\ \A n, v : Reads(n, v) => Reads(n, v)'
      /\ \A n \in 0..revision : n < revision' =>
           /\ committedAt'[n + 1] \in Nat
           /\ n < revision => committedAt'[n + 1] = committedAt[n + 1]
           /\ n = revision => committedAt'[n + 1] = clock
  <2>1. \A n, v : Reads(n, v) => Reads(n, v)'
    BY <1>0, <1>1 DEF Reads
  <2>2. \A n \in 0..revision : n + 1 \in Versions
    BY <1>1, Counters, Limits, SMTT(30) DEF Inv, Versions
  <2> QED BY <1>0, <1>1, <2>1, <2>2
<1>7. CacheFits'
  <2> SUFFICES ASSUME cache # None PROVE CacheFits'
    BY <1>0 DEF CacheFits
  <2> DEFINE n == cache.policy.revision
  <2>1. /\ cache \in [policy : Policy, exp : Nat, gone : Nat] /\ Fine(cache.policy)
        /\ cache.exp <= clock + Ttl /\ cache.gone <= clock + KvLife /\ n \in 0..revision
    BY DEF Inv, CacheFits, Fine, Reads
  <2>2. ASSUME n < revision'
        PROVE  /\ cache.exp <= committedAt'[n + 1] + FetchLimit + Ttl
               /\ cache.gone <= committedAt'[n + 1] + FetchLimit + KvLife
    <3>1. CASE n = revision
      BY <3>1, <2>1, <2>2, <1>1, <1>6, Limits
    <3>2. CASE n < revision
      BY <3>2, <2>1, <2>2, <1>6 DEF Inv, CacheFits
    <3> QED BY <3>1, <3>2, <2>1, <1>1
  <2>3. Fine(cache.policy)'
    BY <2>1, <1>0, <1>6 DEF Fine
  <2> QED BY <2>1, <2>2, <2>3, <1>0 DEF CacheFits
<1>8. RequestsFit'
  <2>1. ASSUME NEW r \in Requests PROVE RequestFits(request[r])'
    <3>0. RequestFits(request[r]) /\ request[r] \in RequestState
      BY DEF Inv, RequestsFit
    <3>1. (request[r] \in RequestState)'
      BY <3>0, <1>0 DEF RequestState
    <3>2. ASSUME request[r].at = "fetch", request[r].content # None
          PROVE  MissesSince(request[r].content, request[r].began)'
      BY <3>0, <3>2, <1>0, <1>1, <1>6 DEF RequestFits, MissesSince, Reads, RequestState
    <3>3. ASSUME request[r].at = "served", request[r].policy # None
          PROVE  /\ Fine(request[r].policy)'
                 /\ request[r].policy.revision < revision' =>
                      clock <= committedAt'[request[r].policy.revision + 1] + FetchLimit
                               + (IF request[r].failed THEN KvLife ELSE Ttl)
      <4> DEFINE n == request[r].policy.revision
      <4>1. Fine(request[r].policy) /\ n \in 0..revision
        BY <3>0, <3>3 DEF RequestFits, Fine, Reads
      <4>2. CASE n = revision
        BY <4>1, <4>2, <1>0, <1>1, <1>6, Limits DEF Fine
      <4>3. CASE n < revision
        BY <4>1, <4>3, <3>0, <3>3, <1>0, <1>1, <1>6 DEF RequestFits, Fine
      <4> QED BY <4>1, <4>2, <4>3, <1>1
    <3> QED BY <3>0, <3>1, <3>2, <3>3, <1>0, <1>6 DEF RequestFits
  <2> QED BY <2>1, <1>0 DEF Inv, RequestsFit, RequestState
<1> QED BY <1>5, <1>7, <1>8 DEF Inv

\* A version of its own for what is committed by now.
LEMMA AdvanceFits ==
  ASSUME Inv, NEW c \in Changes, ChangeAdvances(c)
  PROVE  Inv'
<1>0. /\ change[c].at = "advance" /\ version' = version + 1
      /\ floor' = [floor EXCEPT ![version + 1] = revision]
      /\ change' = [change EXCEPT ![c].at = "read-back"]
      /\ UNCHANGED <<clock, revision, committedAt, mark, cache, acked, request>>
  BY DEF ChangeAdvances, node
<1>1. /\ version < revision /\ version + 1 \in Versions /\ clock \in Nat
      /\ revision \in Nat /\ version \in Nat
      /\ floor \in [Versions -> 0..revision] /\ change \in [Changes -> ChangeState]
      /\ 0..version \subseteq Versions
  <2>1. TablesFit
    BY DEF Inv
  <2>2. /\ revision \in Nat /\ version \in Nat /\ revision <= Cardinality(Changes)
        /\ 0..version \subseteq Versions /\ version < revision
    BY <2>1, <1>0, RoomForOne, Counters
  <2>3. version + 1 \in Versions
    BY <2>2, Limits DEF Versions
  <2> QED BY <2>1, <2>2, <2>3 DEF TablesFit
<1>2. /\ floor' \in [Versions -> 0..revision] /\ floor'[version + 1] = revision
      /\ \A v \in 0..version : floor'[v] = floor[v]
  BY <1>0, <1>1
<1>3. change' \in [Changes -> ChangeState'] /\ change'[c].at = "read-back"
  <2> DEFINE i == [change[c] EXCEPT !.at = "read-back"]
  <2>1. i \in ChangeState /\ i.at = "read-back"
    BY <1>1 DEF ChangeState
  <2>2. change' = [change EXCEPT ![c] = i]
    BY <1>0
  <2> HIDE DEF i
  <2>3. 0..version \subseteq 0..version'
    BY <1>0, <1>1
  <2>4. ChangeState \subseteq ChangeState'
    BY <2>3 DEF ChangeState
  <2> QED BY <1>1, <2>1, <2>2, <2>4
<1>4. Advanced' = Advanced \cup {c} /\ c \notin Advanced /\ Committed' = Committed
  <2>1. \A d \in Changes : d # c => change'[d] = change[d]
    BY <1>0, <1>1
  <2> QED BY <2>1, <1>0, <1>3 DEF Committed, Advanced
<1>5. version' = Cardinality(Advanced')
  <2>1. IsFiniteSet(Advanced)
    BY PolicyAssumption, FS_Subset DEF Advanced
  <2> QED BY <1>0, <1>4, <2>1, FS_AddElement DEF Inv, TablesFit
<1>6. TablesFit'
  <2>1. \A v, w \in 0..version' : v <= w => floor'[v] <= floor'[w]
    <3> SUFFICES ASSUME NEW v \in 0..version', NEW w \in 0..version', v <= w
                 PROVE  floor'[v] <= floor'[w]
      OBVIOUS
    <3>1. CASE w = version + 1
      <4>1. floor'[v] \in 0..revision
        BY <1>0, <1>1, <1>2 DEF Versions
      <4> QED BY <3>1, <4>1, <1>2
    <3>2. CASE w # version + 1
      <4>1. v \in 0..version /\ w \in 0..version
        BY <3>2, <1>0, <1>1
      <4> QED BY <4>1, <1>2 DEF Inv, TablesFit
    <3> QED BY <3>1, <3>2
  <2>2. mark' \in 0..version' /\ acked' \in 0..version'
    BY <1>0, <1>1 DEF Inv, TablesFit
  <2> QED BY <1>0, <1>2, <1>3, <1>4, <1>5, <2>1, <2>2 DEF Inv, TablesFit
<1>7. \A n, v : Reads(n, v) => Reads(n, v)'
  BY <1>0, <1>1, <1>2 DEF Reads
<1>8. \A p : Fine(p) => Fine(p)'
  <2>1. \A p \in Policy : p.version <= version => p.version <= version'
    BY <1>0, <1>1, Limits DEF Policy, Versions
  <2> QED BY <1>7, <2>1 DEF Fine
<1>9. CacheFits'
  BY <1>0, <1>8 DEF Inv, CacheFits
<1>10. RequestsFit'
  <2>1. RequestState \subseteq RequestState'
    <3>1. 0..version \subseteq 0..version'
      BY <1>0, <1>1
    <3> QED BY <3>1, <1>0 DEF RequestState
  <2>2. ASSUME NEW r \in Requests PROVE RequestFits(request[r])'
    <3>1. RequestFits(request[r]) /\ request[r] \in RequestState'
      BY <2>1 DEF Inv, RequestsFit
    <3> QED BY <3>1, <1>0, <1>7, <1>8 DEF RequestFits, MissesSince
  <2> QED BY <2>1, <2>2, <1>0 DEF Inv, RequestsFit
<1> QED BY <1>6, <1>9, <1>10 DEF Inv

LEMMA TickFits == ASSUME Inv, Tick PROVE Inv'
<1>0. /\ clock < MaxClock /\ clock' = clock + 1
      /\ \A r \in Requests : /\ request[r].at \in {"idle", "fetch"}
                             /\ request[r].at = "fetch" =>
                                  clock < request[r].began + FetchLimit
      /\ UNCHANGED <<revision, version, committedAt, floor, change, mark, cache, acked, request>>
  BY DEF Tick, control, node
<1>1. clock \in Nat /\ clock' \in 0..MaxClock /\ 0..clock \subseteq 0..clock'
  BY <1>0, Limits DEF Inv, TablesFit
<1>2. TablesFit'
  <2>1. committedAt \in [Versions -> 0..clock']
    BY <1>1 DEF Inv, TablesFit
  <2> QED BY <1>0, <1>1, <2>1 DEF Inv, TablesFit, Committed, Advanced, ChangeState
<1>3. CacheFits'
  <2> SUFFICES ASSUME cache # None PROVE CacheFits'
    BY <1>0 DEF CacheFits
  <2>1. cache.exp <= clock' + Ttl /\ cache.gone <= clock' + KvLife
    BY <1>0, <1>1, Limits DEF Inv, CacheFits
  <2> QED BY <2>1, <1>0 DEF Inv, CacheFits, Fine, Reads
<1>4. RequestsFit'
  <2>1. RequestState \subseteq RequestState'
    BY <1>0, <1>1 DEF RequestState
  <2>2. ASSUME NEW r \in Requests PROVE RequestFits(request[r])'
    <3>1. RequestFits(request[r]) /\ request[r] \in RequestState' /\ request[r] \in RequestState
      BY <2>1 DEF Inv, RequestsFit
    <3>2. request[r].at = "fetch" => clock' <= request[r].began + FetchLimit
      BY <3>1, <1>0, <1>1, Limits DEF RequestState
    <3> QED BY <3>1, <3>2, <1>0 DEF RequestFits, MissesSince, Reads
  <2> QED BY <2>1, <2>2, <1>0 DEF Inv, RequestsFit
<1> QED BY <1>2, <1>3, <1>4 DEF Inv

LEMMA NextFits == Inv /\ [Next]_vars => Inv'
<1> SUFFICES ASSUME Inv, [Next]_vars PROVE Inv'
  OBVIOUS
<1>1. ASSUME NEW c \in Changes, Publish(c) \/ Invalidate(c) PROVE Inv'
  BY <1>1, CommitFits, AdvanceFits, NoticeFits DEF Publish
<1>2. ASSUME NEW r \in Requests, GetActiveState(r) PROVE Inv'
  <2>1. CASE FetchReadsPolicy(r) \/ FetchReadsVersion(r) \/ FetchReturns(r)
    BY <2>1, FetchingFits DEF FetchReadsPolicy, FetchReadsVersion, FetchReturns, node
  <2>2. CASE \/ RequestReadsMark(r) \/ RequestTriesCache(r) \/ RequestTriesStale(r)
             \/ FetchFails(r) \/ RequestEnds(r)
    BY <2>2, CacheReadingFits DEF RequestReadsMark, RequestTriesCache, RequestTriesStale,
                                  FetchFails, RequestEnds
  <2> QED BY <1>2, <2>1, <2>2 DEF GetActiveState
<1>3. CASE UNCHANGED vars
  <2>1. CacheFits'
    BY <1>3, CacheKept DEF Inv, vars, control
  <2> QED BY <1>3, <2>1 DEF vars, Inv, TablesFit, Committed, Advanced, ChangeState,
        RequestsFit, RequestFits, RequestState, Fine, Reads, MissesSince
<1> QED BY <1>1, <1>2, <1>3, TickFits DEF Next

LEMMA InvHolds == Spec => []Inv
<1> QED BY InitFits, NextFits, PTL DEF Spec

\* Shapes of the tables, the cache and the requests; versions and marks are
\* never ahead of what is committed (publishEdgePolicyChange).
THEOREM TypeCorrect == Spec => []TypeOK
<1>1. Inv => TypeOK
  <2> SUFFICES ASSUME Inv PROVE TypeOK
    OBVIOUS
  <2>1. cache \in {None} \cup [policy : Policy, exp : Nat, gone : Nat]
    BY DEF Inv, CacheFits
  <2> QED BY <2>1, Counters DEF Inv, TablesFit, RequestsFit, ChangeState, RequestState, TypeOK
<1> QED BY <1>1, InvHolds, PTL

\* Whatever late cache fills and notices interleave, a request that saw the
\* mark of an invalidation is not served a policy from before that change, if
\* the answer was not torn (OPUS8_getActiveState compares the versions).
THEOREM InvalidatedNotServed == Spec => []InvalidatedStaysOut
<1>1. Inv => InvalidatedStaysOut
  <2> SUFFICES ASSUME Inv, NEW r \in Requests, Served(r), Warned(r), Untorn(request[r].policy)
               PROVE  Covers(request[r].policy, request[r].acked)
    BY DEF InvalidatedStaysOut
  <2> DEFINE p == request[r].policy
             a == request[r].acked
  <2>1. /\ RequestFits(request[r]) /\ request[r] \in RequestState
        /\ Fine(p) /\ request[r].mark <= p.version
    BY DEF Inv, RequestsFit, RequestFits, Served
  <2>2. version \in Nat /\ revision \in Nat /\ 0..version \subseteq Versions
    BY Counters DEF Inv
  <2>3. /\ p.version \in Nat /\ p.heldAt \in 0..version /\ a \in 0..version
        /\ request[r].mark \in Nat
    BY <2>1, <2>2 DEF Fine, Reads, Policy, Versions, RequestState
  <2>4. a <= p.heldAt
    BY <2>1, <2>2, <2>3 DEF Warned, Untorn
  <2>5. floor[a] <= floor[p.heldAt]
    BY <2>3, <2>4 DEF Inv, TablesFit
  <2>6. floor[a] \in Nat /\ floor[p.heldAt] \in Nat /\ p.revision \in Nat
        /\ floor[p.heldAt] <= p.revision
    BY <2>1, <2>2, <2>3 DEF Inv, TablesFit, Fine, Reads
  <2> QED BY <2>5, <2>6 DEF Covers
<1> QED BY <1>1, InvHolds, PTL

\* Even if every notice is lost, a served policy misses a committed change for
\* no longer than a cached policy lives and a fetch takes (expirationTtl).
THEOREM StalenessBounded == Spec => []StalenessIsBounded
<1>1. Inv => StalenessIsBounded
  BY DEF Inv, RequestsFit, RequestFits, Served, StalenessIsBounded
<1> QED BY <1>1, InvHolds, PTL
============================================================================
