------------------------ MODULE LandingsAndPool_proofs ------------------------
(***************************************************************************)
(* Proofs about LandingKeys and about OptimizedIps, for every value of     *)
(* their constants: stored connections stay readable through a rotation of *)
(* the key that seals them, and subscriptions serve exactly what the pool  *)
(* of validated addresses holds for the nodes as they are.                 *)
(***************************************************************************)
EXTENDS LandingKeys, OptimizedIps, TLAPS

(***************************************************************************)
(* LandingKeys, for any landings, connections and handlers.                *)
(* LandingInvariant is preserved by every step; the properties follow.     *)
(***************************************************************************)

Early == {"before", "fallback"}
Settled == {"deployed", "confirmed", "retired"}

\* What LandingInvariant says of one request.
RequestFits(r) ==
  /\ r.pc = "migrate" =>
       /\ r.env.current = "new"
       /\ \A change \in r.todo :
            /\ change.from.secret = change.to.secret
            /\ change.from.key = "old" /\ change.to.key = "new"
  /\ stage \in Early /\ r # Idle => r.env.current = "old"
  /\ stage \in Early /\ r.pc = "read" => r.row.credential.key = "old"
  /\ stage \in Settled /\ r # Idle => r.env.current = "new"
  /\ r.pc = "checked" /\ r.fresh /\ ~provisioningAllowed =>
       rows[r.id] # None /\ ~Expands(rows[r.id], r.input)
  /\ r.pc = "read" /\ r.fresh =>
       /\ rows[r.id] # None
       /\ r.row.credential.key \in {rows[r.id].credential.key, r.env.current}
       /\ ~provisioningAllowed => Contained(rows[r.id], r.row)
  /\ ~provisioningAllowed =>
       /\ r.pc # "create"
       /\ r.pc = "read" /\ r.row.enabled => r.id \in enabledAtStart
       /\ r.pc = "checked" /\ r.input.enabled = TRUE => r.id \in enabledAtStart

\* What it says of the table.
RowsFit ==
  /\ stage \in Early => \A l \in Present : rows[l].credential.key = "old"
  /\ stage \in {"confirmed", "retired"} /\ ~raced =>
       \A l \in Present : rows[l].credential.key = "new"
  /\ ~provisioningAllowed =>
       \A l \in Present : rows[l].enabled => l \in enabledAtStart

Stages == {"before", "fallback", "rotated", "deployed", "confirmed", "retired"}

\* LandingInvariant, sorted by what the actions change.
Sorted ==
  /\ rows \in [Landings -> Row \union {None}]
  /\ stage \in Stages
  /\ {provisioningAllowed, raced} \subseteq BOOLEAN
  /\ enabledAtStart \subseteq Landings
  /\ handler \in [Handlers -> Request \union {Idle}]
  /\ bindings = BindingsAt[stage]
  /\ RowsFit
  /\ \A h \in Handlers : RequestFits(handler[h])

\* The bindings of each stage, spelled out.
LEMMA BindingsByStage ==
  ASSUME stage \in Stages, bindings = BindingsAt[stage]
  PROVE  /\ bindings \in Bindings
         /\ stage \in Early => bindings.current = "old"
         /\ stage \in Stages \ Early => bindings.current = "new"
         /\ stage # "retired" => \A c : c.key \in {"old", "new"} =>
              (stage \in Early /\ c.key = "new") \/ Opens(bindings, c)
         /\ stage \in Early => bindings.previous \in {None, "old"}
  BY DEF Stages, BindingsAt, Bindings, Early, Opens

LEMMA SortedIsInvariant == LandingInvariant <=> Sorted
  <1>1. ASSUME LandingInvariant PROVE Sorted
    <2>1. /\ stage \in Stages /\ bindings = BindingsAt[stage]
          /\ rows \in [Landings -> Row \union {None}]
          /\ {provisioningAllowed, raced} \subseteq BOOLEAN
          /\ enabledAtStart \subseteq Landings
          /\ handler \in [Handlers -> Request \union {Idle}]
      BY <1>1 DEF LandingInvariant, TypeOK, StageFits, Stages
    <2>2. RowsFit
      BY <1>1, <2>1, BindingsByStage
         DEF LandingInvariant, StageFits, LockFits, RowsFit, AllCurrent, Early, Stages
    <2>3. \A h \in Handlers : RequestFits(handler[h])
      BY <1>1 DEF LandingInvariant, TypeOK, StageFits, LockFits, FreshFits, RequestFits,
                  Early, Settled
    <2> QED BY <2>1, <2>2, <2>3 DEF Sorted
  <1>2. ASSUME Sorted PROVE LandingInvariant
    <2>1. TypeOK
      BY <1>2, BindingsByStage DEF Sorted, TypeOK, RequestFits, Stages
    <2>2. StageFits
      BY <1>2, BindingsByStage
         DEF Sorted, StageFits, RowsFit, RequestFits, AllCurrent, Early, Settled, Stages
    <2>3. FreshFits
      BY <1>2 DEF Sorted, FreshFits, RequestFits
    <2>4. LockFits
      BY <1>2 DEF Sorted, RowsFit, RequestFits, LockFits
    <2> QED BY <2>1, <2>2, <2>3, <2>4 DEF LandingInvariant
  <1> QED BY <1>1, <1>2

LEMMA InitSorted == Init => Sorted
  <1> SUFFICES ASSUME Init PROVE Sorted OBVIOUS
  <1>1. rows \in [Landings -> Row \union {None}]
    BY DEF Init, Row, Credential
  <1>2. \A l \in Present : rows[l].credential.key = "old"
    BY DEF Init, Present
  <1>3. /\ stage \in Stages /\ bindings = BindingsAt[stage]
        /\ {provisioningAllowed, raced} \subseteq BOOLEAN
        /\ enabledAtStart \subseteq Landings
    BY DEF Init, Stages, BindingsAt, Present
  <1>4. handler \in [Handlers -> Request \union {Idle}]
    BY DEF Init
  <1>5. \A h \in Handlers : RequestFits(handler[h])
    BY DEF Init, RequestFits, Idle
  <1> QED BY <1>1, <1>2, <1>3, <1>4, <1>5 DEF Sorted, RowsFit, Init

-----------------------------------------------------------------------------
(* Two kinds of steps: one request moves on, or the table is written.      *)

\* A request still fits when the row it is about is untouched.
LEMMA StillFits ==
  ASSUME NEW r, RequestFits(r), UNCHANGED <<stage, provisioningAllowed, enabledAtStart>>,
         r.pc \in {"checked", "read"} => rows'[r.id] = rows[r.id]
  PROVE  RequestFits(r)'
  <1>1. CASE r.pc \in {"checked", "read"}
    <2>1. PICK row : row = rows[r.id] /\ row = rows'[r.id] BY <1>1
    <2>2. /\ r.pc = "checked" /\ r.fresh /\ ~provisioningAllowed =>
               row # None /\ ~Expands(row, r.input)
          /\ r.pc = "read" /\ r.fresh =>
               /\ row # None
               /\ r.row.credential.key \in {row.credential.key, r.env.current}
               /\ ~provisioningAllowed => Contained(row, r.row)
      BY <2>1 DEF RequestFits
    <2>3. /\ r.pc = "checked" /\ r.fresh /\ ~provisioningAllowed' =>
               rows'[r.id] # None /\ ~Expands(rows'[r.id], r.input)
          /\ r.pc = "read" /\ r.fresh =>
               /\ rows'[r.id] # None
               /\ r.row.credential.key \in {rows'[r.id].credential.key, r.env.current}
               /\ ~provisioningAllowed' => Contained(rows'[r.id], r.row)
      BY <2>1, <2>2
    <2> QED BY <1>1, <2>3 DEF RequestFits
  <1>2. CASE r.pc \notin {"checked", "read"}
    BY <1>2 DEF RequestFits
  <1> QED BY <1>1, <1>2

LEMMA RequestMoves ==
  ASSUME Sorted, NEW h \in Handlers, NEW r \in Request \union {Idle}, RequestFits(r),
         handler' = [handler EXCEPT ![h] = r],
         UNCHANGED <<rows, bindings, stage, provisioningAllowed, enabledAtStart, raced>>
  PROVE  Sorted'
  <1>1. \A g \in Handlers : RequestFits(handler'[g])
    BY DEF Sorted
  <1>2. \A g \in Handlers : RequestFits(handler[g])'
    <2> SUFFICES ASSUME NEW g \in Handlers PROVE RequestFits(handler[g])' OBVIOUS
    <2>1. PICK q : q = handler'[g] /\ RequestFits(q) BY <1>1
    <2>2. RequestFits(q)' BY <2>1, StillFits
    <2> QED BY <2>1, <2>2 DEF RequestFits
  <1>3. RowsFit'
    BY DEF Sorted, RowsFit, Present
  <1> QED BY <1>2, <1>3 DEF Sorted

LEMMA TableWritten ==
  ASSUME Sorted, NEW h \in Handlers, NEW r \in Request \union {Idle}, RequestFits(r)',
         NEW after \in [Landings -> Row \union {None}],
         Store(h, after, r),
         UNCHANGED <<bindings, stage, provisioningAllowed, enabledAtStart>>, raced' \in BOOLEAN,
         RowsFit'
  PROVE  Sorted'
  <1>1. rows' = after BY DEF Store
  <1>2. ASSUME NEW g \in Handlers
        PROVE  handler'[g] \in Request \union {Idle} /\ RequestFits(handler[g])'
    <2>1. CASE g = h
      BY <2>1 DEF Store
    <2>2. CASE /\ g # h
               /\ handler[g].pc \in {"checked", "read"}
               /\ after[handler[g].id] # rows[handler[g].id]
      <3>1. handler'[g] = [handler[g] EXCEPT !.fresh = FALSE]
        BY <2>2 DEF Store
      <3>2. handler[g] \in Request /\ RequestFits(handler[g]) /\ handler[g] # Idle
        BY <2>2 DEF Sorted, Idle
      <3>3. /\ handler'[g] \in Request
            /\ handler'[g].pc = handler[g].pc /\ handler'[g].env = handler[g].env
            /\ handler'[g].id = handler[g].id /\ handler'[g].fresh = FALSE
            /\ handler[g].pc = "checked" => handler'[g].input = handler[g].input
            /\ handler[g].pc = "read" => handler'[g].row = handler[g].row
        BY <2>2, <3>1, <3>2 DEF Request, Idle
      <3>4. handler'[g].pc # "migrate" /\ handler'[g].pc # "create" /\ handler'[g] # Idle
        BY <2>2, <3>3 DEF Idle
      <3> QED BY <3>2, <3>3, <3>4 DEF RequestFits
    <2>3. CASE /\ g # h
               /\ ~(/\ handler[g].pc \in {"checked", "read"}
                    /\ after[handler[g].id] # rows[handler[g].id])
      <3>1. handler'[g] = handler[g]
        BY <2>3 DEF Store
      <3>2. handler[g] \in Request \union {Idle} /\ RequestFits(handler[g])
        BY DEF Sorted
      <3>3. PICK q : q = handler'[g] /\ RequestFits(q) BY <3>1, <3>2
      <3>4. RequestFits(q)' BY <1>1, <2>3, <3>1, <3>3, StillFits
      <3> QED BY <3>1, <3>2, <3>3, <3>4 DEF RequestFits
    <2> QED BY <2>1, <2>2, <2>3
  <1>3. handler' \in [Handlers -> Request \union {Idle}]
    BY <1>2 DEF Store
  <1> QED BY <1>1, <1>2, <1>3 DEF Sorted

-----------------------------------------------------------------------------
(* One lemma per action.                                                   *)

LEMMA CreateStartsKeeps ==
  ASSUME Sorted, UNCHANGED <<provisioningAllowed, enabledAtStart>>,
         NEW h \in Handlers, NEW l \in Landings, NEW secret \in Secrets,
         CreateStarts(h, l, secret)
  PROVE  Sorted'
  <1> DEFINE r == [pc |-> "create", id |-> l, secret |-> secret, env |-> bindings]
  <1>1. bindings \in Bindings BY BindingsByStage DEF Sorted
  <1>2. r \in Request BY <1>1 DEF Request
  <1>3. RequestFits(r)
    BY BindingsByStage DEF Sorted, RequestFits, CreateStarts, Early, Settled, Stages
  <1> QED BY <1>2, <1>3, RequestMoves DEF CreateStarts

LEMMA IdleFits == RequestFits(Idle)
  BY DEF RequestFits, Idle

LEMMA CreateInsertsKeeps ==
  ASSUME Sorted, UNCHANGED <<provisioningAllowed, enabledAtStart>>, NEW h \in Handlers, CreateInserts(h)
  PROVE  Sorted'
  <1>1. PICK enabled \in BOOLEAN, scope \in SUBSET Domains :
          Store(h, [rows EXCEPT ![handler[h].id] =
                      [credential |-> Sealed(handler[h].env, handler[h].secret),
                       enabled |-> enabled, scope |-> scope]], Idle)
    BY DEF CreateInserts
  <1> DEFINE row == [credential |-> Sealed(handler[h].env, handler[h].secret),
                     enabled |-> enabled, scope |-> scope]
             after == [rows EXCEPT ![handler[h].id] = row]
  <1>2. /\ handler[h].id \in Landings /\ handler[h].secret \in Secrets
        /\ handler[h].env \in Bindings /\ handler[h] # Idle
    BY DEF Sorted, CreateInserts, Request, Idle
  <1>3. row \in Row /\ row.credential.key = handler[h].env.current
    BY <1>2 DEF Row, Credential, Sealed, Bindings
  <1>4. after \in [Landings -> Row \union {None}] BY <1>2, <1>3 DEF Sorted
  <1>5. rows' = after BY <1>1 DEF Store
  <1>6. RowsFit'
    BY <1>2, <1>3, <1>5 DEF Sorted, RowsFit, RequestFits, Present, CreateInserts,
                             Early, Settled
  <1>7. RequestFits(Idle)' BY DEF RequestFits, Idle
  <1> QED BY <1>1, <1>4, <1>6, <1>7, TableWritten DEF CreateInserts, Sorted

LEMMA PatchChecksKeeps ==
  ASSUME Sorted, UNCHANGED <<provisioningAllowed, enabledAtStart>>,
         NEW h \in Handlers, NEW l \in Landings, NEW input \in Inputs,
         PatchChecks(h, l, input)
  PROVE  Sorted'
  <1> DEFINE r == [pc |-> "checked", id |-> l, input |-> input, env |-> bindings,
                   fresh |-> TRUE]
  <1>1. bindings \in Bindings BY BindingsByStage DEF Sorted
  <1>2. r \in Request BY <1>1 DEF Request
  <1>3. ~provisioningAllowed =>
          /\ rows[l] # None /\ ~Expands(rows[l], input)
          /\ input.enabled = TRUE => l \in enabledAtStart
    <2>1. ~provisioningAllowed => rows[l] # None /\ ~Expands(rows[l], input)
      BY DEF PatchChecks, Present
    <2>2. ~provisioningAllowed /\ input.enabled = TRUE => rows[l].enabled
      BY <2>1 DEF Expands
    <2> QED BY <2>1, <2>2 DEF Sorted, RowsFit, Present
  <1>4. RequestFits(r)
    BY <1>3, BindingsByStage DEF Sorted, RequestFits, Early, Settled, Stages
  <1> QED BY <1>2, <1>4, RequestMoves DEF PatchChecks

\* What an edit makes of a row: one sealed as before or with the key of its
\* request, enabled only if it was or the edit says so, and no more capable if
\* the edit does not expand it.
LEMMA UpdatedRow ==
  ASSUME NEW row \in Row, NEW input \in Inputs, NEW env \in Bindings
  PROVE  /\ Updated(row, input, env) \in Row
         /\ Updated(row, input, env).credential.key
              \in {row.credential.key, env.current}
         /\ Updated(row, input, env).enabled => row.enabled \/ input.enabled = TRUE
         /\ ~Expands(row, input) => Contained(row, Updated(row, input, env))
  <1> DEFINE after == Updated(row, input, env)
  <1>1. input \in Input BY InputAssumption
  <1>2. /\ row.credential \in Credential /\ row.enabled \in BOOLEAN
        /\ row.scope \in SUBSET Domains
    BY DEF Row
  <1>3. /\ after.credential = IF input.secret = None THEN row.credential
                               ELSE Sealed(env, input.secret)
        /\ after.enabled = IF input.enabled = None THEN row.enabled ELSE input.enabled
        /\ after.scope = IF input.scope = None THEN row.scope ELSE input.scope
        /\ after = [credential |-> after.credential, enabled |-> after.enabled,
                    scope |-> after.scope]
    BY DEF Updated
  <1> HIDE DEF after
  <1>4. after.credential \in Credential
        /\ after.credential.key \in {row.credential.key, env.current}
    BY <1>1, <1>2, <1>3 DEF Input, Credential, Sealed, Bindings
  <1>5. after.enabled \in BOOLEAN /\ after.scope \in SUBSET Domains
    BY <1>1, <1>2, <1>3 DEF Input
  <1>6. after.enabled => row.enabled \/ input.enabled = TRUE
    BY <1>1, <1>2, <1>3 DEF Input
  <1>7. ASSUME ~Expands(row, input), after.enabled
        PROVE  /\ row.enabled
               /\ after.credential.secret = row.credential.secret
               /\ ~Widens(row.scope, after.scope)
    <2>1. input.enabled # FALSE
      BY <1>3, <1>7, LandingAssumption
    <2>2. row.enabled
      BY <1>6, <1>7, <2>1 DEF Expands
    <2>3. input.secret = None /\ (input.scope # None => ~Widens(row.scope, input.scope))
      BY <1>7, <2>1, <2>2 DEF Expands
    <2> QED BY <1>3, <2>2, <2>3 DEF Widens
  <1>8. after \in Row BY <1>3, <1>4, <1>5 DEF Row
  <1> QED BY <1>4, <1>6, <1>7, <1>8 DEF after, Contained

LEMMA PatchReadsKeeps ==
  ASSUME Sorted, UNCHANGED <<provisioningAllowed, enabledAtStart>>,
         NEW h \in Handlers, PatchReads(h)
  PROVE  Sorted'
  <1> DEFINE q == handler[h]
             row == Updated(rows[q.id], q.input, q.env)
             r == [pc |-> "read", id |-> q.id, env |-> q.env, fresh |-> q.fresh,
                   row |-> row]
  <1>1. /\ q.pc = "checked" /\ q.id \in Landings /\ q.input \in Inputs
        /\ q.env \in Bindings /\ q.fresh \in BOOLEAN /\ q # Idle
    BY DEF Sorted, PatchReads, Request, Idle
  <1>2. CASE rows[q.id] = None
    BY <1>2, IdleFits, RequestMoves DEF PatchReads
  <1>3. CASE rows[q.id] # None
    <2>1. rows[q.id] \in Row BY <1>1, <1>3 DEF Sorted
    <2>2. /\ row \in Row
          /\ row.credential.key \in {rows[q.id].credential.key, q.env.current}
          /\ row.enabled => rows[q.id].enabled \/ q.input.enabled = TRUE
          /\ ~Expands(rows[q.id], q.input) => Contained(rows[q.id], row)
      BY <1>1, <2>1, UpdatedRow
    <2> HIDE DEF row
    <2>3. r \in Request BY <1>1, <2>2 DEF Request
    <2>4. RequestFits(q) BY DEF Sorted
    <2>5. stage \in Early => row.credential.key = "old"
      BY <1>1, <1>3, <2>2, <2>4 DEF RequestFits, Sorted, RowsFit, Present
    <2>6. RequestFits(r)
      BY <1>1, <1>3, <2>2, <2>4, <2>5 DEF RequestFits, Idle, Sorted, RowsFit, Present
    <2> QED BY <1>3, <2>3, <2>6, RequestMoves DEF PatchReads, row
  <1> QED BY <1>2, <1>3

LEMMA PatchWritesKeeps ==
  ASSUME Sorted, UNCHANGED <<provisioningAllowed, enabledAtStart>>,
         NEW h \in Handlers, PatchWrites(h)
  PROVE  Sorted'
  <1> DEFINE q == handler[h]
             after == [rows EXCEPT ![q.id] = q.row]
  <1>1. /\ q.pc = "read" /\ q.id \in Landings /\ q.row \in Row
        /\ q.env \in Bindings /\ q.fresh \in BOOLEAN /\ q # Idle
    BY DEF Sorted, PatchWrites, Request, Idle
  <1>2. RequestFits(q) BY DEF Sorted
  <1>3. RequestFits(Idle)' BY DEF RequestFits, Idle
  <1>4. CASE q.id \notin Present
    <2>1. Store(h, rows, Idle) /\ UNCHANGED raced BY <1>4 DEF PatchWrites
    <2>2. rows' = rows BY <2>1 DEF Store
    <2>3. RowsFit' BY <2>1, <2>2 DEF Sorted, RowsFit, Present, PatchWrites
    <2> QED BY <1>3, <2>1, <2>3, TableWritten DEF PatchWrites, Sorted
  <1>5. CASE q.id \in Present
    <2>1. Store(h, after, Idle) /\ raced' \in BOOLEAN
      BY <1>1, <1>5 DEF PatchWrites, Sorted
    <2>2. rows' = after BY <2>1 DEF Store
    <2>3. after \in [Landings -> Row \union {None}] BY <1>1 DEF Sorted
    <2>4. ASSUME NEW l \in Present'
          PROVE  l = q.id \/ (l \in Present /\ rows'[l] = rows[l])
      BY <1>1, <2>2 DEF Sorted, Present
    <2>5. rows'[q.id] = q.row BY <1>1, <2>2 DEF Sorted
    <2>6. stage \in Early => q.row.credential.key = "old"
      BY <1>1, <1>2 DEF RequestFits
    <2>7. ASSUME stage \in {"confirmed", "retired"}, ~raced'
          PROVE  ~raced /\ q.row.credential.key = "new"
      <3>1. ~raced
        BY <1>5, <2>7 DEF PatchWrites, Sorted
      <3>2. rows[q.id].credential.key = "new"
        BY <1>5, <2>7, <3>1 DEF Sorted, RowsFit
      <3>3. q.row.credential.key \in {"old", "new"}
        BY <1>1 DEF Row, Credential
      <3>4. q.fresh => q.row.credential.key = "new"
        BY <1>1, <1>2, <2>7, <3>2 DEF RequestFits, Settled
      <3>5. ~q.fresh => q.row.credential.key # "old"
        BY <1>5, <2>7, <3>1, <3>2 DEF PatchWrites
      <3> QED BY <3>1, <3>3, <3>4, <3>5
    <2>8. ~provisioningAllowed => (q.row.enabled => q.id \in enabledAtStart)
      BY <1>1, <1>2 DEF RequestFits
    <2>9. UNCHANGED stage BY DEF PatchWrites
    <2>10. RowsFit'
      <3>1. stage' \in Early => \A l \in Present' : rows'[l].credential.key = "old"
        BY <2>4, <2>5, <2>6, <2>9 DEF Sorted, RowsFit
      <3>2. stage' \in {"confirmed", "retired"} /\ ~raced' =>
              \A l \in Present' : rows'[l].credential.key = "new"
        BY <2>4, <2>5, <2>7, <2>9 DEF Sorted, RowsFit
      <3>3. ~provisioningAllowed' =>
              \A l \in Present' : rows'[l].enabled => l \in enabledAtStart'
        BY <2>4, <2>5, <2>8 DEF Sorted, RowsFit
      <3> QED BY <3>1, <3>2, <3>3 DEF RowsFit
    <2> QED BY <1>3, <2>1, <2>3, <2>10, TableWritten DEF PatchWrites, Sorted
  <1> QED BY <1>4, <1>5

LEMMA DeleteKeeps ==
  ASSUME Sorted, UNCHANGED <<provisioningAllowed, enabledAtStart>>, NEW h \in Handlers, NEW l \in Landings,
         Delete(h, l)
  PROVE  Sorted'
  <1> DEFINE after == [rows EXCEPT ![l] = None]
  <1>1. after \in [Landings -> Row \union {None}] BY DEF Sorted
  <1>2. Store(h, after, Idle) BY DEF Delete
  <1>3. rows' = after BY <1>2 DEF Store
  <1>4. RowsFit' BY <1>3 DEF Sorted, RowsFit, Present, Delete
  <1>5. RequestFits(Idle)' BY DEF RequestFits, Idle
  <1> QED BY <1>1, <1>2, <1>4, <1>5, TableWritten DEF Delete, Sorted

LEMMA MigrateInspectsKeeps ==
  ASSUME Sorted, UNCHANGED <<provisioningAllowed, enabledAtStart>>, NEW h \in Handlers, MigrateInspects(h)
  PROVE  Sorted'
  <1> DEFINE r == [pc |-> "migrate", env |-> bindings, todo |-> Migrations(bindings)]
  <1>1. /\ bindings.current = "new" /\ bindings \in Bindings /\ stage \notin Early
    BY BindingsByStage DEF Sorted, MigrateInspects, Stages
  <1>2. \A l \in Outdated(bindings) :
          /\ rows[l] \in Row /\ rows[l].credential \in Credential
          /\ rows[l].credential.key = "old"
    BY <1>1 DEF Sorted, Outdated, Present, Row, Credential
  <1>3. \A change \in Migrations(bindings) :
          /\ change \in Change
          /\ change.from.secret = change.to.secret
          /\ change.from.key = "old" /\ change.to.key = "new"
    <2> SUFFICES ASSUME NEW l \in Outdated(bindings)
                 PROVE  LET c == [id |-> l, from |-> rows[l].credential,
                                  to |-> Sealed(bindings, rows[l].credential.secret)]
                        IN /\ c \in Change
                           /\ c.from.secret = c.to.secret
                           /\ c.from.key = "old" /\ c.to.key = "new"
      BY DEF Migrations
    <2>1. l \in Landings BY DEF Outdated, Present
    <2> QED BY <1>1, <1>2, <2>1 DEF Change, Credential, Sealed
  <1>4. r \in Request BY <1>1, <1>3 DEF Request
  <1>5. RequestFits(r) BY <1>1, <1>3 DEF RequestFits
  <1> QED BY <1>4, <1>5, RequestMoves DEF MigrateInspects

\* Whatever a batch writes has the connection the row had, under the new key.
LEMMA BatchWrites ==
  ASSUME Sorted, UNCHANGED <<provisioningAllowed, enabledAtStart>>, NEW h \in Handlers, MigrateBatch(h)
  PROVE  /\ rows' \in [Landings -> Row \union {None}]
         /\ Present' = Present
         /\ \A l \in Present :
              /\ rows'[l].credential.secret = rows[l].credential.secret
              /\ rows'[l].credential.key \in {rows[l].credential.key, "new"}
              /\ rows'[l].enabled = rows[l].enabled
              /\ rows'[l].scope = rows[l].scope
         /\ stage \notin Early
         /\ \E r \in Request : Store(h, rows', r) /\ RequestFits(r)'
  <1> DEFINE q == handler[h]
             next(batch) == [q EXCEPT !.todo = @ \ batch]
             applied(batch, l) == {change \in batch : change.id = l /\ Applies(change)}
             after(batch) ==
               [l \in Landings |->
                  IF applied(batch, l) = {} THEN rows[l]
                  ELSE [rows[l] EXCEPT !.credential =
                          (CHOOSE change \in applied(batch, l) : TRUE).to]]
  <1>1. /\ q \in Request /\ q.pc = "migrate" /\ q # Idle
        /\ q.env \in Bindings /\ q.todo \subseteq Change /\ RequestFits(q)
    BY DEF Sorted, MigrateBatch, Request, Idle
  <1>2. stage \notin Early
    BY <1>1 DEF RequestFits
  <1>3. PICK batch \in SUBSET q.todo : Store(h, after(batch), next(batch))
    BY DEF MigrateBatch
  <1>4. rows' = after(batch) BY <1>3 DEF Store
  <1>5. ASSUME NEW l \in Landings
        PROVE  /\ rows'[l] \in Row \union {None}
               /\ rows'[l] = None <=> rows[l] = None
               /\ rows[l] # None =>
                    /\ rows'[l].credential.secret = rows[l].credential.secret
                    /\ rows'[l].credential.key \in {rows[l].credential.key, "new"}
                    /\ rows'[l].enabled = rows[l].enabled
                    /\ rows'[l].scope = rows[l].scope
    <2>1. CASE applied(batch, l) = {}
      BY <1>4, <2>1 DEF Sorted
    <2>2. CASE applied(batch, l) # {}
      <3> DEFINE change == CHOOSE c \in applied(batch, l) : TRUE
      <3>1. change \in batch /\ Applies(change) /\ change.id = l
        BY <2>2
      <3>2. /\ change \in Change /\ change.from.secret = change.to.secret
            /\ change.to.key = "new"
        BY <1>1, <1>3, <3>1 DEF RequestFits
      <3>3. rows[l] # None /\ rows[l].credential = change.from /\ rows[l] \in Row
        BY <3>1 DEF Applies, Sorted
      <3>4. change.to \in Credential BY <3>2 DEF Change
      <3>5. rows'[l] = [rows[l] EXCEPT !.credential = change.to]
        BY <1>4, <2>2
      <3>6. rows'[l] \in Row /\ rows'[l].credential = change.to
            /\ rows'[l].enabled = rows[l].enabled /\ rows'[l].scope = rows[l].scope
        BY <3>3, <3>4, <3>5 DEF Row
      <3>7. rows'[l] # None
        BY <3>6, LandingAssumption
      <3> QED BY <3>2, <3>3, <3>6, <3>7
    <2> QED BY <2>1, <2>2
  <1>6. rows' \in [Landings -> Row \union {None}] /\ Present' = Present
    BY <1>4, <1>5 DEF Present
  <1>7. PICK r \in Request :
          /\ Store(h, rows', r)
          /\ r.pc = "migrate" /\ r.env = q.env /\ r.todo \subseteq q.todo
    <2>1. next(batch) \in Request
          /\ next(batch).pc = "migrate" /\ next(batch).env = q.env
          /\ next(batch).todo \subseteq q.todo
      BY <1>1 DEF Request, Idle
    <2>2. Store(h, rows', next(batch)) BY <1>3, <1>4
    <2> HIDE DEF next
    <2> QED BY <2>1, <2>2
  <1>8. RequestFits(r)'
    <2>1. /\ r.env.current = "new"
          /\ \A change \in r.todo :
               /\ change.from.secret = change.to.secret
               /\ change.from.key = "old" /\ change.to.key = "new"
      BY <1>1, <1>7 DEF RequestFits
    <2>2. stage' \notin Early BY <1>2 DEF MigrateBatch
    <2> QED BY <1>7, <2>1, <2>2 DEF RequestFits, Idle
  <1> HIDE DEF after, next
  <1> QED BY <1>2, <1>5, <1>6, <1>7, <1>8 DEF Present

LEMMA MigrateBatchKeeps ==
  ASSUME Sorted, UNCHANGED <<provisioningAllowed, enabledAtStart>>, NEW h \in Handlers, MigrateBatch(h)
  PROVE  Sorted'
  <1>1. PICK r \in Request : Store(h, rows', r) /\ RequestFits(r)'
    BY BatchWrites
  <1>2. /\ rows' \in [Landings -> Row \union {None}] /\ Present' = Present
        /\ stage \notin Early
        /\ \A l \in Present :
             /\ rows'[l].credential.key \in {rows[l].credential.key, "new"}
             /\ rows'[l].enabled = rows[l].enabled
    BY BatchWrites
  <1>3. UNCHANGED <<bindings, stage, raced>> BY DEF MigrateBatch
  <1>4. RowsFit' BY <1>2, <1>3 DEF Sorted, RowsFit
  <1> QED BY <1>1, <1>2, <1>3, <1>4, TableWritten DEF Sorted

\* A status that finds every row current lets the operator go on.
LEMMA ConfirmedKeeps ==
  ASSUME Sorted, NEW env, Confirmed(env),
         stage \in Settled => env.current = "new",
         UNCHANGED <<rows, bindings, provisioningAllowed, enabledAtStart, handler, raced>>
  PROVE  Sorted'
  <1>1. CASE stage' = stage
    BY <1>1 DEF Sorted, RowsFit, Present, RequestFits, Expands, Contained, Widens
  <1>2. CASE stage = "deployed" /\ AllCurrent(env) /\ stage' = "confirmed"
    <2>1. \A l \in Present : rows[l].credential.key = "new"
      BY <1>2 DEF AllCurrent, Settled
    <2>2. RowsFit' BY <1>2, <2>1 DEF Sorted, RowsFit, Present, Early
    <2>3. \A g \in Handlers : RequestFits(handler[g])'
      BY <1>2 DEF Sorted, RequestFits, Expands, Contained, Widens, Early, Settled
    <2>4. bindings' = BindingsAt[stage'] /\ stage' \in Stages
      BY <1>2 DEF Sorted, BindingsAt, Stages
    <2> QED BY <2>2, <2>3, <2>4 DEF Sorted
  <1> QED BY <1>1, <1>2 DEF Confirmed

LEMMA KeyRotationStatusKeeps ==
  ASSUME Sorted, UNCHANGED <<provisioningAllowed, enabledAtStart>>, KeyRotationStatus
  PROVE  Sorted'
  <1>1. stage \in Settled => bindings.current = "new"
    BY BindingsByStage DEF Sorted, Settled, Early, Stages
  <1> QED BY <1>1, ConfirmedKeeps DEF KeyRotationStatus

\* The answer is the status of the request's own bindings, and the request ends.
LEMMA MigrateAnswersKeeps ==
  ASSUME Sorted, UNCHANGED <<provisioningAllowed, enabledAtStart>>, NEW h \in Handlers, MigrateAnswers(h)
  PROVE  Sorted'
  <1>1. handler[h].env.current = "new"
    BY DEF Sorted, RequestFits, MigrateAnswers
  <1>2. CASE stage' = stage
    BY <1>2, IdleFits, RequestMoves DEF MigrateAnswers
  <1>3. CASE stage = "deployed" /\ AllCurrent(handler[h].env) /\ stage' = "confirmed"
    <2>1. \A l \in Present : rows[l].credential.key = "new"
      BY <1>1, <1>3 DEF AllCurrent
    <2>2. RowsFit' BY <1>3, <2>1 DEF Sorted, RowsFit, Present, Early, MigrateAnswers
    <2>3. ASSUME NEW g \in Handlers
          PROVE  RequestFits(handler[g])' /\ handler'[g] \in Request \union {Idle}
      <3>1. CASE g = h
        <4>1. handler'[g] = Idle BY <3>1 DEF MigrateAnswers, Sorted
        <4> QED BY <4>1 DEF RequestFits, Idle
      <3>2. CASE g # h
        <4>1. handler'[g] = handler[g] BY <3>2 DEF MigrateAnswers, Sorted
        <4> QED BY <1>3, <4>1 DEF Sorted, RequestFits, Expands, Contained, Widens, Early, Settled, MigrateAnswers
      <3> QED BY <3>1, <3>2
    <2>4. bindings' = BindingsAt[stage'] /\ stage' \in Stages
      BY <1>3 DEF Sorted, BindingsAt, Stages, MigrateAnswers
    <2>5. handler' \in [Handlers -> Request \union {Idle}]
      BY <2>3 DEF MigrateAnswers, Sorted
    <2> QED BY <2>2, <2>3, <2>4, <2>5 DEF Sorted, MigrateAnswers
  <1> QED BY <1>2, <1>3 DEF MigrateAnswers, Confirmed

LEMMA CrashKeeps ==
  ASSUME Sorted, UNCHANGED <<provisioningAllowed, enabledAtStart>>, NEW h \in Handlers, Crash(h)
  PROVE  Sorted'
  BY IdleFits, RequestMoves DEF Crash

-----------------------------------------------------------------------------
(* The operator's steps leave the table and the requests alone.            *)

LEMMA StageMoves ==
  ASSUME Sorted, stage' \in Stages, bindings' = BindingsAt[stage'],
         stage' \in Early => stage \in Early,
         stage' \in Settled =>
           \A h \in Handlers : handler[h] # Idle => handler[h].env.current = "new",
         stage' \in {"confirmed", "retired"} => stage \in {"confirmed", "retired"},
         UNCHANGED <<rows, provisioningAllowed, enabledAtStart, handler, raced>>
  PROVE  Sorted'
  <1>1. RowsFit' BY DEF Sorted, RowsFit, Present
  <1>2. \A h \in Handlers : RequestFits(handler[h])'
    BY DEF Sorted, RequestFits, Expands, Contained, Widens
  <1> QED BY <1>1, <1>2 DEF Sorted

LEMMA OperatorKeeps ==
  ASSUME Sorted, UNCHANGED <<provisioningAllowed, enabledAtStart>>,
         PutPrevious \/ PutCurrent \/ DeploymentEnds \/ Retire
  PROVE  Sorted'
  <1> USE DEF Sorted, BindingsAt, Stages, Early, Settled
  <1>1. CASE PutPrevious
    <2>1. stage' = "fallback" /\ bindings' = BindingsAt[stage'] BY <1>1 DEF PutPrevious
    <2> QED BY <1>1, <2>1, StageMoves DEF PutPrevious
  <1>2. CASE PutCurrent
    <2>1. stage' = "rotated" /\ bindings' = BindingsAt[stage'] BY <1>2 DEF PutCurrent
    <2> QED BY <1>2, <2>1, StageMoves DEF PutCurrent
  <1>3. CASE DeploymentEnds
    <2>1. stage' = "deployed" /\ bindings' = BindingsAt[stage'] BY <1>3 DEF DeploymentEnds
    <2> QED BY <1>3, <2>1, StageMoves DEF DeploymentEnds
  <1>4. CASE Retire
    <2>1. stage' = "retired" /\ bindings' = BindingsAt[stage'] BY <1>4 DEF Retire
    <2>2. \A h \in Handlers : handler[h] # Idle => handler[h].env.current = "new"
      BY <1>4 DEF Retire, RequestFits
    <2> QED BY <1>4, <2>1, <2>2, StageMoves DEF Retire
  <1> QED BY <1>1, <1>2, <1>3, <1>4

LEMMA NextKeeps == Sorted /\ [Next]_vars => Sorted'
  <1> SUFFICES ASSUME Sorted, [Next]_vars PROVE Sorted' OBVIOUS
  <1>1. CASE UNCHANGED vars
    BY <1>1 DEF Sorted, RowsFit, RequestFits, Expands, Contained, Widens, Present, vars
  <1>2. CASE Next
    <2>1. Step /\ UNCHANGED <<provisioningAllowed, enabledAtStart>> BY <1>2 DEF Next
    <2>2. ASSUME NEW h \in Handlers, Administration(h) PROVE Sorted'
      BY <2>1, <2>2, CreateStartsKeeps, CreateInsertsKeeps, PatchChecksKeeps,
         PatchReadsKeeps, PatchWritesKeeps, DeleteKeeps DEF Administration
    <2>3. ASSUME NEW h \in Handlers, Migration(h) PROVE Sorted'
      BY <2>1, <2>3, MigrateInspectsKeeps, MigrateBatchKeeps, MigrateAnswersKeeps
         DEF Migration
    <2>4. ASSUME NEW h \in Handlers, Crash(h) PROVE Sorted'
      BY <2>1, <2>4, CrashKeeps
    <2> QED BY <2>1, <2>2, <2>3, <2>4, KeyRotationStatusKeeps, OperatorKeeps DEF Step
  <1> QED BY <1>1, <1>2

LEMMA SortedAlways == Spec => []Sorted
  BY InitSorted, NextKeeps, PTL DEF Spec

-----------------------------------------------------------------------------
(* What follows from it.                                                   *)

\* The inductive invariant holds in every reachable state: the stage of the
\* rotation bounds the keys that requests hold and rows are sealed with.
THEOREM InvariantCorrect == Spec => []LandingInvariant
  BY SortedAlways, SortedIsInvariant, PTL

\* Type correctness, with the shape of a migration's pending updates.
THEOREM TypeCorrect == Spec => []TypeOK
  <1>1. LandingInvariant => TypeOK BY DEF LandingInvariant
  <1> QED BY <1>1, InvariantCorrect, PTL

\* No deployment step, crash, migration or retirement leaves a credential that
\* a new request cannot open; only an overlapping update of one row after the
\* retirement (updateLanding's whole-row write) does.
THEOREM CredentialsReadable == Spec => []CredentialsStayReadable
  <1>1. Sorted => CredentialsStayReadable
    <2> SUFFICES ASSUME Sorted, NEW l \in Present, ~(stage = "retired" /\ raced)
                 PROVE  Opens(bindings, rows[l].credential)
      BY DEF CredentialsStayReadable
    <2>1. rows[l] \in Row /\ rows[l].credential.key \in {"old", "new"}
      BY DEF Sorted, Present, Row, Credential
    <2>2. CASE stage # "retired"
      <3>1. stage \in Early => rows[l].credential.key = "old"
        BY DEF Sorted, RowsFit
      <3> QED BY <2>1, <2>2, <3>1, BindingsByStage DEF Sorted
    <2>3. CASE stage = "retired" /\ ~raced
      <3>1. rows[l].credential.key = "new" BY <2>3 DEF Sorted, RowsFit
      <3>2. bindings.current = "new"
        BY <2>3, BindingsByStage DEF Sorted, Early, Stages
      <3> QED BY <3>1, <3>2 DEF Opens
    <2> QED BY <2>2, <2>3
  <1> QED BY <1>1, SortedAlways, PTL

\* A batch of the migration removes no row, changes no connection and enables
\* or disables nothing, whatever was edited since it inspected the table.
THEOREM SecretsKept == Spec => MigrationKeepsSecrets
  <1> DEFINE Kept ==
        \A h \in Handlers : MigrateBatch(h) =>
          \A l \in Present : /\ rows'[l] # None
                             /\ rows'[l].credential.secret = rows[l].credential.secret
                             /\ rows'[l].enabled = rows[l].enabled
                             /\ rows'[l].scope = rows[l].scope
  <1>1. Sorted /\ [Next]_vars => [Kept]_vars
    <2> SUFFICES ASSUME Sorted, Next, NEW h \in Handlers, MigrateBatch(h),
                        NEW l \in Present
                 PROVE  /\ rows'[l] # None
                        /\ rows'[l].credential.secret = rows[l].credential.secret
                        /\ rows'[l].enabled = rows[l].enabled
                        /\ rows'[l].scope = rows[l].scope
      OBVIOUS
    <2>1. UNCHANGED <<provisioningAllowed, enabledAtStart>> BY DEF Next
    <2>2. Present' = Present BY <2>1, BatchWrites
    <2>3. rows'[l] # None BY <2>2 DEF Present
    <2> QED BY <2>1, <2>3, BatchWrites
  <1>2. Spec => [][Kept]_vars BY <1>1, SortedAlways, PTL DEF Spec
  <1> QED BY <1>2 DEF MigrationKeepsSecrets

\* What the compliance lock allows of one row in one step.
StepKeepsLock(l) ==
  rows'[l] # None =>
    /\ rows[l] # None
    /\ Contained(rows[l], rows'[l]) \/ \E h \in Handlers : StaleWrite(h, l)

\* A row that a step leaves as capable as it was.
LEMMA SameCapacity ==
  ASSUME NEW before, NEW after, after.enabled = before.enabled,
         after.credential.secret = before.credential.secret,
         after.scope = before.scope
  PROVE  Contained(before, after)
  BY DEF Contained, Widens

LEMMA PatchKeepsLock ==
  ASSUME Sorted, ~provisioningAllowed, NEW h \in Handlers, PatchWrites(h),
         NEW l \in Landings
  PROVE  StepKeepsLock(l)
  <1> DEFINE q == handler[h]
  <1>1. q.pc = "read" /\ q.id \in Landings /\ RequestFits(q)
    BY DEF Sorted, PatchWrites, Request, Idle
  <1>2. rows' = rows \/ (q.id \in Present /\ rows' = [rows EXCEPT ![q.id] = q.row])
    BY DEF PatchWrites, Store
  <1>3. CASE rows'[l] = rows[l]
    BY <1>3, SameCapacity DEF StepKeepsLock
  <1>4. CASE rows'[l] # rows[l]
    <2>1. l = q.id /\ q.id \in Present /\ rows'[l] = q.row
      BY <1>1, <1>2, <1>4 DEF Sorted
    <2>2. CASE ~q.fresh
      BY <2>1, <2>2 DEF StepKeepsLock, StaleWrite, Present
    <2>3. CASE q.fresh
      <3>1. Contained(rows[q.id], q.row)
        BY <1>1, <2>3 DEF RequestFits
      <3> QED BY <2>1, <3>1 DEF StepKeepsLock, Present
    <2> QED BY <2>2, <2>3
  <1> QED BY <1>3, <1>4

LEMMA StepsKeepLock ==
  ASSUME Sorted, Next, ~provisioningAllowed, NEW l \in Landings
  PROVE  StepKeepsLock(l)
  <1>1. Step /\ UNCHANGED <<provisioningAllowed, enabledAtStart>> BY DEF Next
  <1>2. CASE rows'[l] = rows[l]
    BY <1>2, SameCapacity DEF StepKeepsLock
  <1>3. ASSUME NEW h \in Handlers, CreateInserts(h) PROVE FALSE
    BY <1>3 DEF CreateInserts, Sorted, RequestFits
  <1>4. ASSUME NEW h \in Handlers, NEW k \in Landings, Delete(h, k)
        PROVE  StepKeepsLock(l)
    <2>1. rows'[l] = None \/ rows'[l] = rows[l] BY <1>4 DEF Delete, Store, Sorted
    <2> QED BY <1>2, <2>1 DEF StepKeepsLock
  <1>5. ASSUME NEW h \in Handlers, MigrateBatch(h) PROVE StepKeepsLock(l)
    <2>1. /\ Present' = Present
          /\ l \in Present => /\ rows'[l].credential.secret = rows[l].credential.secret
                              /\ rows'[l].enabled = rows[l].enabled
                              /\ rows'[l].scope = rows[l].scope
      BY <1>1, <1>5, BatchWrites
    <2>2. rows'[l] # None <=> rows[l] # None BY <2>1 DEF Present
    <2>3. rows[l] # None => Contained(rows[l], rows'[l])
      BY <2>1, SameCapacity DEF Present
    <2> QED BY <2>2, <2>3 DEF StepKeepsLock
  <1>6. ASSUME NEW h \in Handlers, PatchWrites(h) PROVE StepKeepsLock(l)
    BY <1>6, PatchKeepsLock
  <1>7. ASSUME NEW h \in Handlers, Administration(h) PROVE StepKeepsLock(l)
    BY <1>2, <1>3, <1>4, <1>6, <1>7
       DEF Administration, CreateStarts, PatchChecks, PatchReads
  <1>8. ASSUME NEW h \in Handlers, Migration(h) \/ Crash(h) PROVE StepKeepsLock(l)
    BY <1>2, <1>5, <1>8 DEF Migration, MigrateInspects, MigrateAnswers, Crash
  <1> QED BY <1>1, <1>2, <1>7, <1>8
         DEF Step, PutPrevious, PutCurrent, DeploymentEnds, KeyRotationStatus, Retire

\* Under the compliance lock no landing is added, and none is enabled, pointed
\* elsewhere or made responsible for more while enabled, whatever a PATCH
\* combines; only an update of a row that changed after its checks, the
\* whole-row write of updateLanding, may bring a landing back that was enabled
\* when the lock was deployed.
THEOREM LockHolds == Spec => LockedNeverExpands
  <1> DEFINE Locked ==
        ~provisioningAllowed =>
          \A l \in Landings : rows'[l] # None =>
            /\ rows[l] # None
            /\ rows'[l].enabled => l \in enabledAtStart
            /\ \/ Contained(rows[l], rows'[l])
               \/ \E h \in Handlers : StaleWrite(h, l)
  <1>1. Sorted /\ [Next]_vars => [Locked]_vars
    <2> SUFFICES ASSUME Sorted, Next, ~provisioningAllowed, NEW l \in Landings,
                        rows'[l] # None
                 PROVE  /\ rows[l] # None
                        /\ rows'[l].enabled => l \in enabledAtStart
                        /\ \/ Contained(rows[l], rows'[l])
                           \/ \E h \in Handlers : StaleWrite(h, l)
      OBVIOUS
    <2>1. StepKeepsLock(l) BY StepsKeepLock
    <2>2. Sorted' /\ ~provisioningAllowed' /\ enabledAtStart' = enabledAtStart
      BY NextKeeps DEF Next
    <2>3. rows'[l].enabled => l \in enabledAtStart
      BY <2>2 DEF Sorted, RowsFit, Present
    <2> QED BY <2>1, <2>3 DEF StepKeepsLock
  <1>2. Spec => [][Locked]_vars BY <1>1, SortedAlways, PTL DEF Spec
  <1> QED BY <1>2 DEF LockedNeverExpands

(***************************************************************************)
(* OptimizedIps.  PoolInv follows the evidence of each address from the    *)
(* measurement (FoundFits: validated since the run began) to the pools, on *)
(* their way or stored (EntryFits: validated no longer than a run and a    *)
(* lifetime before the expiry); what is stored has its hostnames in lower  *)
(* case (StoredFits).                                                      *)
(***************************************************************************)

ClockFits ==
  /\ clock \in Time /\ changes \in 0..MaxChanges /\ runs \in 0..MaxRuns
  /\ validated \subseteq Names \X Ips \X Time
NodesFit == DOMAIN nodes \subseteq NodeIds /\ \A n \in DOMAIN nodes : nodes[n] \in Node

\* Both vantages validated every address for the hostname since a time.
FoundFits(hostname, ips, since) ==
  /\ ips \in IpLists
  /\ \A ip \in Range(ips) : \E t \in Time :
       <<hostname.name, ip, t>> \in validated /\ since <= t

\* Both vantages validated every address of an entry for the entry's hostname,
\* and no longer than a run and a lifetime before it expires.
EntryFits(entry) ==
  /\ entry \in Entry
  /\ \A ip \in Range(entry.ips) : \E t \in Time :
       /\ <<entry.hostname.name, ip, t>> \in validated
       /\ entry.expiresAt <= t + RunFor + Lifetime
PoolFits(pool) == /\ \E on \in SUBSET NodeIds : pool \in [on -> Entry]
                  /\ \A n \in DOMAIN pool : EntryFits(pool[n])
Normal(pool) == \A n \in DOMAIN pool : pool[n].hostname.canonical
StoredFits(value) == value \in {NoPool, Old} \/ (PoolFits(value) /\ Normal(value))

MeasureFits(run, now) ==
  /\ run = [at |-> "measure", startedAt |-> run.startedAt, found |-> run.found,
            hosts |-> run.hosts]
  /\ run.startedAt \in 0..now
  /\ DOMAIN run.hosts \subseteq NodeIds /\ DOMAIN run.found \subseteq DOMAIN run.hosts
  /\ \A n \in DOMAIN run.hosts : run.hosts[n] \in Hostname
  /\ \A n \in DOMAIN run.found : FoundFits(run.hosts[n], run.found[n], run.startedAt)
RunFits(run, now) ==
  \/ run = AtRest
  \/ MeasureFits(run, now)
  \/ run.at = "post" /\ PoolFits(run.pool)
  \/ run.at = "put" /\ PoolFits(run.pool) /\ Normal(run.pool)

SubscriptionFits(r) ==
  \/ request[r] = AtRest
  \/ /\ request[r].at = "pool" /\ DOMAIN request[r].nodes \subseteq NodeIds
     /\ \A n \in DOMAIN request[r].nodes : request[r].nodes[n] \in Node
SubscriptionsFit == DOMAIN request = Requests /\ \A r \in Requests : SubscriptionFits(r)

PoolInv == /\ ClockFits /\ NodesFit /\ StoredFits(kv) /\ StoredFits(kvSeen)
           /\ RunFits(workflow, clock) /\ SubscriptionsFit

----------------------------------------------------------------------------
LEMMA PoolConstants ==
  /\ Lifetime \in Nat /\ RunFor \in Nat /\ FreshFor \in Nat /\ WarnAfter \in Nat /\ MaxTime \in Nat
  /\ MaxChanges \in Nat /\ MaxRuns \in Nat /\ MaxIps \in Nat \ {0} /\ SubIps \in Nat \ {0}
  /\ UseOptimizedIps \in BOOLEAN
  BY PoolAssumption

LEMMA LowerTyped ==
  ASSUME NEW hostname \in Hostname
  PROVE  /\ Lower(hostname) \in Hostname /\ Lower(hostname).name = hostname.name
         /\ Lower(hostname).canonical
<1>1. PICK b \in BOOLEAN : b
  OBVIOUS
<1>2. Lower(hostname) = [hostname EXCEPT !.canonical = b]
  BY <1>1, Zenon DEF Lower
<1>3. /\ [hostname EXCEPT !.canonical = b] \in Hostname
      /\ [hostname EXCEPT !.canonical = b].name = hostname.name
      /\ [hostname EXCEPT !.canonical = b].canonical = b
  BY DEF Hostname
<1> QED BY <1>1, <1>2, <1>3, Zenon

\* Hostnames in lower case are told apart by their names.
LEMMA CanonicalSame ==
  ASSUME NEW a \in Hostname, NEW b \in Hostname, a.canonical, b.canonical
  PROVE  a = b <=> a.name = b.name
<1>1. PICK t \in BOOLEAN : t
  OBVIOUS
<1>2. a.canonical \in BOOLEAN /\ b.canonical \in BOOLEAN
  BY DEF Hostname
<1>3. a.canonical = t /\ b.canonical = t
  BY <1>1, <1>2, Zenon
<1>4. /\ a = [name |-> a.name, canonical |-> t]
      /\ b = [name |-> b.name, canonical |-> t]
  BY <1>3 DEF Hostname
<1> QED BY <1>4

\* What was validated stays validated.
LEMMA PoolsOutlive ==
  ASSUME validated \subseteq validated'
  PROVE  /\ \A pool : PoolFits(pool) => PoolFits(pool)'
         /\ \A value : StoredFits(value) => StoredFits(value)'
<1>1. \A entry : EntryFits(entry) => EntryFits(entry)'
  BY DEF EntryFits
<1>2. \A pool : PoolFits(pool) => PoolFits(pool)'
  BY <1>1 DEF PoolFits
<1> QED BY <1>2 DEF StoredFits, Normal

LEMMA RunOutlives ==
  ASSUME validated \subseteq validated', NEW run, NEW now \in Nat, NEW later \in Nat,
         now <= later, RunFits(run, now)
  PROVE  RunFits(run, later)'
<1>1. CASE MeasureFits(run, now)
  <2>1. \A hostname, ips, since :
          FoundFits(hostname, ips, since) => FoundFits(hostname, ips, since)'
    BY DEF FoundFits
  <2>2. run.startedAt \in 0..later
    BY <1>1 DEF MeasureFits
  <2>3. MeasureFits(run, later)'
    BY <1>1, <2>1, <2>2 DEF MeasureFits
  <2> QED BY <2>3 DEF RunFits
<1>2. CASE ~MeasureFits(run, now)
  <2>1. \A pool : PoolFits(pool) => PoolFits(pool)'
    BY PoolsOutlive
  <2> QED BY <1>2, <2>1 DEF RunFits, Normal
<1> QED BY <1>1, <1>2

\* A step of other components, and time, leave pools and requests alone.
LEMMA PoolsUntouched ==
  ASSUME PoolInv, ClockFits', NodesFit', clock <= clock',
         UNCHANGED <<kv, kvSeen, workflow, request, validated>>
  PROVE  PoolInv'
<1>1. StoredFits(kv)' /\ StoredFits(kvSeen)' /\ RunFits(workflow, clock)'
  <2>1. \A value : StoredFits(value) => StoredFits(value)'
    BY PoolsOutlive
  <2> PICK a, b, run, now, later :
        a = kv /\ b = kvSeen /\ run = workflow /\ now = clock /\ later = clock'
    OBVIOUS
  <2>2. StoredFits(a)' /\ StoredFits(b)' /\ kv' = a /\ kvSeen' = b /\ workflow' = run
    BY <2>1 DEF PoolInv
  <2>3. now \in Nat /\ later \in Nat /\ now <= later /\ RunFits(run, now)
    BY DEF PoolInv, ClockFits, Time
  <2>4. RunFits(run, later)'
    BY <2>3, RunOutlives
  <2> QED BY <2>2, <2>4 DEF StoredFits, PoolFits, EntryFits, RunFits, MeasureFits, FoundFits
<1>2. SubscriptionsFit'
  BY DEF PoolInv, SubscriptionsFit, SubscriptionFits
<1> QED BY <1>1, <1>2 DEF PoolInv

LEMMA EnrolledTyped ==
  ASSUME NEW name \in Names
  PROVE  /\ Enrolled([name |-> name, canonical |-> TRUE]) \in Node
         /\ \A b \in BOOLEAN :
              [Enrolled([name |-> name, canonical |-> TRUE]) EXCEPT !.routed = b] \in Node
  BY DEF Enrolled, Node, Hostname

LEMMA PoolStartFits == PoolInit => PoolInv
<1> SUFFICES ASSUME PoolInit PROVE PoolInv
  OBVIOUS
<1>1. ClockFits
  BY PoolConstants DEF PoolInit, ClockFits, Time
<1>2. NodesFit
  <2>1. PICK name \in Names, routed \in [NodeIds -> BOOLEAN] : nodes = [n \in NodeIds |->
         [Enrolled([name |-> name, canonical |-> TRUE]) EXCEPT !.routed = routed[n]]]
    BY DEF PoolInit
  <2> QED BY <2>1, EnrolledTyped DEF NodesFit
<1>3. StoredFits(kv) /\ StoredFits(kvSeen)
  BY DEF PoolInit, StoredFits
<1>4. RunFits(workflow, clock) /\ SubscriptionsFit
  BY DEF PoolInit, RunFits, SubscriptionsFit, SubscriptionFits
<1> QED BY <1>1, <1>2, <1>3, <1>4 DEF PoolInv

----------------------------------------------------------------------------
LEMMA ChangeFits ==
  ASSUME PoolInv, NEW table, ChangeNodes(table),
         DOMAIN table \subseteq NodeIds, \A m \in DOMAIN table : table[m] \in Node
  PROVE  PoolInv'
<1>1. ClockFits' /\ clock <= clock'
  BY PoolConstants DEF ChangeNodes, PoolInv, ClockFits, Time, kvs, job
<1>2. NodesFit'
  BY DEF ChangeNodes, NodesFit
<1> QED BY <1>1, <1>2, PoolsUntouched DEF ChangeNodes, kvs, job

LEMMA DeleteNodeFits ==
  ASSUME PoolInv, NEW n \in NodeIds, DeleteNode(n)
  PROVE  PoolInv'
<1> PICK table : table = Restrict(nodes, DOMAIN nodes \ {n})
  OBVIOUS
<1>1. DOMAIN table \subseteq NodeIds /\ \A m \in DOMAIN table : table[m] \in Node
  BY DEF Restrict, PoolInv, NodesFit
<1> QED BY <1>1, ChangeFits DEF DeleteNode

LEMMA EnrollNodeFits ==
  ASSUME PoolInv, NEW n \in NodeIds, NEW name \in Names, EnrollNode(n, name)
  PROVE  PoolInv'
<1> PICK row : row = Enrolled([name |-> name, canonical |-> TRUE])
  OBVIOUS
<1> PICK table : table = [m \in DOMAIN nodes \cup {n} |-> IF m = n THEN row ELSE nodes[m]]
  OBVIOUS
<1>1. row \in Node
  BY EnrolledTyped
<1>2. DOMAIN table \subseteq NodeIds /\ \A m \in DOMAIN table : table[m] \in Node
  BY <1>1 DEF PoolInv, NodesFit
<1>3. ChangeNodes(table)
  BY DEF EnrollNode
<1> QED BY <1>2, <1>3, ChangeFits

\* One row of the table is replaced.
LEMMA RowFits ==
  ASSUME PoolInv, NEW n \in DOMAIN nodes, NEW row \in Node,
         ChangeNodes([nodes EXCEPT ![n] = row])
  PROVE  PoolInv'
<1> PICK table : table = [nodes EXCEPT ![n] = row]
  OBVIOUS
<1>1. DOMAIN table \subseteq NodeIds /\ \A m \in DOMAIN table : table[m] \in Node
  BY DEF PoolInv, NodesFit
<1> QED BY <1>1, ChangeFits

LEMMA RegisterNodeFits ==
  ASSUME PoolInv, NEW n \in NodeIds, NEW hostname \in Hostname, NEW path \in BOOLEAN,
         RegisterNode(n, hostname, path)
  PROVE  PoolInv'
<1>1. PICK b \in BOOLEAN : b = (nodes[n].routed \/ path)
  OBVIOUS
<1>2. n \in DOMAIN nodes /\ nodes[n] \in Node
  BY DEF RegisterNode, PoolInv, NodesFit
<1> PICK row : row = [nodes[n] EXCEPT !.hostname = hostname, !.routed = b]
  OBVIOUS
<1>3. row \in Node
  BY <1>2 DEF Node
<1>4. ChangeNodes([nodes EXCEPT ![n].hostname = hostname, ![n].routed = b])
  BY <1>1, Zenon DEF RegisterNode
<1>5. [nodes EXCEPT ![n].hostname = hostname, ![n].routed = b] = [nodes EXCEPT ![n] = row]
  BY <1>2 DEF Node
<1>6. ChangeNodes([nodes EXCEPT ![n] = row])
  BY <1>4, <1>5
<1> QED BY <1>2, <1>3, <1>6, RowFits

LEMMA CheckNodeFits ==
  ASSUME PoolInv, NEW n \in NodeIds, NEW banned \in BOOLEAN, CheckNode(n, banned)
  PROVE  PoolInv'
<1>1. n \in DOMAIN nodes /\ nodes[n] \in Node
  BY DEF CheckNode, PoolInv, NodesFit
<1> PICK row : row = [nodes[n] EXCEPT !.banned = banned]
  OBVIOUS
<1>2. row \in Node
  BY <1>1 DEF Node
<1>3. ChangeNodes([nodes EXCEPT ![n] = row])
  BY <1>1 DEF CheckNode
<1> QED BY <1>1, <1>2, <1>3, RowFits

LEMMA RevokeNodeFits ==
  ASSUME PoolInv, NEW n \in NodeIds, RevokeNode(n)
  PROVE  PoolInv'
<1>1. PICK off \in BOOLEAN : off = FALSE
  OBVIOUS
<1>2. n \in DOMAIN nodes /\ nodes[n] \in Node
  BY DEF RevokeNode, PoolInv, NodesFit
<1> PICK row : row = [nodes[n] EXCEPT !.enabled = off]
  OBVIOUS
<1>3. row \in Node
  BY <1>2 DEF Node
<1>4. ChangeNodes([nodes EXCEPT ![n].enabled = off])
  BY <1>1, Zenon DEF RevokeNode
<1>5. [nodes EXCEPT ![n].enabled = off] = [nodes EXCEPT ![n] = row]
  BY <1>2
<1>6. ChangeNodes([nodes EXCEPT ![n] = row])
  BY <1>4, <1>5
<1> QED BY <1>2, <1>3, <1>6, RowFits

LEMMA TickFits ==
  ASSUME PoolInv, Tick
  PROVE  PoolInv'
<1>1. ClockFits' /\ NodesFit' /\ clock <= clock'
  BY PoolConstants DEF Tick, PoolInv, ClockFits, NodesFit, Time, tables, job
<1> QED BY <1>1, PoolsUntouched DEF Tick, kvs, job

----------------------------------------------------------------------------
LEMMA IpsTyped ==
  ASSUME NEW ips \in IpLists
  PROVE  /\ ips \in Seq(Ips) /\ Range(ips) \subseteq Ips
         /\ \E m \in 1..MaxIps : Len(ips) = m /\ DOMAIN ips = 1..m
<1>1. PICK m \in 0..MaxIps : ips \in [1..m -> Ips]
  BY DEF IpLists, SeqOf
<1>2. m # 0
  <2>1. ASSUME m = 0 PROVE FALSE
    <3>1. DOMAIN ips = {} /\ ips # <<>>
      BY <1>1, <2>1 DEF IpLists
    <3>2. ips = <<>>
      BY <1>1, <2>1
    <3> QED BY <3>1, <3>2
  <2> QED BY <2>1
<1>3. m \in Nat /\ ips \in Seq(Ips) /\ Len(ips) = m
  BY <1>1, PoolConstants
<1> QED BY <1>1, <1>2, <1>3, PoolConstants DEF Range

\* A run or its POST goes on: the tables, and what is stored, stay.
LEMMA WorkflowMoves ==
  ASSUME PoolInv, RunFits(workflow, clock)', ClockFits', validated \subseteq validated',
         UNCHANGED <<nodes, kv, kvSeen, request>>
  PROVE  PoolInv'
<1>1. StoredFits(kv)' /\ StoredFits(kvSeen)'
  <2>1. \A value : StoredFits(value) => StoredFits(value)'
    BY PoolsOutlive
  <2> PICK a, b : a = kv /\ b = kvSeen
    OBVIOUS
  <2>2. StoredFits(a)' /\ StoredFits(b)' /\ kv' = a /\ kvSeen' = b
    BY <2>1 DEF PoolInv
  <2> QED BY <2>2 DEF StoredFits, PoolFits, EntryFits
<1>2. SubscriptionsFit' /\ NodesFit'
  BY DEF PoolInv, SubscriptionsFit, SubscriptionFits, NodesFit
<1> QED BY <1>1, <1>2 DEF PoolInv

LEMMA ReadEligibleFits ==
  ASSUME PoolInv, ReadEligible
  PROVE  PoolInv'
<1> PICK hosts, now : hosts = [n \in Eligible |-> nodes[n].hostname] /\ now = clock
  OBVIOUS
<1> PICK run : run = [at |-> "measure", startedAt |-> now, found |-> <<>>, hosts |-> hosts]
  OBVIOUS
<1>1. /\ workflow' = run /\ clock' = now /\ runs < MaxRuns /\ runs' = runs + 1
      /\ UNCHANGED <<nodes, kv, kvSeen, request, clock, changes, validated>>
  BY DEF ReadEligible, tables, kvs
<1>2. ClockFits' /\ now \in Nat
  BY <1>1, PoolConstants DEF PoolInv, ClockFits, Time
<1>3. DOMAIN hosts \subseteq NodeIds /\ \A n \in DOMAIN hosts : hosts[n] \in Hostname
  BY DEF Eligible, PoolInv, NodesFit, Node
<1>4. MeasureFits(run, now)'
  <2>1. run.startedAt = now /\ run.found = <<>> /\ run.hosts = hosts
    OBVIOUS
  <2>2. run.startedAt \in 0..now /\ DOMAIN run.found = {}
    BY <1>2, <2>1
  <2> QED BY <1>3, <2>1, <2>2 DEF MeasureFits
<1>5. RunFits(workflow, clock)'
  BY <1>1, <1>4 DEF RunFits, MeasureFits, FoundFits
<1> QED BY <1>1, <1>2, <1>5, WorkflowMoves

LEMMA MeasureFitsRun ==
  ASSUME PoolInv, NEW n \in NodeIds, NEW ips \in IpLists, Measure(n, ips)
  PROVE  PoolInv'
<1> PICK run, now : run = workflow /\ now = clock
  OBVIOUS
<1> PICK found : found = [m \in DOMAIN run.found \cup {n} |->
                            IF m = n THEN ips ELSE run.found[m]]
  OBVIOUS
<1>1. /\ workflow' = [run EXCEPT !.found = found]
      /\ validated' = validated \cup {<<run.hosts[n].name, ip, now>> : ip \in Range(ips)}
      /\ UNCHANGED <<nodes, kv, kvSeen, request, clock, changes, runs>>
      /\ n \in DOMAIN run.hosts /\ run.at = "measure"
  BY DEF Measure, tables, kvs
<1>2. MeasureFits(run, now) /\ now \in Time /\ now \in Nat /\ clock' = now
  BY <1>1 DEF PoolInv, RunFits, AtRest, ClockFits, Time
<1>3. run.hosts[n] \in Hostname /\ run.hosts[n].name \in Names /\ Range(ips) \subseteq Ips
  BY <1>1, <1>2, IpsTyped DEF MeasureFits, Hostname
<1>4. ClockFits'
  BY <1>1, <1>2, <1>3 DEF PoolInv, ClockFits
<1> PICK next : next = [run EXCEPT !.found = found]
  OBVIOUS
<1>5. /\ next = [at |-> "measure", startedAt |-> run.startedAt, found |-> found,
                 hosts |-> run.hosts]
      /\ next.startedAt = run.startedAt /\ next.found = found /\ next.hosts = run.hosts
  BY <1>2 DEF MeasureFits
<1>6. ASSUME NEW m \in DOMAIN found
      PROVE  FoundFits(run.hosts[m], found[m], run.startedAt)'
  <2> PICK hostname, list, since :
        hostname = run.hosts[m] /\ list = found[m] /\ since = run.startedAt
    OBVIOUS
  <2>1. CASE m = n
    <3>1. list = ips /\ since <= now
      BY <1>2, <2>1 DEF MeasureFits
    <3>2. \A ip \in Range(list) : <<hostname.name, ip, now>> \in validated'
      BY <1>1, <2>1, <3>1
    <3> QED BY <1>2, <3>1, <3>2 DEF FoundFits
  <2>2. CASE m # n
    <3>1. m \in DOMAIN run.found /\ list = run.found[m]
      BY <2>2
    <3>2. FoundFits(hostname, list, since)
      BY <1>2, <3>1 DEF MeasureFits
    <3> QED BY <1>1, <3>2 DEF FoundFits
  <2> QED BY <2>1, <2>2
<1>7. MeasureFits(next, now)'
  <2>1. DOMAIN found \subseteq DOMAIN run.hosts
    BY <1>1, <1>2 DEF MeasureFits
  <2> QED BY <1>2, <1>5, <1>6, <2>1 DEF MeasureFits
<1>8. RunFits(workflow, clock)'
  <2>1. workflow' = next /\ clock' = now
    BY <1>1, <1>2
  <2>2. MeasureFits(workflow, clock)'
    BY <1>7, <2>1 DEF MeasureFits, FoundFits
  <2> QED BY <2>2 DEF RunFits
<1> QED BY <1>1, <1>4, <1>8, WorkflowMoves

LEMMA PublishFits ==
  ASSUME PoolInv, Publish
  PROVE  PoolInv'
<1> PICK run, now : run = workflow /\ now = clock
  OBVIOUS
<1> PICK pool : pool = [n \in DOMAIN run.found |->
                          [hostname |-> run.hosts[n], ips |-> run.found[n],
                           expiresAt |-> now + Lifetime]]
  OBVIOUS
<1>1. /\ workflow' = [at |-> "post", validatedAt |-> now, pool |-> pool]
      /\ run.at = "measure" /\ now <= run.startedAt + RunFor
      /\ UNCHANGED <<nodes, kv, kvSeen, request, clock, changes, runs, validated>>
  BY DEF Publish, InTime, tables, kvs
<1>2. MeasureFits(run, now) /\ now \in Nat /\ Lifetime \in Nat /\ RunFor \in Nat
  BY <1>1, PoolConstants DEF PoolInv, RunFits, AtRest, ClockFits, Time
<1>3. ASSUME NEW n \in DOMAIN run.found
      PROVE  EntryFits(pool[n])
  <2> PICK entry : entry = pool[n]
    OBVIOUS
  <2>1. /\ entry.hostname = run.hosts[n] /\ entry.ips = run.found[n]
        /\ entry.expiresAt = now + Lifetime
    OBVIOUS
  <2>2. run.hosts[n] \in Hostname /\ FoundFits(run.hosts[n], run.found[n], run.startedAt)
    BY <1>2 DEF MeasureFits
  <2>3. entry \in Entry
    BY <1>2, <2>2 DEF FoundFits, Entry
  <2>4. ASSUME NEW ip \in Range(entry.ips)
        PROVE  \E t \in Time : /\ <<entry.hostname.name, ip, t>> \in validated
                               /\ entry.expiresAt <= t + RunFor + Lifetime
    <3>1. PICK t \in Time : <<entry.hostname.name, ip, t>> \in validated /\ run.startedAt <= t
      BY <2>1, <2>2 DEF FoundFits
    <3>2. run.startedAt \in Nat /\ t \in Nat
      BY <1>2 DEF MeasureFits, Time
    <3>3. entry.expiresAt <= t + RunFor + Lifetime
      BY <1>1, <1>2, <2>1, <3>1, <3>2
    <3> QED BY <3>1, <3>3
  <2> QED BY <2>3, <2>4 DEF EntryFits
<1>4. PoolFits(pool)
  <2>1. DOMAIN run.found \in SUBSET NodeIds
    BY <1>2 DEF MeasureFits
  <2>2. pool \in [DOMAIN run.found -> Entry]
    BY <1>3 DEF EntryFits
  <2> QED BY <1>3, <2>1, <2>2 DEF PoolFits
<1>5. RunFits(workflow, clock)'
  <2>1. workflow'.at = "post" /\ workflow'.pool = pool
    BY <1>1
  <2> QED BY <1>1, <1>4, <2>1 DEF RunFits, PoolFits, EntryFits
<1>6. ClockFits'
  BY <1>1 DEF PoolInv, ClockFits
<1> QED BY <1>1, <1>5, <1>6, WorkflowMoves

\* The POST stores every hostname in lower case, which keeps its name.
LEMMA NormalizedFits ==
  ASSUME NEW pool, PoolFits(pool), NEW normal,
         normal = [n \in DOMAIN pool |-> Normalized(pool[n])]
  PROVE  PoolFits(normal) /\ Normal(normal)
<1>1. PICK on \in SUBSET NodeIds : pool \in [on -> Entry]
  BY DEF PoolFits
<1>2. ASSUME NEW n \in on
      PROVE  /\ normal[n] \in Entry /\ normal[n].ips = pool[n].ips
             /\ normal[n].expiresAt = pool[n].expiresAt
             /\ normal[n].hostname.name = pool[n].hostname.name
             /\ normal[n].hostname.canonical
  <2> PICK lower : lower = Lower(pool[n].hostname)
    OBVIOUS
  <2>1. pool[n] \in Entry /\ pool[n].hostname \in Hostname
    BY <1>1 DEF Entry
  <2>2. lower \in Hostname /\ lower.name = pool[n].hostname.name /\ lower.canonical
    BY <2>1, LowerTyped
  <2>3. normal[n] = [pool[n] EXCEPT !.hostname = lower]
    BY <1>1 DEF Normalized
  <2>4. /\ normal[n] \in Entry /\ normal[n].ips = pool[n].ips
        /\ normal[n].expiresAt = pool[n].expiresAt /\ normal[n].hostname = lower
    BY <2>1, <2>2, <2>3 DEF Entry
  <2> QED BY <2>2, <2>4
<1>3. normal \in [on -> Entry]
  BY <1>1, <1>2
<1>4. \A n \in on : EntryFits(normal[n])
  BY <1>1, <1>2 DEF PoolFits, EntryFits
<1> QED BY <1>2, <1>3, <1>4 DEF PoolFits, Normal

LEMMA CheckPoolFits ==
  ASSUME PoolInv, CheckPool
  PROVE  PoolInv'
<1> PICK pool : pool = [n \in DOMAIN workflow.pool |-> Normalized(workflow.pool[n])]
  OBVIOUS
<1>1. /\ workflow' = AtRest \/ workflow' = [at |-> "put", pool |-> pool]
      /\ workflow.at = "post"
      /\ UNCHANGED <<nodes, kv, kvSeen, request, clock, changes, runs, validated>>
  BY DEF CheckPool, tables, kvs
<1>2. PoolFits(workflow.pool)
  BY <1>1 DEF PoolInv, RunFits, MeasureFits, AtRest
<1>3. PoolFits(pool) /\ Normal(pool)
  <2> PICK posted : posted = workflow.pool
    OBVIOUS
  <2> QED BY <1>2, NormalizedFits
<1>4. PoolFits(pool)'
  BY <1>1, <1>3, PoolsOutlive
<1>5. RunFits(workflow, clock)'
  <2>1. CASE workflow' = AtRest
    BY <2>1 DEF RunFits
  <2>2. CASE workflow' = [at |-> "put", pool |-> pool]
    <3>1. workflow'.at = "put" /\ workflow'.pool = pool
      BY <2>2
    <3> QED BY <1>3, <1>4, <3>1 DEF RunFits, PoolFits, EntryFits, Normal
  <2> QED BY <1>1, <2>1, <2>2
<1>6. ClockFits'
  BY <1>1 DEF PoolInv, ClockFits
<1> QED BY <1>1, <1>5, <1>6, WorkflowMoves

LEMMA FailRunFits ==
  ASSUME PoolInv, FailRun
  PROVE  PoolInv'
<1>1. RunFits(workflow, clock)' /\ ClockFits'
  BY DEF FailRun, RunFits, PoolInv, ClockFits, tables
<1> QED BY <1>1, WorkflowMoves DEF FailRun, tables, kvs

\* A write, or its arrival at the last location.
LEMMA StoringFits ==
  ASSUME PoolInv, PutPool \/ Propagate
  PROVE  PoolInv'
<1>1. /\ UNCHANGED <<nodes, request, clock, changes, runs, validated>>
      /\ workflow' = workflow \/ workflow' = AtRest
      /\ kv' \in {kv, workflow.pool} /\ kvSeen' = kv
      /\ kv' = workflow.pool \/ kv' = kv
  BY DEF PutPool, Propagate, tables, job
<1>2. ASSUME PutPool PROVE StoredFits(workflow.pool)
  BY <1>2 DEF PutPool, PoolInv, RunFits, MeasureFits, AtRest, StoredFits
<1>3. /\ \A pool : PoolFits(pool) => PoolFits(pool)'
      /\ \A value : StoredFits(value) => StoredFits(value)'
  BY <1>1, PoolsOutlive
<1>4. StoredFits(kv)' /\ StoredFits(kvSeen)'
  <2> PICK old, new : old = kv /\ new = kv'
    OBVIOUS
  <2>1. StoredFits(old) /\ StoredFits(new)
    <3>1. CASE PutPool
      BY <1>2, <3>1 DEF PutPool, PoolInv
    <3>2. CASE Propagate
      BY <3>2 DEF Propagate, PoolInv
    <3> QED BY <3>1, <3>2
  <2>2. StoredFits(old)' /\ StoredFits(new)'
    BY <1>3, <2>1
  <2>3. kv' = new /\ kvSeen' = old
    BY <1>1
  <2> QED BY <2>2, <2>3 DEF StoredFits, PoolFits, EntryFits
<1>5. RunFits(workflow, clock)'
  <2>1. CASE workflow' = AtRest
    BY <2>1 DEF RunFits
  <2>2. CASE workflow' = workflow
    <3> PICK run, now : run = workflow /\ now = clock
      OBVIOUS
    <3>1. now \in Nat /\ now <= now /\ RunFits(run, now)
      BY DEF PoolInv, ClockFits, Time
    <3>2. RunFits(run, now)'
      BY <1>1, <3>1, RunOutlives
    <3> QED BY <1>1, <2>2, <3>2 DEF RunFits, MeasureFits, FoundFits, PoolFits, EntryFits
  <2> QED BY <1>1, <2>1, <2>2
<1>6. ClockFits' /\ NodesFit' /\ SubscriptionsFit'
  BY <1>1 DEF PoolInv, ClockFits, NodesFit, SubscriptionsFit, SubscriptionFits
<1> QED BY <1>4, <1>5, <1>6 DEF PoolInv

LEMMA SubscriptionMoves ==
  ASSUME PoolInv, NEW r \in Requests, NEW held, SubscriptionFits(r)',
         request' = [request EXCEPT ![r] = held],
         UNCHANGED <<nodes, kv, kvSeen, workflow, clock, changes, runs, validated>>
  PROVE  PoolInv'
<1>1. DOMAIN request' = Requests /\ \A q \in Requests \ {r} : request'[q] = request[q]
  BY DEF PoolInv, SubscriptionsFit
<1>2. SubscriptionsFit'
  BY <1>1 DEF PoolInv, SubscriptionsFit, SubscriptionFits
<1>3. /\ ClockFits' /\ NodesFit' /\ StoredFits(kv)' /\ StoredFits(kvSeen)'
      /\ RunFits(workflow, clock)'
  BY DEF PoolInv, ClockFits, NodesFit, StoredFits, RunFits, MeasureFits, FoundFits, PoolFits,
         EntryFits
<1> QED BY <1>2, <1>3 DEF PoolInv

LEMMA ReadNodesFits ==
  ASSUME PoolInv, NEW r \in Requests, NEW group, ReadNodes(r, group)
  PROVE  PoolInv'
<1> PICK table : table = NodesForUser(group)
  OBVIOUS
<1> DEFINE held == [at |-> "pool", nodes |-> table]
<1>1. /\ request' = [request EXCEPT ![r] = held]
      /\ UNCHANGED <<nodes, kv, kvSeen, workflow, clock, changes, runs, validated>>
  BY DEF ReadNodes, tables, kvs, job
<1>2. DOMAIN table \subseteq DOMAIN nodes /\ \A n \in DOMAIN table : table[n] = nodes[n]
  BY DEF NodesForUser, Restrict, Routed, Eligible
<1>3. request'[r].at = "pool" /\ request'[r].nodes = table
  BY <1>1 DEF PoolInv, SubscriptionsFit
<1>4. SubscriptionFits(r)'
  BY <1>2, <1>3 DEF SubscriptionFits, PoolInv, NodesFit
<1> QED BY <1>1, <1>4, SubscriptionMoves

LEMMA ServeFits ==
  ASSUME PoolInv, NEW r \in Requests, Serve(r)
  PROVE  PoolInv'
<1>1. SubscriptionFits(r)'
  BY DEF Serve, SubscriptionFits, PoolInv, SubscriptionsFit
<1> QED BY <1>1, SubscriptionMoves DEF Serve, tables, kvs, job

LEMMA PoolStepFits == PoolInv /\ [PoolNext]_poolVars => PoolInv'
<1> SUFFICES ASSUME PoolInv, [PoolNext]_poolVars PROVE PoolInv'
  OBVIOUS
<1>1. CASE UNCHANGED poolVars
  <2>1. ClockFits' /\ NodesFit' /\ clock <= clock'
    BY <1>1 DEF poolVars, tables, kvs, job, PoolInv, ClockFits, NodesFit, Time
  <2> QED BY <1>1, <2>1, PoolsUntouched DEF poolVars, kvs, job
<1>2. CASE ReadEligible \/ Publish
  BY <1>2, ReadEligibleFits, PublishFits
<1>3. CASE \E n \in NodeIds :
         \/ DeleteNode(n)
         \/ \E name \in Names : EnrollNode(n, name)
         \/ \E hostname \in Hostname, path \in BOOLEAN : RegisterNode(n, hostname, path)
         \/ \E banned \in BOOLEAN : CheckNode(n, banned)
         \/ RevokeNode(n)
         \/ \E ips \in IpLists : Measure(n, ips)
  BY <1>3, DeleteNodeFits, EnrollNodeFits, RegisterNodeFits, CheckNodeFits, RevokeNodeFits,
     MeasureFitsRun
<1>4. CASE CheckPool \/ PutPool \/ FailRun \/ Propagate \/ Tick
  BY <1>4, CheckPoolFits, FailRunFits, StoringFits, TickFits
<1>5. CASE \E r \in Requests :
         \/ \E group \in {{}} \cup {{n} : n \in NodeIds} : ReadNodes(r, group)
         \/ Serve(r)
  BY <1>5, ReadNodesFits, ServeFits
<1> QED BY <1>1, <1>2, <1>3, <1>4, <1>5, Zenon DEF PoolNext

LEMMA PoolInvHolds == PoolSpec => []PoolInv
<1> QED BY PoolStartFits, PoolStepFits, PTL DEF PoolSpec

----------------------------------------------------------------------------
\* Where a value of KV has something to serve a node with.
ValidFor(pool, n, node, now) ==
  /\ pool \notin {NoPool, Old} /\ n \in DOMAIN pool
  /\ pool[n].hostname.name = node.hostname.name
  /\ now < pool[n].expiresAt

LEMMA EntriesTyped ==
  ASSUME NEW pool, PoolFits(pool), NEW n \in DOMAIN pool
  PROVE  /\ n \in NodeIds /\ pool[n] \in Entry /\ pool[n].hostname \in Hostname
         /\ pool[n].ips \in IpLists /\ pool[n].expiresAt \in Nat
  BY DEF PoolFits, Entry

\* getOptimizedIpPool gives the entries that are not expired, or null if none is.
LEMMA ActiveEntries ==
  ASSUME NEW pool, PoolFits(pool), NEW now
  PROVE  /\ pool \notin {NoPool, Old}
         /\ Unexpired(pool, now) = {} => ActivePool(pool, now) = NoPool
         /\ Unexpired(pool, now) # {} =>
              /\ ActivePool(pool, now) # NoPool
              /\ ActivePool(pool, now) = [n \in Unexpired(pool, now) |-> pool[n]]
<1>1. PICK on \in SUBSET NodeIds : pool \in [on -> Entry]
  BY DEF PoolFits
<1>2. pool \notin {NoPool, Old}
  BY <1>1, NoPoolAssumption
<1> PICK left : left = Unexpired(pool, now)
  OBVIOUS
<1>3. left \in SUBSET NodeIds /\ left \subseteq on
  BY <1>1 DEF Unexpired
<1>4. [n \in left |-> pool[n]] \in [left -> Entry]
  BY <1>1, <1>3
<1>5. [n \in left |-> pool[n]] # NoPool
  BY <1>3, <1>4, NoPoolAssumption
<1>6. left # {} => ActivePool(pool, now) = [n \in left |-> pool[n]]
  BY <1>2 DEF ActivePool, Restrict
<1>7. left = {} => ActivePool(pool, now) = NoPool
  BY DEF ActivePool
<1> QED BY <1>2, <1>5, <1>6, <1>7

\* getOptimizedIpsByNode finds the entries that are valid for the nodes' names.
LEMMA IpsFound ==
  ASSUME NEW pool, StoredFits(pool), NEW now, NEW table, NEW n \in DOMAIN table,
         table[n] \in Node
  PROVE  /\ n \in DOMAIN IpsByNode(pool, table, now) <=> ValidFor(pool, n, table[n], now)
         /\ n \in DOMAIN IpsByNode(pool, table, now) =>
              IpsByNode(pool, table, now)[n] = pool[n].ips
<1>1. CASE pool \in {NoPool, Old}
  <2>1. IpsByNode(pool, table, now) = <<>>
    BY <1>1 DEF IpsByNode, ActivePool
  <2> QED BY <1>1, <2>1 DEF ValidFor
<1>2. CASE pool \notin {NoPool, Old}
  <2>0. PoolFits(pool) /\ Normal(pool)
    BY <1>2 DEF StoredFits
  <2> PICK left : left = Unexpired(pool, now)
    OBVIOUS
  <2>1. n \in left <=> n \in DOMAIN pool /\ now < pool[n].expiresAt
    BY DEF Unexpired
  <2>2. CASE left = {}
    <3>1. IpsByNode(pool, table, now) = <<>>
      BY <2>0, <2>2, ActiveEntries DEF IpsByNode
    <3> QED BY <2>1, <2>2, <3>1 DEF ValidFor
  <2>3. CASE left # {}
    <3> PICK active : active = [m \in left |-> pool[m]]
      OBVIOUS
    <3>1. ActivePool(pool, now) = active /\ active # NoPool
      BY <2>0, <2>3, ActiveEntries
    <3> PICK found : found = {m \in DOMAIN active \cap DOMAIN table :
                                SameHost(table[m].hostname, active[m])}
      OBVIOUS
    <3>2. IpsByNode(pool, table, now) = [m \in found |-> [k \in DOMAIN active |-> active[k].ips][m]]
      BY <3>1 DEF IpsByNode, Restrict
    <3>3. DOMAIN IpsByNode(pool, table, now) = found
      BY <3>2
    <3>4. n \in found => IpsByNode(pool, table, now)[n] = pool[n].ips
      BY <3>2
    <3>5. n \in left => (SameHost(table[n].hostname, pool[n]) <=>
                           pool[n].hostname.name = table[n].hostname.name)
      <4> SUFFICES ASSUME n \in left
                   PROVE  SameHost(table[n].hostname, pool[n]) <=>
                            pool[n].hostname.name = table[n].hostname.name
        OBVIOUS
      <4>1. /\ pool[n].hostname \in Hostname /\ pool[n].hostname.canonical
            /\ table[n].hostname \in Hostname
        BY <2>0, <2>1, EntriesTyped DEF Normal, Node
      <4>2. /\ Lower(table[n].hostname) \in Hostname /\ Lower(table[n].hostname).canonical
            /\ Lower(table[n].hostname).name = table[n].hostname.name
        BY <4>1, LowerTyped
      <4> QED BY <4>1, <4>2, CanonicalSame DEF SameHost
    <3> QED BY <1>2, <2>1, <3>3, <3>4, <3>5 DEF ValidFor
  <2> QED BY <2>2, <2>3
<1> QED BY <1>1, <1>2

\* resolveSubscriptionNodes cuts a list of addresses at the limit.
LEMMA AddressesCut ==
  ASSUME NEW ips \in IpLists, NEW cut,
         cut = SubSeq(ips, 1, IF Len(ips) < SubIps THEN Len(ips) ELSE SubIps)
  PROVE  /\ IsPrefix(cut, ips) /\ Len(cut) <= SubIps
         /\ Len(cut) < SubIps => cut = ips
         /\ Range(cut) \subseteq Range(ips)
<1>1. ips \in Seq(Ips) /\ Len(ips) \in Nat /\ SubIps \in Nat
  BY IpsTyped, PoolConstants
<1> PICK m : m = IF Len(ips) < SubIps THEN Len(ips) ELSE SubIps
  OBVIOUS
<1>2. m \in 0..Len(ips) /\ m <= SubIps /\ (m < SubIps => m = Len(ips))
  BY <1>1
<1>3. /\ cut \in Seq(Ips) /\ Len(cut) = m /\ DOMAIN cut = 1..m
      /\ \A i \in 1..m : cut[i] = ips[i]
  BY <1>1, <1>2
<1>4. SubSeq(cut, 1, Len(cut)) = SubSeq(ips, 1, Len(cut))
  <2>1. SubSeq(ips, 1, Len(cut)) = cut
    BY <1>2, <1>3
  <2>2. SubSeq(cut, 1, Len(cut)) = cut
    BY <1>3
  <2> QED BY <2>1, <2>2
<1>5. m = Len(ips) => cut = ips
  BY <1>1, <1>3
<1>6. Range(cut) \subseteq Range(ips)
  BY <1>1, <1>2, <1>3 DEF Range
<1> QED BY <1>1, <1>2, <1>3, <1>4, <1>5, <1>6 DEF IsPrefix

\* The addresses of a node in an answer.
LEMMA AnswerCut ==
  ASSUME NEW pool, StoredFits(pool), NEW table, NEW n \in DOMAIN table, table[n] \in Node
  PROVE  /\ UseOptimizedIps /\ ValidFor(pool, n, table[n], clock) =>
              Answer(table, pool)[n] =
                SubSeq(pool[n].ips, 1,
                       IF Len(pool[n].ips) < SubIps THEN Len(pool[n].ips) ELSE SubIps)
         /\ ~(UseOptimizedIps /\ ValidFor(pool, n, table[n], clock)) =>
              Answer(table, pool)[n] = <<>>
<1> PICK ips : ips = IF UseOptimizedIps THEN IpsByNode(pool, table, clock) ELSE <<>>
  OBVIOUS
<1>1. Answer(table, pool)[n] = Addresses(n, ips)
  BY DEF Answer
<1>2. ~(UseOptimizedIps /\ ValidFor(pool, n, table[n], clock)) => n \notin DOMAIN ips
  BY IpsFound
<1>3. UseOptimizedIps /\ ValidFor(pool, n, table[n], clock) =>
        n \in DOMAIN ips /\ ips[n] = pool[n].ips
  BY IpsFound
<1> QED BY <1>1, <1>2, <1>3 DEF Addresses

----------------------------------------------------------------------------
LEMMA SubscriptionHolds ==
  ASSUME PoolInv, NEW r \in Requests, request[r].at = "pool"
  PROVE  \A n \in DOMAIN request[r].nodes : request[r].nodes[n] \in Node
  BY DEF PoolInv, SubscriptionsFit, SubscriptionFits, AtRest

LEMMA ServedValidated == PoolInv => ServedWasValidated
<1> SUFFICES ASSUME PoolInv, NEW r \in Requests, NEW pool \in {kv, kvSeen},
                    request[r].at = "pool",
                    NEW n \in DOMAIN request[r].nodes,
                    NEW ip \in Range(Answer(request[r].nodes, pool)[n])
             PROVE  \E t \in Time :
                      /\ <<request[r].nodes[n].hostname.name, ip, t>> \in validated
                      /\ clock < t + RunFor + Lifetime
  BY DEF ServedWasValidated
<1> PICK table : table = request[r].nodes
  OBVIOUS
<1>1. StoredFits(pool) /\ n \in DOMAIN table /\ table[n] \in Node
  BY SubscriptionHolds DEF PoolInv
<1>2. UseOptimizedIps /\ ValidFor(pool, n, table[n], clock)
  <2> SUFFICES ASSUME ~(UseOptimizedIps /\ ValidFor(pool, n, table[n], clock)) PROVE FALSE
    OBVIOUS
  <2>1. Answer(table, pool)[n] = <<>>
    BY <1>1, AnswerCut
  <2>2. Range(<<>>) = {}
    BY DEF Range
  <2> QED BY <2>1, <2>2
<1>3. PoolFits(pool) /\ n \in DOMAIN pool
  BY <1>1, <1>2 DEF StoredFits, ValidFor
<1>4. pool[n].ips \in IpLists /\ pool[n].expiresAt \in Nat
  BY <1>3, EntriesTyped
<1>5. ip \in Range(pool[n].ips)
  <2> PICK cut : cut = Answer(table, pool)[n]
    OBVIOUS
  <2> PICK ips : ips = pool[n].ips
    OBVIOUS
  <2>1. cut = SubSeq(ips, 1, IF Len(ips) < SubIps THEN Len(ips) ELSE SubIps)
    BY <1>1, <1>2, AnswerCut
  <2>2. Range(cut) \subseteq Range(ips)
    BY <1>4, <2>1, AddressesCut
  <2> QED BY <2>2
<1>6. PICK t \in Time : /\ <<pool[n].hostname.name, ip, t>> \in validated
                        /\ pool[n].expiresAt <= t + RunFor + Lifetime
  BY <1>3, <1>5 DEF PoolFits, EntryFits
<1>7. clock < t + RunFor + Lifetime
  <2>1. clock \in Nat /\ t \in Nat /\ Lifetime \in Nat /\ RunFor \in Nat
    BY PoolConstants DEF PoolInv, ClockFits, Time
  <2>2. clock < pool[n].expiresAt
    BY <1>2 DEF ValidFor
  <2> QED BY <1>4, <1>6, <2>1, <2>2
<1>8. pool[n].hostname.name = table[n].hostname.name
  BY <1>2 DEF ValidFor
<1> QED BY <1>6, <1>7, <1>8

LEMMA ServedExactly == PoolInv => ServesWhatIsValid
<1> SUFFICES ASSUME PoolInv, NEW r \in Requests, NEW pool \in {kv, kvSeen},
                    request[r].at = "pool", NEW n \in DOMAIN request[r].nodes,
                    NEW table, table = request[r].nodes,
                    NEW addresses, addresses = Answer(table, pool)[n]
             PROVE  IF UseOptimizedIps /\ ValidFor(pool, n, table[n], clock)
                    THEN /\ IsPrefix(addresses, pool[n].ips)
                         /\ Len(addresses) <= SubIps
                         /\ Len(addresses) < SubIps => addresses = pool[n].ips
                    ELSE addresses = <<>>
  BY DEF ServesWhatIsValid, ValidFor
<1>1. StoredFits(pool) /\ n \in DOMAIN table /\ table[n] \in Node
  BY SubscriptionHolds DEF PoolInv
<1>2. CASE UseOptimizedIps /\ ValidFor(pool, n, table[n], clock)
  <2>1. PoolFits(pool) /\ n \in DOMAIN pool
    BY <1>1, <1>2 DEF StoredFits, ValidFor
  <2> PICK ips : ips = pool[n].ips
    OBVIOUS
  <2>2. ips \in IpLists
    BY <2>1, EntriesTyped
  <2>3. addresses = SubSeq(ips, 1, IF Len(ips) < SubIps THEN Len(ips) ELSE SubIps)
    BY <1>1, <1>2, AnswerCut
  <2>4. /\ IsPrefix(addresses, ips) /\ Len(addresses) <= SubIps
        /\ Len(addresses) < SubIps => addresses = ips
    BY <2>2, <2>3, AddressesCut
  <2> QED BY <1>2, <2>4
<1>3. CASE ~(UseOptimizedIps /\ ValidFor(pool, n, table[n], clock))
  BY <1>1, <1>3, AnswerCut
<1> QED BY <1>2, <1>3

\* Whatever the nodes, the writes of the pool and its readers did in between,
\* a subscription is answered with addresses for exactly those of the nodes it
\* read that the pool it read has an unexpired entry for under their hostname,
\* and both vantages validated these addresses for that hostname less than a
\* lifetime and the time of a run before (index.ts:1751-1806, subscription.ts,
\* optimize-ip.sh:355-484).
THEOREM ServesOnlyValid == PoolSpec => []ServesExactlyWhatIsValid
<1>1. PoolInv => ServesExactlyWhatIsValid
  <2> SUFFICES ASSUME PoolInv PROVE ServesExactlyWhatIsValid
    OBVIOUS
  <2>1. \A pool : PoolFits(pool) => Pool(pool)
    BY DEF PoolFits, EntryFits, Pool
  <2>2. \A value : StoredFits(value) => Stored(value)
    BY <2>1 DEF StoredFits, Stored, Normal, Pool
  <2>3. \/ workflow = AtRest \/ Measuring
        \/ workflow.at \in {"post", "put"} /\ Pool(workflow.pool)
    <3>1. CASE MeasureFits(workflow, clock)
      <4>1. workflow.at = "measure"
        BY <3>1 DEF MeasureFits
      <4>2. Measuring
        BY <3>1, <4>1 DEF MeasureFits, FoundFits, Measuring
      <4> QED BY <4>2
    <3>2. CASE ~MeasureFits(workflow, clock)
      BY <2>1, <3>2 DEF PoolInv, RunFits
    <3> QED BY <3>1, <3>2
  <2>4. PoolTypeOK
    BY <2>2, <2>3 DEF PoolInv, ClockFits, NodesFit, SubscriptionsFit, SubscriptionFits, PoolTypeOK
  <2> QED BY <2>4, ServedValidated, ServedExactly DEF ServesExactlyWhatIsValid
<1> QED BY <1>1, PoolInvHolds, PTL

\* The overview, the nodes page and the subscriptions filter one pool in three
\* ways (operations.ts:96-245, Nodes.tsx, index.ts) and agree for every node
\* whose hostname is spelled in lower case and whose path may be used.
THEOREM PagesKeepAgreeing == PoolSpec => []PagesAgree
<1>1. PoolInv => PagesAgree
  <2> SUFFICES ASSUME PoolInv, NEW pool \in {kv, kvSeen}, NEW n \in DOMAIN nodes,
                      nodes[n].hostname.canonical, nodes[n].routed,
                      NEW served, served = (UseOptimizedIps /\ n \in Routed
                                            /\ n \in DOMAIN IpsByNode(pool, nodes, clock)),
                      NEW alerts, alerts = PoolAlerts(pool, clock)
               PROVE  /\ PanelShowsIps(n, pool, clock) <=> served
                      /\ n \in Eligible => (served <=>
                           alerts \cap {FallsBack(n), OfPool("subscription-disabled"),
                                        OfPool("pool-unavailable")} = {})
                      /\ OfPool("zero-coverage") \in alerts => ~served
                      /\ served /\ pool[n].expiresAt <= clock + WarnAfter =>
                           OfPool("pool-expiring") \in alerts
    BY Zenon DEF PagesAgree
  <2>1. /\ StoredFits(pool) /\ nodes[n] \in Node /\ n \in NodeIds
        /\ nodes[n].hostname \in Hostname
    BY DEF PoolInv, NodesFit, Node
  <2>2. n \in DOMAIN IpsByNode(pool, nodes, clock) <=> ValidFor(pool, n, nodes[n], clock)
    BY <2>1, IpsFound
  <2>3. n \in Routed <=> n \in Eligible
    BY DEF Routed
  <2>4. /\ \A m : FallsBack(m) = FallsBack(n) => m = n
        /\ \A m : FallsBack(m) \notin
             {OfPool("subscription-disabled"), OfPool("pool-unavailable"),
              OfPool("zero-coverage"), OfPool("pool-expiring")}
        /\ {OfPool("zero-coverage"), OfPool("pool-expiring")}
             \cap {OfPool("subscription-disabled"), OfPool("pool-unavailable")} = {}
        /\ OfPool("zero-coverage") # OfPool("pool-expiring")
    <3>1. \A m : FallsBack(m).title = "falls back" /\ FallsBack(m).id = m
      BY DEF FallsBack
    <3>2. \A id : OfPool(id).title = id
      BY DEF OfPool
    <3>3. \A m : FallsBack(m) = FallsBack(n) => m = n
      BY <3>1
    <3>4. ASSUME NEW m, NEW id, FallsBack(m) = OfPool(id)
          PROVE  id = "falls back"
      <4>1. FallsBack(m).title = "falls back" /\ OfPool(id).title = id
        BY <3>1, <3>2
      <4> QED BY <3>4, <4>1
    <3>5. \A id, other : OfPool(id) = OfPool(other) => id = other
      BY <3>2
    <3> QED BY <3>3, <3>4, <3>5
  <2>5. CASE pool \in {NoPool, Old}
    <3>1. ~ValidFor(pool, n, nodes[n], clock) /\ ActivePool(pool, clock) = NoPool
      BY <2>5 DEF ValidFor, ActivePool
    <3>2. ~PanelShowsIps(n, pool, clock)
      BY <3>1 DEF PanelShowsIps
    <3>3. alerts = IF Eligible = {} THEN {}
                   ELSE IF ~UseOptimizedIps THEN {OfPool("subscription-disabled")}
                   ELSE {OfPool("pool-unavailable")}
      BY <2>5 DEF PoolAlerts
    <3> QED BY <2>2, <3>1, <3>2, <3>3
  <2>6. CASE pool \notin {NoPool, Old}
    <3> PICK active : active = {m \in Eligible : ~Fallback(m, pool, clock)}
      OBVIOUS
    <3>0. PoolFits(pool) /\ Normal(pool)
      BY <2>1, <2>6 DEF StoredFits
    <3>1. n \in DOMAIN pool => (pool[n].hostname = nodes[n].hostname <=>
                                  pool[n].hostname.name = nodes[n].hostname.name)
      BY <2>1, <3>0, EntriesTyped, CanonicalSame DEF Normal
    <3>2. n \in DOMAIN pool => pool[n].expiresAt \in Nat /\ clock \in Nat
      BY <3>0, EntriesTyped DEF PoolInv, ClockFits, Time
    <3>3. Fallback(n, pool, clock) <=> ~ValidFor(pool, n, nodes[n], clock)
      BY <2>6, <3>1, <3>2 DEF Fallback, ValidFor
    <3>4. PanelShowsIps(n, pool, clock) <=> served
      <4>1. n \in Unexpired(pool, clock) <=> n \in DOMAIN pool /\ clock < pool[n].expiresAt
        BY <3>2 DEF Unexpired
      <4>2. n \in Unexpired(pool, clock) => ActivePool(pool, clock) # NoPool
        BY <3>0, ActiveEntries
      <4> QED BY <2>2, <2>3, <2>6, <3>1, <4>1, <4>2 DEF PanelShowsIps, ValidFor
    <3>5. alerts = IF Eligible = {} THEN {}
                   ELSE IF ~UseOptimizedIps THEN {OfPool("subscription-disabled")}
                   ELSE {FallsBack(m) : m \in Eligible \ active}
                        \cup (IF active = {} THEN {OfPool("zero-coverage")}
                              ELSE IF \E m \in active : pool[m].expiresAt <= clock + WarnAfter
                              THEN {OfPool("pool-expiring")} ELSE {})
      BY <2>6 DEF PoolAlerts
    <3>6. served <=> UseOptimizedIps /\ n \in active
      BY <2>2, <2>3, <3>3
    <3>7. active \subseteq Eligible
      OBVIOUS
    <3>8. ASSUME n \in Eligible
          PROVE  served <=> alerts \cap {FallsBack(n), OfPool("subscription-disabled"),
                                         OfPool("pool-unavailable")} = {}
      <4>1. CASE ~UseOptimizedIps
        BY <3>5, <3>6, <3>8, <4>1
      <4>2. CASE UseOptimizedIps /\ n \in active
        BY <2>4, <3>5, <3>6, <3>7, <3>8, <4>2
      <4>3. CASE UseOptimizedIps /\ n \notin active
        BY <3>5, <3>6, <3>8, <4>3
      <4> QED BY <4>1, <4>2, <4>3
    <3>9. OfPool("zero-coverage") \in alerts => ~served
      <4> SUFFICES ASSUME served, OfPool("zero-coverage") \in alerts PROVE FALSE
        OBVIOUS
      <4>1. n \in active /\ n \in Eligible /\ UseOptimizedIps
        BY <3>6, <3>7
      <4> QED BY <2>4, <3>5, <4>1
    <3>10. served /\ pool[n].expiresAt <= clock + WarnAfter => OfPool("pool-expiring") \in alerts
      BY <3>5, <3>6, <3>7
    <3> QED BY <3>4, <3>8, <3>9, <3>10
  <2> QED BY <2>5, <2>6
<1> QED BY <1>1, PoolInvHolds, PTL
=============================================================================
