-------------------------- MODULE UsageReporting --------------------------
(***************************************************************************)
(* How one edge session's traffic becomes the account's usage.             *)
(*                                                                         *)
(* The edge runtime object (opus8-prelude.js) counts bytes, turns them     *)
(* into events with an id and queues these.  A flush call posts the first  *)
(* events of the queue; flush calls overlap, and one that finds another in *)
(* flight awaits runtime.flushPromise first.  A request may be lost, may   *)
(* be handled after the edge gave up on it, or its answer may be lost, so  *)
(* events are sent again.  The control plane (recordUsage, usage.ts)       *)
(* applies each event id at most once.  The session also renews its        *)
(* admission, and subtracts from the account's usage in the answer what    *)
(* it believes the account's usage already contains of its own bytes.      *)
(*                                                                         *)
(* JavaScript runs every continuation of a settled promise before the next *)
(* outside event, in the order of the awaits, so settling a flush and      *)
(* waking the calls that await it is one action here.                      *)
(***************************************************************************)
EXTENDS Integers, FiniteSets, Sequences, SequencesExt

CONSTANTS
  Calls,       \* flush calls that may overlap
  NoCall,      \* flushPromise = null
  BatchLimit,  \* events per request, 20 in the code
  MaxBytes,    \* bound of the model: units of traffic in the session
  MaxOther     \* bound of the model: usage other sessions report

ASSUME UsageAssumption ==
  /\ NoCall \notin Calls
  /\ BatchLimit \in Nat \ {0} /\ MaxBytes \in Nat /\ MaxOther \in Nat

VARIABLES
  pending,       \* bytesUp + bytesDown: transferred, not yet in an event
  sessionBytes,  \* bytes of the whole session
  seq,           \* number of events issued; the next event's id
  queue,         \* queuedEvents
  acked,         \* acknowledgedSessionBytes
  usedAtStart,   \* usedBytesAtStart: usage the session attributes to others
  flushPromise,  \* the call whose promise the field holds, or NoCall
  waiters,       \* for each call, the calls that await its promise
  call,          \* the state of each flush call
  closed,        \* the session has ended
  timer,         \* the initial flush of a stream transport is still to come
  doubled,       \* ghost: several calls have once resumed to post the same head
  renewal        \* the admission renewal in flight; ghosts: the others' usage
                 \* in its answer, and acked when the answer was given

edgeVars == <<pending, sessionBytes, seq, queue, acked, usedAtStart,
              flushPromise, waiters, call, closed, timer, doubled>>

VARIABLES
  late,        \* requests still under way that the edge has given up
  eventRows,   \* ids in usage_events
  used,        \* the sum of the account's usage rows
  accepting,   \* resolveAuthorizedCredentialOwner would find an owner
  metered,     \* traffic_limit_bytes > 0
  issued,      \* ghost: events this session has issued
  credited,    \* ghost: those of them added to used since it was last reset
  forgotten,   \* ghost: events credited before a reset, or reported while the
               \* account had no quota
  otherUsage   \* ghost: what other sessions added since then

serverVars == <<eventRows, used, accepting, metered, credited, forgotten, otherUsage>>
vars == <<edgeVars, renewal, late, issued, serverVars>>

-----------------------------------------------------------------------------
Event == [id : Nat, bytes : Nat]
Idle == [pc |-> "idle"]
Waiting(final) == [pc |-> "waiting", final |-> final]
Sending(final, batch) ==
  [pc |-> "sending", final |-> final, batch |-> batch, reply |-> "none"]

NextBatch(q) == SubSeq(q, 1, IF Len(q) < BatchLimit THEN Len(q) ELSE BatchLimit)

\* Mutant of Splice: the whole queue goes.
SpliceAll(q, n) == <<>>

\* splice(0, n): up to n elements leave the front.
Splice(q, n) == SubSeq(q, n + 1, Len(q))

\* events.reduce(...), and usage.ts's SUM(bytes_up + bytes_down).
BytesOf(events) == FoldLeft(LAMBDA sum, e : sum + e.bytes, 0, events)
Bytes(S) == MapThenSumSet(LAMBDA e : e.bytes, S)

Init ==
  /\ pending = 0 /\ sessionBytes = 0 /\ seq = 0 /\ queue = <<>>
  /\ acked = 0 /\ usedAtStart = 0
  /\ flushPromise = NoCall
  /\ waiters = [c \in Calls |-> <<>>]
  /\ call = [c \in Calls |-> Idle]
  /\ closed = FALSE /\ timer \in BOOLEAN /\ doubled = FALSE
  /\ renewal = [pc |-> "idle"]
  /\ late = {} /\ issued = {}
  /\ eventRows = {} /\ used = 0
  /\ accepting = TRUE /\ metered = TRUE
  /\ credited = {} /\ forgotten = {} /\ otherUsage = 0

-----------------------------------------------------------------------------
(* The edge session.                                                       *)

\* noteUplink, noteDownlink and the socket's message listener.
Transfer ==
  /\ ~closed
  /\ sessionBytes < MaxBytes
  /\ pending' = pending + 1
  /\ sessionBytes' = sessionBytes + 1
  /\ UNCHANGED <<seq, queue, acked, usedAtStart, flushPromise, waiters, call,
                 closed, timer, doubled, renewal, late, issued, serverVars>>

\* Mutant of QueueUsageEvent: the counters are not reset.
QueueUsageEventKeepingBytes ==
  LET queues == pending > 0 \/ seq = 0
      event == [id |-> seq, bytes |-> pending]
  IN /\ queue' = IF queues THEN Append(queue, event) ELSE queue
     /\ IF queues
        THEN pending' = pending /\ seq' = seq + 1 /\ issued' = issued \union {event}
        ELSE UNCHANGED <<pending, seq, issued>>

\* queueUsageEvent: pending bytes become an event; the first event also
\* reports the connection and is queued even without bytes.
QueuesEvent == pending > 0 \/ seq = 0
NewEvent == [id |-> seq, bytes |-> pending]
QueueAfter == IF QueuesEvent THEN Append(queue, NewEvent) ELSE queue
QueueUsageEvent ==
  /\ queue' = QueueAfter
  /\ IF QueuesEvent
     THEN pending' = 0 /\ seq' = seq + 1 /\ issued' = issued \union {NewEvent}
     ELSE UNCHANGED <<pending, seq, issued>>

\* flushUsage up to its first await: queue, then wait for the promise the
\* field holds, or post.
FlushUsage(c, final) ==
  /\ call[c] = Idle
  /\ QueueUsageEvent
  /\ \/ /\ flushPromise # NoCall
        /\ waiters' = [waiters EXCEPT ![flushPromise] = Append(@, c)]
        /\ call' = [call EXCEPT ![c] = Waiting(final)]
        /\ UNCHANGED flushPromise
     \/ /\ flushPromise = NoCall
        /\ QueueAfter # <<>>
        /\ call' = [call EXCEPT ![c] = Sending(final, NextBatch(QueueAfter))]
        /\ flushPromise' = c
        /\ UNCHANGED waiters
     \/ /\ flushPromise = NoCall
        /\ QueueAfter = <<>>
        /\ UNCHANGED <<waiters, call, flushPromise>>
  /\ UNCHANGED <<sessionBytes, acked, usedAtStart, doubled, renewal, late, serverVars>>

\* maybeFlushUsage: some bytes are pending.  How many, or for how long, is a
\* matter of sizes and clocks that are left open here.
Flush(c) == ~closed /\ pending > 0 /\ FlushUsage(c, FALSE) /\ UNCHANGED <<closed, timer>>

\* scheduleInitialStreamUsage: once, whatever has happened by then.
InitialFlush(c) == timer /\ timer' = FALSE /\ FlushUsage(c, FALSE) /\ UNCHANGED closed

\* finishUsage: the socket closed, or the quota closed it.
Finish(c) == ~closed /\ closed' = TRUE /\ FlushUsage(c, TRUE) /\ UNCHANGED timer

\* Mutant of Settle: the awaiting calls are not woken.
SettleSilently(c, q) ==
  /\ waiters' = [waiters EXCEPT ![c] = <<>>]
  /\ call' = [call EXCEPT ![c] = Idle]
  /\ flushPromise' = NoCall
  /\ UNCHANGED doubled
\* The promise of call c settles with the queue as q.  Its finally clause
\* clears the field, whoever's promise that holds by now; the calls awaiting
\* it resume in turn, and each of them posts the head of the same queue.
Settle(c, q) ==
  LET woken == waiters[c] IN
  /\ waiters' = [waiters EXCEPT ![c] = <<>>]
  /\ call' = [d \in Calls |->
       IF d = c THEN Idle
       ELSE IF Contains(woken, d)
       THEN IF q = <<>> THEN Idle ELSE Sending(call[d].final, NextBatch(q))
       ELSE call[d]]
  /\ flushPromise' = IF woken = <<>> \/ q = <<>> THEN NoCall ELSE Last(woken)
  /\ doubled' = (doubled \/ (Len(woken) > 1 /\ q # <<>>))

\* A 2xx answer arrives: the events leave the queue; a final flush goes on
\* until the queue is empty, any other one ends here.
FlushAnswered(c) ==
  /\ call[c].pc = "sending" /\ call[c].reply = "ok"
  /\ LET q == Splice(queue, Len(call[c].batch)) IN
     /\ queue' = q
     /\ IF call[c].final /\ q # <<>>
        THEN /\ call' = [call EXCEPT ![c] = Sending(TRUE, NextBatch(q))]
             /\ UNCHANGED <<waiters, flushPromise, doubled>>
        ELSE Settle(c, q)
  /\ acked' = acked + BytesOf(call[c].batch)
  /\ UNCHANGED <<pending, sessionBytes, seq, usedAtStart, closed, timer, renewal,
                 late, issued, serverVars>>

\* Mutant of FlushFailed: the events count as confirmed and stay queued.
FlushFailedCounting(c) ==
  /\ call[c].pc = "sending" /\ call[c].reply # "ok"
  /\ acked' = acked + BytesOf(call[c].batch)
  /\ Settle(c, queue)
  /\ UNCHANGED <<pending, sessionBytes, seq, queue, usedAtStart, closed, timer,
                 renewal, late, issued, serverVars>>

\* fetch throws, before or after the control plane handled the request, or
\* the answer is an error: the events stay queued.  A request without an
\* answer is lost, or is still under way.
FlushFailed(c) ==
  /\ call[c].pc = "sending" /\ call[c].reply # "ok"
  /\ \/ UNCHANGED late
     \/ call[c].reply = "none" /\ late' = late \union {call[c].batch}
  /\ Settle(c, queue)
  /\ UNCHANGED <<pending, sessionBytes, seq, queue, acked, usedAtStart, closed,
                 timer, renewal, issued, serverVars>>

AnswerLost(c) ==
  /\ call[c].pc = "sending" /\ call[c].reply = "ok"
  /\ Settle(c, queue)
  /\ UNCHANGED <<pending, sessionBytes, seq, queue, acked, usedAtStart, closed,
                 timer, renewal, late, issued, serverVars>>

\* maybeRenewAdmission: ask; admitConnection reads the account's usage; the
\* answer arrives and refreshQuotaBase runs.  A failed renewal changes nothing.
AskRenewal ==
  /\ ~closed /\ renewal.pc = "idle"
  /\ renewal' = [pc |-> "asked"]
  /\ UNCHANGED <<edgeVars, late, issued, serverVars>>

AnswerRenewal ==
  /\ renewal.pc = "asked"
  /\ renewal' = [pc |-> "answered", usedBytes |-> used, others |-> otherUsage,
                acked |-> acked]
  /\ UNCHANGED <<edgeVars, late, issued, serverVars>>

RefreshQuotaBase ==
  /\ renewal.pc = "answered"
  /\ usedAtStart' = Max({usedAtStart, Max({0, renewal.usedBytes - acked})})
  /\ renewal' = [pc |-> "idle"]
  /\ UNCHANGED <<pending, sessionBytes, seq, queue, acked, flushPromise,
                 waiters, call, closed, timer, doubled, late, issued, serverVars>>

RenewalFailed ==
  /\ renewal.pc # "idle"
  /\ renewal' = [pc |-> "idle"]
  /\ UNCHANGED <<edgeVars, late, issued, serverVars>>

-----------------------------------------------------------------------------
(* The control plane.                                                      *)

\* Mutant of RecordUsage: every reported event is added, new or not.
RecordUsageAgain(batch) ==
  LET fresh == IF metered THEN ToSet(batch) ELSE {}
  IN /\ eventRows' = eventRows \union {e.id : e \in fresh}
     /\ used' = used + Bytes(fresh)
     /\ credited' = credited \union fresh
     /\ UNCHANGED <<accepting, metered, forgotten, otherUsage>>

\* recordUsage's batch: insert the events that have no row yet, add exactly
\* those to the usage.  Nothing is stored for an account without a quota.
RecordUsage(batch) ==
  LET fresh == IF metered
               THEN {e \in ToSet(batch) : e.id \notin eventRows} ELSE {}
  IN /\ eventRows' = eventRows \union {e.id : e \in fresh}
     /\ used' = used + Bytes(fresh)
     /\ credited' = credited \union fresh
     /\ forgotten' = IF metered THEN forgotten ELSE forgotten \union ToSet(batch)
     /\ UNCHANGED <<accepting, metered, otherUsage>>

\* One credential without an owner refuses the whole request with 400.
HandleUsage(c) ==
  /\ call[c].pc = "sending" /\ call[c].reply = "none"
  /\ IF accepting
     THEN /\ RecordUsage(call[c].batch)
          /\ call' = [call EXCEPT ![c].reply = "ok"]
     ELSE /\ UNCHANGED serverVars
          /\ call' = [call EXCEPT ![c].reply = "refused"]
  /\ UNCHANGED <<pending, sessionBytes, seq, queue, acked, usedAtStart,
                 flushPromise, waiters, closed, timer, doubled, renewal, late, issued>>

HandleLate(batch) ==
  /\ IF accepting THEN RecordUsage(batch) ELSE UNCHANGED serverVars
  /\ late' = late \ {batch}
  /\ UNCHANGED <<edgeVars, renewal, issued>>

RecordElsewhere ==
  /\ otherUsage < MaxOther
  /\ otherUsage' = otherUsage + 1
  /\ used' = used + 1
  /\ UNCHANGED <<edgeVars, renewal, late, issued, eventRows, accepting, metered,
                 credited, forgotten>>

\* resetUserUsage.
ResetUserUsage ==
  /\ eventRows' = {} /\ used' = 0 /\ credited' = {} /\ otherUsage' = 0
  /\ forgotten' = forgotten \union credited
  /\ UNCHANGED <<edgeVars, renewal, late, issued, accepting, metered>>

\* recordUsage and maintenance delete event rows after two days, which "only
\* need to cover the node's short retry window" (usage.ts:361): an id is
\* purged once no copy of its event can be sent any more.
Purge ==
  LET inUse == UNION ({ToSet(queue)} \union {ToSet(b) : b \in late} \union
                  {ToSet(call[c].batch) : c \in {d \in Calls : call[d].pc = "sending"}})
  IN /\ eventRows' = eventRows \intersect {e.id : e \in inUse}
     /\ UNCHANGED <<edgeVars, renewal, late, issued, used, accepting, metered,
                    credited, forgotten, otherUsage>>

\* The administrator disables or re-enables the account, or changes its quota.
ChangeAccount ==
  /\ \/ accepting' = ~accepting /\ UNCHANGED metered
     \/ metered' = ~metered /\ UNCHANGED accepting
  /\ UNCHANGED <<edgeVars, renewal, late, issued, eventRows, used, credited,
                 forgotten, otherUsage>>

-----------------------------------------------------------------------------
FlushSteps(c) == FlushAnswered(c) \/ FlushFailed(c) \/ AnswerLost(c)

Next ==
  \/ Transfer
  \/ \E c \in Calls :
       Flush(c) \/ InitialFlush(c) \/ Finish(c) \/ FlushSteps(c) \/ HandleUsage(c)
  \/ AskRenewal \/ AnswerRenewal \/ RefreshQuotaBase \/ RenewalFailed
  \/ \E batch \in late : HandleLate(batch)
  \/ RecordElsewhere \/ ResetUserUsage \/ Purge \/ ChangeAccount

\* A fetch returns or throws in the end; nothing else is assumed.
Fairness == \A c \in Calls : WF_vars(FlushSteps(c))

Spec == Init /\ [][Next]_vars /\ Fairness

-----------------------------------------------------------------------------
(* Properties.                                                             *)

\* Types, and that a promise somebody awaits, or the field holds, belongs to
\* a call that is still posting.
TypeOK ==
  /\ {pending, sessionBytes, seq, acked, usedAtStart, used, otherUsage} \subseteq Nat
  /\ queue \in Seq(Event)
  /\ issued \subseteq Event /\ credited \subseteq issued /\ forgotten \subseteq issued
  /\ eventRows \subseteq Nat
  /\ late \subseteq Seq(Event)
  /\ {closed, timer, doubled, accepting, metered} \subseteq BOOLEAN
  /\ renewal.pc \in {"idle", "asked", "answered"}
  /\ \A c \in Calls :
       /\ call[c].pc \in {"idle", "waiting", "sending"}
       /\ call[c].pc = "sending" => call[c].batch \in Seq(Event)
       /\ waiters[c] \in Seq(Calls)
       /\ flushPromise = c \/ waiters[c] # <<>> => call[c].pc = "sending"
  /\ flushPromise \in Calls \union {NoCall}

\* Reporting implements the ledger: however often and late a report is
\* handled, its event is added to the usage at most once per period.
Ledger == INSTANCE UsageLedger WITH Events <- Event, others <- otherUsage, total <- used
CreditsOnce == Ledger!Spec

\* The account is never charged for more of this session than it transferred:
\* the usage is what others used plus distinct events cut from its bytes.
NeverOvercharges ==
  /\ used = otherUsage + Bytes(credited)
  /\ sessionBytes = pending + Bytes(issued)

\* An event leaves the session's queue only in the step that takes in a
\* successful answer to a request which carried it (prelude:1064), as long as
\* no two calls have resumed to post the same head of the queue.
EventsLeaveWhenConfirmed ==
  [][~doubled => \A e \in ToSet(queue) \ ToSet(queue') :
       \E c \in Calls : /\ call[c].pc = "sending" /\ call[c].reply = "ok"
                        /\ e \in ToSet(call[c].batch)]_vars

\* ARCHITECTURE.md:104: a renewal subtracts "what this session has reported
\* and had confirmed": acknowledgedSessionBytes is the bytes of the events
\* that were confirmed and left the queue, each once (prelude:1064-1068).
AckedIsConfirmed == acked = Bytes(issued) - BytesOf(queue)

\* The same as far as the code keeps it: until two calls that awaited one
\* promise both resume and post the same events.
AckedUntilDoubled == ~doubled => AckedIsConfirmed

\* The answer of a renewal and the confirmed bytes subtracted from it are of
\* different moments (prelude:734-742).  What the session then attributes to
\* others, and counts against the quota beside its own bytes (708-714), is too
\* little by no more than the bytes confirmed since the answer and those the
\* control plane forgot, and is raised above what others used only by bytes
\* whose events wait to be confirmed.
QuotaBaseNearOthers ==
  [][~doubled /\ RefreshQuotaBase =>
       /\ renewal.others <= usedAtStart' + (acked - renewal.acked) + Bytes(forgotten)
       /\ usedAtStart' > usedAtStart =>
            usedAtStart' <= renewal.others + BytesOf(queue)]_vars

\* A call that awaits another one's promise resumes, although calls overwrite
\* and clear the field of promises that are not theirs (prelude:1044-1075).
WaitersResume == \A c \in Calls : call[c].pc = "waiting" ~> call[c].pc # "waiting"


\* What the runs check of the bytes: through overlapping flushes, lost answers,
\* late requests and resets (prelude:1044-1075, usage.ts:252-372) every byte
\* the session transferred stays in exactly one place, the counter, the queue,
\* or the confirmed bytes, and none is charged twice.
BytesAccounted == TypeOK /\ NeverOvercharges /\ AckedUntilDoubled
=============================================================================
