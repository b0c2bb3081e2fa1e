------------------------------- MODULE Outbox -------------------------------
(***************************************************************************)
(* The transactional outbox: the table outbox_events, the statements of    *)
(* postgresStore (internal/outbox/store.go) and the polling loop of Worker *)
(* (internal/outbox/worker.go), run by any number of worker processes.     *)
(*                                                                         *)
(* A statement is sent by a worker, executed by PostgreSQL in one          *)
(* transaction of its own, and answered.  The worker may give up on it at  *)
(* any moment (query timeout, lost connection, shutdown, crash), before or *)
(* after it has been executed.  The clock is abstracted to one bit per     *)
(* row: due[e] says that available_at <= now() (a pending row) or that     *)
(* locked_until <= now() (a processing row).                               *)
(***************************************************************************)
EXTENDS Naturals, FiniteSets

CONSTANTS
    Workers,         \* worker ids; newWorkerID draws a fresh one per process
    Events,          \* outbox_events.id
    Leases,          \* names for the acquisitions made by ClaimNext
    MaxFailures,     \* OUTBOX_MAX_FAILURES
    FailureReasons,  \* the failing PublishOutcome values
    LateExecution,   \* may a statement its client gave up on still execute?
    NULL

ASSUME OutboxAssumption ==
    /\ MaxFailures \in Nat \ {0}
    /\ LateExecution \in BOOLEAN
    /\ NULL \notin Workers \cup Events \cup Leases \cup FailureReasons
    /\ "success" \notin FailureReasons

VARIABLES
    status,             \* the columns of outbox_events
    failedAttempts,
    lastFailureReason,
    due,
    lockedBy,
    leaseOf,            \* (history) the acquisition that set locked_by
    publishedAt,        \* published_at IS NOT NULL
    deadLetteredAt,     \* dead_lettered_at IS NOT NULL
    pc,                 \* where each worker's Run loop is
    canceled,           \* ctx.Err() # nil in that worker
    held,               \* the event runOnce is processing
    seen,               \* event.FailedAttempts, as ClaimNext returned it
    lease,              \* the acquisition it is asking for or working under
    inflight,           \* statements sent and not executed
    delivered           \* the events the downstream system has received

rowVars    == <<status, failedAttempts, lastFailureReason, due, lockedBy, leaseOf,
                publishedAt, deadLetteredAt>>
workerVars == <<pc, canceled, held, seen, lease>>
vars       == <<rowVars, workerVars, inflight, delivered>>

\* "absent" and "purged" stand for no row: not inserted yet, and deleted.
Statuses == {"absent", "pending", "processing", "published", "dead_letter", "purged"}
Settled  == {"published", "dead_letter", "purged"}
PCs      == {"off", "waiting", "claiming", "publishing", "finalizing"}
Outcomes == {"success"} \cup FailureReasons

Ops       == {"claim", "mark_published", "schedule_retry", "mark_dead_letter"}
Statement == [op     : Ops,
              worker : Workers,
              event  : Events \cup {NULL},
              lease  : Leases,
              reason : FailureReasons \cup {NULL}]

Init ==
    /\ status            = [e \in Events |-> "absent"]
    /\ failedAttempts    = [e \in Events |-> 0]
    /\ lastFailureReason = [e \in Events |-> NULL]
    /\ due               = [e \in Events |-> FALSE]
    /\ lockedBy          = [e \in Events |-> NULL]
    /\ leaseOf           = [e \in Events |-> NULL]
    /\ publishedAt       = [e \in Events |-> FALSE]
    /\ deadLetteredAt    = [e \in Events |-> FALSE]
    /\ pc       = [w \in Workers |-> "off"]
    /\ canceled = [w \in Workers |-> FALSE]
    /\ held     = [w \in Workers |-> NULL]
    /\ seen     = [w \in Workers |-> 0]
    /\ lease    = [w \in Workers |-> NULL]
    /\ inflight  = {}
    /\ delivered = {}

-----------------------------------------------------------------------------
(* The environment of the worker. *)

\* The API's transaction commits a claim with its pending, immediately
\* available outbox event.
InsertEvent(e) ==
    /\ status[e] = "absent"
    /\ status' = [status EXCEPT ![e] = "pending"]
    /\ due'    = [due EXCEPT ![e] = TRUE]
    /\ UNCHANGED <<failedAttempts, lastFailureReason, lockedBy, leaseOf, publishedAt,
                   deadLetteredAt, workerVars, inflight, delivered>>

\* The retry delay or the lease of row e runs out.
TimePasses(e) ==
    /\ status[e] \in {"pending", "processing"}
    /\ ~due[e]
    /\ due' = [due EXCEPT ![e] = TRUE]
    /\ UNCHANGED <<status, failedAttempts, lastFailureReason, lockedBy, leaseOf,
                   publishedAt, deadLetteredAt, workerVars, inflight, delivered>>

\* The retention job of the runbook deletes published rows.
PurgePublished(e) ==
    /\ status[e] = "published"
    /\ status'      = [status EXCEPT ![e] = "purged"]
    /\ publishedAt' = [publishedAt EXCEPT ![e] = FALSE]
    /\ UNCHANGED <<failedAttempts, lastFailureReason, due, lockedBy, leaseOf,
                   deadLetteredAt, workerVars, inflight, delivered>>

\* The downstream system receives the event a worker is publishing.
Deliver(w) ==
    /\ pc[w] = "publishing"
    /\ held[w] \notin delivered
    /\ delivered' = delivered \cup {held[w]}
    /\ UNCHANGED <<rowVars, workerVars, inflight>>

-----------------------------------------------------------------------------
(* The worker: Run, runOnce and processEvent. *)

\* A statement whose answer its worker still waits for.
Awaited(s) ==
    /\ pc[s.worker] = IF s.op = "claim" THEN "claiming" ELSE "finalizing"
    /\ lease[s.worker] = s.lease

\* What can be left of the statements in flight once w waits no longer: a
\* statement that never reaches the server is gone, one that does may run late.
InflightWithout(w) ==
    {{s \in inflight : ~(s.worker = w /\ Awaited(s))}}
        \cup (IF LateExecution THEN {inflight} ELSE {})

\* The iteration of w ends and the loop goes to next, "waiting" or "off".
EndIteration(w, next) ==
    /\ pc'       = [pc EXCEPT ![w] = next]
    /\ canceled' = [canceled EXCEPT ![w] = @ /\ next # "off"]
    /\ held'     = [held EXCEPT ![w] = NULL]
    /\ seen'     = [seen EXCEPT ![w] = 0]
    /\ lease'    = [lease EXCEPT ![w] = NULL]

\* A new process: its id was never used before, so no row and no statement
\* carries it.
Start(w) ==
    /\ pc[w] = "off"
    /\ \A e \in Events : lockedBy[e] # w
    /\ \A s \in inflight : s.worker # w
    /\ pc' = [pc EXCEPT ![w] = "waiting"]
    /\ UNCHANGED <<rowVars, canceled, held, seen, lease, inflight, delivered>>

\* SIGTERM, or the admin server failing: the worker's context is canceled.
Cancel(w) ==
    /\ pc[w] # "off"
    /\ ~canceled[w]
    /\ canceled' = [canceled EXCEPT ![w] = TRUE]
    /\ UNCHANGED <<rowVars, pc, held, seen, lease, inflight, delivered>>

\* Faulty variant: the loop wants to see the table drained before it stops.
StopLoopWhenDrained(w) ==
    /\ pc[w] = "waiting"
    /\ canceled[w]
    /\ \A e \in Events : status[e] # "pending"
    /\ EndIteration(w, "off")
    /\ UNCHANGED <<rowVars, inflight, delivered>>

\* Run's select takes ctx.Done (or runOnce finds the context done at once).
StopLoop(w) ==
    /\ pc[w] = "waiting"
    /\ canceled[w]
    /\ EndIteration(w, "off")
    /\ UNCHANGED <<rowVars, inflight, delivered>>

\* Names of acquisitions nothing refers to any more.
FreeLeases ==
    Leases \ ({s.lease : s \in inflight} \cup {leaseOf[e] : e \in Events}
                \cup {lease[w] : w \in Workers})

\* The timer fires: runOnce sends the statement of ClaimNext.
BeginClaim(w, l) ==
    /\ pc[w] = "waiting"
    /\ ~canceled[w]
    /\ l \in FreeLeases
    /\ pc'    = [pc EXCEPT ![w] = "claiming"]
    /\ lease' = [lease EXCEPT ![w] = l]
    /\ inflight' = inflight \cup
           {[op |-> "claim", worker |-> w, event |-> NULL, lease |-> l, reason |-> NULL]}
    /\ UNCHANGED <<rowVars, canceled, held, seen, delivered>>

\* Faulty variant: publishErr is not looked at.
TransitionIgnoresError(w, outcome) == "mark_published"

\* The transition processEvent asks for after a publish with this outcome.
Transition(w, outcome) ==
    CASE outcome = "success"            -> "mark_published"
      [] outcome # "success"
           /\ seen[w] + 1 >= MaxFailures -> "mark_dead_letter"
      [] outcome # "success"
           /\ seen[w] + 1 < MaxFailures  -> "schedule_retry"

\* Faulty variant: the finalization has a context of its own, and a shutdown
\* during the publish is taken for a failure of the publisher.
PublishReturnsDetached(w, outcome) ==
    /\ pc[w] = "publishing"
    /\ outcome = "success" => held[w] \in delivered
    /\ pc' = [pc EXCEPT ![w] = "finalizing"]
    /\ inflight' = inflight \cup
           {[op     |-> Transition(w, outcome),
             worker |-> w,
             event  |-> held[w],
             lease  |-> lease[w],
             reason |-> IF outcome = "success" THEN NULL ELSE outcome]}
    /\ UNCHANGED <<rowVars, canceled, held, seen, lease, delivered>>

\* The publisher returns and the finalization is sent, unless the process is
\* shutting down: then nothing is recorded, neither a failure (processEvent
\* returns ctx.Err()) nor a success (MarkPublished fails on its canceled
\* context before anything is sent), and the row stays leased.
PublishReturns(w, outcome) ==
    /\ pc[w] = "publishing"
    /\ outcome = "success" => held[w] \in delivered
    /\ \/ /\ canceled[w]
          /\ EndIteration(w, "off")
          /\ UNCHANGED inflight
       \/ /\ ~canceled[w]
          /\ pc' = [pc EXCEPT ![w] = "finalizing"]
          /\ inflight' = inflight \cup
                 {[op     |-> Transition(w, outcome),
                   worker |-> w,
                   event  |-> held[w],
                   lease  |-> lease[w],
                   reason |-> IF outcome = "success" THEN NULL ELSE outcome]}
          /\ UNCHANGED <<canceled, held, seen, lease>>
    /\ UNCHANGED <<rowVars, delivered>>

\* w gives up on its statement.  Unavailable: the query timeout, or an error
\* IsUnavailable accepts; the loop retries.  Otherwise Run returns: cleanly
\* when the context is canceled, with errWorkerFatal on any other error.
GiveUp(w, next) ==
    /\ pc[w] \in {"claiming", "finalizing"}
    /\ inflight' \in InflightWithout(w)
    /\ EndIteration(w, next)
    /\ UNCHANGED <<rowVars, delivered>>

StoreUnavailable(w) == GiveUp(w, "waiting")
StoreCanceled(w)    == canceled[w] /\ GiveUp(w, "off")
StoreFatal(w)       == ~canceled[w] /\ GiveUp(w, "off")

\* The process dies; what it had in memory is lost.
Crash(w) ==
    /\ pc[w] # "off"
    /\ inflight' \in InflightWithout(w)
    /\ EndIteration(w, "off")
    /\ UNCHANGED <<rowVars, delivered>>

-----------------------------------------------------------------------------
(* PostgreSQL executes a statement in flight. *)

\* Faulty variant: expired leases are not recovered.
ClaimablePendingOnly(e) == status[e] = "pending" /\ due[e]

\* The rows the claiming query selects from.
Claimable(e) ==
    /\ status[e] \in {"pending", "processing"}
    /\ due[e]

\* The answer reaches the worker, if it still waits and the answer is not lost.
ClaimAnswered(s, e) ==
    \/ /\ Awaited(s)
       /\ pc'   = [pc EXCEPT ![s.worker] = "publishing"]
       /\ held' = [held EXCEPT ![s.worker] = e]
       /\ seen' = [seen EXCEPT ![s.worker] = failedAttempts[e]]
       /\ UNCHANGED <<canceled, lease>>
    \/ UNCHANGED workerVars

\* The answer empties the worker's hands: nothing to claim, the transition
\* is recorded, or the lease is lost (ErrLeaseLost).
IterationAnswered(s) ==
    \/ Awaited(s) /\ EndIteration(s.worker, "waiting")
    \/ UNCHANGED workerVars

ClaimNext(s, e) ==
    /\ s.op = "claim"
    /\ Claimable(e)
    /\ status'   = [status EXCEPT ![e] = "processing"]
    /\ lockedBy' = [lockedBy EXCEPT ![e] = s.worker]
    /\ leaseOf'  = [leaseOf EXCEPT ![e] = s.lease]
    /\ due'      = [due EXCEPT ![e] = FALSE]
    /\ inflight' = inflight \ {s}
    /\ ClaimAnswered(s, e)
    /\ UNCHANGED <<failedAttempts, lastFailureReason, publishedAt, deadLetteredAt, delivered>>

\* SKIP LOCKED: a claimable row is passed over when another statement that is
\* being executed may have it locked.
ClaimNextEmpty(s) ==
    /\ s.op = "claim"
    /\ \A e \in Events : Claimable(e) =>
           \E t \in inflight \ {s} : t.op = "claim" \/ t.event = e
    /\ inflight' = inflight \ {s}
    /\ IterationAnswered(s)
    /\ UNCHANGED <<rowVars, delivered>>

\* Faulty variants: a fence without locked_by, and none at all.
OwnsAnyWorker(s) == status[s.event] = "processing"
OwnsById(s)      == TRUE

\* WHERE id = $1 AND status = 'processing' AND locked_by = $2
Owns(s) ==
    /\ status[s.event] = "processing"
    /\ lockedBy[s.event] = s.worker

\* SET locked_by = NULL, locked_until = NULL
ReleaseLease(e) ==
    /\ lockedBy' = [lockedBy EXCEPT ![e] = NULL]
    /\ leaseOf'  = [leaseOf EXCEPT ![e] = NULL]
    /\ due'      = [due EXCEPT ![e] = FALSE]

\* failed_attempts = failed_attempts + 1, last_failure_reason = $4
RecordFailure(s) ==
    /\ failedAttempts'    = [failedAttempts EXCEPT ![s.event] = @ + 1]
    /\ lastFailureReason' = [lastFailureReason EXCEPT ![s.event] = s.reason]

MarkPublished(s) ==
    /\ s.op = "mark_published"
    /\ Owns(s)
    /\ status'      = [status EXCEPT ![s.event] = "published"]
    /\ publishedAt' = [publishedAt EXCEPT ![s.event] = TRUE]
    /\ ReleaseLease(s.event)
    /\ inflight' = inflight \ {s}
    /\ IterationAnswered(s)
    /\ UNCHANGED <<failedAttempts, lastFailureReason, deadLetteredAt, delivered>>

ScheduleRetry(s) ==
    /\ s.op = "schedule_retry"
    /\ Owns(s)
    /\ status' = [status EXCEPT ![s.event] = "pending"]
    /\ ReleaseLease(s.event)
    /\ RecordFailure(s)
    /\ inflight' = inflight \ {s}
    /\ IterationAnswered(s)
    /\ UNCHANGED <<publishedAt, deadLetteredAt, delivered>>

MarkDeadLetter(s) ==
    /\ s.op = "mark_dead_letter"
    /\ Owns(s)
    /\ status'         = [status EXCEPT ![s.event] = "dead_letter"]
    /\ deadLetteredAt' = [deadLetteredAt EXCEPT ![s.event] = TRUE]
    /\ ReleaseLease(s.event)
    /\ RecordFailure(s)
    /\ inflight' = inflight \ {s}
    /\ IterationAnswered(s)
    /\ UNCHANGED <<publishedAt, delivered>>

\* RowsAffected() # 1: ErrLeaseLost, the row is left as it is.
FenceRejects(s) ==
    /\ s.op # "claim"
    /\ ~Owns(s)
    /\ inflight' = inflight \ {s}
    /\ IterationAnswered(s)
    /\ UNCHANGED <<rowVars, delivered>>

Finalize(s) == MarkPublished(s) \/ ScheduleRetry(s) \/ MarkDeadLetter(s)

-----------------------------------------------------------------------------
WorkerStep(w) ==
    \/ Start(w)
    \/ StopLoop(w)
    \/ \E l \in Leases : BeginClaim(w, l)
    \/ \E outcome \in Outcomes : PublishReturns(w, outcome)
    \/ StoreUnavailable(w)
    \/ StoreCanceled(w)
    \/ StoreFatal(w)

Execute(s) ==
    \/ \E e \in Events : ClaimNext(s, e)
    \/ ClaimNextEmpty(s)
    \/ MarkPublished(s)
    \/ ScheduleRetry(s)
    \/ MarkDeadLetter(s)
    \/ FenceRejects(s)

Next ==
    \/ \E e \in Events : InsertEvent(e) \/ TimePasses(e) \/ PurgePublished(e)
    \/ \E w \in Workers : Deliver(w) \/ Cancel(w) \/ Crash(w) \/ WorkerStep(w)
    \/ \E s \in inflight : Execute(s)

Spec == Init /\ [][Next]_vars

\* Shutdowns, crashes and fatal errors of a worker process.
Disruption(w) == Cancel(w) \/ Crash(w) \/ StoreFatal(w)

\* An iteration whose statements are executed in time and answered: what the
\* retries of the loop, and a lease longer than publish and queries together
\* (validateOutbox), make happen again and again.
ServeClaim(e) ==
    \E s \in inflight : ClaimNext(s, e) /\ pc'[s.worker] = "publishing"
PublishInTime(e) ==
    \E w \in Workers, outcome \in Outcomes :
        held[w] = e /\ lockedBy[e] = w /\ PublishReturns(w, outcome)
FinalizeEvent(e) ==
    \E s \in inflight : s.event = e /\ Finalize(s)

Fairness ==
    /\ \A w \in Workers :
           /\ WF_vars(Start(w))
           /\ WF_vars(StopLoop(w))
           /\ WF_vars(\E l \in Leases : BeginClaim(w, l))
           /\ WF_vars(\E outcome \in Outcomes : PublishReturns(w, outcome))
           /\ WF_vars(StoreUnavailable(w) \/ StoreCanceled(w))
    /\ \A e \in Events :
           /\ WF_vars(TimePasses(e))
           /\ SF_vars(ServeClaim(e))
           /\ SF_vars(PublishInTime(e))
           /\ SF_vars(FinalizeEvent(e))
    /\ <>[][\A w \in Workers : ~Disruption(w)]_vars

-----------------------------------------------------------------------------
(* The contract the outbox implements. *)

\* A row is open for its readers while it is pending or leased.
Phase == [e \in Events |->
             IF status[e] \in {"pending", "processing"} THEN "open" ELSE status[e]]

Contract == INSTANCE DeliveryContract WITH phase <- Phase, failures <- failedAttempts

\* The outbox, with every crash, expired lease and late statement, is an
\* implementation of the delivery contract.
ImplementsContract == Contract!ContractSpec

-----------------------------------------------------------------------------
(* Properties. *)

\* Every variable has its type, and a worker's memory fits its place in the
\* loop: an event is held exactly between ClaimNext returning it and the end
\* of the iteration, an acquisition exactly from sending ClaimNext to that end.
TypeOK ==
    /\ status            \in [Events -> Statuses]
    /\ failedAttempts    \in [Events -> Nat]
    /\ lastFailureReason \in [Events -> FailureReasons \cup {NULL}]
    /\ due               \in [Events -> BOOLEAN]
    /\ lockedBy          \in [Events -> Workers \cup {NULL}]
    /\ leaseOf           \in [Events -> Leases \cup {NULL}]
    /\ publishedAt       \in [Events -> BOOLEAN]
    /\ deadLetteredAt    \in [Events -> BOOLEAN]
    /\ pc       \in [Workers -> PCs]
    /\ canceled \in [Workers -> BOOLEAN]
    /\ held     \in [Workers -> Events \cup {NULL}]
    /\ seen     \in [Workers -> Nat]
    /\ lease    \in [Workers -> Leases \cup {NULL}]
    /\ inflight  \in SUBSET Statement
    /\ delivered \in SUBSET Events
    /\ \A w \in Workers :
           /\ held[w] # NULL  <=> pc[w] \in {"publishing", "finalizing"}
           /\ lease[w] # NULL <=> pc[w] \in {"claiming", "publishing", "finalizing"}

\* No statement of the store, however late or repeated and whatever row it
\* meets, leaves one that a CHECK of the migration (published_status,
\* dead_letter_status, processing_lock, failure_state) would refuse: such an
\* error would stop a worker for good.
TableConstraints ==
    \A e \in Events :
        /\ status[e] = "published" <=> publishedAt[e]
        /\ status[e] = "dead_letter" <=> deadLetteredAt[e]
        /\ status[e] = "processing" <=> lockedBy[e] # NULL
        /\ failedAttempts[e] = 0 <=> lastFailureReason[e] = NULL
        /\ status[e] = "dead_letter" => failedAttempts[e] > 0

\* At-least-once: whatever crashes, expires or arrives late, a row is marked
\* published (and later purged) only if the downstream system has the event.
PublishedWasDelivered ==
    \A e \in Events : status[e] \in {"published", "purged"} => e \in delivered

\* A row is given up on only with MaxFailures recorded failures, though the
\* worker decides from the count it read when it claimed the row.
DeadLetterAtThreshold ==
    \A e \in Events : status[e] = "dead_letter" => failedAttempts[e] >= MaxFailures

\* A settled row is never touched again by a worker; only retention removes
\* it, and only when it was published.
SettledIsFinal ==
    [][\A e \in Events :
           status[e] \in Settled =>
               /\ \/ status'[e] = status[e]
                  \/ status[e] = "published" /\ status'[e] = "purged"
               /\ failedAttempts'[e] = failedAttempts[e]]_vars

\* An event whose recorded failures reach the configured maximum is not
\* offered for publishing again: it moves to dead_letter.
AttemptsBelowMax ==
    \A e \in Events :
        status[e] \in {"pending", "processing"} => failedAttempts[e] < MaxFailures

\* A finalization changes a row only under the acquisition it was issued
\* for: stale ones are rejected.
StaleFinalizationRejected ==
    [][\A s \in inflight :
           s \notin inflight' /\ s.op # "claim" /\ status'[s.event] # status[s.event]
               => leaseOf[s.event] = s.lease]_vars

\* A worker that is told to stop stops.
ShutdownCompletes ==
    \A w \in Workers : canceled[w] ~> pc[w] = "off"
=============================================================================
