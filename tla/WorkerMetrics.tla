--------------------------- MODULE WorkerMetrics ----------------------------
(***************************************************************************)
(* The counters the worker keeps of what it did to the outbox              *)
(* (outbox.Observer, implemented by internal/observability/worker.go),     *)
(* beside the table that says what was done.  A worker counts a transition *)
(* when the answer of its statement arrives, an error when it gives up on  *)
(* one, and nothing when it is shut down or dies.  The counters are those  *)
(* of all worker processes together, per event, as the sums of a dashboard *)
(* are; labels play no part.                                               *)
(***************************************************************************)
EXTENDS Outbox

CONSTANTS
    MaxUnheard,            \* bound on the finalizations given up on, per event
    MaxPublisherFailures   \* bound on the failures of the publisher, per event

VARIABLES
    published,    \* events_published_total
    retries,      \* retries_scheduled_total
    deadLetters,  \* events_dead_lettered_total
    opErrors,     \* operation_errors_total, of the three finalizing operations
    cut,          \* (history) finalizations a shutdown or a crash ended
    publisherFailures  \* (history) failed publishes of workers not shutting down

counterVars == <<published, retries, deadLetters>>
errorVars   == <<opErrors, cut>>
metricsVars == <<vars, counterVars, errorVars, publisherFailures>>

ASSUME MetricsAssumption ==
    /\ MaxUnheard \in Nat
    /\ MaxPublisherFailures \in Nat
    /\ IsFiniteSet(Workers)

MetricsInit ==
    /\ Init
    /\ published   = [e \in Events |-> 0]
    /\ retries     = [e \in Events |-> 0]
    /\ deadLetters = [e \in Events |-> 0]
    /\ opErrors    = [e \in Events |-> 0]
    /\ cut         = [e \in Events |-> 0]
    /\ publisherFailures = [e \in Events |-> 0]

-----------------------------------------------------------------------------
\* Faulty variant: a lost lease is counted like a recorded transition.
RecordedWithoutFence(s) ==
    /\ s.op # "claim"
    /\ Awaited(s) /\ pc'[s.worker] # pc[s.worker]

\* The store returned nil to the worker: exactly one row was changed, and the
\* answer arrived.
Recorded(s) ==
    /\ s.op # "claim"
    /\ Owns(s)
    /\ Awaited(s) /\ pc'[s.worker] # pc[s.worker]

Inc(counter, op, s) ==
    [e \in Events |->
        IF e = s.event /\ s.op = op /\ Recorded(s) THEN counter[e] + 1 ELSE counter[e]]

ObserveTransition(s) ==
    /\ Execute(s)
    /\ published'   = Inc(published, "mark_published", s)
    /\ retries'     = Inc(retries, "schedule_retry", s)
    /\ deadLetters' = Inc(deadLetters, "mark_dead_letter", s)
    /\ UNCHANGED <<errorVars, publisherFailures>>

\* w ends the finalization of event e without its answer.
Unheard(w, e) == pc[w] = "finalizing" /\ held[w] = e

CountUnheard(counter, w) ==
    [e \in Events |-> IF Unheard(w, e) THEN counter[e] + 1 ELSE counter[e]]

\* Faulty variant: an unavailable store is retried without being counted.
ObserveFatalOnly(w) ==
    /\ StoreUnavailable(w) \/ StoreFatal(w)
    /\ opErrors' = IF pc'[w] = "off" THEN CountUnheard(opErrors, w) ELSE opErrors
    /\ UNCHANGED <<counterVars, cut, publisherFailures>>

\* handleTransitionError: what is neither a canceled context nor a lost lease.
ObserveOperationError(w) ==
    /\ StoreUnavailable(w) \/ StoreFatal(w)
    /\ \A e \in Events : Unheard(w, e) => opErrors[e] + cut[e] < MaxUnheard
    /\ opErrors' = CountUnheard(opErrors, w)
    /\ UNCHANGED <<counterVars, cut, publisherFailures>>

\* A canceled worker, or a dead one, counts nothing.
Unobserved(w) ==
    /\ StoreCanceled(w) \/ Crash(w)
    /\ \A e \in Events : Unheard(w, e) => opErrors[e] + cut[e] < MaxUnheard
    /\ cut' = CountUnheard(cut, w)
    /\ UNCHANGED <<counterVars, opErrors, publisherFailures>>

\* A failed publish is the publisher's, unless the worker was shutting down
\* when it returned: then its context was canceled.
PublisherFailed(w, outcome, e) == held[w] = e /\ outcome # "success" /\ ~canceled[w]

\* ObservePublish; the counters of the transitions wait for the finalization.
ObservePublish(w, outcome) ==
    /\ PublishReturns(w, outcome)
    /\ \A e \in Events : PublisherFailed(w, outcome, e) =>
           publisherFailures[e] < MaxPublisherFailures
    /\ publisherFailures' = [e \in Events |->
           IF PublisherFailed(w, outcome, e) THEN publisherFailures[e] + 1
                                             ELSE publisherFailures[e]]
    /\ UNCHANGED <<counterVars, errorVars>>

OtherStep ==
    /\ \/ \E e \in Events : InsertEvent(e) \/ TimePasses(e) \/ PurgePublished(e)
       \/ \E w \in Workers :
              \/ Deliver(w)
              \/ Cancel(w)
              \/ Start(w)
              \/ StopLoop(w)
              \/ \E l \in Leases : BeginClaim(w, l)
    /\ UNCHANGED <<counterVars, errorVars, publisherFailures>>

MetricsNext ==
    \/ \E s \in inflight : ObserveTransition(s)
    \/ \E w \in Workers :
           \/ ObserveOperationError(w)
           \/ Unobserved(w)
           \/ \E outcome \in Outcomes : ObservePublish(w, outcome)
    \/ OtherStep

MetricsSpec == MetricsInit /\ [][MetricsNext]_metricsVars

-----------------------------------------------------------------------------
(* Properties. *)

\* The transitions of row e that the table shows, of each kind.
Publications(e) == IF status[e] \in {"published", "purged"} THEN 1 ELSE 0
GivenUp(e)      == IF status[e] = "dead_letter" THEN 1 ELSE 0

\* The counters never claim what did not happen: with several workers on one
\* event, repeated publishes and late statements, no event is counted published
\* or dead-lettered twice, or without being so, and no failure is counted that
\* is not on record.
NeverOvercounted ==
    \A e \in Events :
        /\ published[e] <= Publications(e)
        /\ deadLetters[e] <= GivenUp(e)
        /\ retries[e] + deadLetters[e] <= failedAttempts[e]

Uncounted(e) ==
    (failedAttempts[e] + Publications(e)) - (published[e] + retries[e] + deadLetters[e])

\* The workers that wait for the answer of a finalization of e that is executed.
AnswerDue(e) == {w \in Workers :
    /\ pc[w] = "finalizing"
    /\ held[w] = e
    /\ ~\E s \in inflight : s.worker = w /\ Awaited(s)}

\* An undercount never goes unnoticed: for each event, every transition on
\* record that is not counted has an operation error, a shutdown or a crash of
\* its own, or its answer is still on the way.
UndercountExplained ==
    \A e \in Events : Uncounted(e) <= opErrors[e] + cut[e] + Cardinality(AnswerDue(e))

\* The failures on record of an event are the publisher's, each at most once: a
\* shutdown during a publish is never recorded as a failure, and no failure is
\* recorded again by another worker, another lease or a statement that is late.
OnlyPublisherFailures ==
    \A e \in Events : failedAttempts[e] <= publisherFailures[e]
=============================================================================
