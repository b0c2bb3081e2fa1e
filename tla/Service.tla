------------------------------ MODULE Service -------------------------------
(***************************************************************************)
(* The service end to end: the API's transactions (RewardClaims) and the   *)
(* outbox with its workers (Outbox) over one database.  They share the     *)
(* table outbox_events and nothing else: the rows that the API's COMMIT    *)
(* makes visible are the rows the workers poll.  An event carries the id   *)
(* of its claim, and a claim the name of its call.                         *)
(***************************************************************************)
EXTENDS RewardClaims

CONSTANTS Workers, Leases, MaxFailures, FailureReasons, LateExecution

ASSUME ServiceAssumption ==
    /\ MaxFailures \in Nat \ {0}
    /\ LateExecution \in BOOLEAN
    /\ NULL \notin Workers \cup Requests \cup Leases \cup FailureReasons
    /\ "success" \notin FailureReasons

VARIABLES
    status, failedAttempts, lastFailureReason, due, lockedBy, leaseOf,
    publishedAt, deadLetteredAt, wpc, canceled, held, seen, lease, inflight, delivered

Relay == INSTANCE Outbox WITH Events <- Requests, pc <- wpc

relayVars   == <<status, failedAttempts, lastFailureReason, due, lockedBy, leaseOf,
                 publishedAt, deadLetteredAt, wpc, canceled, held, seen, lease, inflight,
                 delivered>>
serviceVars == <<vars, relayVars>>

ServiceInit == Init /\ Relay!Init

-----------------------------------------------------------------------------
\* Faulty variant: the event is inserted outside the transaction of the claim.
InsertsAtOnce == {r \in Requests : txEvent'[r] /\ ~txEvent[r]}

\* The rows of outbox_events that become visible: those of a transaction that
\* commits, insertRewardClaimedOutboxEvent being a statement of it.
Inserts == events' \ events

\* A step of the API; a row it commits is there for the workers at once.
ApiStep ==
    /\ Next
    /\ \/ Inserts = {} /\ UNCHANGED relayVars
       \/ \E e \in Inserts : Relay!InsertEvent(e)

\* A step of a worker, of PostgreSQL for a worker, of the clock, the retention
\* job or the downstream system.
WorkerSideStep ==
    /\ \/ \E e \in Requests : Relay!TimePasses(e) \/ Relay!PurgePublished(e)
       \/ \E w \in Workers :
              Relay!Deliver(w) \/ Relay!Cancel(w) \/ Relay!Crash(w) \/ Relay!WorkerStep(w)
       \/ \E s \in inflight : Relay!Execute(s)
    /\ UNCHANGED vars

ServiceNext == ApiStep \/ WorkerSideStep

ServiceSpec == ServiceInit /\ [][ServiceNext]_serviceVars

ServiceLiveSpec == ServiceSpec /\ Fairness /\ Relay!Fairness

-----------------------------------------------------------------------------
(* Properties. *)

\* What the downstream system hears is what was granted: every event it has
\* received is of a committed claim, never of one that was rolled back or
\* refused, and no two of them are for one reward, so that deduplicating by
\* event is enough.
OnlyGrantsAnnounced ==
    /\ \A e \in delivered : \E c \in claims : c.id = e
    /\ \A d, e \in delivered : reward[d] = reward[e] => d = e

\* What was granted is not lost: the event of a committed claim is still on its
\* way, or was received, or lies in dead_letter with its failures on record;
\* retention removes none before.
NoGrantLost ==
    \A c \in claims :
        \/ status[c.id] \in {"pending", "processing"}
        \/ status[c.id] \in {"published", "purged"} /\ c.id \in delivered
        \/ status[c.id] = "dead_letter" /\ failedAttempts[c.id] >= MaxFailures

\* Every committed claim, also one whose COMMIT was never answered, is followed
\* by the end of its event's way, whatever workers crash on it.
GrantIsSettled ==
    \A r \in Requests :
        (\E c \in claims : c.id = r) ~> status[r] \in {"published", "dead_letter", "purged"}

\* A worker that is told to stop stops, whatever it is doing and however many
\* events are waiting.
WorkersStop == Relay!ShutdownCompletes
=============================================================================
