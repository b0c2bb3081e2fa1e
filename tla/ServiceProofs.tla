---------------------------- MODULE ServiceProofs ---------------------------
(***************************************************************************)
(* Proofs about Service, for any sets of requests, keys, rewards, workers  *)
(* and acquisitions: what is proved of the API's transactions and of the   *)
(* outbox alone carries over to the two together.                          *)
(***************************************************************************)
EXTENDS Service, RewardClaimsProofs

\* The workers' side, with everything proved about it.
RelayP == INSTANCE OutboxProofs WITH Events <- Requests, pc <- wpc

-----------------------------------------------------------------------------
(* The composition implements both of its components. *)

\* The service gives the outbox what its proofs assume.
LEMMA RelayAssumption == RelayP!OutboxAssumption
BY ServiceAssumption DEF RelayP!OutboxAssumption

\* The actions of the workers' side are those the proofs of Outbox are about.
LEMMA SameRows ==
    \A e \in Requests :
        /\ Relay!InsertEvent(e) => RelayP!InsertEvent(e)
        /\ Relay!TimePasses(e) => RelayP!TimePasses(e)
        /\ Relay!PurgePublished(e) => RelayP!PurgePublished(e)
BY DEF Relay!InsertEvent, RelayP!InsertEvent, Relay!TimePasses, RelayP!TimePasses,
       Relay!PurgePublished, RelayP!PurgePublished, Relay!workerVars, RelayP!workerVars

\* So are the ways a worker gives up on a statement,
LEMMA SameGiveUp ==
    \A w \in Workers :
        /\ Relay!Crash(w) => RelayP!Crash(w)
        /\ Relay!StoreUnavailable(w) => RelayP!StoreUnavailable(w)
        /\ Relay!StoreCanceled(w) => RelayP!StoreCanceled(w)
        /\ Relay!StoreFatal(w) => RelayP!StoreFatal(w)
BY DEF Relay!Crash, RelayP!Crash, Relay!StoreUnavailable, RelayP!StoreUnavailable,
       Relay!StoreCanceled, RelayP!StoreCanceled, Relay!StoreFatal, RelayP!StoreFatal,
       Relay!GiveUp, RelayP!GiveUp, Relay!InflightWithout, RelayP!InflightWithout,
       Relay!Awaited, RelayP!Awaited, Relay!EndIteration, RelayP!EndIteration,
       Relay!rowVars, RelayP!rowVars

\* the end of a publish,
LEMMA SamePublish ==
    \A w \in Workers, outcome \in Relay!Outcomes :
        Relay!PublishReturns(w, outcome) =>
            outcome \in RelayP!Outcomes /\ RelayP!PublishReturns(w, outcome)
BY DEF Relay!PublishReturns, RelayP!PublishReturns, Relay!Transition, RelayP!Transition,
       Relay!Outcomes, RelayP!Outcomes,
       Relay!EndIteration, RelayP!EndIteration, Relay!rowVars, RelayP!rowVars

\* the other steps of a worker,
LEMMA SameWorker ==
    \A w \in Workers :
        /\ Relay!Deliver(w) => RelayP!Deliver(w)
        /\ Relay!Cancel(w) => RelayP!Cancel(w)
        /\ Relay!Start(w) => RelayP!Start(w)
        /\ Relay!StopLoop(w) => RelayP!StopLoop(w)
        /\ \A l \in Leases : Relay!BeginClaim(w, l) => RelayP!BeginClaim(w, l)
BY DEF Relay!Deliver, RelayP!Deliver, Relay!Cancel, RelayP!Cancel, Relay!Start, RelayP!Start,
       Relay!StopLoop, RelayP!StopLoop, Relay!BeginClaim, RelayP!BeginClaim,
       Relay!FreeLeases, RelayP!FreeLeases, Relay!EndIteration, RelayP!EndIteration,
       Relay!rowVars, RelayP!rowVars, Relay!workerVars, RelayP!workerVars

\* and what PostgreSQL executes for it.
LEMMA SameExecute ==
    \A s \in inflight : Relay!Execute(s) => RelayP!Execute(s)
BY DEF Relay!Execute, RelayP!Execute, Relay!ClaimNext, RelayP!ClaimNext,
       Relay!ClaimNextEmpty, RelayP!ClaimNextEmpty, Relay!MarkPublished, RelayP!MarkPublished,
       Relay!ScheduleRetry, RelayP!ScheduleRetry, Relay!MarkDeadLetter, RelayP!MarkDeadLetter,
       Relay!FenceRejects, RelayP!FenceRejects, Relay!Claimable, RelayP!Claimable,
       Relay!ClaimAnswered, RelayP!ClaimAnswered,
       Relay!IterationAnswered, RelayP!IterationAnswered, Relay!Owns, RelayP!Owns,
       Relay!ReleaseLease, RelayP!ReleaseLease, Relay!RecordFailure, RelayP!RecordFailure,
       Relay!Awaited, RelayP!Awaited, Relay!EndIteration, RelayP!EndIteration,
       Relay!rowVars, RelayP!rowVars, Relay!workerVars, RelayP!workerVars

\* Every step of the service is a step of the API's transactions or leaves
\* them alone, so that what is proved of them holds here.
LEMMA ServiceIsClaims == ServiceSpec => Spec
<1>1. ServiceInit => Init
  BY DEF ServiceInit
<1>2. [ServiceNext]_serviceVars => [Next]_vars
  BY DEF ServiceNext, ApiStep, WorkerSideStep, serviceVars
<1>3. QED
  BY <1>1, <1>2, PTL DEF ServiceSpec, Spec

\* Their inductive invariant does.
LEMMA ClaimsHold == ServiceSpec => []ClaimsInv
BY ServiceIsClaims, ClaimsInvariance, PTL

\* Every step of the service is a step of the outbox or leaves it alone.
LEMMA RelayStep ==
    ASSUME TypeOK', [ServiceNext]_serviceVars
    PROVE  [RelayP!Next]_(RelayP!vars)
<1>1. CASE UNCHANGED serviceVars
  BY <1>1 DEF serviceVars, relayVars, RelayP!vars, RelayP!rowVars, RelayP!workerVars
<1>2. CASE ApiStep
  <2>1. UNCHANGED relayVars \/ \E e \in Inserts : Relay!InsertEvent(e)
    BY <1>2 DEF ApiStep
  <2>2. CASE UNCHANGED relayVars
    BY <2>2 DEF relayVars, RelayP!vars, RelayP!rowVars, RelayP!workerVars
  <2>3. CASE \E e \in Inserts : Relay!InsertEvent(e)
    <3>1. PICK e \in Inserts : Relay!InsertEvent(e)
      BY <2>3
    <3>2. e \in Requests
      BY <3>1 DEF TypeOK, Inserts
    <3>3. QED
      BY <3>1, <3>2, SameRows DEF RelayP!Next
  <2>4. QED
    BY <2>1, <2>2, <2>3
<1>3. CASE WorkerSideStep
  <2>1. CASE \E e \in Requests : Relay!TimePasses(e) \/ Relay!PurgePublished(e)
    BY <2>1, SameRows DEF RelayP!Next
  <2>2. CASE \E w \in Workers :
                 Relay!Deliver(w) \/ Relay!Cancel(w) \/ Relay!Crash(w) \/ Relay!WorkerStep(w)
    BY <2>2, SameWorker, SameGiveUp, SamePublish
       DEF RelayP!Next, Relay!WorkerStep, RelayP!WorkerStep
  <2>3. CASE \E s \in inflight : Relay!Execute(s)
    BY <2>3, SameExecute DEF RelayP!Next
  <2>4. QED
    BY <1>3, <2>1, <2>2, <2>3 DEF WorkerSideStep
<1>4. QED
  BY <1>1, <1>2, <1>3 DEF ServiceNext

\* What is proved of the outbox holds here,
LEMMA ServiceIsRelay == ServiceSpec => RelayP!Spec
<1>1. ServiceInit => RelayP!Init
  BY DEF ServiceInit, Relay!Init, RelayP!Init
<1>2. ClaimsInv' /\ [ServiceNext]_serviceVars => [RelayP!Next]_(RelayP!vars)
  BY RelayStep DEF ClaimsInv
<1>3. QED
  BY <1>1, <1>2, ClaimsHold, PTL DEF ServiceSpec, RelayP!Spec

\* and so does its inductive invariant.
LEMMA RelayHolds == ServiceSpec => []RelayP!OutboxInv
<1>1. RelayP!Spec => []RelayP!OutboxInv
  BY RelayAssumption, RelayP!Invariance
<1>2. QED
  BY <1>1, ServiceIsRelay, PTL

-----------------------------------------------------------------------------
(* The two sides agree on the table they share. *)

\* The rows the API has committed are the rows the workers can see.
OneTable == events = {e \in Requests : status[e] # "absent"}

\* The API adds at most one row in a step, and takes none away.
LEMMA EventsGrow ==
    ASSUME ClaimsInv, Next
    PROVE  events' = events \/ \E r \in Requests : events' = events \cup {r}
<1>1. CASE \E k \in Keys : CleanupKey(k)
  BY <1>1 DEF CleanupKey
<1>2. CASE \E r \in Requests : CallStep(r)
  <2>1. PICK r \in Requests : CallStep(r)
    BY <1>2
  <2>2. CASE Commit(r) \/ LateCommit(r)
    BY <2>2 DEF Commit, LateCommit, PublishTx
  <2>3. CASE ~Commit(r) /\ ~LateCommit(r)
    BY <2>1, <2>3, OnlyCommit DEF dbVars
  <2>4. QED
    BY <2>2, <2>3
<1>3. QED
  BY <1>1, <1>2 DEF Next, CallStep

\* No step of the workers' side makes a row appear or unmakes one.
LEMMA RowsStay ==
    ASSUME RelayP!OutboxInv, WorkerSideStep
    PROVE  {e \in Requests : status'[e] # "absent"} = {e \in Requests : status[e] # "absent"}
<1> DEFINE Goal == \A d \in Requests : status'[d] = "absent" <=> status[d] = "absent"
<1>t. status \in [Requests -> RelayP!Statuses]
  BY DEF RelayP!OutboxInv, RelayP!TypeOK
<1>1. CASE UNCHANGED status
  BY <1>1
<1>2. ASSUME NEW e \in Requests, Relay!TimePasses(e) \/ Relay!PurgePublished(e)
      PROVE  Goal
  BY <1>2, <1>t DEF Relay!TimePasses, Relay!PurgePublished
<1>3. ASSUME NEW s \in inflight, NEW e \in Requests, Relay!ClaimNext(s, e)
      PROVE  Goal
  BY <1>3, <1>t DEF Relay!ClaimNext, Relay!Claimable
<1>4. ASSUME NEW s \in inflight,
             Relay!MarkPublished(s) \/ Relay!ScheduleRetry(s) \/ Relay!MarkDeadLetter(s)
      PROVE  Goal
  BY <1>4, <1>t DEF Relay!MarkPublished, Relay!ScheduleRetry, Relay!MarkDeadLetter, Relay!Owns
<1>5. Goal
  BY <1>1, <1>2, <1>3, <1>4
     DEF WorkerSideStep, Relay!WorkerStep, Relay!Execute, Relay!Deliver, Relay!Cancel,
         Relay!Crash, Relay!Start, Relay!StopLoop, Relay!BeginClaim, Relay!PublishReturns,
         Relay!GiveUp, Relay!StoreUnavailable, Relay!StoreCanceled, Relay!StoreFatal,
         Relay!ClaimNextEmpty, Relay!FenceRejects, Relay!rowVars
<1>6. QED
  BY <1>5

\* Both sides keep the agreement.
LEMMA OneTableStep ==
    ASSUME ClaimsInv, RelayP!OutboxInv, OneTable, [ServiceNext]_serviceVars
    PROVE  OneTable'
<1>1. CASE UNCHANGED serviceVars
  BY <1>1 DEF OneTable, serviceVars, relayVars, vars, dbVars
<1>2. CASE ApiStep
  <2>1. CASE Inserts = {} /\ UNCHANGED relayVars
    <3>1. events' = events
      BY <1>2, <2>1, EventsGrow DEF ApiStep, Inserts
    <3>2. QED
      BY <2>1, <3>1 DEF OneTable, relayVars
  <2>2. ASSUME NEW e \in Inserts, Relay!InsertEvent(e)
        PROVE  OneTable'
    <3>1. e \in Requests /\ events' = events \cup {e}
      BY <1>2, EventsGrow DEF ApiStep, Inserts
    <3>2. status' = [status EXCEPT ![e] = "pending"] /\ status \in [Requests -> RelayP!Statuses]
      BY <2>2 DEF Relay!InsertEvent, RelayP!OutboxInv, RelayP!TypeOK
    <3>3. QED
      BY <3>1, <3>2 DEF OneTable
  <2>3. QED
    BY <1>2, <2>1, <2>2 DEF ApiStep
<1>3. CASE WorkerSideStep
  <2>1. events' = events
    BY <1>3 DEF WorkerSideStep, vars, dbVars
  <2>2. QED
    BY <1>3, <2>1, RowsStay DEF OneTable
<1>4. QED
  BY <1>1, <1>2, <1>3 DEF ServiceNext

\* A committed claim is for the reward its call asked for: the call is over.
ClaimsRecorded ==
    \A c \in claims : pc[c.id] = "done" /\ c.reward = reward[c.id]

\* A call that is over keeps its parameters, and only a call that ends commits.
LEMMA ClaimsRecordedStep ==
    ASSUME ClaimsInv, ClaimsRecorded, [Next]_vars
    PROVE  ClaimsRecorded'
<1>t. \A c \in claims : c.id \in Requests
  BY DEF ClaimsInv, TypeOK, Claim
<1>1. CASE UNCHANGED vars
  BY <1>1 DEF ClaimsRecorded, vars, dbVars
<1>2. CASE \E k \in Keys : CleanupKey(k)
  BY <1>2 DEF CleanupKey, ClaimsRecorded
<1>3. ASSUME NEW r \in Requests, CallStep(r)
      PROVE  ClaimsRecorded'
  <2>1. ASSUME NEW c \in claims
        PROVE  pc'[c.id] = "done" /\ c.reward = reward'[c.id]
    <3>1. pc[r] # "done"
      BY <1>3 DEF CallStep, Statement, Begin, Reserve, ReserveConflict, LoadMissing, LoadRefused,
                  LoadReplay, InsertClaim, InsertClaimConflict, InsertOutboxEvent, CompleteKey,
                  Commit, Fail, Rollback, LateCommit
    <3>2. c.id \in Requests /\ c.id # r
      BY <1>t, <2>1, <3>1 DEF ClaimsRecorded
    <3>3. QED
      BY <1>3, <2>1, <3>2, OnlyOwn DEF ClaimsInv, ClaimsRecorded
  <2>2. CASE claims' = claims
    BY <2>1, <2>2 DEF ClaimsRecorded
  <2>3. CASE Commit(r) \/ LateCommit(r)
    <3>1. \A d \in claims' : d \in claims \/ d = [id |-> r, key |-> key[r], reward |-> reward[r]]
      BY <2>3 DEF Commit, LateCommit, PublishTx
    <3>2. pc'[r] = "done" /\ reward'[r] = reward[r]
      BY <2>3 DEF Commit, LateCommit, Goto, ClaimsInv, TypeOK
    <3>3. QED
      BY <2>1, <3>1, <3>2 DEF ClaimsRecorded
  <2>4. QED
    BY <1>3, <2>2, <2>3, OnlyCommit DEF dbVars
<1>4. QED
  BY <1>1, <1>2, <1>3 DEF Next, CallStep

ServiceInv ==
    /\ ClaimsInv
    /\ RelayP!OutboxInv
    /\ OneTable
    /\ ClaimsRecorded

\* The invariants of both sides and the agreement on their shared table hold
\* in every reachable state of the service.
THEOREM ServiceInvariance == ServiceSpec => []ServiceInv
<1>1. ServiceInit => OneTable /\ ClaimsRecorded
  BY DEF ServiceInit, Init, Relay!Init, OneTable, ClaimsRecorded
<1>2. /\ ClaimsInv /\ RelayP!OutboxInv /\ OneTable /\ ClaimsRecorded
      /\ [ServiceNext]_serviceVars
      => OneTable' /\ ClaimsRecorded'
  <2>1. [ServiceNext]_serviceVars => [Next]_vars
    BY DEF ServiceNext, ApiStep, WorkerSideStep, serviceVars
  <2>2. QED
    BY <2>1, OneTableStep, ClaimsRecordedStep
<1>3. ServiceInv <=> ClaimsInv /\ RelayP!OutboxInv /\ OneTable /\ ClaimsRecorded
  BY DEF ServiceInv
<1>4. QED
  BY <1>1, <1>2, <1>3, ClaimsHold, RelayHolds, PTL DEF ServiceSpec

-----------------------------------------------------------------------------
(* The end-to-end guarantees. *)

\* The downstream system hears of grants only, and at most of one per reward.
THEOREM GrantsAnnounced == ServiceSpec => []OnlyGrantsAnnounced
<1>1. ServiceInv => OnlyGrantsAnnounced
  <2> SUFFICES ASSUME ServiceInv
               PROVE  OnlyGrantsAnnounced
    OBVIOUS
  <2>1. \A e \in delivered : e \in Requests /\ status[e] # "absent"
    BY DEF ServiceInv, RelayP!OutboxInv, RelayP!TypeOK, RelayP!RowsSound,
           RelayP!DeliveredWasCommitted
  <2>2. \A e \in delivered : \E c \in claims : c.id = e
    BY <2>1 DEF ServiceInv, OneTable, ClaimsInv, ClaimIsComplete
  <2>3. ASSUME NEW d \in delivered, NEW e \in delivered, reward[d] = reward[e]
        PROVE  d = e
    BY <2>2, <2>3 DEF ServiceInv, ClaimsRecorded, ClaimsInv, OneClaimPerReward
  <2>4. QED
    BY <2>2, <2>3 DEF OnlyGrantsAnnounced
<1>2. QED
  BY <1>1, ServiceInvariance, PTL

\* No committed claim is without an event that is on its way, was received,
\* or was given up on after MaxFailures recorded failures.
THEOREM GrantsKept == ServiceSpec => []NoGrantLost
<1>1. ServiceInv => NoGrantLost
  <2> SUFFICES ASSUME ServiceInv, NEW c \in claims
               PROVE  \/ status[c.id] \in {"pending", "processing"}
                      \/ status[c.id] \in {"published", "purged"} /\ c.id \in delivered
                      \/ status[c.id] = "dead_letter" /\ failedAttempts[c.id] >= MaxFailures
    BY DEF NoGrantLost
  <2>1. c.id \in Requests /\ status[c.id] # "absent"
    BY DEF ServiceInv, OneTable, ClaimsInv, ClaimIsComplete
  <2>2. status[c.id] \in RelayP!Statuses
    BY <2>1 DEF ServiceInv, RelayP!OutboxInv, RelayP!TypeOK
  <2>3. status[c.id] \in {"published", "purged"} => c.id \in delivered
    BY <2>1 DEF ServiceInv, RelayP!OutboxInv, RelayP!RowsSound, RelayP!PublishedWasDelivered
  <2>4. status[c.id] = "dead_letter" => failedAttempts[c.id] >= MaxFailures
    BY <2>1 DEF ServiceInv, RelayP!OutboxInv, RelayP!RowsSound, RelayP!DeadLetterAtThreshold
  <2>5. QED
    BY <2>1, <2>2, <2>3, <2>4 DEF RelayP!Statuses
<1>2. QED
  BY <1>1, ServiceInvariance, PTL
-----------------------------------------------------------------------------
(* The composition implements both contracts. *)

\* Workers do not disturb the endpoint: with the outbox beside it, the claim
\* transactions are those of RewardClaims and implement the atomic ledger.
THEOREM ServiceKeepsLedger == ServiceSpec => ImplementsLedger
BY ServiceIsClaims, LedgerRefinement, PTL

\* Bound to the commits of the API, the workers' side is still the outbox and
\* keeps the delivery contract.
THEOREM ServiceKeepsContract == ServiceSpec => RelayP!ImplementsContract
<1>1. RelayP!Spec => RelayP!ImplementsContract
  BY RelayAssumption, RelayP!Refinement
<1>2. QED
  BY <1>1, ServiceIsRelay, PTL
=============================================================================
