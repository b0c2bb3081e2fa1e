---------------------------- MODULE OutboxProofs ----------------------------
(***************************************************************************)
(* Proofs about Outbox, for any number of workers, events and acquisitions *)
(* and any MaxFailures.                                                    *)
(***************************************************************************)
EXTENDS Outbox, TLAPS

-----------------------------------------------------------------------------
(* The inductive invariant. *)

\* Nothing reaches the downstream system that no transaction has committed.
DeliveredWasCommitted ==
    \A e \in delivered : status[e] # "absent"

\* What a statement in flight knows for certain, however late it executes.
StatementsSound ==
    \A s \in inflight :
        /\ s.op # "claim" => s.event \in Events /\ status[s.event] # "absent"
        /\ s.op = "mark_published" => s.event \in delivered
        /\ s.op \in {"schedule_retry", "mark_dead_letter"} => s.reason \in FailureReasons
        /\ s.op = "mark_dead_letter" => failedAttempts[s.event] + 1 >= MaxFailures

\* What a worker holds is a committed row, and the count it read may only be
\* too low by now.
HoldingsSound ==
    \A w \in Workers : held[w] # NULL =>
        /\ status[held[w]] # "absent"
        /\ seen[w] <= failedAttempts[held[w]]

\* What the table itself satisfies.
RowsSound ==
    /\ TableConstraints
    /\ PublishedWasDelivered
    /\ DeliveredWasCommitted
    /\ DeadLetterAtThreshold

OutboxInv ==
    /\ TypeOK
    /\ StatementsSound
    /\ HoldingsSound
    /\ RowsSound

\* When nothing executes late, every statement in flight is the only one of
\* its worker and is waited for, and a worker that still owns its row knows
\* the exact count and works under the row's current acquisition.
OneStatementEach ==
    \A s, t \in inflight : s.worker = t.worker => s = t

AllAwaited ==
    \A s \in inflight :
        /\ Awaited(s)
        /\ s.op # "claim" => s.event = held[s.worker]
        /\ s.op = "schedule_retry" => seen[s.worker] + 1 < MaxFailures

OwnersUpToDate ==
    \A w \in Workers :
        held[w] # NULL /\ lockedBy[held[w]] = w =>
            /\ seen[w] = failedAttempts[held[w]]
            /\ leaseOf[held[w]] = lease[w]

NoFailuresYet ==
    \A e \in Events : status[e] = "absent" => failedAttempts[e] = 0

PromptInv ==
    /\ NoFailuresYet
    /\ OneStatementEach
    /\ AllAwaited
    /\ OwnersUpToDate
    /\ AttemptsBelowMax

-----------------------------------------------------------------------------
(* Type correctness. *)

\* What ends an iteration leaves well-typed worker variables.
LEMMA EndIterationType ==
    ASSUME TypeOK, NEW w \in Workers, NEW next \in {"waiting", "off"},
           EndIteration(w, next)
    PROVE  /\ pc'       \in [Workers -> PCs]
           /\ canceled' \in [Workers -> BOOLEAN]
           /\ held'     \in [Workers -> Events \cup {NULL}]
           /\ seen'     \in [Workers -> Nat]
           /\ lease'    \in [Workers -> Leases \cup {NULL}]
           /\ \A v \in Workers :
                  /\ held'[v] # NULL  <=> pc'[v] \in {"publishing", "finalizing"}
                  /\ lease'[v] # NULL <=> pc'[v] \in {"claiming", "publishing", "finalizing"}
BY DEF TypeOK, EndIteration, PCs

\* Giving up on a statement sends no other.
LEMMA GiveUpInflight ==
    ASSUME TypeOK, NEW w \in Workers, inflight' \in InflightWithout(w)
    PROVE  inflight' \subseteq inflight
BY DEF InflightWithout

\* The answer to a finalization, or its absence, leaves well-typed worker variables.
LEMMA AnsweredType ==
    ASSUME TypeOK, NEW s \in inflight, IterationAnswered(s)
    PROVE  /\ pc'       \in [Workers -> PCs]
           /\ canceled' \in [Workers -> BOOLEAN]
           /\ held'     \in [Workers -> Events \cup {NULL}]
           /\ seen'     \in [Workers -> Nat]
           /\ lease'    \in [Workers -> Leases \cup {NULL}]
           /\ \A v \in Workers :
                  /\ held'[v] # NULL  <=> pc'[v] \in {"publishing", "finalizing"}
                  /\ lease'[v] # NULL <=> pc'[v] \in {"claiming", "publishing", "finalizing"}
<1>1. s.worker \in Workers
  BY DEF TypeOK, Statement
<1>2. CASE EndIteration(s.worker, "waiting")
  BY <1>1, <1>2, EndIterationType
<1>3. CASE UNCHANGED workerVars
  BY <1>3 DEF TypeOK, workerVars
<1>4. QED
  BY <1>2, <1>3 DEF IterationAnswered

\* Every step keeps the types; finalizations need to know that they name an event.
LEMMA TypeStep ==
    ASSUME TypeOK, StatementsSound, [Next]_vars
    PROVE  TypeOK'
<1> USE OutboxAssumption
<1>1. CASE UNCHANGED vars
  BY <1>1 DEF TypeOK, vars, rowVars, workerVars
<1>2. ASSUME NEW e \in Events, InsertEvent(e) \/ TimePasses(e) \/ PurgePublished(e)
      PROVE  TypeOK'
  <2>1. CASE InsertEvent(e)
    BY <2>1 DEF TypeOK, InsertEvent, Statuses, workerVars
  <2>2. CASE TimePasses(e)
    BY <2>2 DEF TypeOK, TimePasses, workerVars
  <2>3. CASE PurgePublished(e)
    BY <2>3 DEF TypeOK, PurgePublished, Statuses, workerVars
  <2>4. QED
    BY <1>2, <2>1, <2>2, <2>3
<1>3. ASSUME NEW w \in Workers, Deliver(w)
      PROVE  TypeOK'
  BY <1>3 DEF TypeOK, Deliver, rowVars, workerVars
<1>4. ASSUME NEW w \in Workers, Cancel(w)
      PROVE  TypeOK'
  BY <1>4 DEF TypeOK, Cancel, rowVars
<1>5. ASSUME NEW w \in Workers, Crash(w)
      PROVE  TypeOK'
  <2>1. inflight' \in SUBSET Statement
    BY <1>5, GiveUpInflight DEF TypeOK, Crash
  <2>2. QED
    BY <1>5, <2>1, EndIterationType DEF TypeOK, Crash, rowVars
<1>6. ASSUME NEW w \in Workers, Start(w)
      PROVE  TypeOK'
  BY <1>6 DEF TypeOK, Start, PCs, rowVars
<1>7. ASSUME NEW w \in Workers, StopLoop(w)
      PROVE  TypeOK'
  BY <1>7, EndIterationType DEF TypeOK, StopLoop, rowVars
<1>8. ASSUME NEW w \in Workers, NEW l \in Leases, BeginClaim(w, l)
      PROVE  TypeOK'
  <2>1. inflight' \in SUBSET Statement
    BY <1>8 DEF TypeOK, BeginClaim, Statement, Ops
  <2>2. QED
    BY <1>8, <2>1 DEF TypeOK, BeginClaim, PCs, rowVars
<1>9. ASSUME NEW w \in Workers, NEW outcome \in Outcomes, PublishReturns(w, outcome)
      PROVE  TypeOK'
  <2>1. CASE canceled[w]
    BY <1>9, <2>1, EndIterationType DEF TypeOK, PublishReturns, rowVars
  <2>2. CASE ~canceled[w]
    <3>1. Transition(w, outcome) \in Ops
      BY DEF Transition, Ops, TypeOK
    <3>2. inflight' \in SUBSET Statement
      BY <1>9, <2>2, <3>1 DEF TypeOK, PublishReturns, Statement, Outcomes
    <3>3. QED
      BY <1>9, <2>2, <3>2 DEF TypeOK, PublishReturns, PCs, rowVars
  <2>3. QED
    BY <2>1, <2>2
<1>10. ASSUME NEW w \in Workers, NEW next \in {"waiting", "off"}, GiveUp(w, next)
       PROVE  TypeOK'
  <2>1. inflight' \in SUBSET Statement
    BY <1>10, GiveUpInflight DEF TypeOK, GiveUp
  <2>2. QED
    BY <1>10, <2>1, EndIterationType DEF TypeOK, GiveUp, rowVars
<1>11. ASSUME NEW s \in inflight, NEW e \in Events, ClaimNext(s, e)
       PROVE  TypeOK'
  <2>1. s.worker \in Workers /\ s.lease \in Leases
    BY DEF TypeOK, Statement
  <2>2. inflight' \in SUBSET Statement
    BY <1>11 DEF TypeOK, ClaimNext
  <2>3. CASE UNCHANGED workerVars
    BY <1>11, <2>1, <2>2, <2>3 DEF TypeOK, ClaimNext, Statuses, workerVars
  <2>4. CASE ~UNCHANGED workerVars
    BY <1>11, <2>1, <2>2, <2>4 DEF TypeOK, ClaimNext, ClaimAnswered, Awaited, Statuses, PCs
  <2>5. QED
    BY <2>3, <2>4
<1>12. ASSUME NEW s \in inflight, ClaimNextEmpty(s) \/ FenceRejects(s)
       PROVE  TypeOK'
  BY <1>12, AnsweredType DEF TypeOK, ClaimNextEmpty, FenceRejects, rowVars
<1>13. ASSUME NEW s \in inflight, Finalize(s)
       PROVE  TypeOK'
  <2>1. s.worker \in Workers /\ s.event \in Events /\ s.reason \in FailureReasons \cup {NULL}
    BY <1>13 DEF TypeOK, Statement, StatementsSound, Finalize, MarkPublished,
                 ScheduleRetry, MarkDeadLetter
  <2>2. IterationAnswered(s) /\ inflight' = inflight \ {s}
    BY <1>13 DEF Finalize, MarkPublished, ScheduleRetry, MarkDeadLetter
  <2>3. /\ status' \in [Events -> Statuses]
        /\ due' \in [Events -> BOOLEAN]
        /\ lockedBy' \in [Events -> Workers \cup {NULL}]
        /\ leaseOf' \in [Events -> Leases \cup {NULL}]
    <3>1. ReleaseLease(s.event)
      BY <1>13 DEF Finalize, MarkPublished, ScheduleRetry, MarkDeadLetter
    <3>2. \E x \in Statuses : status' = [status EXCEPT ![s.event] = x]
      BY <1>13 DEF Finalize, MarkPublished, ScheduleRetry, MarkDeadLetter, Statuses
    <3>3. QED
      BY <2>1, <3>1, <3>2 DEF TypeOK, ReleaseLease
  <2>4. /\ failedAttempts' \in [Events -> Nat]
        /\ lastFailureReason' \in [Events -> FailureReasons \cup {NULL}]
    BY <1>13, <2>1 DEF TypeOK, Finalize, MarkPublished, ScheduleRetry, MarkDeadLetter,
                       RecordFailure
  <2>5. inflight' \in SUBSET Statement /\ delivered' \in SUBSET Events
    BY <1>13, <2>2 DEF TypeOK, Finalize, MarkPublished, ScheduleRetry, MarkDeadLetter
  <2>6. publishedAt' \in [Events -> BOOLEAN] /\ deadLetteredAt' \in [Events -> BOOLEAN]
    <3>1. /\ publishedAt' \in {publishedAt, [publishedAt EXCEPT ![s.event] = TRUE]}
          /\ deadLetteredAt' \in {deadLetteredAt, [deadLetteredAt EXCEPT ![s.event] = TRUE]}
      BY <1>13, Zenon DEF Finalize, MarkPublished, ScheduleRetry, MarkDeadLetter
    <3>2. QED
      BY <2>1, <3>1 DEF TypeOK
  <2>7. QED
    BY <2>2, <2>3, <2>4, <2>5, <2>6, AnsweredType DEF TypeOK
<1>14. QED
  BY <1>1, <1>2, <1>3, <1>4, <1>5, <1>6, <1>7, <1>8, <1>9, <1>10, <1>11, <1>12, <1>13
     DEF Next, WorkerStep, Execute, StoreUnavailable, StoreCanceled, StoreFatal, Finalize

-----------------------------------------------------------------------------
(* The invariant is preserved. *)

\* No step lowers a count of failures, uncommits a row or takes an event back
\* from the downstream system; this is what keeps knowledge valid while it ages.
LEMMA RowsAdvance ==
    ASSUME TypeOK, StatementsSound, [Next]_vars
    PROVE  /\ \A e \in Events :
                  /\ failedAttempts[e] <= failedAttempts'[e]
                  /\ status[e] # "absent" => status'[e] # "absent"
           /\ delivered \subseteq delivered'
<1> DEFINE Goal == /\ \A e \in Events :
                         /\ failedAttempts[e] <= failedAttempts'[e]
                         /\ status[e] # "absent" => status'[e] # "absent"
                  /\ delivered \subseteq delivered'
<1>1. CASE UNCHANGED <<rowVars, delivered>>
  BY <1>1 DEF TypeOK, rowVars
<1>2. ASSUME NEW e \in Events, InsertEvent(e) \/ TimePasses(e) \/ PurgePublished(e)
      PROVE  Goal
  BY <1>2 DEF TypeOK, InsertEvent, TimePasses, PurgePublished
<1>3. ASSUME NEW w \in Workers, Deliver(w)
      PROVE  Goal
  BY <1>3 DEF TypeOK, Deliver, rowVars
<1>4. ASSUME NEW s \in inflight, NEW e \in Events, ClaimNext(s, e)
      PROVE  Goal
  BY <1>4 DEF TypeOK, ClaimNext
<1>5. ASSUME NEW s \in inflight, Finalize(s)
      PROVE  Goal
  <2>1. s.event \in Events
    BY <1>5 DEF StatementsSound, Finalize, MarkPublished, ScheduleRetry, MarkDeadLetter
  <2>2. QED
    BY <1>5, <2>1 DEF TypeOK, Finalize, MarkPublished, ScheduleRetry, MarkDeadLetter,
                      RecordFailure
<1>6. QED
  BY <1>1, <1>2, <1>3, <1>4, <1>5
     DEF Next, vars, WorkerStep, Execute, Cancel, Crash, Start, StopLoop, BeginClaim,
         PublishReturns, GiveUp, StoreUnavailable, StoreCanceled, StoreFatal,
         ClaimNextEmpty, FenceRejects, Finalize

\* Statements enter inflight in two places only.
LEMMA StatementsStep ==
    ASSUME TypeOK, StatementsSound, HoldingsSound, [Next]_vars
    PROVE  StatementsSound'
<1> USE OutboxAssumption
<1>1. \A s \in inflight : s \in inflight' =>
        /\ s.op # "claim" => s.event \in Events /\ status'[s.event] # "absent"
        /\ s.op = "mark_published" => s.event \in delivered'
        /\ s.op \in {"schedule_retry", "mark_dead_letter"} => s.reason \in FailureReasons
        /\ s.op = "mark_dead_letter" => failedAttempts'[s.event] + 1 >= MaxFailures
  <2> TAKE s \in inflight
  <2>1. s.op = "mark_dead_letter" => failedAttempts'[s.event] + 1 >= MaxFailures
    BY RowsAdvance, TypeStep DEF StatementsSound, TypeOK
  <2>2. QED
    BY <2>1, RowsAdvance DEF StatementsSound
<1>2. ASSUME NEW w \in Workers, NEW l \in Leases, BeginClaim(w, l)
      PROVE  StatementsSound'
  BY <1>1, <1>2 DEF BeginClaim, StatementsSound
<1>3. ASSUME NEW w \in Workers, NEW outcome \in Outcomes, PublishReturns(w, outcome)
      PROVE  StatementsSound'
  <2> DEFINE new == [op     |-> Transition(w, outcome),
                     worker |-> w,
                     event  |-> held[w],
                     lease  |-> lease[w],
                     reason |-> IF outcome = "success" THEN NULL ELSE outcome]
  <2>1. held[w] \in Events /\ seen[w] \in Nat /\ failedAttempts[held[w]] \in Nat
    BY <1>3 DEF PublishReturns, TypeOK
  <2>2. status'[held[w]] # "absent" /\ seen[w] <= failedAttempts'[held[w]]
    BY <1>3, <2>1 DEF PublishReturns, HoldingsSound, rowVars
  <2>3. outcome = "success" => held[w] \in delivered'
    BY <1>3 DEF PublishReturns
  <2>4. /\ new.op # "claim"
        /\ new.op = "mark_published" => outcome = "success"
        /\ new.op \in {"schedule_retry", "mark_dead_letter"} => outcome \in FailureReasons
        /\ new.op = "mark_dead_letter" => seen[w] + 1 >= MaxFailures
    BY <2>1 DEF Transition, Outcomes
  <2>5. /\ new.op # "claim" => new.event \in Events /\ status'[new.event] # "absent"
        /\ new.op = "mark_published" => new.event \in delivered'
        /\ new.op \in {"schedule_retry", "mark_dead_letter"} => new.reason \in FailureReasons
        /\ new.op = "mark_dead_letter" => failedAttempts'[new.event] + 1 >= MaxFailures
    <3>1. failedAttempts' = failedAttempts
      BY <1>3 DEF PublishReturns, rowVars
    <3> QED
      BY <2>1, <2>2, <2>3, <2>4, <3>1
  <2>6. inflight' \subseteq inflight \cup {new}
    BY <1>3 DEF PublishReturns
  <2>7. QED
    <3> HIDE DEF new
    <3> QED BY <1>1, <2>5, <2>6 DEF StatementsSound
<1>4. CASE inflight' \subseteq inflight
  BY <1>1, <1>4 DEF StatementsSound
<1>5. ASSUME NEW w \in Workers, Crash(w) \/ StoreUnavailable(w) \/ StoreCanceled(w)
                                   \/ StoreFatal(w)
      PROVE  inflight' \subseteq inflight
  BY <1>5, GiveUpInflight DEF Crash, StoreUnavailable, StoreCanceled, StoreFatal, GiveUp
<1>6. QED
  BY <1>2, <1>3, <1>4, <1>5
     DEF Next, vars, WorkerStep, Execute, InsertEvent, TimePasses, PurgePublished, Deliver,
         Cancel, Start, StopLoop, ClaimNext, ClaimNextEmpty, MarkPublished, ScheduleRetry,
         MarkDeadLetter, FenceRejects

\* A worker comes to hold a row only through the answer of ClaimNext.
LEMMA HoldingsStep ==
    ASSUME TypeOK, StatementsSound, HoldingsSound, [Next]_vars
    PROVE  HoldingsSound'
<1>1. ASSUME \A w \in Workers : held'[w] # NULL => held'[w] = held[w] /\ seen'[w] = seen[w]
      PROVE  HoldingsSound'
  <2> SUFFICES ASSUME NEW w \in Workers, held'[w] # NULL
               PROVE  status'[held'[w]] # "absent" /\ seen'[w] <= failedAttempts'[held'[w]]
    BY DEF HoldingsSound
  <2>1. held'[w] = held[w] /\ seen'[w] = seen[w] /\ held[w] \in Events
    BY <1>1 DEF TypeOK
  <2>2. /\ seen[w] \in Nat /\ failedAttempts[held[w]] \in Nat
        /\ failedAttempts'[held[w]] \in Nat
    BY <2>1, TypeStep DEF TypeOK
  <2>3. QED
    BY <2>1, <2>2, RowsAdvance DEF HoldingsSound
<1>2. CASE UNCHANGED <<held, seen>>
  BY <1>1, <1>2
<1>3. ASSUME NEW w \in Workers, NEW next, EndIteration(w, next)
      PROVE  HoldingsSound'
  BY <1>1, <1>3 DEF EndIteration, TypeOK
<1>4. ASSUME NEW s \in inflight, IterationAnswered(s)
      PROVE  HoldingsSound'
  <2>1. s.worker \in Workers
    BY DEF TypeOK, Statement
  <2>2. QED
    BY <1>2, <1>3, <1>4, <2>1 DEF IterationAnswered, workerVars
<1>5. ASSUME NEW s \in inflight, NEW e \in Events, ClaimNext(s, e)
      PROVE  HoldingsSound'
  <2>1. s.worker \in Workers
    BY DEF TypeOK, Statement
  <2>2. CASE UNCHANGED workerVars
    BY <1>2, <2>2 DEF workerVars
  <2>3. CASE ~UNCHANGED workerVars
    <3> SUFFICES ASSUME NEW w \in Workers, held'[w] # NULL
                 PROVE  status'[held'[w]] # "absent" /\ seen'[w] <= failedAttempts'[held'[w]]
      BY DEF HoldingsSound
    <3>1. /\ held' = [held EXCEPT ![s.worker] = e]
          /\ seen' = [seen EXCEPT ![s.worker] = failedAttempts[e]]
          /\ status' = [status EXCEPT ![e] = "processing"]
          /\ failedAttempts' = failedAttempts
      BY <1>5, <2>3 DEF ClaimNext, ClaimAnswered
    <3>2. CASE w = s.worker
      BY <2>1, <3>1, <3>2 DEF TypeOK
    <3>3. CASE w # s.worker
      BY <2>1, <3>1, <3>3 DEF TypeOK, HoldingsSound
    <3>4. QED
      BY <3>2, <3>3
  <2>4. QED
    BY <2>2, <2>3
<1>6. ASSUME NEW w \in Workers, NEW outcome \in Outcomes, PublishReturns(w, outcome)
      PROVE  HoldingsSound'
  BY <1>2, <1>3, <1>6 DEF PublishReturns
<1>7. ASSUME NEW w \in Workers,
             Crash(w) \/ StopLoop(w) \/ StoreUnavailable(w) \/ StoreCanceled(w) \/ StoreFatal(w)
      PROVE  HoldingsSound'
  BY <1>3, <1>7 DEF Crash, StopLoop, StoreUnavailable, StoreCanceled, StoreFatal, GiveUp
<1>8. QED
  BY <1>2, <1>4, <1>5, <1>6, <1>7
     DEF Next, vars, WorkerStep, Execute, workerVars, InsertEvent, TimePasses,
         PurgePublished, Deliver, Cancel, Start, BeginClaim, ClaimNextEmpty, MarkPublished,
         ScheduleRetry, MarkDeadLetter, FenceRejects

\* Each transition writes a row its statement is entitled to.
LEMMA RowsStep ==
    ASSUME TypeOK, StatementsSound, HoldingsSound, RowsSound, [Next]_vars
    PROVE  RowsSound'
<1> USE OutboxAssumption DEF RowsSound, TableConstraints, PublishedWasDelivered,
        DeliveredWasCommitted, DeadLetterAtThreshold
<1>1. CASE UNCHANGED <<rowVars, delivered>>
  BY <1>1 DEF rowVars
<1>2. ASSUME NEW e \in Events, InsertEvent(e) \/ TimePasses(e) \/ PurgePublished(e)
      PROVE  RowsSound'
  BY <1>2 DEF TypeOK, InsertEvent, TimePasses, PurgePublished
<1>3. ASSUME NEW w \in Workers, Deliver(w)
      PROVE  RowsSound'
  BY <1>3 DEF TypeOK, HoldingsSound, Deliver, rowVars
<1>4. ASSUME NEW s \in inflight, NEW e \in Events, ClaimNext(s, e)
      PROVE  RowsSound'
  BY <1>4 DEF TypeOK, Statement, ClaimNext, Claimable
<1>5. ASSUME NEW s \in inflight, Finalize(s)
      PROVE  RowsSound'
  <2>1. s.event \in Events
    BY <1>5 DEF StatementsSound, Finalize, MarkPublished, ScheduleRetry, MarkDeadLetter
  <2>2. CASE MarkPublished(s)
    BY <2>1, <2>2 DEF TypeOK, StatementsSound, MarkPublished, Owns, ReleaseLease
  <2>3. CASE ScheduleRetry(s)
    BY <2>1, <2>3 DEF TypeOK, StatementsSound, ScheduleRetry, Owns, ReleaseLease, RecordFailure
  <2>4. CASE MarkDeadLetter(s)
    BY <2>1, <2>4 DEF TypeOK, StatementsSound, MarkDeadLetter, Owns, ReleaseLease, RecordFailure
  <2>5. QED
    BY <1>5, <2>2, <2>3, <2>4 DEF Finalize
<1>6. QED
  BY <1>1, <1>2, <1>3, <1>4, <1>5
     DEF Next, vars, WorkerStep, Execute, Cancel, Crash, Start, StopLoop, BeginClaim,
         PublishReturns, GiveUp, StoreUnavailable, StoreCanceled, StoreFatal,
         ClaimNextEmpty, FenceRejects, Finalize

-----------------------------------------------------------------------------
(* The theorems. *)

\* The empty table with no process running satisfies the invariant.
LEMMA InitInv == Init => OutboxInv
BY OutboxAssumption
   DEF Init, OutboxInv, TypeOK, StatementsSound, HoldingsSound, RowsSound, TableConstraints,
       PublishedWasDelivered, DeliveredWasCommitted, DeadLetterAtThreshold, Statuses, PCs

\* The inductive invariant holds in every reachable state.
THEOREM Invariance == Spec => []OutboxInv
<1>1. OutboxInv /\ [Next]_vars => OutboxInv'
  BY TypeStep, StatementsStep, HoldingsStep, RowsStep DEF OutboxInv
<1>2. QED
  BY InitInv, <1>1, PTL DEF Spec

\* Type correctness: rows, worker memory and statements in flight keep their
\* types, and a worker holds an event exactly while it processes one.
THEOREM TypeCorrect == Spec => []TypeOK
<1>1. OutboxInv => TypeOK
  BY DEF OutboxInv
<1>2. QED
  BY Invariance, <1>1, PTL

\* No statement of the store leaves a row the CHECK constraints would refuse.
THEOREM ConstraintsHold == Spec => []TableConstraints
<1>1. OutboxInv => TableConstraints
  BY DEF OutboxInv, RowsSound
<1>2. QED
  BY Invariance, <1>1, PTL

\* At-least-once delivery: a row marked published was delivered.
THEOREM AtLeastOnce == Spec => []PublishedWasDelivered
<1>1. OutboxInv => PublishedWasDelivered
  BY DEF OutboxInv, RowsSound
<1>2. QED
  BY Invariance, <1>1, PTL

\* A dead letter has MaxFailures failures on record.
THEOREM DeadLetterThreshold == Spec => []DeadLetterAtThreshold
<1>1. OutboxInv => DeadLetterAtThreshold
  BY DEF OutboxInv, RowsSound
<1>2. QED
  BY Invariance, <1>1, PTL

\* Workers never touch a settled row.
THEOREM SettledStays == Spec => SettledIsFinal
<1>1. OutboxInv /\ [Next]_vars =>
        [\A e \in Events :
           status[e] \in Settled =>
               /\ \/ status'[e] = status[e]
                  \/ status[e] = "published" /\ status'[e] = "purged"
               /\ failedAttempts'[e] = failedAttempts[e]]_vars
  <2> SUFFICES ASSUME OutboxInv, Next, NEW d \in Events, status[d] \in Settled
               PROVE  /\ \/ status'[d] = status[d]
                         \/ status[d] = "published" /\ status'[d] = "purged"
                      /\ failedAttempts'[d] = failedAttempts[d]
    OBVIOUS
  <2> DEFINE Goal == /\ \/ status'[d] = status[d]
                        \/ status[d] = "published" /\ status'[d] = "purged"
                     /\ failedAttempts'[d] = failedAttempts[d]
  <2>1. CASE UNCHANGED rowVars
    BY <2>1 DEF rowVars
  <2>2. ASSUME NEW e \in Events, InsertEvent(e) \/ TimePasses(e) \/ PurgePublished(e)
        PROVE  Goal
    BY <2>2 DEF OutboxInv, TypeOK, InsertEvent, TimePasses, PurgePublished, Settled
  <2>3. ASSUME NEW s \in inflight, NEW e \in Events, ClaimNext(s, e)
        PROVE  Goal
    BY <2>3 DEF OutboxInv, TypeOK, ClaimNext, Claimable, Settled
  <2>4. ASSUME NEW s \in inflight, Finalize(s)
        PROVE  Goal
    <3>1. s.event # d
      BY <2>4 DEF Finalize, MarkPublished, ScheduleRetry, MarkDeadLetter, Owns, Settled
    <3>2. QED
      BY <2>4, <3>1 DEF OutboxInv, TypeOK, Finalize, MarkPublished, ScheduleRetry,
                        MarkDeadLetter, RecordFailure
  <2>5. QED
    BY <2>1, <2>2, <2>3, <2>4
       DEF Next, WorkerStep, Execute, Deliver, Cancel, Crash, Start, StopLoop, BeginClaim,
           PublishReturns, GiveUp, StoreUnavailable, StoreCanceled, StoreFatal,
           ClaimNextEmpty, FenceRejects, Finalize
<1>2. QED
  BY Invariance, <1>1, PTL DEF Spec, SettledIsFinal

-----------------------------------------------------------------------------
(* The outbox implements the delivery contract. *)

\* Every step of the outbox is a step of the contract or leaves it alone.
LEMMA RefineStep ==
    ASSUME OutboxInv, Next
    PROVE  Contract!ContractNext \/ UNCHANGED Contract!contractVars
<1> DEFINE Goal == Contract!ContractNext \/ UNCHANGED Contract!contractVars
<1> USE DEF Contract!ContractNext, Contract!contractVars
<1>1. CASE UNCHANGED <<rowVars, delivered>>
  BY <1>1 DEF rowVars, Phase
<1>2. ASSUME NEW e \in Events, InsertEvent(e)
      PROVE  Goal
  <2>1. Contract!Commit(e)
    BY <1>2 DEF OutboxInv, TypeOK, InsertEvent, Contract!Commit, Phase
  <2>2. QED
    BY <2>1
<1>3. ASSUME NEW e \in Events, TimePasses(e)
      PROVE  Goal
  BY <1>3 DEF TimePasses, Phase
<1>4. ASSUME NEW e \in Events, PurgePublished(e)
      PROVE  Goal
  <2>1. Contract!Expire(e)
    BY <1>4 DEF OutboxInv, TypeOK, PurgePublished, Contract!Expire, Phase
  <2>2. QED
    BY <2>1
<1>5. ASSUME NEW w \in Workers, Deliver(w)
      PROVE  Goal
  <2>1. held[w] \in Events /\ status[held[w]] # "absent"
    BY <1>5 DEF OutboxInv, TypeOK, HoldingsSound, Deliver
  <2>2. Contract!Receive(held[w])
    BY <1>5, <2>1 DEF Deliver, rowVars, Contract!Receive, Phase
  <2>3. QED
    BY <2>1, <2>2
<1>6. ASSUME NEW s \in inflight, NEW e \in Events, ClaimNext(s, e)
      PROVE  Goal
  <2>1. Phase' = Phase
    BY <1>6 DEF OutboxInv, TypeOK, ClaimNext, Claimable, Phase
  <2>2. QED
    BY <1>6, <2>1 DEF ClaimNext
<1>7. ASSUME NEW s \in inflight, Finalize(s)
      PROVE  Goal
  <2>1. s.event \in Events
    BY <1>7 DEF OutboxInv, StatementsSound, Finalize, MarkPublished, ScheduleRetry, MarkDeadLetter
  <2>2. CASE MarkPublished(s)
    <3>1. Contract!Acknowledge(s.event)
      BY <2>1, <2>2 DEF OutboxInv, TypeOK, StatementsSound, MarkPublished, Owns,
                        Contract!Acknowledge, Phase
    <3>2. QED
      BY <2>1, <3>1
  <2>3. CASE ScheduleRetry(s)
    <3>1. Contract!RecordFailedAttempt(s.event)
      BY <2>1, <2>3 DEF OutboxInv, TypeOK, ScheduleRetry, RecordFailure, Owns,
                        Contract!RecordFailedAttempt, Phase
    <3>2. QED
      BY <2>1, <3>1
  <2>4. CASE MarkDeadLetter(s)
    <3>1. Contract!GiveUpOn(s.event)
      BY <2>1, <2>4 DEF OutboxInv, TypeOK, StatementsSound, MarkDeadLetter, RecordFailure,
                        Owns, Contract!GiveUpOn, Phase
    <3>2. QED
      BY <2>1, <3>1
  <2>5. QED
    BY <1>7, <2>2, <2>3, <2>4 DEF Finalize
<1>8. QED
  BY <1>1, <1>2, <1>3, <1>4, <1>5, <1>6, <1>7
     DEF Next, WorkerStep, Execute, Cancel, Crash, Start, StopLoop, BeginClaim,
         PublishReturns, GiveUp, StoreUnavailable, StoreCanceled, StoreFatal,
         ClaimNextEmpty, FenceRejects, Finalize

\* Every behaviour of the outbox is a behaviour of the delivery contract.
THEOREM Refinement == Spec => ImplementsContract
<1>1. Init => Contract!ContractInit
  BY DEF Init, Contract!ContractInit, Phase
<1>2. OutboxInv /\ [Next]_vars => [Contract!ContractNext]_(Contract!contractVars)
  BY RefineStep DEF vars, rowVars, Contract!contractVars, Phase
<1>3. QED
  BY Invariance, <1>1, <1>2, PTL DEF Spec, ImplementsContract, Contract!ContractSpec

-----------------------------------------------------------------------------
(* When a statement its client gave up on never executes. *)

\* A worker that ends its iteration takes its statement with it.
LEMMA PromptLeave ==
    ASSUME OutboxInv, PromptInv, NEW w \in Workers, NEW next, EndIteration(w, next),
           inflight' \subseteq {s \in inflight : s.worker # w}
    PROVE  /\ OneStatementEach'
           /\ AllAwaited'
           /\ UNCHANGED rowVars => PromptInv'
<1>1. \A v \in Workers : v # w =>
          pc'[v] = pc[v] /\ held'[v] = held[v] /\ seen'[v] = seen[v] /\ lease'[v] = lease[v]
  BY DEF EndIteration, OutboxInv, TypeOK
<1>2. held'[w] = NULL
  BY DEF EndIteration, OutboxInv, TypeOK
<1>3. \A s \in inflight' : s \in inflight /\ s.worker \in Workers /\ s.worker # w
  BY DEF OutboxInv, TypeOK, Statement
<1>4. OneStatementEach'
  BY <1>3 DEF PromptInv, OneStatementEach
<1>5. AllAwaited'
  BY <1>1, <1>3 DEF PromptInv, AllAwaited, Awaited
<1>6. ASSUME UNCHANGED rowVars
      PROVE  NoFailuresYet' /\ OwnersUpToDate' /\ AttemptsBelowMax'
  BY <1>1, <1>2, <1>6 DEF PromptInv, NoFailuresYet, OwnersUpToDate, AttemptsBelowMax, rowVars
<1>7. QED
  BY <1>4, <1>5, <1>6 DEF PromptInv

\* After the execution of s its worker has nothing in flight, answered or not.
LEMMA PromptAnswered ==
    ASSUME OutboxInv, PromptInv, NEW s \in inflight, IterationAnswered(s),
           inflight' = inflight \ {s}
    PROVE  /\ OneStatementEach'
           /\ AllAwaited'
           /\ UNCHANGED rowVars => PromptInv'
<1>1. s.worker \in Workers
  BY DEF OutboxInv, TypeOK, Statement
<1>2. inflight' \subseteq {t \in inflight : t.worker # s.worker}
  BY DEF PromptInv, OneStatementEach
<1>3. CASE EndIteration(s.worker, "waiting")
  BY <1>1, <1>2, <1>3, PromptLeave
<1>4. CASE UNCHANGED workerVars
  BY <1>4 DEF PromptInv, NoFailuresYet, OneStatementEach, AllAwaited, OwnersUpToDate, AttemptsBelowMax,
              Awaited, workerVars, rowVars
<1>5. QED
  BY <1>3, <1>4 DEF IterationAnswered

\* Every step keeps the invariant of prompt execution.
LEMMA PromptStep ==
    ASSUME OutboxInv, PromptInv, ~LateExecution, [Next]_vars
    PROVE  PromptInv'
<1> USE OutboxAssumption
<1>1. CASE UNCHANGED vars
  BY <1>1 DEF PromptInv, NoFailuresYet, OneStatementEach, AllAwaited, OwnersUpToDate,
              AttemptsBelowMax, Awaited, vars, rowVars, workerVars
<1>2. ASSUME NEW e \in Events, InsertEvent(e) \/ TimePasses(e) \/ PurgePublished(e)
      PROVE  PromptInv'
  <2>1. OneStatementEach' /\ AllAwaited' /\ OwnersUpToDate'
    BY <1>2 DEF InsertEvent, TimePasses, PurgePublished, PromptInv, OneStatementEach,
                AllAwaited, OwnersUpToDate, Awaited, workerVars
  <2>2. NoFailuresYet' /\ AttemptsBelowMax'
    BY <1>2 DEF OutboxInv, TypeOK, InsertEvent, TimePasses, PurgePublished, PromptInv,
                NoFailuresYet, AttemptsBelowMax
  <2>3. QED
    BY <2>1, <2>2 DEF PromptInv
<1>3. ASSUME NEW w \in Workers, Deliver(w) \/ Cancel(w)
      PROVE  PromptInv'
  BY <1>3 DEF Deliver, Cancel, PromptInv, NoFailuresYet, OneStatementEach, AllAwaited,
              OwnersUpToDate, AttemptsBelowMax, Awaited, rowVars, workerVars
<1>4. ASSUME NEW w \in Workers, Start(w)
      PROVE  PromptInv'
  <2>1. \A s \in inflight : s.worker \in Workers /\ s.worker # w
    BY <1>4 DEF OutboxInv, TypeOK, Statement, Start
  <2>2. AllAwaited'
    BY <1>4, <2>1 DEF Start, OutboxInv, TypeOK, PromptInv, AllAwaited, Awaited
  <2>3. QED
    BY <1>4, <2>2 DEF Start, PromptInv, NoFailuresYet, OneStatementEach, OwnersUpToDate,
                      AttemptsBelowMax, rowVars
<1>5. ASSUME NEW w \in Workers, NEW next, EndIteration(w, next), UNCHANGED rowVars,
             inflight' = inflight, pc[w] \notin {"claiming", "finalizing"}
      PROVE  PromptInv'
  <2>1. inflight' \subseteq {s \in inflight : s.worker # w}
    BY <1>5 DEF PromptInv, AllAwaited, Awaited
  <2>2. QED
    BY <1>5, <2>1, PromptLeave
<1>6. ASSUME NEW w \in Workers, NEW next, EndIteration(w, next), UNCHANGED rowVars,
             inflight' \in InflightWithout(w)
      PROVE  PromptInv'
  <2>1. inflight' \subseteq {s \in inflight : s.worker # w}
    BY <1>6 DEF PromptInv, AllAwaited, InflightWithout
  <2>2. QED
    BY <1>6, <2>1, PromptLeave
<1>7. ASSUME NEW w \in Workers, NEW l \in Leases, BeginClaim(w, l)
      PROVE  PromptInv'
  <2> DEFINE new == [op |-> "claim", worker |-> w, event |-> NULL, lease |-> l, reason |-> NULL]
  <2>1. \A s \in inflight : s.worker \in Workers /\ s.worker # w
    BY <1>7 DEF OutboxInv, TypeOK, Statement, BeginClaim, PromptInv, AllAwaited, Awaited
  <2>2. inflight' = inflight \cup {new} /\ new.worker = w /\ new.op = "claim" /\ new.lease = l
    BY <1>7 DEF BeginClaim
  <2> HIDE DEF new
  <2>3. OneStatementEach'
    BY <2>1, <2>2 DEF PromptInv, OneStatementEach
  <2>4. AllAwaited'
    BY <1>7, <2>1, <2>2 DEF BeginClaim, OutboxInv, TypeOK, PromptInv, AllAwaited, Awaited
  <2>5. OwnersUpToDate'
    BY <1>7 DEF BeginClaim, OutboxInv, TypeOK, PromptInv, OwnersUpToDate, rowVars
  <2>6. QED
    BY <1>7, <2>3, <2>4, <2>5 DEF BeginClaim, PromptInv, NoFailuresYet, AttemptsBelowMax, rowVars
<1>8. ASSUME NEW w \in Workers, NEW outcome \in Outcomes, PublishReturns(w, outcome)
      PROVE  PromptInv'
  <2>1. CASE canceled[w]
    BY <1>5, <1>8, <2>1 DEF PublishReturns
  <2>2. CASE ~canceled[w]
    <3> DEFINE new == [op     |-> Transition(w, outcome),
                       worker |-> w,
                       event  |-> held[w],
                       lease  |-> lease[w],
                       reason |-> IF outcome = "success" THEN NULL ELSE outcome]
    <3>1. \A s \in inflight : s.worker \in Workers /\ s.worker # w
      BY <1>8 DEF OutboxInv, TypeOK, Statement, PublishReturns, PromptInv, AllAwaited, Awaited
    <3>2. /\ inflight' = inflight \cup {new}
          /\ new.worker = w /\ new.event = held[w] /\ new.lease = lease[w]
      BY <1>8, <2>2 DEF PublishReturns
    <3>3. new.op # "claim" /\ (new.op = "schedule_retry" => seen[w] + 1 < MaxFailures)
      BY DEF Transition, OutboxInv, TypeOK
    <3> HIDE DEF new
    <3>4. OneStatementEach'
      BY <3>1, <3>2 DEF PromptInv, OneStatementEach
    <3>5. AllAwaited'
      BY <1>8, <2>2, <3>1, <3>2, <3>3
         DEF PublishReturns, OutboxInv, TypeOK, PromptInv, AllAwaited, Awaited
    <3>6. QED
      BY <1>8, <2>2, <3>4, <3>5 DEF PublishReturns, PromptInv, NoFailuresYet, OwnersUpToDate,
                                    AttemptsBelowMax, rowVars
  <2>3. QED
    BY <2>1, <2>2
<1>9. ASSUME NEW s \in inflight, NEW e \in Events, ClaimNext(s, e)
      PROVE  PromptInv'
  <2>1. s.worker \in Workers /\ Awaited(s) /\ held[s.worker] = NULL
    BY <1>9 DEF OutboxInv, TypeOK, Statement, ClaimNext, PromptInv, AllAwaited, Awaited
  <2>2. \A t \in inflight' : t \in inflight /\ t.worker \in Workers /\ t.worker # s.worker
    BY <1>9 DEF OutboxInv, TypeOK, Statement, ClaimNext, PromptInv, OneStatementEach
  <2>3. \A v \in Workers : v # s.worker =>
          pc'[v] = pc[v] /\ held'[v] = held[v] /\ seen'[v] = seen[v] /\ lease'[v] = lease[v]
    BY <1>9, <2>1 DEF OutboxInv, TypeOK, ClaimNext, ClaimAnswered, workerVars
  <2>4. OneStatementEach' /\ AllAwaited'
    BY <2>2, <2>3 DEF PromptInv, OneStatementEach, AllAwaited, Awaited
  <2>5. \/ held'[s.worker] = NULL
        \/ /\ held'[s.worker] = e
           /\ seen'[s.worker] = failedAttempts'[e]
           /\ lease'[s.worker] = leaseOf'[e]
    BY <1>9, <2>1 DEF OutboxInv, TypeOK, ClaimNext, ClaimAnswered, Awaited, workerVars
  <2>6. OwnersUpToDate'
    <3> SUFFICES ASSUME NEW v \in Workers, held'[v] # NULL, lockedBy'[held'[v]] = v
                 PROVE  seen'[v] = failedAttempts'[held'[v]] /\ leaseOf'[held'[v]] = lease'[v]
      BY DEF OwnersUpToDate
    <3>1. CASE v = s.worker
      BY <2>5, <3>1
    <3>2. CASE v # s.worker
      BY <1>9, <2>3, <3>2 DEF OutboxInv, TypeOK, ClaimNext, PromptInv, OwnersUpToDate
    <3>3. QED
      BY <3>1, <3>2
  <2>7. NoFailuresYet' /\ AttemptsBelowMax'
    BY <1>9 DEF OutboxInv, TypeOK, ClaimNext, Claimable, PromptInv, NoFailuresYet, AttemptsBelowMax
  <2>8. QED
    BY <2>4, <2>6, <2>7 DEF PromptInv
<1>10. ASSUME NEW s \in inflight, ClaimNextEmpty(s) \/ FenceRejects(s)
       PROVE  PromptInv'
  BY <1>10, PromptAnswered DEF ClaimNextEmpty, FenceRejects
<1>11. ASSUME NEW s \in inflight, Finalize(s)
       PROVE  PromptInv'
  <2>1. /\ s.worker \in Workers /\ s.event \in Events
        /\ s.event = held[s.worker] /\ lockedBy[s.event] = s.worker
        /\ s.op = "schedule_retry" => failedAttempts[s.event] + 1 < MaxFailures
    BY <1>11 DEF OutboxInv, TypeOK, Statement, StatementsSound, PromptInv, AllAwaited,
                 OwnersUpToDate, Finalize, MarkPublished, ScheduleRetry, MarkDeadLetter, Owns
  <2>2. IterationAnswered(s) /\ inflight' = inflight \ {s} /\ ReleaseLease(s.event)
    BY <1>11 DEF Finalize, MarkPublished, ScheduleRetry, MarkDeadLetter
  <2>3. OneStatementEach' /\ AllAwaited'
    BY <2>2, PromptAnswered
  <2>4. \A v \in Workers : held'[v] # NULL =>
            held'[v] = held[v] /\ seen'[v] = seen[v] /\ lease'[v] = lease[v]
    BY <2>1, <2>2 DEF OutboxInv, TypeOK, IterationAnswered, EndIteration, workerVars
  <2>5. \A d \in Events : d # s.event =>
            /\ lockedBy'[d] = lockedBy[d] /\ leaseOf'[d] = leaseOf[d]
            /\ status'[d] = status[d] /\ failedAttempts'[d] = failedAttempts[d]
    BY <1>11, <2>1 DEF OutboxInv, TypeOK, Finalize, MarkPublished, ScheduleRetry,
                       MarkDeadLetter, ReleaseLease, RecordFailure
  <2>6. lockedBy'[s.event] = NULL
    BY <2>1, <2>2 DEF ReleaseLease, OutboxInv, TypeOK
  <2>7. OwnersUpToDate'
    <3> SUFFICES ASSUME NEW v \in Workers, held'[v] # NULL, lockedBy'[held'[v]] = v
                 PROVE  seen'[v] = failedAttempts'[held'[v]] /\ leaseOf'[held'[v]] = lease'[v]
      BY DEF OwnersUpToDate
    <3>1. held[v] \in Events /\ held'[v] = held[v] /\ held[v] # s.event
      BY <2>4, <2>6 DEF OutboxInv, TypeOK
    <3>2. QED
      BY <2>4, <2>5, <3>1 DEF PromptInv, OwnersUpToDate
  <2>8. NoFailuresYet' /\ AttemptsBelowMax'
    <3>1. \/ status'[s.event] \in {"published", "dead_letter"}
          \/ status'[s.event] = "pending" /\ failedAttempts'[s.event] < MaxFailures
      BY <1>11, <2>1 DEF OutboxInv, TypeOK, Finalize, MarkPublished, ScheduleRetry,
                         MarkDeadLetter, RecordFailure
    <3>2. QED
      BY <2>1, <2>5, <3>1 DEF PromptInv, NoFailuresYet, AttemptsBelowMax
  <2>9. QED
    BY <2>3, <2>7, <2>8 DEF PromptInv
<1>12. ASSUME NEW w \in Workers,
              Crash(w) \/ StopLoop(w) \/ StoreUnavailable(w) \/ StoreCanceled(w) \/ StoreFatal(w)
       PROVE  PromptInv'
  BY <1>5, <1>6, <1>12 DEF Crash, StopLoop, StoreUnavailable, StoreCanceled, StoreFatal, GiveUp
<1>13. QED
  BY <1>1, <1>2, <1>3, <1>4, <1>7, <1>8, <1>9, <1>10, <1>11, <1>12
     DEF Next, WorkerStep, Execute, Finalize

\* With prompt execution the stronger invariant holds as well.
THEOREM PromptInvariance ==
    ASSUME ~LateExecution
    PROVE  Spec => []PromptInv
<1>1. Init => PromptInv
  BY OutboxAssumption DEF Init, PromptInv, NoFailuresYet, OneStatementEach, AllAwaited,
                          OwnersUpToDate, AttemptsBelowMax
<1>2. OutboxInv /\ PromptInv /\ [Next]_vars => PromptInv'
  BY PromptStep
<1>3. QED
  BY Invariance, <1>1, <1>2, PTL DEF Spec

\* With prompt execution the failures on record stay below MaxFailures until
\* the row is dead-lettered, whatever crashes, expires or is shut down.
THEOREM PromptAttempts ==
    ASSUME ~LateExecution
    PROVE  Spec => []AttemptsBelowMax
<1>1. PromptInv => AttemptsBelowMax
  BY DEF PromptInv
<1>2. QED
  BY PromptInvariance, <1>1, PTL

\* With prompt execution a worker id is fence enough: every finalization that
\* changes a row belongs to the row's current acquisition.
THEOREM PromptFencing ==
    ASSUME ~LateExecution
    PROVE  Spec => StaleFinalizationRejected
<1>1. OutboxInv /\ PromptInv /\ [Next]_vars =>
        [\A s \in inflight :
           s \notin inflight' /\ s.op # "claim" /\ status'[s.event] # status[s.event]
               => leaseOf[s.event] = s.lease]_vars
  <2> SUFFICES ASSUME OutboxInv, PromptInv, Next, NEW s \in inflight,
                      s \notin inflight', s.op # "claim",
                      status'[s.event] # status[s.event]
               PROVE  leaseOf[s.event] = s.lease
    OBVIOUS
  <2>1. ASSUME Owns(s)
        PROVE  leaseOf[s.event] = s.lease
    BY <2>1, OutboxAssumption
       DEF Owns, OutboxInv, TypeOK, Statement, StatementsSound, PromptInv, AllAwaited,
           Awaited, OwnersUpToDate
  <2>2. ASSUME NEW t \in inflight, Execute(t)
        PROVE  Owns(s)
    <3>1. t = s
      BY <2>2 DEF Execute, ClaimNext, ClaimNextEmpty, MarkPublished, ScheduleRetry,
                  MarkDeadLetter, FenceRejects
    <3>2. QED
      BY <2>2, <3>1 DEF Execute, ClaimNext, ClaimNextEmpty, MarkPublished, ScheduleRetry,
                        MarkDeadLetter, FenceRejects, rowVars
  <2>3. ASSUME NEW e \in Events, InsertEvent(e) \/ TimePasses(e) \/ PurgePublished(e)
        PROVE  FALSE
    BY <2>3 DEF InsertEvent, TimePasses, PurgePublished
  <2>4. CASE UNCHANGED rowVars
    BY <2>4 DEF rowVars
  <2>5. QED
    BY <2>1, <2>2, <2>3, <2>4
       DEF Next, WorkerStep, Deliver, Cancel, Crash, Start, StopLoop, BeginClaim,
           PublishReturns, GiveUp, StoreUnavailable, StoreCanceled, StoreFatal
<1>2. QED
  BY Invariance, PromptInvariance, <1>1, PTL DEF Spec, StaleFinalizationRejected
=============================================================================
