------------------------ MODULE WorkerMetricsProofs -------------------------
(***************************************************************************)
(* Proofs about WorkerMetrics: the counters never claim too much, and an   *)
(* undercount is always explained, for any number of events, acquisitions  *)
(* and retries, any finite number of workers, and statements that execute  *)
(* late or not.                                                            *)
(***************************************************************************)
EXTENDS WorkerMetrics, OutboxProofs, FiniteSetTheorems

-----------------------------------------------------------------------------
(* The inductive invariant. *)

CountersType ==
    /\ published   \in [Events -> Nat]
    /\ retries     \in [Events -> Nat]
    /\ deadLetters \in [Events -> Nat]
    /\ opErrors    \in [Events -> Nat]
    /\ cut         \in [Events -> Nat]

\* An acquisition names at most one statement in flight and one worker, and
\* the worker that works under it is the one that sent the statement and waits
\* for it: no finalization can be taken for the answer to another one.
LeasesSound ==
    /\ \A s, t \in inflight : s.lease = t.lease => s = t
    /\ \A v, w \in Workers : lease[v] # NULL /\ lease[v] = lease[w] => v = w
    /\ \A s \in inflight, w \in Workers : s.lease = lease[w] =>
           /\ s.worker = w
           /\ \/ pc[w] = "claiming" /\ s.op = "claim"
              \/ pc[w] = "finalizing" /\ s.op # "claim" /\ s.event = held[w]

\* The finalizations of e that nobody waits for and that may still execute.
Abandoned(e) == {s \in inflight : s.op # "claim" /\ s.event = e /\ ~Awaited(s)}

\* Every finalization given up on may still become an uncounted transition:
\* the margin has to cover those as well.
Accounted(e) ==
    Uncounted(e) + Cardinality(Abandoned(e))
        <= opErrors[e] + cut[e] + Cardinality(AnswerDue(e))

\* The steps in which the worker counts no transition and no error.
SilentStep ==
    \/ OtherStep
    \/ \E w \in Workers, outcome \in Outcomes : ObservePublish(w, outcome)

MetricsInv ==
    /\ OutboxInv
    /\ CountersType
    /\ NeverOvercounted
    /\ LeasesSound
    /\ IsFiniteSet(inflight)
    /\ \A e \in Events : Accounted(e)

-----------------------------------------------------------------------------
(* Cardinalities. *)

\* A set with at most one element more than S.
LEMMA GrowByOne ==
    ASSUME NEW S, NEW T, NEW x, IsFiniteSet(S), T \subseteq S \cup {x}
    PROVE  IsFiniteSet(T) /\ Cardinality(T) \in Nat /\ Cardinality(S) \in Nat
           /\ Cardinality(T) <= Cardinality(S) + 1
<1>1. /\ IsFiniteSet(S \cup {x})
      /\ Cardinality(S \cup {x}) = Cardinality(S) \/ Cardinality(S \cup {x}) = Cardinality(S) + 1
  BY FS_AddElement
<1>2. IsFiniteSet(T) /\ Cardinality(T) <= Cardinality(S \cup {x})
  BY <1>1, FS_Subset
<1>3. Cardinality(S) \in Nat /\ Cardinality(T) \in Nat
  BY <1>2, FS_CardinalityType
<1>4. QED
  BY <1>1, <1>2, <1>3

\* A set without one of the elements of S.
LEMMA ShrinkByOne ==
    ASSUME NEW S, NEW T, NEW x \in S, IsFiniteSet(S), T \subseteq S \ {x}
    PROVE  IsFiniteSet(T) /\ Cardinality(T) \in Nat /\ Cardinality(S) \in Nat
           /\ Cardinality(T) + 1 <= Cardinality(S)
<1>1. IsFiniteSet(S \ {x}) /\ Cardinality(S \ {x}) = Cardinality(S) - 1
  BY FS_RemoveElement
<1>2. IsFiniteSet(T) /\ Cardinality(T) <= Cardinality(S \ {x})
  BY <1>1, FS_Subset
<1>3. Cardinality(S) \in Nat /\ Cardinality(T) \in Nat
  BY <1>2, FS_CardinalityType
<1>4. QED
  BY <1>1, <1>2, <1>3

\* A subset is no larger.
LEMMA NoLarger ==
    ASSUME NEW S, NEW T, IsFiniteSet(S), T \subseteq S
    PROVE  IsFiniteSet(T) /\ Cardinality(T) \in Nat /\ Cardinality(S) \in Nat
           /\ Cardinality(T) <= Cardinality(S)
BY FS_Subset, FS_CardinalityType

\* The sets of the account of an event are finite.
LEMMA AccountFinite ==
    ASSUME NEW e \in Events, IsFiniteSet(inflight)
    PROVE  IsFiniteSet(Abandoned(e)) /\ IsFiniteSet(AnswerDue(e))
<1>1. Abandoned(e) \subseteq inflight
  BY DEF Abandoned
<1>2. AnswerDue(e) \subseteq Workers
  BY DEF AnswerDue
<1>3. QED
  BY <1>1, <1>2, FS_Subset, MetricsAssumption

-----------------------------------------------------------------------------
(* Acquisitions. *)

\* A worker that ends its iteration gives its acquisition back.
LEMMA LeasesLeave ==
    ASSUME TypeOK, LeasesSound, NEW w \in Workers, NEW next, EndIteration(w, next),
           inflight' \subseteq inflight
    PROVE  LeasesSound'
<1> USE OutboxAssumption
<1>1. \A v \in Workers : v # w => pc'[v] = pc[v] /\ held'[v] = held[v] /\ lease'[v] = lease[v]
  BY DEF EndIteration, TypeOK
<1>2. lease'[w] = NULL
  BY DEF EndIteration, TypeOK
<1>3. \A s \in inflight' : s \in inflight /\ s.lease # NULL
  BY DEF TypeOK, Statement
<1>4. QED
  BY <1>1, <1>2, <1>3 DEF LeasesSound

\* Nothing changes for the workers.
LEMMA LeasesKept ==
    ASSUME LeasesSound, UNCHANGED <<pc, held, lease>>, inflight' \subseteq inflight
    PROVE  LeasesSound'
BY DEF LeasesSound

\* Every step keeps acquisitions apart.
LEMMA LeasesStep ==
    ASSUME OutboxInv, LeasesSound, [Next]_vars
    PROVE  LeasesSound'
<1> USE OutboxAssumption
<1>0. TypeOK /\ StatementsSound
  BY DEF OutboxInv
<1>1. CASE UNCHANGED vars
  BY <1>1, LeasesKept DEF vars, workerVars
<1>2. ASSUME NEW e \in Events, InsertEvent(e) \/ TimePasses(e) \/ PurgePublished(e)
      PROVE  LeasesSound'
  BY <1>2, LeasesKept DEF InsertEvent, TimePasses, PurgePublished, workerVars
<1>3. ASSUME NEW w \in Workers, Deliver(w) \/ Cancel(w)
      PROVE  LeasesSound'
  BY <1>3, LeasesKept DEF Deliver, Cancel, workerVars
<1>4. ASSUME NEW w \in Workers, Start(w)
      PROVE  LeasesSound'
  <2>1. lease[w] = NULL /\ lease' = lease /\ held' = held /\ inflight' = inflight
    BY <1>0, <1>4 DEF TypeOK, Start
  <2>2. \A v \in Workers : v # w => pc'[v] = pc[v]
    BY <1>0, <1>4 DEF TypeOK, Start
  <2>3. \A s \in inflight : s.lease # NULL
    BY <1>0 DEF TypeOK, Statement
  <2>4. QED
    BY <2>1, <2>2, <2>3 DEF LeasesSound
<1>5. ASSUME NEW w \in Workers,
             Crash(w) \/ StopLoop(w) \/ StoreUnavailable(w) \/ StoreCanceled(w) \/ StoreFatal(w)
      PROVE  LeasesSound'
  <2>1. inflight' \subseteq inflight
    BY <1>0, <1>5, GiveUpInflight DEF Crash, StopLoop, StoreUnavailable, StoreCanceled,
                                      StoreFatal, GiveUp
  <2>2. EndIteration(w, "off") \/ EndIteration(w, "waiting")
    BY <1>5 DEF Crash, StopLoop, StoreUnavailable, StoreCanceled, StoreFatal, GiveUp
  <2>3. QED
    BY <1>0, <2>1, <2>2, LeasesLeave
<1>6. ASSUME NEW w \in Workers, NEW l \in Leases, BeginClaim(w, l)
      PROVE  LeasesSound'
  <2> DEFINE new == [op |-> "claim", worker |-> w, event |-> NULL, lease |-> l, reason |-> NULL]
  <2>1. inflight' = inflight \cup {new} /\ new.worker = w /\ new.op = "claim" /\ new.lease = l
    BY <1>6 DEF BeginClaim
  <2> HIDE DEF new
  <2>2. /\ \A s \in inflight : s.lease # l /\ s.lease # NULL
        /\ \A v \in Workers : lease[v] # l
    BY <1>0, <1>6 DEF BeginClaim, FreeLeases, TypeOK, Statement
  <2>3. /\ lease'[w] = l /\ pc'[w] = "claiming"
        /\ \A v \in Workers : v # w => pc'[v] = pc[v] /\ lease'[v] = lease[v]
        /\ held' = held
    BY <1>0, <1>6 DEF BeginClaim, TypeOK
  <2>4. QED
    BY <2>1, <2>2, <2>3 DEF LeasesSound
<1>7. ASSUME NEW w \in Workers, NEW outcome \in Outcomes, PublishReturns(w, outcome)
      PROVE  LeasesSound'
  <2>1. CASE canceled[w]
    BY <1>0, <1>7, <2>1, LeasesLeave DEF PublishReturns
  <2>2. CASE ~canceled[w]
    <3> DEFINE new == [op     |-> Transition(w, outcome),
                       worker |-> w,
                       event  |-> held[w],
                       lease  |-> lease[w],
                       reason |-> IF outcome = "success" THEN NULL ELSE outcome]
    <3>1. /\ inflight' = inflight \cup {new}
          /\ new.worker = w /\ new.event = held[w] /\ new.lease = lease[w]
      BY <1>7, <2>2 DEF PublishReturns
    <3>2. new.op # "claim"
      BY <1>0 DEF Transition, TypeOK
    <3> HIDE DEF new
    <3>3. /\ pc[w] = "publishing" /\ lease[w] # NULL
          /\ lease' = lease /\ held' = held /\ pc'[w] = "finalizing"
          /\ \A v \in Workers : v # w => pc'[v] = pc[v]
      BY <1>0, <1>7, <2>2 DEF PublishReturns, TypeOK
    <3>4. \A s \in inflight : s.lease # lease[w]
      BY <3>3 DEF LeasesSound
    <3>5. QED
      BY <3>1, <3>2, <3>3, <3>4 DEF LeasesSound
  <2>3. QED
    BY <2>1, <2>2
<1>8. ASSUME NEW s \in inflight, NEW e \in Events, ClaimNext(s, e)
      PROVE  LeasesSound'
  <2>1. s.worker \in Workers /\ inflight' = inflight \ {s}
    BY <1>0, <1>8 DEF TypeOK, Statement, ClaimNext
  <2>2. CASE UNCHANGED workerVars
    BY <2>1, <2>2, LeasesKept DEF workerVars
  <2>3. CASE ~UNCHANGED workerVars
    <3>1. /\ s.lease = lease[s.worker] /\ lease' = lease
          /\ \A v \in Workers : v # s.worker => pc'[v] = pc[v] /\ held'[v] = held[v]
      BY <1>0, <1>8, <2>1, <2>3 DEF ClaimNext, ClaimAnswered, Awaited, TypeOK
    <3>2. \A t \in inflight' : t \in inflight /\ t.lease # lease[s.worker]
      BY <2>1, <3>1 DEF LeasesSound
    <3>3. QED
      BY <2>1, <3>1, <3>2 DEF LeasesSound
  <2>4. QED
    BY <2>2, <2>3
<1>9. ASSUME NEW s \in inflight, ClaimNextEmpty(s) \/ FenceRejects(s) \/ Finalize(s)
      PROVE  LeasesSound'
  <2>1. IterationAnswered(s) /\ inflight' = inflight \ {s}
    BY <1>9 DEF ClaimNextEmpty, FenceRejects, Finalize, MarkPublished, ScheduleRetry,
                MarkDeadLetter
  <2>2. s.worker \in Workers
    BY <1>0 DEF TypeOK, Statement
  <2>3. CASE EndIteration(s.worker, "waiting")
    BY <1>0, <2>1, <2>2, <2>3, LeasesLeave
  <2>4. CASE UNCHANGED workerVars
    BY <2>1, <2>4, LeasesKept DEF workerVars
  <2>5. QED
    BY <2>1, <2>3, <2>4 DEF IterationAnswered
<1>10. QED
  BY <1>1, <1>2, <1>3, <1>4, <1>5, <1>6, <1>7, <1>8, <1>9
     DEF Next, WorkerStep, Execute, Finalize

\* A step sends at most one statement.
LEMMA InflightFinite ==
    ASSUME TypeOK, IsFiniteSet(inflight), [Next]_vars
    PROVE  IsFiniteSet(inflight')
<1>1. ASSUME NEW x, inflight' \subseteq inflight \cup {x}
      PROVE  IsFiniteSet(inflight')
  BY <1>1, GrowByOne
<1>2. ASSUME NEW w \in Workers, Crash(w) \/ StoreUnavailable(w) \/ StoreCanceled(w)
                                   \/ StoreFatal(w)
      PROVE  inflight' \subseteq inflight
  BY <1>2, GiveUpInflight DEF Crash, StoreUnavailable, StoreCanceled, StoreFatal, GiveUp
<1>3. ASSUME NEW w \in Workers, NEW l \in Leases, BeginClaim(w, l)
      PROVE  IsFiniteSet(inflight')
  BY <1>1, <1>3 DEF BeginClaim
<1>4. ASSUME NEW w \in Workers, NEW outcome \in Outcomes, PublishReturns(w, outcome)
      PROVE  IsFiniteSet(inflight')
  <2>1. CASE UNCHANGED inflight
    BY <2>1
  <2>2. CASE ~UNCHANGED inflight
    <3>1. PICK x : inflight' = inflight \cup {x}
      BY <1>4, <2>2 DEF PublishReturns
    <3>2. QED
      BY <1>1, <3>1
  <2>3. QED
    BY <2>1, <2>2
<1>5. CASE inflight' \subseteq inflight
  BY <1>5, FS_Subset
<1>6. QED
  BY <1>2, <1>3, <1>4, <1>5
     DEF Next, vars, WorkerStep, Execute, InsertEvent, TimePasses, PurgePublished, Deliver,
         Cancel, Start, StopLoop, ClaimNext, ClaimNextEmpty, MarkPublished, ScheduleRetry,
         MarkDeadLetter, FenceRejects
-----------------------------------------------------------------------------
(* What a step does to the statements given up on and the answers due. *)

\* What stays within the margin of every event.
Quiet ==
    \A e \in Events : Abandoned(e)' \subseteq Abandoned(e) /\ AnswerDue(e) \subseteq AnswerDue(e)'

\* Nothing changes for the workers, and nothing is sent.
LEMMA QuietKept ==
    ASSUME UNCHANGED <<pc, held, lease>>, inflight' \subseteq inflight
    PROVE  Quiet
BY DEF Quiet, Abandoned, AnswerDue, Awaited

\* A worker that finalizes nothing moves on; what it sends is waited for.
LEMMA QuietMove ==
    ASSUME TypeOK, NEW w \in Workers, pc[w] # "finalizing",
           \A v \in Workers : v # w =>
               pc'[v] = pc[v] /\ held'[v] = held[v] /\ lease'[v] = lease[v],
           \A s \in inflight' : s \notin inflight =>
               s.worker = w /\ (s.op # "claim" => Awaited(s)')
    PROVE  Quiet
<1> SUFFICES ASSUME NEW e \in Events
             PROVE  Abandoned(e)' \subseteq Abandoned(e) /\ AnswerDue(e) \subseteq AnswerDue(e)'
  BY DEF Quiet
<1>1. ASSUME NEW s \in Abandoned(e)'
      PROVE  s \in Abandoned(e)
  <2>1. s \in inflight /\ s.op # "claim" /\ s.event = e /\ ~Awaited(s)' /\ s.worker \in Workers
    BY <1>1 DEF Abandoned, TypeOK, Statement
  <2>2. ~Awaited(s)
    BY <2>1 DEF Awaited
  <2>3. QED
    BY <2>1, <2>2 DEF Abandoned
<1>2. ASSUME NEW v \in AnswerDue(e)
      PROVE  v \in AnswerDue(e)'
  <2>1. /\ v \in Workers /\ pc[v] = "finalizing" /\ held[v] = e /\ v # w
        /\ ~\E s \in inflight : s.worker = v /\ Awaited(s)
    BY <1>2 DEF AnswerDue
  <2>2. ~\E s \in inflight' : s.worker = v /\ Awaited(s)'
    BY <2>1 DEF Awaited
  <2>3. QED
    BY <2>1, <2>2 DEF AnswerDue
<1>3. QED
  BY <1>1, <1>2

\* A worker leaves its finalization.  If the statement is still in flight it
\* may execute without being waited for; if it is executed its answer is lost.
LEMMA LeaveFinalization ==
    ASSUME TypeOK, LeasesSound, NEW w \in Workers, NEW next, EndIteration(w, next),
           pc[w] = "finalizing", inflight' \subseteq inflight, NEW e \in Events
    PROVE  /\ AnswerDue(e) \ {w} \subseteq AnswerDue(e)'
           /\ held[w] # e => /\ Abandoned(e)' \subseteq Abandoned(e)
                             /\ w \notin AnswerDue(e)
           /\ \A s \in inflight : s.worker = w /\ Awaited(s) =>
                  /\ Abandoned(e)' \subseteq Abandoned(e) \cup {s}
                  /\ s \notin inflight' => Abandoned(e)' \subseteq Abandoned(e)
                  /\ w \notin AnswerDue(e)
           /\ (~\E s \in inflight : s.worker = w /\ Awaited(s)) =>
                  Abandoned(e)' \subseteq Abandoned(e)
<1>1. \A v \in Workers : v # w => pc'[v] = pc[v] /\ held'[v] = held[v] /\ lease'[v] = lease[v]
  BY DEF EndIteration, TypeOK
<1>2. AnswerDue(e) \ {w} \subseteq AnswerDue(e)'
  BY <1>1 DEF AnswerDue, Awaited
<1>3. \A s \in Abandoned(e)' : s \in Abandoned(e) \/ (s.worker = w /\ Awaited(s))
  BY <1>1 DEF Abandoned, Awaited, TypeOK, Statement
<1>4. \A s, t \in inflight :
          s.worker = w /\ Awaited(s) /\ t.worker = w /\ Awaited(t) => s = t
  BY DEF LeasesSound, Awaited
<1>5. \A s \in inflight : s.worker = w /\ Awaited(s) => s.event = held[w]
  BY DEF LeasesSound, Awaited
<1>6. \A s \in Abandoned(e)' : s \in inflight' /\ s \in inflight /\ s.event = e
  BY DEF Abandoned
<1>7. held[w] # e => Abandoned(e)' \subseteq Abandoned(e)
  BY <1>3, <1>5, <1>6
<1>8. \A s \in inflight : s.worker = w /\ Awaited(s) =>
          /\ Abandoned(e)' \subseteq Abandoned(e) \cup {s}
          /\ s \notin inflight' => Abandoned(e)' \subseteq Abandoned(e)
  BY <1>3, <1>4, <1>6
<1>9. (~\E s \in inflight : s.worker = w /\ Awaited(s)) => Abandoned(e)' \subseteq Abandoned(e)
  BY <1>3, <1>6
<1>10. /\ held[w] # e => w \notin AnswerDue(e)
       /\ \A s \in inflight : s.worker = w /\ Awaited(s) => w \notin AnswerDue(e)
  BY DEF AnswerDue
<1>11. QED
  BY <1>2, <1>7, <1>8, <1>9, <1>10

\* Steps that leave the counts of the table alone and that nobody gives up in.
LEMMA QuietStep ==
    ASSUME OutboxInv, LeasesSound,
           \/ UNCHANGED vars
           \/ \E e \in Events : InsertEvent(e) \/ TimePasses(e) \/ PurgePublished(e)
           \/ \E w \in Workers :
                  \/ Deliver(w)
                  \/ Cancel(w)
                  \/ Start(w)
                  \/ StopLoop(w)
                  \/ \E l \in Leases : BeginClaim(w, l)
                  \/ \E outcome \in Outcomes : PublishReturns(w, outcome)
           \/ \E s \in inflight : ClaimNextEmpty(s) \/ FenceRejects(s)
           \/ \E s \in inflight, e \in Events : ClaimNext(s, e)
    PROVE  Quiet
<1>0. TypeOK
  BY DEF OutboxInv
<1>1. CASE UNCHANGED vars
  BY <1>1, QuietKept DEF vars, workerVars
<1>2. ASSUME NEW e \in Events, InsertEvent(e) \/ TimePasses(e) \/ PurgePublished(e)
      PROVE  Quiet
  BY <1>2, QuietKept DEF InsertEvent, TimePasses, PurgePublished, workerVars
<1>3. ASSUME NEW w \in Workers, Deliver(w) \/ Cancel(w)
      PROVE  Quiet
  BY <1>3, QuietKept DEF Deliver, Cancel, workerVars
<1>4. ASSUME NEW w \in Workers, Start(w) \/ StopLoop(w)
      PROVE  Quiet
  <2>1. /\ pc[w] # "finalizing" /\ inflight' = inflight
        /\ \A v \in Workers : v # w =>
               pc'[v] = pc[v] /\ held'[v] = held[v] /\ lease'[v] = lease[v]
    BY <1>0, <1>4 DEF Start, StopLoop, EndIteration, TypeOK
  <2>2. QED
    BY <1>0, <2>1, QuietMove
<1>5. ASSUME NEW w \in Workers, NEW l \in Leases, BeginClaim(w, l)
      PROVE  Quiet
  <2> DEFINE new == [op |-> "claim", worker |-> w, event |-> NULL, lease |-> l, reason |-> NULL]
  <2>1. inflight' = inflight \cup {new} /\ new.worker = w /\ new.op = "claim"
    BY <1>5 DEF BeginClaim
  <2> HIDE DEF new
  <2>2. /\ pc[w] # "finalizing"
        /\ \A v \in Workers : v # w =>
               pc'[v] = pc[v] /\ held'[v] = held[v] /\ lease'[v] = lease[v]
    BY <1>0, <1>5 DEF BeginClaim, TypeOK
  <2>3. \A s \in inflight' : s \notin inflight =>
            s.worker = w /\ (s.op # "claim" => Awaited(s)')
    BY <2>1
  <2>4. QED
    BY <1>0, <2>2, <2>3, QuietMove
<1>6. ASSUME NEW w \in Workers, NEW outcome \in Outcomes, PublishReturns(w, outcome)
      PROVE  Quiet
  <2>1. /\ pc[w] # "finalizing"
        /\ \A v \in Workers : v # w =>
               pc'[v] = pc[v] /\ held'[v] = held[v] /\ lease'[v] = lease[v]
    BY <1>0, <1>6 DEF PublishReturns, EndIteration, TypeOK
  <2>2. \A s \in inflight' : s \notin inflight =>
            s.worker = w /\ (s.op # "claim" => Awaited(s)')
    <3> DEFINE new == [op     |-> Transition(w, outcome),
                       worker |-> w,
                       event  |-> held[w],
                       lease  |-> lease[w],
                       reason |-> IF outcome = "success" THEN NULL ELSE outcome]
    <3>1. CASE UNCHANGED inflight
      BY <3>1
    <3>2. CASE ~UNCHANGED inflight
      <4>1. inflight' = inflight \cup {new} /\ new.worker = w /\ new.lease = lease[w]
        BY <1>6, <3>2 DEF PublishReturns
      <4>2. pc'[w] = "finalizing" /\ lease' = lease
        BY <1>0, <1>6, <3>2 DEF PublishReturns, TypeOK
      <4> HIDE DEF new
      <4>3. QED
        BY <4>1, <4>2 DEF Awaited
    <3>3. QED
      BY <3>1, <3>2
  <2>3. QED
    BY <1>0, <2>1, <2>2, QuietMove
<1>7. ASSUME NEW s \in inflight, NEW e \in Events, ClaimNext(s, e)
      PROVE  Quiet
  <2>1. s.worker \in Workers /\ inflight' = inflight \ {s} /\ s.op = "claim"
    BY <1>0, <1>7 DEF TypeOK, Statement, ClaimNext
  <2>2. CASE UNCHANGED workerVars
    BY <2>1, <2>2, QuietKept DEF workerVars
  <2>3. CASE ~UNCHANGED workerVars
    <3>1. /\ pc[s.worker] # "finalizing"
          /\ \A v \in Workers : v # s.worker =>
                 pc'[v] = pc[v] /\ held'[v] = held[v] /\ lease'[v] = lease[v]
      BY <1>0, <1>7, <2>1, <2>3 DEF ClaimNext, ClaimAnswered, Awaited, TypeOK
    <3>2. QED
      BY <1>0, <2>1, <3>1, QuietMove
  <2>4. QED
    BY <2>2, <2>3
<1>8. ASSUME NEW s \in inflight, ClaimNextEmpty(s)
      PROVE  Quiet
  <2>1. s.worker \in Workers /\ inflight' = inflight \ {s} /\ s.op = "claim"
    BY <1>0, <1>8 DEF TypeOK, Statement, ClaimNextEmpty
  <2>2. CASE UNCHANGED workerVars
    BY <2>1, <2>2, QuietKept DEF workerVars
  <2>3. CASE ~UNCHANGED workerVars
    <3>1. /\ pc[s.worker] # "finalizing"
          /\ \A v \in Workers : v # s.worker =>
                 pc'[v] = pc[v] /\ held'[v] = held[v] /\ lease'[v] = lease[v]
      BY <1>0, <1>8, <2>1, <2>3 DEF ClaimNextEmpty, IterationAnswered, EndIteration,
                                    Awaited, TypeOK
    <3>2. QED
      BY <1>0, <2>1, <3>1, QuietMove
  <2>4. QED
    BY <2>2, <2>3
<1>9. ASSUME NEW s \in inflight, FenceRejects(s)
      PROVE  Quiet
  <2>1. s.worker \in Workers /\ inflight' = inflight \ {s} /\ s.op # "claim"
    BY <1>0, <1>9 DEF TypeOK, Statement, FenceRejects
  <2>2. CASE UNCHANGED workerVars
    BY <2>1, <2>2, QuietKept DEF workerVars
  <2>3. CASE ~UNCHANGED workerVars
    <3>1. Awaited(s) /\ EndIteration(s.worker, "waiting") /\ pc[s.worker] = "finalizing"
      BY <1>9, <2>1, <2>3 DEF FenceRejects, IterationAnswered, Awaited
    <3>2. ASSUME NEW e \in Events
          PROVE  Abandoned(e)' \subseteq Abandoned(e) /\ AnswerDue(e) \subseteq AnswerDue(e)'
      BY <1>0, <2>1, <3>1, LeaveFinalization
    <3>3. QED
      BY <3>2 DEF Quiet
  <2>4. QED
    BY <2>2, <2>3
<1>10. QED
  BY <1>1, <1>2, <1>3, <1>4, <1>5, <1>6, <1>7, <1>8, <1>9
-----------------------------------------------------------------------------
(* What a step does to the counts. *)

\* The transitions of row e on record, and those counted.
OnRecord(e) == failedAttempts[e] + Publications(e)
Counted(e)  == published[e] + retries[e] + deadLetters[e]

\* Counts are natural numbers.
LEMMA CountsType ==
    ASSUME TypeOK, CountersType, NEW e \in Events
    PROVE  /\ OnRecord(e) \in Nat /\ Counted(e) \in Nat
           /\ opErrors[e] \in Nat /\ cut[e] \in Nat
           /\ Uncounted(e) = OnRecord(e) - Counted(e)
BY DEF TypeOK, CountersType, OnRecord, Publications, Counted, Uncounted

\* Only a finalization that its fence accepts is a transition on record, and
\* it is one of its own event.
LEMMA RecordStep ==
    ASSUME OutboxInv, [Next]_vars, NEW e \in Events
    PROVE  /\ (\A s \in inflight : ~Finalize(s)) => OnRecord(e)' = OnRecord(e)
           /\ \A s \in inflight : Finalize(s) =>
                  OnRecord(e)' = OnRecord(e) + (IF s.event = e THEN 1 ELSE 0)
<1>0. TypeOK /\ StatementsSound
  BY DEF OutboxInv
<1>1. CASE UNCHANGED <<status, failedAttempts>>
  <2>1. OnRecord(e)' = OnRecord(e)
    BY <1>1 DEF OnRecord, Publications
  <2>2. \A s \in inflight : ~Finalize(s)
    BY <1>0, <1>1 DEF TypeOK, StatementsSound, Finalize, MarkPublished, ScheduleRetry,
                      MarkDeadLetter, Owns
  <2>3. QED
    BY <2>1, <2>2
<1>2. ASSUME NEW d \in Events, InsertEvent(d) \/ TimePasses(d) \/ PurgePublished(d)
      PROVE  OnRecord(e)' = OnRecord(e) /\ \A s \in inflight : ~Finalize(s)
  <2>1. OnRecord(e)' = OnRecord(e)
    BY <1>0, <1>2 DEF TypeOK, InsertEvent, TimePasses, PurgePublished, OnRecord, Publications
  <2>2. UNCHANGED inflight
    BY <1>2 DEF InsertEvent, TimePasses, PurgePublished
  <2>3. QED
    BY <2>1, <2>2 DEF Finalize, MarkPublished, ScheduleRetry, MarkDeadLetter
<1>3. ASSUME NEW t \in inflight, NEW d \in Events, ClaimNext(t, d)
      PROVE  OnRecord(e)' = OnRecord(e) /\ \A s \in inflight : ~Finalize(s)
  <2>1. OnRecord(e)' = OnRecord(e)
    BY <1>0, <1>3 DEF TypeOK, ClaimNext, Claimable, OnRecord, Publications
  <2>2. \A s \in inflight : ~Finalize(s)
    BY <1>3 DEF ClaimNext, Finalize, MarkPublished, ScheduleRetry, MarkDeadLetter
  <2>3. QED
    BY <2>1, <2>2
<1>4. ASSUME NEW s \in inflight, Finalize(s)
      PROVE  OnRecord(e)' = OnRecord(e) + (IF s.event = e THEN 1 ELSE 0)
  <2>1. s.event \in Events
    BY <1>0, <1>4 DEF StatementsSound, Finalize, MarkPublished, ScheduleRetry, MarkDeadLetter
  <2>2. CASE MarkPublished(s)
    BY <1>0, <2>1, <2>2 DEF TypeOK, MarkPublished, Owns, OnRecord, Publications
  <2>3. CASE ScheduleRetry(s)
    BY <1>0, <2>1, <2>3 DEF TypeOK, ScheduleRetry, Owns, RecordFailure, OnRecord, Publications
  <2>4. CASE MarkDeadLetter(s)
    BY <1>0, <2>1, <2>4 DEF TypeOK, MarkDeadLetter, Owns, RecordFailure, OnRecord, Publications
  <2>5. QED
    BY <1>4, <2>2, <2>3, <2>4 DEF Finalize
<1>5. QED
  BY <1>1, <1>2, <1>3, <1>4
     DEF Next, vars, rowVars, WorkerStep, Execute, Deliver, Cancel, Crash, Start, StopLoop,
         BeginClaim, PublishReturns, GiveUp, StoreUnavailable, StoreCanceled, StoreFatal,
         ClaimNextEmpty, FenceRejects, Finalize

\* The counters after the answer of s: the one of its operation goes up by one
\* if the worker learnt that the transition is recorded.
LEMMA CountStep ==
    ASSUME TypeOK, StatementsSound, CountersType, NEW s \in inflight, ObserveTransition(s),
           NEW e \in Events
    PROVE  /\ published'[e] = published[e]
                  + (IF e = s.event /\ s.op = "mark_published" /\ Recorded(s) THEN 1 ELSE 0)
           /\ retries'[e] = retries[e]
                  + (IF e = s.event /\ s.op = "schedule_retry" /\ Recorded(s) THEN 1 ELSE 0)
           /\ deadLetters'[e] = deadLetters[e]
                  + (IF e = s.event /\ s.op = "mark_dead_letter" /\ Recorded(s) THEN 1 ELSE 0)
           /\ Counted(e)' = Counted(e) + (IF e = s.event /\ Recorded(s) THEN 1 ELSE 0)
           /\ opErrors'[e] = opErrors[e] /\ cut'[e] = cut[e]
<1>1. /\ published'[e] = published[e]
             + (IF e = s.event /\ s.op = "mark_published" /\ Recorded(s) THEN 1 ELSE 0)
      /\ retries'[e] = retries[e]
             + (IF e = s.event /\ s.op = "schedule_retry" /\ Recorded(s) THEN 1 ELSE 0)
      /\ deadLetters'[e] = deadLetters[e]
             + (IF e = s.event /\ s.op = "mark_dead_letter" /\ Recorded(s) THEN 1 ELSE 0)
      /\ opErrors'[e] = opErrors[e] /\ cut'[e] = cut[e]
  BY DEF ObserveTransition, Inc, CountersType, errorVars
<1>2. Recorded(s) => s.op \in {"mark_published", "schedule_retry", "mark_dead_letter"}
  BY DEF Recorded, TypeOK, Statement, Ops
<1>3. QED
  BY <1>1, <1>2 DEF Counted, CountersType

\* Every step keeps the types of the counters.
LEMMA CountersTypeStep ==
    ASSUME CountersType, [MetricsNext]_metricsVars
    PROVE  CountersType'
<1>1. CASE UNCHANGED <<counterVars, opErrors, cut>>
  BY <1>1 DEF CountersType, counterVars
<1>2. ASSUME NEW s \in inflight, ObserveTransition(s)
      PROVE  CountersType'
  BY <1>2 DEF ObserveTransition, Inc, CountersType, errorVars
<1>3. ASSUME NEW w \in Workers, ObserveOperationError(w) \/ Unobserved(w)
      PROVE  CountersType'
  BY <1>3 DEF ObserveOperationError, Unobserved, CountUnheard, CountersType, counterVars
<1>4. QED
  BY <1>1, <1>2, <1>3 DEF MetricsNext, OtherStep, ObservePublish, metricsVars, errorVars

\* Counting is all that WorkerMetrics adds: its steps are steps of the outbox.
LEMMA MetricsIsOutbox ==
    ASSUME [MetricsNext]_metricsVars
    PROVE  [Next]_vars
BY DEF MetricsNext, metricsVars, ObserveTransition, ObserveOperationError, Unobserved,
       ObservePublish, OtherStep, Next, WorkerStep

\* Nobody finalizes in a step of the environment or of a worker: only the
\* database does.
LEMMA WorkersFinalizeNothing ==
    ASSUME TypeOK, StatementsSound, NEW s \in inflight,
           \/ SilentStep
           \/ \E w \in Workers : ObserveOperationError(w) \/ Unobserved(w)
           \/ UNCHANGED metricsVars
    PROVE  ~Finalize(s)
<1>1. CASE UNCHANGED rowVars
  BY <1>1 DEF rowVars, TypeOK, StatementsSound, Finalize, MarkPublished, ScheduleRetry,
              MarkDeadLetter, Owns
<1>2. CASE inflight \subseteq inflight'
  BY <1>2 DEF Finalize, MarkPublished, ScheduleRetry, MarkDeadLetter
<1>3. QED
  BY <1>1, <1>2
     DEF SilentStep, OtherStep, ObservePublish, ObserveOperationError, Unobserved, metricsVars,
         vars, InsertEvent,
         TimePasses, PurgePublished, Deliver, Cancel, Start, StopLoop, BeginClaim,
         PublishReturns, Crash, StoreUnavailable, StoreCanceled, StoreFatal, GiveUp
-----------------------------------------------------------------------------
(* The counters never claim too much. *)

\* A transition is counted only in the step that puts it on record, and the
\* row was open before it.
LEMMA OvercountStep ==
    ASSUME OutboxInv, CountersType, NeverOvercounted, [MetricsNext]_metricsVars
    PROVE  NeverOvercounted'
<1>0. TypeOK /\ StatementsSound /\ CountersType'
  BY CountersTypeStep DEF OutboxInv
<1>1. [Next]_vars
  BY MetricsIsOutbox
<1>2. ASSUME UNCHANGED counterVars, \A s \in inflight : ~Finalize(s)
      PROVE  NeverOvercounted'
  <2> SUFFICES ASSUME NEW e \in Events
               PROVE  /\ published'[e] <= Publications(e)'
                      /\ deadLetters'[e] <= GivenUp(e)'
                      /\ retries'[e] + deadLetters'[e] <= failedAttempts'[e]
    BY DEF NeverOvercounted
  <2> DEFINE Goal ==
          /\ status[e] \in {"published", "purged"} => status'[e] \in {"published", "purged"}
          /\ status[e] = "dead_letter" => status'[e] = "dead_letter"
          /\ failedAttempts[e] <= failedAttempts'[e]
          /\ failedAttempts[e] \in Nat /\ failedAttempts'[e] \in Nat
  <2>1. Goal
    <3>1. CASE UNCHANGED <<status, failedAttempts>>
      BY <1>0, <3>1 DEF TypeOK
    <3>2. ASSUME NEW d \in Events, InsertEvent(d) \/ TimePasses(d) \/ PurgePublished(d)
          PROVE  Goal
      BY <1>0, <3>2 DEF TypeOK, InsertEvent, TimePasses, PurgePublished
    <3>3. ASSUME NEW t \in inflight, NEW d \in Events, ClaimNext(t, d)
          PROVE  Goal
      BY <1>0, <3>3 DEF TypeOK, ClaimNext, Claimable
    <3>4. QED
      BY <1>1, <1>2, <3>1, <3>2, <3>3
         DEF Next, vars, rowVars, WorkerStep, Execute, Deliver, Cancel, Crash, Start, StopLoop,
             BeginClaim, PublishReturns, GiveUp, StoreUnavailable, StoreCanceled, StoreFatal,
             ClaimNextEmpty, FenceRejects, Finalize
  <2>2. QED
    BY <1>0, <1>2, <2>1 DEF NeverOvercounted, CountersType, counterVars, Publications, GivenUp
<1>3. ASSUME NEW s \in inflight, ObserveTransition(s), Finalize(s)
      PROVE  NeverOvercounted'
  <2> SUFFICES ASSUME NEW e \in Events
               PROVE  /\ published'[e] <= Publications(e)'
                      /\ deadLetters'[e] <= GivenUp(e)'
                      /\ retries'[e] + deadLetters'[e] <= failedAttempts'[e]
    BY DEF NeverOvercounted
  <2>1. /\ published'[e] = published[e]
               + (IF e = s.event /\ s.op = "mark_published" /\ Recorded(s) THEN 1 ELSE 0)
        /\ retries'[e] = retries[e]
               + (IF e = s.event /\ s.op = "schedule_retry" /\ Recorded(s) THEN 1 ELSE 0)
        /\ deadLetters'[e] = deadLetters[e]
               + (IF e = s.event /\ s.op = "mark_dead_letter" /\ Recorded(s) THEN 1 ELSE 0)
    BY <1>0, <1>3, CountStep
  <2>2. /\ published[e] <= Publications(e) /\ deadLetters[e] <= GivenUp(e)
        /\ retries[e] + deadLetters[e] <= failedAttempts[e]
        /\ published[e] \in Nat /\ deadLetters[e] \in Nat /\ retries[e] \in Nat
        /\ failedAttempts[e] \in Nat
    BY <1>0 DEF NeverOvercounted, CountersType, TypeOK
  <2>3. s.event \in Events /\ status[s.event] = "processing"
    BY <1>0, <1>3 DEF StatementsSound, Finalize, MarkPublished, ScheduleRetry,
                      MarkDeadLetter, Owns
  <2>4. CASE e # s.event
    <3>1. status'[e] = status[e] /\ failedAttempts'[e] = failedAttempts[e]
      BY <1>0, <1>3, <2>3, <2>4 DEF TypeOK, Finalize, MarkPublished, ScheduleRetry,
                                    MarkDeadLetter, RecordFailure
    <3>2. QED
      BY <2>1, <2>2, <2>4, <3>1 DEF Publications, GivenUp
  <2>5. CASE e = s.event
    <3>1. published[e] = 0 /\ deadLetters[e] = 0
      BY <2>2, <2>3, <2>5 DEF Publications, GivenUp
    <3>2. CASE MarkPublished(s)
      <4>1. /\ s.op = "mark_published" /\ status'[e] = "published"
            /\ failedAttempts'[e] = failedAttempts[e]
        BY <1>0, <2>3, <2>5, <3>2 DEF TypeOK, MarkPublished
      <4>2. QED
        BY <2>1, <2>2, <3>1, <4>1 DEF Publications, GivenUp
    <3>3. CASE ScheduleRetry(s)
      <4>1. /\ s.op = "schedule_retry" /\ status'[e] = "pending"
            /\ failedAttempts'[e] = failedAttempts[e] + 1
        BY <1>0, <2>3, <2>5, <3>3 DEF TypeOK, ScheduleRetry, RecordFailure
      <4>2. QED
        BY <2>1, <2>2, <3>1, <4>1 DEF Publications, GivenUp
    <3>4. CASE MarkDeadLetter(s)
      <4>1. /\ s.op = "mark_dead_letter" /\ status'[e] = "dead_letter"
            /\ failedAttempts'[e] = failedAttempts[e] + 1
        BY <1>0, <2>3, <2>5, <3>4 DEF TypeOK, MarkDeadLetter, RecordFailure
      <4>2. QED
        BY <2>1, <2>2, <3>1, <4>1 DEF Publications, GivenUp
    <3>5. QED
      BY <1>3, <3>2, <3>3, <3>4 DEF Finalize
  <2>6. QED
    BY <2>4, <2>5
<1>4. ASSUME NEW s \in inflight, ObserveTransition(s), ~Finalize(s)
      PROVE  NeverOvercounted'
  <2>1. ~Recorded(s)
    BY <1>4 DEF ObserveTransition, Recorded, Execute, ClaimNext, ClaimNextEmpty, FenceRejects,
                Finalize
  <2>2. UNCHANGED counterVars
    BY <1>4, <2>1 DEF ObserveTransition, Inc, CountersType, counterVars
  <2>3. \A t \in inflight : ~Finalize(t)
    BY <1>4 DEF ObserveTransition, Execute, ClaimNext, ClaimNextEmpty, FenceRejects, Finalize,
                MarkPublished, ScheduleRetry, MarkDeadLetter
  <2>4. QED
    BY <1>2, <2>2, <2>3
<1>5. ASSUME \/ SilentStep
             \/ \E w \in Workers : ObserveOperationError(w) \/ Unobserved(w)
             \/ UNCHANGED metricsVars
      PROVE  NeverOvercounted'
  <2>1. UNCHANGED counterVars
    BY <1>5 DEF SilentStep, OtherStep, ObservePublish, ObserveOperationError, Unobserved,
                metricsVars
  <2>2. QED
    BY <1>0, <1>2, <1>5, <2>1, WorkersFinalizeNothing
<1>6. QED
  BY <1>3, <1>4, <1>5 DEF MetricsNext, SilentStep
-----------------------------------------------------------------------------
(* Undercounts are explained. *)

\* What the account of an event needs to know about a state.
AccountTyped ==
    \A e \in Events :
        /\ OnRecord(e) \in Nat /\ Counted(e) \in Nat
        /\ opErrors[e] \in Nat /\ cut[e] \in Nat
        /\ IsFiniteSet(Abandoned(e)) /\ Cardinality(Abandoned(e)) \in Nat
        /\ IsFiniteSet(AnswerDue(e)) /\ Cardinality(AnswerDue(e)) \in Nat
        /\ Accounted(e) <=> OnRecord(e) + Cardinality(Abandoned(e))
                <= Counted(e) + opErrors[e] + cut[e] + Cardinality(AnswerDue(e))

\* Both sides of every account are natural numbers.
LEMMA AccountType == TypeOK /\ CountersType /\ IsFiniteSet(inflight) => AccountTyped
<1> SUFFICES ASSUME TypeOK, CountersType, IsFiniteSet(inflight), NEW e \in Events
             PROVE  /\ OnRecord(e) \in Nat /\ Counted(e) \in Nat
                    /\ opErrors[e] \in Nat /\ cut[e] \in Nat
                    /\ IsFiniteSet(Abandoned(e)) /\ Cardinality(Abandoned(e)) \in Nat
                    /\ IsFiniteSet(AnswerDue(e)) /\ Cardinality(AnswerDue(e)) \in Nat
                    /\ Accounted(e) <=> OnRecord(e) + Cardinality(Abandoned(e))
                            <= Counted(e) + opErrors[e] + cut[e] + Cardinality(AnswerDue(e))
  BY DEF AccountTyped
<1>1. /\ OnRecord(e) \in Nat /\ Counted(e) \in Nat
      /\ opErrors[e] \in Nat /\ cut[e] \in Nat
      /\ Uncounted(e) = OnRecord(e) - Counted(e)
  BY CountsType
<1>2. /\ IsFiniteSet(Abandoned(e)) /\ Cardinality(Abandoned(e)) \in Nat
      /\ IsFiniteSet(AnswerDue(e)) /\ Cardinality(AnswerDue(e)) \in Nat
  BY AccountFinite, FS_CardinalityType
<1>3. QED
  BY <1>1, <1>2 DEF Accounted

\* The books stay balanced when nothing new is uncounted, or when a step that
\* may leave a transition uncounted pays for it: with an error or a shutdown on
\* record, with an answer that is now due, or with a statement nobody waits for
\* that has now executed.
LEMMA Balance ==
    ASSUME TypeOK, CountersType, IsFiniteSet(inflight), NEW e \in Events, Accounted(e),
           TypeOK', CountersType', IsFiniteSet(inflight)',
           NEW new \in {0, 1}, NEW unheard \in {0, 1},
           OnRecord(e)' - Counted(e)' = (OnRecord(e) - Counted(e)) + new,
           opErrors'[e] + cut'[e] = opErrors[e] + cut[e] + unheard,
           \/ /\ new = 0
              /\ Abandoned(e)' \subseteq Abandoned(e) /\ AnswerDue(e) \subseteq AnswerDue(e)'
           \/ /\ new = 0 /\ unheard = 1
              /\ Abandoned(e)' \subseteq Abandoned(e)
              /\ \E w \in Workers : AnswerDue(e) \ {w} \subseteq AnswerDue(e)'
           \/ /\ new = 0 /\ unheard = 1
              /\ \E s \in inflight : Abandoned(e)' \subseteq Abandoned(e) \cup {s}
              /\ AnswerDue(e) \subseteq AnswerDue(e)'
           \/ /\ Abandoned(e)' \subseteq Abandoned(e)
              /\ \E w \in AnswerDue(e)' : AnswerDue(e) \subseteq AnswerDue(e)' \ {w}
           \/ /\ \E s \in Abandoned(e) : Abandoned(e)' \subseteq Abandoned(e) \ {s}
              /\ AnswerDue(e) \subseteq AnswerDue(e)'
    PROVE  Accounted(e)'
<1> DEFINE A  == Cardinality(Abandoned(e))
           A1 == Cardinality(Abandoned(e)')
           D  == Cardinality(AnswerDue(e))
           D1 == Cardinality(AnswerDue(e)')
<1>1. /\ OnRecord(e) \in Nat /\ Counted(e) \in Nat
      /\ opErrors[e] \in Nat /\ cut[e] \in Nat /\ A \in Nat /\ D \in Nat
      /\ IsFiniteSet(Abandoned(e)) /\ IsFiniteSet(AnswerDue(e))
      /\ OnRecord(e) + A <= Counted(e) + opErrors[e] + cut[e] + D
  BY AccountType DEF AccountTyped
<1>2. /\ OnRecord(e)' \in Nat /\ Counted(e)' \in Nat
      /\ opErrors'[e] \in Nat /\ cut'[e] \in Nat /\ A1 \in Nat /\ D1 \in Nat
      /\ IsFiniteSet(Abandoned(e)') /\ IsFiniteSet(AnswerDue(e)')
      /\ Accounted(e)' <=>
             OnRecord(e)' + A1 <= Counted(e)' + opErrors'[e] + cut'[e] + D1
  <2>1. AccountTyped'
    BY AccountType, PTL
  <2>2. QED
    BY <2>1 DEF AccountTyped
<1>3. Abandoned(e)' \subseteq Abandoned(e) => A1 <= A
  BY <1>1, NoLarger
<1>4. AnswerDue(e) \subseteq AnswerDue(e)' => D <= D1
  BY <1>2, NoLarger
<1>5. \A w \in Workers : AnswerDue(e) \ {w} \subseteq AnswerDue(e)' => D <= D1 + 1
  BY <1>2, GrowByOne
<1>6. \A s \in inflight : Abandoned(e)' \subseteq Abandoned(e) \cup {s} => A1 <= A + 1
  BY <1>1, GrowByOne
<1>7. \A w \in AnswerDue(e)' : AnswerDue(e) \subseteq AnswerDue(e)' \ {w} => D + 1 <= D1
  BY <1>2, ShrinkByOne
<1>8. \A s \in Abandoned(e) : Abandoned(e)' \subseteq Abandoned(e) \ {s} => A1 + 1 <= A
  BY <1>1, ShrinkByOne
<1>9. \/ new = 0 /\ A1 <= A /\ D <= D1
      \/ new = 0 /\ unheard = 1 /\ A1 <= A /\ D <= D1 + 1
      \/ new = 0 /\ unheard = 1 /\ A1 <= A + 1 /\ D <= D1
      \/ A1 <= A /\ D + 1 <= D1
      \/ A1 + 1 <= A /\ D <= D1
  BY <1>3, <1>4, <1>5, <1>6, <1>7, <1>8
<1> HIDE DEF A, A1, D, D1
<1>10. QED
  BY <1>1, <1>2, <1>9
\* A worker gives up on its statement, is shut down or dies.
LEMMA UnheardStep ==
    ASSUME TypeOK, LeasesSound, NEW w \in Workers,
           ObserveOperationError(w) \/ Unobserved(w), NEW e \in Events,
           CountersType
    PROVE  \E unheard \in {0, 1} :
               /\ opErrors'[e] + cut'[e] = opErrors[e] + cut[e] + unheard
               /\ \/ /\ Abandoned(e)' \subseteq Abandoned(e)
                     /\ AnswerDue(e) \subseteq AnswerDue(e)'
                  \/ /\ unheard = 1
                     /\ Abandoned(e)' \subseteq Abandoned(e)
                     /\ \E v \in Workers : AnswerDue(e) \ {v} \subseteq AnswerDue(e)'
                  \/ /\ unheard = 1
                     /\ \E s \in inflight : Abandoned(e)' \subseteq Abandoned(e) \cup {s}
                     /\ AnswerDue(e) \subseteq AnswerDue(e)'
<1>1. /\ inflight' \subseteq inflight
      /\ EndIteration(w, "waiting") \/ EndIteration(w, "off")
  BY GiveUpInflight DEF ObserveOperationError, Unobserved, StoreUnavailable, StoreCanceled,
                        StoreFatal, GiveUp, Crash
<1>2. opErrors'[e] + cut'[e] = opErrors[e] + cut[e] + (IF Unheard(w, e) THEN 1 ELSE 0)
  BY DEF ObserveOperationError, Unobserved, CountUnheard, CountersType
<1>3. CASE pc[w] # "finalizing"
  <2>1. \A v \in Workers : v # w =>
            pc'[v] = pc[v] /\ held'[v] = held[v] /\ lease'[v] = lease[v]
    BY <1>1 DEF EndIteration, TypeOK
  <2>2. Quiet
    BY <1>1, <1>3, <2>1, QuietMove
  <2>3. Abandoned(e)' \subseteq Abandoned(e) /\ AnswerDue(e) \subseteq AnswerDue(e)'
    BY <2>2 DEF Quiet
  <2>4. QED
    BY <1>2, <1>3, <2>3 DEF Unheard
<1>4. CASE pc[w] = "finalizing"
  <2>1. /\ AnswerDue(e) \ {w} \subseteq AnswerDue(e)'
        /\ held[w] # e => /\ Abandoned(e)' \subseteq Abandoned(e)
                          /\ w \notin AnswerDue(e)
        /\ \A s \in inflight : s.worker = w /\ Awaited(s) =>
               /\ Abandoned(e)' \subseteq Abandoned(e) \cup {s}
               /\ w \notin AnswerDue(e)
        /\ (~\E s \in inflight : s.worker = w /\ Awaited(s)) =>
               Abandoned(e)' \subseteq Abandoned(e)
    BY <1>1, <1>4, LeaveFinalization
  <2>2. CASE held[w] # e
    <3>1. Abandoned(e)' \subseteq Abandoned(e) /\ AnswerDue(e) \subseteq AnswerDue(e)'
      BY <2>1, <2>2
    <3>2. QED
      BY <1>2, <2>2, <3>1 DEF Unheard
  <2>3. CASE held[w] = e /\ \E s \in inflight : s.worker = w /\ Awaited(s)
    <3>1. PICK s \in inflight : s.worker = w /\ Awaited(s)
      BY <2>3
    <3>2. Abandoned(e)' \subseteq Abandoned(e) \cup {s} /\ AnswerDue(e) \subseteq AnswerDue(e)'
      BY <2>1, <3>1
    <3>3. QED
      BY <1>2, <1>4, <2>3, <3>2 DEF Unheard
  <2>4. CASE held[w] = e /\ ~\E s \in inflight : s.worker = w /\ Awaited(s)
    BY <1>2, <1>4, <2>1, <2>4 DEF Unheard
  <2>5. QED
    BY <2>2, <2>3, <2>4
<1>5. QED
  BY <1>3, <1>4

\* The database executes a finalization that its fence accepts: either the
\* worker learns of it, or an answer is now due, or nobody waited for it.
LEMMA FinalizeStep ==
    ASSUME TypeOK, StatementsSound, LeasesSound, NEW s \in inflight, Finalize(s),
           NEW e \in Events
    PROVE  \/ /\ e = s.event => Recorded(s)
              /\ Abandoned(e)' \subseteq Abandoned(e)
              /\ AnswerDue(e) \subseteq AnswerDue(e)'
           \/ /\ e = s.event /\ ~Recorded(s)
              /\ Abandoned(e)' \subseteq Abandoned(e)
              /\ \E w \in AnswerDue(e)' : AnswerDue(e) \subseteq AnswerDue(e)' \ {w}
           \/ /\ e = s.event /\ ~Recorded(s)
              /\ \E t \in Abandoned(e) : Abandoned(e)' \subseteq Abandoned(e) \ {t}
              /\ AnswerDue(e) \subseteq AnswerDue(e)'
<1>1. /\ s.worker \in Workers /\ s.event \in Events /\ s.op # "claim"
      /\ Owns(s) /\ IterationAnswered(s) /\ inflight' = inflight \ {s}
  BY DEF TypeOK, Statement, StatementsSound, Finalize, MarkPublished, ScheduleRetry,
         MarkDeadLetter
<1>2. CASE Awaited(s) /\ EndIteration(s.worker, "waiting")
  <2>1. pc[s.worker] = "finalizing" /\ pc'[s.worker] = "waiting"
    BY <1>1, <1>2 DEF Awaited, EndIteration, TypeOK
  <2>2. Recorded(s)
    BY <1>1, <1>2, <2>1 DEF Recorded
  <2>3. Abandoned(e)' \subseteq Abandoned(e) /\ AnswerDue(e) \subseteq AnswerDue(e)'
    BY <1>1, <1>2, <2>1, LeaveFinalization
  <2>4. QED
    BY <2>2, <2>3
<1>3. CASE UNCHANGED workerVars
  <2>1. ~Recorded(s) /\ UNCHANGED <<pc, held, lease>>
    BY <1>3 DEF Recorded, workerVars
  <2>2. Abandoned(e)' \subseteq Abandoned(e) /\ AnswerDue(e) \subseteq AnswerDue(e)'
    BY <1>1, <2>1, QuietKept DEF Quiet
  <2>3. CASE e # s.event
    BY <2>2, <2>3
  <2>4. CASE e = s.event /\ Awaited(s)
    <3>1. pc[s.worker] = "finalizing" /\ held[s.worker] = e
      BY <1>1, <2>4 DEF Awaited, LeasesSound
    <3>2. ~\E t \in inflight' : t.worker = s.worker /\ Awaited(t)
      BY <1>1, <2>4 DEF Awaited, LeasesSound
    <3>3. \A t \in inflight' : Awaited(t)' <=> Awaited(t)
      BY <2>1 DEF Awaited
    <3>4. s.worker \in AnswerDue(e)' /\ s.worker \notin AnswerDue(e)
      BY <1>1, <2>1, <2>4, <3>1, <3>2, <3>3 DEF AnswerDue
    <3>5. QED
      BY <2>1, <2>2, <2>4, <3>4
  <2>5. CASE e = s.event /\ ~Awaited(s)
    <3>1. s \in Abandoned(e) /\ s \notin Abandoned(e)'
      BY <1>1, <2>5 DEF Abandoned
    <3>2. QED
      BY <2>1, <2>2, <2>5, <3>1
  <2>6. QED
    BY <2>3, <2>4, <2>5
<1>4. QED
  BY <1>1, <1>2, <1>3 DEF IterationAnswered
\* Every step keeps the account of every event.
LEMMA AccountStep ==
    ASSUME MetricsInv, [MetricsNext]_metricsVars, NEW e \in Events
    PROVE  Accounted(e)'
<1>0. /\ OutboxInv /\ TypeOK /\ StatementsSound /\ CountersType /\ LeasesSound
      /\ IsFiniteSet(inflight) /\ Accounted(e)
  BY DEF MetricsInv, OutboxInv
<1>1. [Next]_vars
  BY MetricsIsOutbox
<1>2. TypeOK' /\ CountersType' /\ IsFiniteSet(inflight)'
  BY <1>0, <1>1, TypeStep, CountersTypeStep, InflightFinite
<1>3. OnRecord(e) \in Nat /\ Counted(e) \in Nat
  BY <1>0, CountsType
<1>4. ASSUME Quiet, UNCHANGED <<counterVars, opErrors, cut>>, \A s \in inflight : ~Finalize(s)
      PROVE  Accounted(e)'
  <2>1. OnRecord(e)' = OnRecord(e) /\ Counted(e)' = Counted(e)
    BY <1>0, <1>1, <1>4, RecordStep DEF Counted, counterVars
  <2>2. opErrors'[e] + cut'[e] = opErrors[e] + cut[e] + 0
    BY <1>0, <1>4 DEF CountersType
  <2>3. OnRecord(e)' - Counted(e)' = (OnRecord(e) - Counted(e)) + 0
    BY <1>3, <2>1
  <2>4. Abandoned(e)' \subseteq Abandoned(e) /\ AnswerDue(e) \subseteq AnswerDue(e)'
    BY <1>4 DEF Quiet
  <2>5. QED
    BY <1>0, <1>2, <2>2, <2>3, <2>4, Balance
<1>5. CASE UNCHANGED metricsVars \/ SilentStep
  <2>1. Quiet
    BY <1>0, <1>5, QuietStep DEF metricsVars, SilentStep, OtherStep, ObservePublish
  <2>2. UNCHANGED <<counterVars, opErrors, cut>>
    BY <1>5 DEF metricsVars, errorVars, SilentStep, OtherStep, ObservePublish
  <2>3. \A s \in inflight : ~Finalize(s)
    BY <1>0, <1>5, WorkersFinalizeNothing
  <2>4. QED
    BY <1>4, <2>1, <2>2, <2>3
<1>6. ASSUME NEW s \in inflight, ObserveTransition(s), ~Finalize(s)
      PROVE  Accounted(e)'
  <2>1. Quiet
    BY <1>0, <1>6, QuietStep DEF ObserveTransition, Execute, Finalize
  <2>2. ~Recorded(s)
    BY <1>6 DEF ObserveTransition, Recorded, Execute, ClaimNext, ClaimNextEmpty, FenceRejects,
                Finalize
  <2>3. UNCHANGED <<counterVars, opErrors, cut>>
    BY <1>0, <1>6, <2>2 DEF ObserveTransition, Inc, CountersType, counterVars, errorVars
  <2>4. \A t \in inflight : ~Finalize(t)
    BY <1>6 DEF ObserveTransition, Execute, ClaimNext, ClaimNextEmpty, FenceRejects, Finalize,
                MarkPublished, ScheduleRetry, MarkDeadLetter
  <2>5. QED
    BY <1>4, <2>1, <2>3, <2>4
<1>7. ASSUME NEW s \in inflight, ObserveTransition(s), Finalize(s)
      PROVE  Accounted(e)'
  <2> DEFINE new == IF e = s.event /\ ~Recorded(s) THEN 1 ELSE 0
  <2>1. OnRecord(e)' = OnRecord(e) + (IF s.event = e THEN 1 ELSE 0)
    BY <1>0, <1>1, <1>7, RecordStep
  <2>2. /\ Counted(e)' = Counted(e) + (IF e = s.event /\ Recorded(s) THEN 1 ELSE 0)
        /\ opErrors'[e] = opErrors[e] /\ cut'[e] = cut[e]
    BY <1>0, <1>7, CountStep
  <2>3. new \in {0, 1} /\ OnRecord(e)' - Counted(e)' = (OnRecord(e) - Counted(e)) + new
    BY <1>3, <2>1, <2>2
  <2>4. opErrors'[e] + cut'[e] = opErrors[e] + cut[e] + 0
    BY <1>0, <2>2 DEF CountersType
  <2>5. \/ /\ new = 0
           /\ Abandoned(e)' \subseteq Abandoned(e) /\ AnswerDue(e) \subseteq AnswerDue(e)'
        \/ /\ Abandoned(e)' \subseteq Abandoned(e)
           /\ \E w \in AnswerDue(e)' : AnswerDue(e) \subseteq AnswerDue(e)' \ {w}
        \/ /\ \E t \in Abandoned(e) : Abandoned(e)' \subseteq Abandoned(e) \ {t}
           /\ AnswerDue(e) \subseteq AnswerDue(e)'
    BY <1>0, <1>7, FinalizeStep
  <2> HIDE DEF new
  <2>6. QED
    BY <1>0, <1>2, <2>3, <2>4, <2>5, Balance
<1>8. ASSUME NEW w \in Workers, ObserveOperationError(w) \/ Unobserved(w)
      PROVE  Accounted(e)'
  <2>1. PICK unheard \in {0, 1} :
               /\ opErrors'[e] + cut'[e] = opErrors[e] + cut[e] + unheard
               /\ \/ /\ Abandoned(e)' \subseteq Abandoned(e)
                     /\ AnswerDue(e) \subseteq AnswerDue(e)'
                  \/ /\ unheard = 1
                     /\ Abandoned(e)' \subseteq Abandoned(e)
                     /\ \E v \in Workers : AnswerDue(e) \ {v} \subseteq AnswerDue(e)'
                  \/ /\ unheard = 1
                     /\ \E s \in inflight : Abandoned(e)' \subseteq Abandoned(e) \cup {s}
                     /\ AnswerDue(e) \subseteq AnswerDue(e)'
    BY <1>0, <1>8, UnheardStep
  <2>2. \A s \in inflight : ~Finalize(s)
    BY <1>0, <1>8, WorkersFinalizeNothing
  <2>3. OnRecord(e)' = OnRecord(e) /\ Counted(e)' = Counted(e)
    BY <1>0, <1>1, <1>8, <2>2, RecordStep
       DEF Counted, counterVars, ObserveOperationError, Unobserved
  <2>4. OnRecord(e)' - Counted(e)' = (OnRecord(e) - Counted(e)) + 0
    BY <1>3, <2>3
  <2>5. QED
    BY <1>0, <1>2, <2>1, <2>4, Balance
<1>9. QED
  BY <1>5, <1>6, <1>7, <1>8 DEF MetricsNext, SilentStep

-----------------------------------------------------------------------------
(* The theorems. *)

\* The inductive invariant of the outbox with its counters holds in every
\* reachable state.
THEOREM MetricsInvariance == MetricsSpec => []MetricsInv
<1>1. MetricsInit => MetricsInv
  <2> SUFFICES ASSUME MetricsInit
               PROVE  MetricsInv
    OBVIOUS
  <2>1. Init /\ OutboxInv
    BY InitInv DEF MetricsInit
  <2>2. CountersType
    BY DEF MetricsInit, CountersType
  <2>3. NeverOvercounted
    BY DEF MetricsInit, Init, NeverOvercounted, Publications, GivenUp
  <2>4. LeasesSound /\ IsFiniteSet(inflight)
    BY <2>1, FS_EmptySet DEF Init, LeasesSound
  <2>5. ASSUME NEW e \in Events
        PROVE  Accounted(e)
    <3>1. OnRecord(e) = 0 /\ Counted(e) = 0
      BY <2>5 DEF MetricsInit, Init, OnRecord, Publications, Counted
    <3>2. Abandoned(e) = {}
      BY <2>1 DEF Init, Abandoned
    <3>3. Cardinality(Abandoned(e)) = 0
      BY <3>2, FS_EmptySet
    <3>4. AccountTyped
      BY <2>1, <2>2, <2>4, AccountType DEF OutboxInv
    <3>5. QED
      BY <3>1, <3>3, <3>4 DEF AccountTyped
  <2>6. QED
    BY <2>1, <2>2, <2>3, <2>4, <2>5 DEF MetricsInv
<1>2. MetricsInv /\ [MetricsNext]_metricsVars => MetricsInv'
  <2> SUFFICES ASSUME MetricsInv, [MetricsNext]_metricsVars
               PROVE  MetricsInv'
    OBVIOUS
  <2>1. [Next]_vars
    BY MetricsIsOutbox
  <2>2. /\ OutboxInv /\ TypeOK /\ StatementsSound /\ HoldingsSound /\ RowsSound
        /\ CountersType /\ NeverOvercounted /\ LeasesSound /\ IsFiniteSet(inflight)
    BY DEF MetricsInv, OutboxInv
  <2>3. OutboxInv'
    BY <2>1, <2>2, TypeStep, StatementsStep, HoldingsStep, RowsStep DEF OutboxInv
  <2>4. CountersType' /\ NeverOvercounted'
    BY <2>2, CountersTypeStep, OvercountStep
  <2>5. LeasesSound' /\ IsFiniteSet(inflight')
    BY <2>1, <2>2, LeasesStep, InflightFinite
  <2>6. \A e \in Events : Accounted(e)'
    BY AccountStep
  <2>7. QED
    BY <2>3, <2>4, <2>5, <2>6 DEF MetricsInv
<1>3. QED
  BY <1>1, <1>2, PTL DEF MetricsSpec

\* Dashboards never overstate: no event is counted published or dead-lettered
\* twice or without being so, and no failure is counted that is not on record.
THEOREM CountersSound == MetricsSpec => []NeverOvercounted
<1>1. MetricsInv => NeverOvercounted
  BY DEF MetricsInv
<1>2. QED
  BY MetricsInvariance, <1>1, PTL

\* Dashboards never understate without a trace: each uncounted transition of
\* an event has its operation error, its shutdown or its crash, or its answer
\* is on the way.
THEOREM UndercountsShow == MetricsSpec => []UndercountExplained
<1>1. MetricsInv => UndercountExplained
  <2> SUFFICES ASSUME MetricsInv, NEW e \in Events
               PROVE  Uncounted(e) <= opErrors[e] + cut[e] + Cardinality(AnswerDue(e))
    BY DEF UndercountExplained
  <2>1. TypeOK /\ CountersType /\ IsFiniteSet(inflight) /\ Accounted(e)
    BY DEF MetricsInv, OutboxInv
  <2>2. AccountTyped
    BY <2>1, AccountType
  <2>3. Uncounted(e) = OnRecord(e) - Counted(e)
    BY <2>1, CountsType
  <2>4. QED
    BY <2>1, <2>2, <2>3 DEF AccountTyped
<1>2. QED
  BY MetricsInvariance, <1>1, PTL

-----------------------------------------------------------------------------
(* The failures on record are the publisher's. *)

\* The statements in flight that record a failure of e.
FailuresInFlight(e) ==
    {s \in inflight : s.op \in {"schedule_retry", "mark_dead_letter"} /\ s.event = e}

\* A failure of the publisher is behind every failure on record and behind every
\* one that may still be recorded, however late.
FailuresCovered ==
    /\ publisherFailures \in [Events -> Nat]
    /\ \A e \in Events :
           failedAttempts[e] + Cardinality(FailuresInFlight(e)) <= publisherFailures[e]

\* A step that sends no finalization takes no failure back and records one only
\* by executing its statement.
LEMMA FailuresKept ==
    ASSUME OutboxInv, IsFiniteSet(inflight), FailuresCovered, TypeOK',
           UNCHANGED publisherFailures,
           \A s \in inflight' : s \in inflight \/ s.op = "claim",
           \/ UNCHANGED failedAttempts
           \/ \E s \in inflight \ inflight' :
                  /\ s.op \in {"schedule_retry", "mark_dead_letter"} /\ s.event \in Events
                  /\ failedAttempts' = [failedAttempts EXCEPT ![s.event] = @ + 1]
    PROVE  FailuresCovered'
<1> SUFFICES ASSUME NEW e \in Events
             PROVE  failedAttempts'[e] + Cardinality(FailuresInFlight(e)') <= publisherFailures[e]
  BY DEF FailuresCovered
<1>1. /\ FailuresInFlight(e)' \subseteq FailuresInFlight(e)
      /\ FailuresInFlight(e) \subseteq inflight
  BY DEF FailuresInFlight
<1>2. /\ IsFiniteSet(FailuresInFlight(e)) /\ Cardinality(FailuresInFlight(e)) \in Nat
      /\ Cardinality(FailuresInFlight(e)') \in Nat
      /\ Cardinality(FailuresInFlight(e)') <= Cardinality(FailuresInFlight(e))
  BY <1>1, NoLarger
<1>3. /\ failedAttempts[e] \in Nat /\ failedAttempts'[e] \in Nat /\ publisherFailures[e] \in Nat
      /\ failedAttempts[e] + Cardinality(FailuresInFlight(e)) <= publisherFailures[e]
  BY DEF FailuresCovered, OutboxInv, TypeOK
<1>4. CASE failedAttempts'[e] = failedAttempts[e]
  BY <1>2, <1>3, <1>4
<1>5. CASE failedAttempts'[e] # failedAttempts[e]
  <2>1. PICK s \in inflight \ inflight' :
            /\ s.op \in {"schedule_retry", "mark_dead_letter"} /\ s.event \in Events
            /\ failedAttempts' = [failedAttempts EXCEPT ![s.event] = @ + 1]
    BY <1>5
  <2>2. s.event = e /\ failedAttempts'[e] = failedAttempts[e] + 1
    BY <1>5, <2>1 DEF OutboxInv, TypeOK
  <2>3. s \in FailuresInFlight(e) /\ FailuresInFlight(e)' \subseteq FailuresInFlight(e) \ {s}
    BY <1>1, <2>1, <2>2 DEF FailuresInFlight
  <2>4. Cardinality(FailuresInFlight(e)') + 1 <= Cardinality(FailuresInFlight(e))
    BY <1>2, <2>3, ShrinkByOne
  <2>5. QED
    BY <1>2, <1>3, <2>2, <2>4
<1>6. QED
  BY <1>4, <1>5

\* A publish that returns pays for the one statement it sends: a worker that is
\* shutting down sends none.
LEMMA FailuresPublish ==
    ASSUME OutboxInv, IsFiniteSet(inflight), FailuresCovered,
           NEW w \in Workers, NEW outcome \in Outcomes, ObservePublish(w, outcome)
    PROVE  FailuresCovered'
<1> DEFINE new == [op     |-> Transition(w, outcome),
                   worker |-> w,
                   event  |-> held[w],
                   lease  |-> lease[w],
                   reason |-> IF outcome = "success" THEN NULL ELSE outcome]
<1>1. /\ PublishReturns(w, outcome) /\ UNCHANGED failedAttempts
      /\ publisherFailures' = [e \in Events |->
             IF PublisherFailed(w, outcome, e) THEN publisherFailures[e] + 1
                                               ELSE publisherFailures[e]]
  BY DEF ObservePublish, PublishReturns, rowVars
<1>2. publisherFailures' \in [Events -> Nat]
  BY <1>1 DEF FailuresCovered
<1> SUFFICES ASSUME NEW e \in Events
             PROVE  failedAttempts[e] + Cardinality(FailuresInFlight(e)') <= publisherFailures'[e]
  BY <1>1, <1>2 DEF FailuresCovered
<1>3. FailuresInFlight(e) \subseteq inflight
  BY DEF FailuresInFlight
<1>4. IsFiniteSet(FailuresInFlight(e)) /\ Cardinality(FailuresInFlight(e)) \in Nat
  BY <1>3, NoLarger
<1>5. /\ failedAttempts[e] \in Nat /\ publisherFailures[e] \in Nat
      /\ failedAttempts[e] + Cardinality(FailuresInFlight(e)) <= publisherFailures[e]
  BY DEF FailuresCovered, OutboxInv, TypeOK
<1>6. CASE PublisherFailed(w, outcome, e)
  <2>1. inflight' \subseteq inflight \cup {new}
    BY <1>1 DEF PublishReturns
  <2> HIDE DEF new
  <2>2. FailuresInFlight(e)' \subseteq FailuresInFlight(e) \cup {new}
    BY <2>1 DEF FailuresInFlight
  <2>3. /\ Cardinality(FailuresInFlight(e)') <= Cardinality(FailuresInFlight(e)) + 1
        /\ Cardinality(FailuresInFlight(e)') \in Nat
    BY <1>4, <2>2, GrowByOne
  <2>4. publisherFailures'[e] = publisherFailures[e] + 1
    BY <1>1, <1>6
  <2>5. QED
    BY <1>4, <1>5, <2>3, <2>4
<1>7. CASE ~PublisherFailed(w, outcome, e)
  <2>1. FailuresInFlight(e)' \subseteq FailuresInFlight(e)
    <3>1. CASE canceled[w]
      BY <1>1, <3>1 DEF PublishReturns, FailuresInFlight
    <3>2. CASE ~canceled[w]
      <4>1. inflight' = inflight \cup {new} /\ new.event = held[w]
        BY <1>1, <3>2 DEF PublishReturns
      <4>2. outcome = "success" => new.op = "mark_published"
        BY DEF Transition
      <4>3. new.event # e \/ new.op = "mark_published"
        BY <1>7, <3>2, <4>1, <4>2 DEF PublisherFailed
      <4> HIDE DEF new
      <4>4. QED
        BY <4>1, <4>3 DEF FailuresInFlight
    <3>3. QED
      BY <3>1, <3>2
  <2>2. /\ Cardinality(FailuresInFlight(e)') <= Cardinality(FailuresInFlight(e))
        /\ Cardinality(FailuresInFlight(e)') \in Nat
    BY <1>4, <2>1, NoLarger
  <2>3. publisherFailures'[e] = publisherFailures[e]
    BY <1>1, <1>7
  <2>4. QED
    BY <1>4, <1>5, <2>2, <2>3
<1>8. QED
  BY <1>6, <1>7

\* Every step keeps the failures on record covered.
LEMMA FailuresStep ==
    ASSUME OutboxInv, IsFiniteSet(inflight), FailuresCovered, [MetricsNext]_metricsVars
    PROVE  FailuresCovered'
<1>0. TypeOK /\ StatementsSound /\ TypeOK'
  BY MetricsIsOutbox, TypeStep DEF OutboxInv
<1>1. ASSUME NEW w \in Workers, NEW outcome \in Outcomes, ObservePublish(w, outcome)
      PROVE  FailuresCovered'
  BY <1>1, FailuresPublish
<1>2. ASSUME UNCHANGED <<failedAttempts, publisherFailures>>,
             \A s \in inflight' : s \in inflight \/ s.op = "claim"
      PROVE  FailuresCovered'
  BY <1>0, <1>2, FailuresKept
<1>3. CASE UNCHANGED metricsVars
  BY <1>2, <1>3 DEF metricsVars, vars, rowVars
<1>4. ASSUME NEW w \in Workers, NEW l \in Leases, BeginClaim(w, l)
      PROVE  UNCHANGED failedAttempts /\ \A s \in inflight' : s \in inflight \/ s.op = "claim"
  <2> DEFINE new == [op |-> "claim", worker |-> w, event |-> NULL, lease |-> l, reason |-> NULL]
  <2>1. UNCHANGED failedAttempts /\ inflight' = inflight \cup {new} /\ new.op = "claim"
    BY <1>4 DEF BeginClaim, rowVars
  <2> HIDE DEF new
  <2>2. QED
    BY <2>1
<1>5. CASE OtherStep
  <2>1. UNCHANGED failedAttempts /\ \A s \in inflight' : s \in inflight \/ s.op = "claim"
    BY <1>4, <1>5 DEF OtherStep, InsertEvent, TimePasses, PurgePublished, Deliver, Cancel, Start,
                      StopLoop, rowVars
  <2>2. QED
    BY <1>2, <1>5, <2>1 DEF OtherStep
<1>6. ASSUME NEW w \in Workers, ObserveOperationError(w) \/ Unobserved(w)
      PROVE  FailuresCovered'
  <2>1. inflight' \subseteq inflight /\ UNCHANGED <<failedAttempts, publisherFailures>>
    BY <1>0, <1>6, GiveUpInflight
       DEF ObserveOperationError, Unobserved, StoreUnavailable, StoreCanceled, StoreFatal,
           GiveUp, Crash, rowVars
  <2>2. QED
    BY <1>2, <2>1
<1>7. ASSUME NEW s \in inflight, ObserveTransition(s)
      PROVE  FailuresCovered'
  <2>1. Execute(s) /\ UNCHANGED publisherFailures /\ inflight' = inflight \ {s}
    BY <1>7 DEF ObserveTransition, Execute, ClaimNext, ClaimNextEmpty, MarkPublished,
                ScheduleRetry, MarkDeadLetter, FenceRejects
  <2>2. CASE ScheduleRetry(s) \/ MarkDeadLetter(s)
    <3>1. /\ s.op \in {"schedule_retry", "mark_dead_letter"} /\ s.event \in Events
          /\ failedAttempts' = [failedAttempts EXCEPT ![s.event] = @ + 1]
      BY <1>0, <2>2 DEF ScheduleRetry, MarkDeadLetter, RecordFailure, StatementsSound
    <3>2. QED
      BY <1>0, <2>1, <3>1, FailuresKept
  <2>3. CASE ~(ScheduleRetry(s) \/ MarkDeadLetter(s))
    <3>1. UNCHANGED failedAttempts
      BY <2>1, <2>3 DEF Execute, ClaimNext, ClaimNextEmpty, MarkPublished, FenceRejects, rowVars
    <3>2. QED
      BY <1>2, <2>1, <3>1
  <2>4. QED
    BY <2>2, <2>3
<1>8. QED
  BY <1>1, <1>3, <1>5, <1>6, <1>7 DEF MetricsNext

\* A shutdown during a publish is never recorded as a failure, and no failure
\* twice: the failures on record of an event are at most the publisher's.
THEOREM ShutdownIsNoFailure == MetricsSpec => []OnlyPublisherFailures
<1>1. MetricsInit => FailuresCovered
  <2> SUFFICES ASSUME MetricsInit, NEW e \in Events
               PROVE  0 + Cardinality(FailuresInFlight(e)) <= 0
    BY DEF MetricsInit, Init, FailuresCovered
  <2>1. FailuresInFlight(e) = {}
    BY DEF MetricsInit, Init, FailuresInFlight
  <2>2. QED
    BY <2>1, FS_EmptySet
<1>2. MetricsInv /\ FailuresCovered /\ [MetricsNext]_metricsVars => FailuresCovered'
  BY FailuresStep DEF MetricsInv
<1>3. MetricsInv /\ FailuresCovered => OnlyPublisherFailures
  <2> SUFFICES ASSUME MetricsInv, FailuresCovered, NEW e \in Events
               PROVE  failedAttempts[e] <= publisherFailures[e]
    BY DEF OnlyPublisherFailures
  <2>1. FailuresInFlight(e) \subseteq inflight /\ IsFiniteSet(inflight)
    BY DEF FailuresInFlight, MetricsInv
  <2>2. Cardinality(FailuresInFlight(e)) \in Nat
    BY <2>1, NoLarger
  <2>3. QED
    BY <2>2 DEF FailuresCovered, MetricsInv, OutboxInv, TypeOK
<1>4. QED
  BY MetricsInvariance, <1>1, <1>2, <1>3, PTL DEF MetricsSpec

\* Counting disturbs nothing: with the counters the system is still the outbox,
\* and all that is proved of the outbox holds of it.
THEOREM MetricsObserveOnly == MetricsSpec => Spec
<1>1. MetricsInit => Init
  BY DEF MetricsInit
<1>2. [MetricsNext]_metricsVars => [Next]_vars
  BY MetricsIsOutbox
<1>3. QED
  BY <1>1, <1>2, PTL DEF MetricsSpec, Spec
=============================================================================
