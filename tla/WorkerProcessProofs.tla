------------------------ MODULE WorkerProcessProofs ------------------------
(***************************************************************************)
(* Proofs about WorkerProcess.  The inductive invariant counts: once main  *)
(* has left its select, the results it has received (2 - remaining) and    *)
(* those still in the channel are those of the goroutines that have sent.  *)
(***************************************************************************)
EXTENDS WorkerProcess, TLAPS

WorkerSent == worker \in {"sent", "gone"}
AdminSent  == admin = "gone"
Sent       == (IF WorkerSent THEN 1 ELSE 0) + (IF AdminSent THEN 1 ELSE 0)

Stopping == main \in {"stop", "cancel", "shutdown", "draining", "collect"}

\* Every result is in the channel until main receives it.
Accounting ==
    /\ Len(results) <= Sent
    /\ main \in {"starting", "select"} => Len(results) = Sent /\ ~failed
    /\ Stopping => Len(results) + 2 = Sent + remaining

InChannel(c) == \E i \in 1..Len(results) : results[i] = c

\* An error that was sent is in the channel or has been noticed.
ErrorsKept ==
    main \notin {"closing", "exited"} =>
        /\ "worker" \in errs /\ WorkerSent => InChannel("worker") \/ failed
        /\ "admin_server" \in errs /\ AdminSent => InChannel("admin_server") \/ failed

\* A component that stops before it is told to stops with an error.
Causes ==
    /\ main \in {"starting", "select", "stop", "cancel"} => ~workerCanceled
    /\ main \in {"starting", "select", "stop", "cancel", "shutdown"} => ~adminClosed
    /\ ~workerCanceled /\ worker \in {"returned", "sent", "gone"} => "worker" \in errs
    /\ ~adminClosed /\ admin \in {"returned", "gone"} => "admin_server" \in errs
    /\ "worker" \in errs => worker \in {"returned", "sent", "gone"}
    /\ "admin_server" \in errs => admin \in {"returned", "gone"}
    /\ failed => errs # {} \/ timedOut
    /\ Stopping /\ ~signaled => failed
    /\ main = "starting" => worker = "unborn"
    /\ main = "select" \/ Stopping => worker # "unborn"

ProcessInv ==
    /\ TypeOK
    /\ ReadyMeansLoop
    /\ ExitZeroIsClean
    /\ FailureHasCause
    /\ Accounting
    /\ ErrorsKept
    /\ Causes

\* A receive (Collect, ComponentStopped) takes one result out of the channel
\* and leaves the others in it.
LEMMA ReceiveFacts ==
    ASSUME NEW S, NEW q \in Seq(S), q # <<>>
    PROVE  /\ Head(q) \in S
           /\ Tail(q) \in Seq(S)
           /\ Len(Tail(q)) = Len(q) - 1
           /\ Len(q) \in Nat \ {0}
           /\ \A i \in 1..Len(q) :
                  q[i] = Head(q) \/ \E j \in 1..Len(Tail(q)) : Tail(q)[j] = q[i]
<1>1. Len(q) \in Nat \ {0}  OBVIOUS
<1>2. Head(q) = q[1] /\ Head(q) \in S  BY <1>1
<1>3. Tail(q) \in Seq(S) /\ Len(Tail(q)) = Len(q) - 1  BY <1>1
<1>4. \A j \in 1..(Len(q) - 1) : Tail(q)[j] = q[j + 1]  BY <1>1, <1>3
<1>5. ASSUME NEW i \in 1..Len(q), i # 1
      PROVE  \E j \in 1..Len(Tail(q)) : Tail(q)[j] = q[i]
  <2>1. i - 1 \in 1..(Len(q) - 1)  BY <1>1, <1>5
  <2>2. Tail(q)[i - 1] = q[i]  BY <1>1, <1>4, <1>5, <2>1
  <2> QED  BY <1>3, <2>1, <2>2
<1> QED  BY <1>1, <1>2, <1>3, <1>5

\* A send (SendWorkerResult, SendAdminResult) adds its result and keeps the
\* others.
LEMMA SendFacts ==
    ASSUME NEW S, NEW q \in Seq(S), NEW x \in S
    PROVE  /\ Append(q, x) \in Seq(S)
           /\ Len(Append(q, x)) = Len(q) + 1
           /\ Len(q) \in Nat
           /\ Append(q, x)[Len(q) + 1] = x
           /\ \A i \in 1..Len(q) : Append(q, x)[i] = q[i]
OBVIOUS

\* The initial state of the process.
LEMMA ProcessInit == Init => ProcessInv
<1> SUFFICES ASSUME Init PROVE ProcessInv  OBVIOUS
<1>1. ~workerReady /\ ~workerCanceled /\ ~adminClosed /\ ~failed  BY DEF Init
<1>2. TypeOK
  <2>1. /\ signaled \in BOOLEAN /\ failed \in BOOLEAN /\ timedOut \in BOOLEAN
        /\ workerCanceled \in BOOLEAN /\ workerReady \in BOOLEAN /\ adminClosed \in BOOLEAN
    BY DEF Init
  <2> QED  BY <2>1 DEF Init, TypeOK, MainPCs, WorkerPCs, AdminPCs, ProbePCs
<1>3. ReadyMeansLoop /\ ExitZeroIsClean /\ FailureHasCause
  BY <1>1 DEF Init, ReadyMeansLoop, ExitZeroIsClean, FailureHasCause
<1>4. Accounting
  BY <1>1 DEF Init, Accounting, Sent, WorkerSent, AdminSent, Stopping
<1>5. ErrorsKept /\ Causes
  BY <1>1 DEF Init, ErrorsKept, Causes, WorkerSent, AdminSent, Stopping
<1> QED  BY <1>2, <1>3, <1>4, <1>5 DEF ProcessInv

\* Steps of the main goroutine that leave the channel alone, and the signal.
LEMMA MainKeeps ==
    ASSUME ProcessInv,
           \/ Signal \/ ShutdownTimeout \/ AbortStartup \/ Launch \/ ShutdownRequested
           \/ ClearReady \/ CancelWorker \/ BeginShutdown \/ EndShutdown
           \/ GiveUpCollecting \/ FinishStop \/ ClosePool
    PROVE  ProcessInv'
<1> USE DEF ProcessInv, TypeOK, ReadyMeansLoop, ExitZeroIsClean, FailureHasCause,
            Accounting, ErrorsKept, Causes, Sent, WorkerSent, AdminSent, Stopping, InChannel,
            MainPCs, WorkerPCs, AdminPCs, ProbePCs, mainVars, componentVars
<1>1. CASE Signal  BY <1>1 DEF Signal
<1>2. CASE ShutdownTimeout  BY <1>2 DEF ShutdownTimeout
<1>3. CASE AbortStartup  BY <1>3 DEF AbortStartup, Return
<1>4. CASE Launch  BY <1>4 DEF Launch
<1>5. CASE ShutdownRequested  BY <1>5 DEF ShutdownRequested
<1>6. CASE ClearReady
  <2>1. ~workerReady' /\ workerReady' \in BOOLEAN  BY <1>6 DEF ClearReady
  <2> QED  BY <1>6, <2>1 DEF ClearReady
<1>7. CASE CancelWorker  BY <1>7 DEF CancelWorker
<1>8. CASE BeginShutdown  BY <1>8 DEF BeginShutdown
<1>9. CASE EndShutdown
  <2>1. CASE probe = "none" /\ UNCHANGED failed  BY <1>9, <2>1 DEF EndShutdown
  <2>2. CASE timedOut /\ failed' = TRUE  BY <1>9, <2>2 DEF EndShutdown
  <2> QED  BY <1>9, <2>1, <2>2 DEF EndShutdown
<1>10. CASE GiveUpCollecting  BY <1>10 DEF GiveUpCollecting, Return
<1>11. CASE FinishStop  BY <1>11 DEF FinishStop, Return
<1>12. CASE ClosePool  BY <1>12 DEF ClosePool
<1> QED  BY <1>1, <1>2, <1>3, <1>4, <1>5, <1>6, <1>7, <1>8, <1>9, <1>10, <1>11, <1>12

\* Steps of the main goroutine that receive a result.
LEMMA ReceiveKeeps ==
    ASSUME ProcessInv, ComponentStopped \/ Collect
    PROVE  ProcessInv'
<1> DEFINE C == {"worker", "admin_server"}
<1>1. results \in Seq(C) /\ results # <<>>
  BY DEF ProcessInv, TypeOK, ComponentStopped, Collect
<1>2. /\ Head(results) \in C
      /\ Tail(results) \in Seq(C)
      /\ Len(Tail(results)) = Len(results) - 1
      /\ Len(results) \in Nat \ {0}
      /\ \A i \in 1..Len(results) :
             results[i] = Head(results)
               \/ \E j \in 1..Len(Tail(results)) : Tail(results)[j] = results[i]
  BY <1>1, ReceiveFacts
<1> USE DEF ProcessInv, TypeOK, ReadyMeansLoop, ExitZeroIsClean, FailureHasCause,
            Accounting, ErrorsKept, Causes, Sent, WorkerSent, AdminSent, Stopping, InChannel,
            MainPCs, WorkerPCs, AdminPCs, ProbePCs, mainVars, componentVars
<1>3. CASE ComponentStopped
  <2>1. ~workerReady' /\ failed' /\ workerReady' \in BOOLEAN  BY <1>3 DEF ComponentStopped
  <2>2. TypeOK' /\ ReadyMeansLoop' /\ ExitZeroIsClean' /\ FailureHasCause'
    BY <1>2, <1>3, <2>1 DEF ComponentStopped
  <2>3. Accounting'  BY <1>2, <1>3, <2>1 DEF ComponentStopped
  <2>4. ErrorsKept' /\ Causes'  BY <1>2, <1>3, <2>1 DEF ComponentStopped
  <2> QED  BY <2>2, <2>3, <2>4
<1>4. CASE Collect
  <2>1. TypeOK' /\ ReadyMeansLoop' /\ ExitZeroIsClean' /\ FailureHasCause'
    BY <1>2, <1>4 DEF Collect
  <2>2. Accounting'  BY <1>2, <1>4 DEF Collect
  <2>3. ErrorsKept'
    <3>1. ASSUME NEW c \in C, c \in errs, InChannel(c)
          PROVE  InChannel(c)' \/ failed'
      BY <1>2, <1>4, <3>1 DEF Collect
    <3> QED  BY <1>4, <3>1 DEF Collect
  <2>4. Causes'  BY <1>2, <1>4 DEF Collect
  <2> QED  BY <2>1, <2>2, <2>3, <2>4
<1> QED  BY <1>3, <1>4

\* Steps of the worker, the admin server and a probe that send no result.
LEMMA ComponentKeeps ==
    ASSUME ProcessInv,
           \/ EnterRun \/ OnStarted \/ RunOnce \/ Publish \/ FinalizeOutcome
           \/ IterationEnds \/ RunReturns \/ RunFails \/ DeferredClear
           \/ Serve \/ ServeFails \/ ProbeStep
    PROVE  ProcessInv'
<1> USE DEF ProcessInv, TypeOK, ReadyMeansLoop, ExitZeroIsClean, FailureHasCause,
            Accounting, ErrorsKept, Causes, Sent, WorkerSent, AdminSent, Stopping, InChannel,
            MainPCs, WorkerPCs, AdminPCs, ProbePCs, mainVars, componentVars, WorkerGoes, Alive
<1>1. CASE EnterRun  BY <1>1 DEF EnterRun
<1>2. CASE OnStarted  BY <1>2 DEF OnStarted
<1>3. CASE RunOnce  BY <1>3 DEF RunOnce
<1>4. CASE Publish  BY <1>4 DEF Publish
<1>5. CASE FinalizeOutcome  BY <1>5 DEF FinalizeOutcome
<1>6. CASE IterationEnds  BY <1>6 DEF IterationEnds
<1>7. CASE RunReturns  BY <1>7 DEF RunReturns
<1>8. CASE RunFails  BY <1>8 DEF RunFails
<1>9. CASE DeferredClear
  <2>1. ~workerReady' /\ workerReady' \in BOOLEAN  BY <1>9 DEF DeferredClear
  <2> QED  BY <1>9, <2>1 DEF DeferredClear
<1>10. CASE Serve  BY <1>10 DEF Serve
<1>11. CASE ServeFails  BY <1>11 DEF ServeFails
<1>12. CASE ProbeStep
  <2>1. probe' \in ProbePCs
    BY <1>12 DEF ProbeStep, ProbeArrives, PingAnswers, ProbeReady, ProbeNotReady
  <2>2. UNCHANGED <<signaled, mainVars, workerCanceled, workerReady, componentVars, adminClosed>>
    BY <1>12 DEF ProbeStep, ProbeArrives, PingAnswers, ProbeReady, ProbeNotReady
  <2> QED  BY <2>1, <2>2
<1> QED  BY <1>1, <1>2, <1>3, <1>4, <1>5, <1>6, <1>7, <1>8, <1>9, <1>10, <1>11, <1>12

\* The two sends.
LEMMA SendKeeps ==
    ASSUME ProcessInv, SendWorkerResult \/ SendAdminResult
    PROVE  ProcessInv'
<1> DEFINE C == {"worker", "admin_server"}
<1>1. results \in Seq(C)  BY DEF ProcessInv, TypeOK
<1>2. \A x \in C :
          /\ Append(results, x) \in Seq(C)
          /\ Len(Append(results, x)) = Len(results) + 1
          /\ Len(results) \in Nat
          /\ Append(results, x)[Len(results) + 1] = x
          /\ \A i \in 1..Len(results) : Append(results, x)[i] = results[i]
  BY <1>1, SendFacts
<1>3. PICK x \in C : results' = Append(results, x)
                     /\ x = IF worker = worker' THEN "admin_server" ELSE "worker"
  BY DEF SendWorkerResult, SendAdminResult, WorkerGoes
<1>4. InChannel(x)' /\ \A c \in C : InChannel(c) => InChannel(c)'
  BY <1>2, <1>3 DEF InChannel
<1>5. Len(results') = Len(results) + 1 /\ results' \in Seq(C) /\ Len(results) \in Nat
  BY <1>2, <1>3
<1> HIDE DEF C
<1> USE DEF ProcessInv, TypeOK, ReadyMeansLoop, ExitZeroIsClean, FailureHasCause,
            Accounting, ErrorsKept, Causes, Sent, WorkerSent, AdminSent, Stopping,
            MainPCs, WorkerPCs, AdminPCs, ProbePCs, mainVars, componentVars, WorkerGoes, Alive
<1>6. CASE SendWorkerResult
  <2>1. TypeOK' /\ ReadyMeansLoop' /\ ExitZeroIsClean' /\ FailureHasCause'
    BY <1>5, <1>6 DEF SendWorkerResult, C
  <2>2. Accounting'  BY <1>5, <1>6 DEF SendWorkerResult
  <2>3. ErrorsKept'  BY <1>3, <1>4, <1>6 DEF SendWorkerResult, C
  <2>4. Causes'  BY <1>6 DEF SendWorkerResult
  <2> QED  BY <2>1, <2>2, <2>3, <2>4
<1>7. CASE SendAdminResult
  <2>1. TypeOK' /\ ReadyMeansLoop' /\ ExitZeroIsClean' /\ FailureHasCause'
    BY <1>5, <1>7 DEF SendAdminResult, C
  <2>2. Accounting'  BY <1>5, <1>7 DEF SendAdminResult
  <2>3. ErrorsKept'  BY <1>3, <1>4, <1>7 DEF SendAdminResult, C
  <2>4. Causes'  BY <1>7 DEF SendAdminResult
  <2> QED  BY <2>1, <2>2, <2>3, <2>4
<1> QED  BY <1>6, <1>7

\* ProcessInv is an inductive invariant of the worker process.
THEOREM ProcessInvariance == Spec => []ProcessInv
<1>1. Init => ProcessInv  BY ProcessInit
<1>2. ProcessInv /\ [Next]_vars => ProcessInv'
  <2> SUFFICES ASSUME ProcessInv, [Next]_vars PROVE ProcessInv'  OBVIOUS
  <2>1. CASE Next
    BY <2>1, MainKeeps, ReceiveKeeps, ComponentKeeps, SendKeeps
    DEF Next, MainStep, WorkerStep, AdminStep
  <2>2. CASE UNCHANGED vars
    BY <2>2 DEF vars, mainVars, componentVars, ProcessInv, TypeOK, ReadyMeansLoop,
         ExitZeroIsClean, FailureHasCause, Accounting, ErrorsKept, Causes, Sent,
         WorkerSent, AdminSent, Stopping, InChannel
  <2> QED  BY <2>1, <2>2
<1> QED  BY <1>1, <1>2, PTL DEF Spec

\* Types, and the exit code being decided exactly when run returns.
THEOREM ProcessTypes == Spec => []TypeOK
<1>1. ProcessInv => TypeOK  BY DEF ProcessInv
<1>2. QED  BY ProcessInvariance, <1>1, PTL

\* Readiness never outlives the worker goroutine (cmd/worker/main.go, the
\* deferred Store(false)), whichever Store comes last.
THEOREM ReadinessIsHonest == Spec => []ReadyMeansLoop
BY ProcessInvariance, PTL DEF ProcessInv

\* run returns 0 only after a signal, with both components stopped and no
\* error lost, not even one that raced the signal.
THEOREM CleanExit == Spec => []ExitZeroIsClean
BY ProcessInvariance, PTL DEF ProcessInv

\* A launched process that returns 1 has had a component error or ran out of
\* its shutdown timeout.
THEOREM BlamedExit == Spec => []FailureHasCause
BY ProcessInvariance, PTL DEF ProcessInv
=============================================================================
