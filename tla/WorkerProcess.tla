--------------------------- MODULE WorkerProcess ---------------------------
(***************************************************************************)
(* The worker process (cmd/worker/main.go): the main goroutine, the        *)
(* goroutine that runs the polling loop, the one that serves the admin     *)
(* endpoints, and a readiness probe (health.ReadyHandler) in progress.     *)
(*                                                                         *)
(* They share the flag workerReady, the worker's context and the buffered  *)
(* channel results.  A signal, a failing component and the shutdown        *)
(* timeout may come at any moment, and a component that is told to stop    *)
(* need not obey.                                                          *)
(***************************************************************************)
EXTENDS Naturals, Sequences

VARIABLES
    signaled,        \* ctx.Err() # nil: SIGINT or SIGTERM has arrived
    main,            \* where run and stopComponents are
    remaining,       \* stopComponents: the results still to be collected
    failed,          \* a component, or the admin shutdown, ended in an error
    timedOut,        \* the shutdown context has expired
    exit,            \* what run returns, once decided; "none" before
    workerCanceled,  \* workerCtx.Err() # nil
    workerReady,     \* the atomic flag
    worker,          \* where the worker goroutine is
    admin,           \* where the admin goroutine is
    adminClosed,     \* Shutdown has been called on the admin server
    errs,            \* (history) the components that stopped with an error
    results,         \* the channel
    probe            \* where the readiness probe in progress is

mainVars      == <<main, remaining, failed, timedOut, exit>>
componentVars == <<worker, admin, errs, results>>
vars == <<signaled, mainVars, workerCanceled, workerReady, componentVars, adminClosed, probe>>

MainPCs   == {"starting", "select", "stop", "cancel", "shutdown", "draining",
              "collect", "closing", "exited"}
\* "sent" is between the send on results and the deferred Store(false).
WorkerPCs == {"unborn", "new", "starting", "polling", "querying", "publishing",
              "returned", "sent", "gone"}
AdminPCs  == {"unborn", "new", "serving", "returned", "gone"}
\* "refused": the postgres check has failed, the worker check is still to come.
ProbePCs  == {"none", "postgres", "worker", "refused"}

Init ==
    /\ signaled = FALSE
    /\ main = "starting"
    /\ remaining = 0
    /\ failed = FALSE
    /\ timedOut = FALSE
    /\ exit = "none"
    /\ workerCanceled = FALSE
    /\ workerReady = FALSE
    /\ worker = "unborn"
    /\ admin = "unborn"
    /\ adminClosed = FALSE
    /\ errs = {}
    /\ results = <<>>
    /\ probe = "none"

-----------------------------------------------------------------------------
(* The main goroutine. *)

Signal ==
    /\ ~signaled
    /\ main # "exited"
    /\ signaled' = TRUE
    /\ UNCHANGED <<mainVars, workerCanceled, workerReady, componentVars, adminClosed, probe>>

\* run returns code; its deferred dbPool.Close is still to come.
Return(code) ==
    /\ main' = "closing"
    /\ exit' = code

\* A startup step fails, or finds the context done and returns 0.
AbortStartup ==
    /\ main = "starting"
    /\ \/ signaled /\ Return("0")
       \/ Return("1")
    /\ UNCHANGED <<signaled, remaining, failed, timedOut, workerCanceled, workerReady,
                   componentVars, adminClosed, probe>>

\* Both goroutines are launched; a signal may have come since the last check
\* of ctx.Err().
Launch ==
    /\ main = "starting"
    /\ main'   = "select"
    /\ worker' = "new"
    /\ admin'  = "new"
    /\ UNCHANGED <<signaled, remaining, failed, timedOut, exit, workerCanceled,
                   workerReady, errs, results, adminClosed, probe>>

\* Faulty variant: only one result is waited for.
ShutdownCollectsOne ==
    /\ main = "select"
    /\ signaled
    /\ main' = "stop"
    /\ remaining' = 1
    /\ UNCHANGED <<signaled, failed, timedOut, exit, workerCanceled, workerReady,
                   componentVars, adminClosed, probe>>

\* case <-ctx.Done(): both components are to be stopped and collected.
ShutdownRequested ==
    /\ main = "select"
    /\ signaled
    /\ main' = "stop"
    /\ remaining' = 2
    /\ UNCHANGED <<signaled, failed, timedOut, exit, workerCanceled, workerReady,
                   componentVars, adminClosed, probe>>

\* case result := <-results: a component stopped, which is a failure even
\* when its error is nil; the other one is to be stopped and collected.
ComponentStopped ==
    /\ main = "select"
    /\ results # <<>>
    /\ results' = Tail(results)
    /\ workerReady' = FALSE
    /\ main' = "stop"
    /\ remaining' = 1
    /\ failed' = TRUE
    /\ UNCHANGED <<signaled, timedOut, exit, workerCanceled, worker, admin, errs,
                   adminClosed, probe>>

\* stopComponents: workerReady.Store(false)
ClearReady ==
    /\ main = "stop"
    /\ workerReady' = FALSE
    /\ main' = "cancel"
    /\ UNCHANGED <<signaled, remaining, failed, timedOut, exit, workerCanceled,
                   componentVars, adminClosed, probe>>

\* cancelWorker()
CancelWorker ==
    /\ main = "cancel"
    /\ workerCanceled' = TRUE
    /\ main' = "shutdown"
    /\ UNCHANGED <<signaled, remaining, failed, timedOut, exit, workerReady,
                   componentVars, adminClosed, probe>>

\* adminServer.Shutdown closes the listener ...
BeginShutdown ==
    /\ main = "shutdown"
    /\ adminClosed' = TRUE
    /\ main' = "draining"
    /\ UNCHANGED <<signaled, remaining, failed, timedOut, exit, workerCanceled,
                   workerReady, componentVars, probe>>

\* ... and waits for the requests in progress, or for its deadline.
EndShutdown ==
    /\ main = "draining"
    /\ \/ probe = "none" /\ UNCHANGED failed
       \/ timedOut /\ failed' = TRUE
    /\ main' = "collect"
    /\ UNCHANGED <<signaled, remaining, timedOut, exit, workerCanceled, workerReady,
                   componentVars, adminClosed, probe>>

\* The shutdown context expires.
ShutdownTimeout ==
    /\ main \in {"draining", "collect"}
    /\ ~timedOut
    /\ timedOut' = TRUE
    /\ UNCHANGED <<signaled, main, remaining, failed, exit, workerCanceled, workerReady,
                   componentVars, adminClosed, probe>>

\* One result is collected; the one of a component that ended in an error
\* makes stopComponents return an error.
Collect ==
    /\ main = "collect"
    /\ remaining > 0
    /\ results # <<>>
    /\ results' = Tail(results)
    /\ remaining' = remaining - 1
    /\ failed' = (failed \/ Head(results) \in errs)
    /\ UNCHANGED <<signaled, main, timedOut, exit, workerCanceled, workerReady,
                   worker, admin, errs, adminClosed, probe>>

\* Faulty variant: the loop has no case for the deadline.
CollectForever == FALSE /\ UNCHANGED vars

\* case <-ctx.Done() of the loop: what is still missing is given up on.
GiveUpCollecting ==
    /\ main = "collect"
    /\ remaining > 0
    /\ timedOut
    /\ Return("1")
    /\ UNCHANGED <<signaled, remaining, failed, timedOut, workerCanceled, workerReady,
                   componentVars, adminClosed, probe>>

\* Everything is collected; after a failure run returns 1.
FinishStop ==
    /\ main = "collect"
    /\ remaining = 0
    /\ Return(IF failed THEN "1" ELSE "0")
    /\ UNCHANGED <<signaled, remaining, failed, timedOut, workerCanceled, workerReady,
                   componentVars, adminClosed, probe>>

\* The deferred dbPool.Close waits until no query of the worker and no ping
\* of a probe holds a connection; then the process ends.
ClosePool ==
    /\ main = "closing"
    /\ worker # "querying"
    /\ probe # "postgres"
    /\ main' = "exited"
    /\ UNCHANGED <<signaled, remaining, failed, timedOut, exit, workerCanceled,
                   workerReady, componentVars, adminClosed, probe>>

-----------------------------------------------------------------------------
(* The worker goroutine: Worker.Run and what is deferred around it. *)

Alive == main # "exited"

WorkerGoes(from, to) ==
    /\ Alive
    /\ worker = from
    /\ worker' = to

\* Run checks its context, then calls onStarted, which sets the flag.
EnterRun ==
    /\ WorkerGoes("new", IF workerCanceled THEN "returned" ELSE "starting")
    /\ UNCHANGED <<signaled, mainVars, workerCanceled, workerReady, admin, errs, results,
                   adminClosed, probe>>

OnStarted ==
    /\ WorkerGoes("starting", "polling")
    /\ workerReady' = TRUE
    /\ UNCHANGED <<signaled, mainVars, workerCanceled, admin, errs, results,
                   adminClosed, probe>>

\* The timer fires and runOnce sends ClaimNext.
RunOnce ==
    /\ ~workerCanceled
    /\ WorkerGoes("polling", "querying")
    /\ UNCHANGED <<signaled, mainVars, workerCanceled, workerReady, admin, errs, results,
                   adminClosed, probe>>

\* An event was claimed; the publisher is called and need not return.
Publish ==
    /\ WorkerGoes("querying", "publishing")
    /\ UNCHANGED <<signaled, mainVars, workerCanceled, workerReady, admin, errs, results,
                   adminClosed, probe>>

\* It returns, and the outcome is recorded unless the context is done.
FinalizeOutcome ==
    /\ ~workerCanceled
    /\ WorkerGoes("publishing", "querying")
    /\ UNCHANGED <<signaled, mainVars, workerCanceled, workerReady, admin, errs, results,
                   adminClosed, probe>>

\* Nothing to claim, an outcome recorded, a lost lease, or a store that is
\* unavailable: the loop goes on.
IterationEnds ==
    /\ WorkerGoes("querying", "polling")
    /\ UNCHANGED <<signaled, mainVars, workerCanceled, workerReady, admin, errs, results,
                   adminClosed, probe>>

\* Faulty variant: workerCtx is derived from the signal's context.
RunReturnsOnSignal ==
    /\ workerCanceled \/ signaled
    /\ \E at \in {"polling", "querying", "publishing"} : WorkerGoes(at, "returned")
    /\ UNCHANGED <<signaled, mainVars, workerCanceled, workerReady, admin, errs, results,
                   adminClosed, probe>>

\* Run returns nil, from its select or from an iteration that was canceled.
RunReturns ==
    /\ workerCanceled
    /\ \E at \in {"polling", "querying", "publishing"} : WorkerGoes(at, "returned")
    /\ UNCHANGED <<signaled, mainVars, workerCanceled, workerReady, admin, errs, results,
                   adminClosed, probe>>

\* Run returns errWorkerFatal.
RunFails ==
    /\ WorkerGoes("querying", "returned")
    /\ errs' = errs \cup {"worker"}
    /\ UNCHANGED <<signaled, mainVars, workerCanceled, workerReady, admin, results,
                   adminClosed, probe>>

SendWorkerResult ==
    /\ WorkerGoes("returned", "sent")
    /\ results' = Append(results, "worker")
    /\ UNCHANGED <<signaled, mainVars, workerCanceled, workerReady, admin, errs,
                   adminClosed, probe>>

\* Faulty variant: nothing is deferred.
NoDeferredClear ==
    /\ WorkerGoes("sent", "gone")
    /\ UNCHANGED <<signaled, mainVars, workerCanceled, workerReady, admin, errs, results,
                   adminClosed, probe>>

\* defer workerReady.Store(false)
DeferredClear ==
    /\ WorkerGoes("sent", "gone")
    /\ workerReady' = FALSE
    /\ UNCHANGED <<signaled, mainVars, workerCanceled, admin, errs, results,
                   adminClosed, probe>>

-----------------------------------------------------------------------------
(* The admin goroutine and a readiness probe. *)

\* Serve accepts connections, or returns ErrServerClosed (nil to run) once
\* Shutdown has been called.
Serve ==
    /\ Alive
    /\ \/ admin = "new" /\ ~adminClosed /\ admin' = "serving"
       \/ admin \in {"new", "serving"} /\ adminClosed /\ admin' = "returned"
    /\ UNCHANGED <<signaled, mainVars, workerCanceled, workerReady, worker, errs, results,
                   adminClosed, probe>>

ServeFails ==
    /\ Alive
    /\ admin = "serving"
    /\ ~adminClosed
    /\ admin' = "returned"
    /\ errs' = errs \cup {"admin_server"}
    /\ UNCHANGED <<signaled, mainVars, workerCanceled, workerReady, worker, results,
                   adminClosed, probe>>

SendAdminResult ==
    /\ Alive
    /\ admin = "returned"
    /\ admin' = "gone"
    /\ results' = Append(results, "admin_server")
    /\ UNCHANGED <<signaled, mainVars, workerCanceled, workerReady, worker, errs,
                   adminClosed, probe>>

\* GET /readyz is accepted and its first check, a ping, begins.
ProbeArrives ==
    /\ Alive
    /\ admin = "serving"
    /\ ~adminClosed
    /\ probe = "none"
    /\ probe' = "postgres"
    /\ UNCHANGED <<signaled, mainVars, workerCanceled, workerReady, componentVars, adminClosed>>

PingAnswers ==
    /\ Alive
    /\ probe = "postgres"
    /\ probe' \in {"worker", "refused"}
    /\ UNCHANGED <<signaled, mainVars, workerCanceled, workerReady, componentVars, adminClosed>>

\* The second check loads workerReady and the handler answers.
ProbeReady ==
    /\ Alive
    /\ probe = "worker"
    /\ workerReady
    /\ probe' = "none"
    /\ UNCHANGED <<signaled, mainVars, workerCanceled, workerReady, componentVars, adminClosed>>

ProbeNotReady ==
    /\ Alive
    /\ probe = "refused" \/ (probe = "worker" /\ ~workerReady)
    /\ probe' = "none"
    /\ UNCHANGED <<signaled, mainVars, workerCanceled, workerReady, componentVars, adminClosed>>

-----------------------------------------------------------------------------
MainStep ==
    \/ AbortStartup
    \/ Launch
    \/ ShutdownRequested
    \/ ComponentStopped
    \/ ClearReady
    \/ CancelWorker
    \/ BeginShutdown
    \/ EndShutdown
    \/ Collect
    \/ GiveUpCollecting
    \/ FinishStop
    \/ ClosePool

WorkerStep ==
    \/ EnterRun
    \/ OnStarted
    \/ RunOnce
    \/ Publish
    \/ FinalizeOutcome
    \/ IterationEnds
    \/ RunReturns
    \/ RunFails
    \/ SendWorkerResult
    \/ DeferredClear

AdminStep == Serve \/ ServeFails \/ SendAdminResult
ProbeStep == ProbeArrives \/ PingAnswers \/ ProbeReady \/ ProbeNotReady

Next == Signal \/ ShutdownTimeout \/ MainStep \/ WorkerStep \/ AdminStep \/ ProbeStep

Spec == Init /\ [][Next]_vars

\* Goroutines that can run do run, timers expire, and DB_QUERY_TIMEOUT and
\* DB_PING_TIMEOUT end every query and ping.  Nothing is assumed of the
\* publisher, nor that a canceled component obeys.
Fairness ==
    /\ WF_vars(MainStep)
    /\ WF_vars(ShutdownTimeout)
    /\ WF_vars(SendWorkerResult)
    /\ WF_vars(SendAdminResult)
    /\ WF_vars(Publish \/ IterationEnds \/ (worker = "querying" /\ RunReturns) \/ RunFails)
    /\ WF_vars(PingAnswers)

LiveSpec == Spec /\ Fairness

-----------------------------------------------------------------------------
(* Properties. *)

\* Every variable has its type, goroutines exist once they are launched, and
\* run has decided its exit code exactly when it has returned.
TypeOK ==
    /\ signaled \in BOOLEAN
    /\ main \in MainPCs
    /\ remaining \in 0..2
    /\ failed \in BOOLEAN
    /\ timedOut \in BOOLEAN
    /\ exit \in {"none", "0", "1"}
    /\ workerCanceled \in BOOLEAN
    /\ workerReady \in BOOLEAN
    /\ worker \in WorkerPCs
    /\ admin \in AdminPCs
    /\ adminClosed \in BOOLEAN
    /\ errs \in SUBSET {"worker", "admin_server"}
    /\ results \in Seq({"worker", "admin_server"})
    /\ Len(results) <= 2
    /\ probe \in ProbePCs
    /\ exit # "none" <=> main \in {"closing", "exited"}
    /\ worker = "unborn" <=> admin = "unborn"

\* The flag behind /readyz is set only between onStarted and the end of the
\* worker goroutine, though the worker's Store(true) may come after the
\* Store(false) of stopComponents: readiness never outlives the goroutine.
ReadyMeansLoop ==
    workerReady => worker \in {"polling", "querying", "publishing", "returned", "sent"}

\* Exit code 0 is never a lie: a signal was the cause, no component ended in
\* an error, also not one that raced the signal, and both have stopped.
ExitZeroIsClean ==
    exit = "0" =>
        /\ signaled
        /\ errs = {}
        /\ worker \in {"unborn", "sent", "gone"}
        /\ admin \in {"unborn", "gone"}

\* A launched process exits with 1 only after a component error or when the
\* shutdown timeout ran out: a plain SIGTERM does not look like a component
\* that stopped unexpectedly, workerCtx being independent of the signal.
FailureHasCause ==
    exit = "1" /\ worker # "unborn" => errs # {} \/ timedOut

\* A signal or a failed component always ends the process, even when the
\* publisher never returns.
ProcessTerminates ==
    (signaled \/ errs # {}) ~> main = "exited"
=============================================================================
