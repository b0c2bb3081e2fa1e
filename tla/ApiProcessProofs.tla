-------------------------- MODULE ApiProcessProofs --------------------------
(***************************************************************************)
(* Proofs about ApiProcess, for any set of requests.                       *)
(***************************************************************************)
EXTENDS ApiProcess, TLAPS

-----------------------------------------------------------------------------
(* The inductive invariant. *)

Quiet == \A r \in Requests : req[r] \in {"none", "answered"}
Stopping == {"draining", "close", "await"}
Ending   == {"closing", "pool_wait", "exited"}

\* Before Serve is launched there is nothing to shut down or to serve.
Unlaunched ==
    /\ main = "starting" => serve = "unborn"
    /\ serve = "unborn" =>
           /\ main \in {"starting"} \cup Ending
           /\ ~inShutdown /\ ~serveErr
           /\ serverErrCh = "empty"
           /\ \A r \in Requests : req[r] = "none"

\* Shutdown follows a signal; what was forced follows the timeout.
ShutdownOrder ==
    /\ main \in {"shutdown"} \cup Stopping => signaled
    /\ main \in Stopping => inShutdown
    /\ inShutdown => main \in Stopping \cup Ending
    /\ main = "close" \/ connsClosed => timedOut
    /\ main = "await" /\ ~connsClosed => Quiet
    /\ poolClosed => main \in {"pool_wait", "exited"}
    /\ connsClosed => main \in {"await"} \cup Ending
    /\ \A r \in Requests : req[r] = "cut" => connsClosed

\* The result in the channel says how Serve ended.
ServeResult ==
    /\ serve \in {"new", "serving"} => ~serveErr
    /\ serve = "returned" /\ ~serveErr => inShutdown
    /\ serve # "gone" => serverErrCh = "empty"
    /\ serverErrCh = "error" => serveErr
    /\ serverErrCh = "nil" => ~serveErr /\ inShutdown

ApiInv ==
    /\ TypeOK
    /\ Unlaunched
    /\ ShutdownOrder
    /\ ServeResult
    /\ ExitZeroIsClean
    /\ FailureHasCause
    /\ ServedToTheEnd

-----------------------------------------------------------------------------
\* Initially nothing has happened.
LEMMA ApiInit == Init => ApiInv
BY DEF Init, ApiInv, TypeOK, Unlaunched, ShutdownOrder, ServeResult, ExitZeroIsClean,
       FailureHasCause, ServedToTheEnd, MainPCs, ServePCs, ReqPCs, Ending, Stopping

\* A step of a request's goroutine keeps the invariant: a busy request stays
\* within what excuses it, an idle one starts only under a live server.
LEMMA RequestStep ==
    ASSUME ApiInv, NEW r \in Requests,
           CloseUnused(r) \/ Accept(r) \/ Arrive(r) \/ TxStep(r) \/ HandlerStep(r)
    PROVE  ApiInv'
<1> USE DEF ApiInv, TypeOK, MainPCs, ServePCs, ReqPCs, Ending, Stopping, HoldsConnection,
            mainVars, serveVars, RequestGoes, Alive
<1>1. /\ UNCHANGED <<signaled, main, timedOut, exit, serve, serveErr, serverErrCh,
                     inShutdown, connsClosed, poolClosed>>
      /\ main # "exited"
      /\ \E to \in ReqPCs : req' = [req EXCEPT ![r] = to]
  BY DEF CloseUnused, Accept, Arrive, TxStep, HandlerStep, BeginTx, Refuse, Commit, FailTx,
         Rollback, Answer
<1>2. /\ req'[r] # "none" => serve # "unborn"
      /\ req'[r] = "cut" => connsClosed
      /\ req[r] \in {"none", "answered"} => serve = "serving" /\ ~inShutdown
  BY DEF CloseUnused, Accept, Arrive, TxStep, HandlerStep, BeginTx, Refuse, Commit, FailTx,
         Rollback, Answer, Unlaunched
<1>3. TypeOK'
  BY <1>1
<1>4. Unlaunched'
  BY <1>1, <1>2 DEF Unlaunched
<1>5. ShutdownOrder'
  BY <1>1, <1>2 DEF ShutdownOrder, Quiet
<1>6. ServeResult' /\ FailureHasCause'
  BY <1>1 DEF ServeResult, FailureHasCause
<1>7. ExitZeroIsClean'
  BY <1>1, <1>2 DEF ExitZeroIsClean
<1>8. ServedToTheEnd'
  <2>1. poolClosed /\ serve = "serving" => serveErr \/ timedOut
    BY DEF ShutdownOrder, ExitZeroIsClean, FailureHasCause
  <2>2. QED
    BY <1>1, <1>2, <2>1 DEF ServedToTheEnd, ShutdownOrder
<1>9. QED
  BY <1>3, <1>4, <1>5, <1>6, <1>7, <1>8

\* Every other step of the process keeps it.
LEMMA ProcessStep ==
    ASSUME ApiInv, Signal \/ ShutdownTimeout \/ MainStep \/ ServeStep \/ ServeFails
    PROVE  ApiInv'
<1> USE DEF ApiInv, TypeOK, MainPCs, ServePCs, ReqPCs, Ending, Stopping, HoldsConnection,
            Unlaunched, ShutdownOrder, ServeResult, ExitZeroIsClean, FailureHasCause,
            ServedToTheEnd, Quiet, mainVars, serveVars, Return, Alive
<1>1. CASE Signal
  BY <1>1 DEF Signal
<1>2. CASE ShutdownTimeout
  BY <1>2 DEF ShutdownTimeout
<1>3. CASE Serve
  BY <1>3 DEF Serve
<1>4. CASE ServeFails
  BY <1>4 DEF ServeFails
<1>5. CASE SendServeResult
  BY <1>5 DEF SendServeResult
<1>6. CASE AbortStartup
  BY <1>6 DEF AbortStartup
<1>7. CASE Launch
  BY <1>7 DEF Launch
<1>8. CASE ServerStopped
  BY <1>8 DEF ServerStopped
<1>9. CASE ShutdownRequested
  BY <1>9 DEF ShutdownRequested
<1>10. CASE BeginShutdown
  BY <1>10 DEF BeginShutdown
<1>11. CASE EndShutdown
  BY <1>11 DEF EndShutdown
<1>12. CASE ForceClose
  BY <1>12 DEF ForceClose
<1>13. CASE AwaitServe
  BY <1>13 DEF AwaitServe
<1>14. CASE ClosePool
  BY <1>14 DEF ClosePool
<1>15. CASE ExitProcess
  BY <1>15 DEF ExitProcess
<1>16. QED
  BY <1>1, <1>2, <1>3, <1>4, <1>5, <1>6, <1>7,
     <1>8, <1>9, <1>10, <1>11, <1>12, <1>13, <1>14, <1>15 DEF MainStep, ServeStep

\* The invariant of the API process holds for any number of requests.
THEOREM ApiInvariance == Spec => []ApiInv
<1>1. ApiInv /\ [Next]_vars => ApiInv'
  <2>1. ASSUME ApiInv, UNCHANGED vars
        PROVE  ApiInv'
    BY <2>1 DEF vars, mainVars, serveVars, ApiInv, TypeOK, Unlaunched, ShutdownOrder,
                ServeResult, ExitZeroIsClean, FailureHasCause,
                ServedToTheEnd, Quiet
  <2>2. QED
    BY <2>1, RequestStep, ProcessStep DEF Next
<1>2. QED
  BY ApiInit, <1>1, PTL DEF Spec

\* Types, and the exit code being decided exactly when run returns
\* (cmd/api/main.go).
THEOREM ApiTypes == Spec => []TypeOK
<1>1. ApiInv => TypeOK
  BY DEF ApiInv
<1>2. QED
  BY ApiInvariance, <1>1, PTL

\* Exit code 0 means a signal, no failure of Serve and every request answered.
THEOREM ApiExitZero == Spec => []ExitZeroIsClean
<1>1. ApiInv => ExitZeroIsClean
  BY DEF ApiInv
<1>2. QED
  BY ApiInvariance, <1>1, PTL

\* Exit code 1 of a launched process means a failed Serve or a shutdown that
\* ran out of time.
THEOREM ApiFailureCause == Spec => []FailureHasCause
<1>1. ApiInv => FailureHasCause
  BY DEF ApiInv
<1>2. QED
  BY ApiInvariance, <1>1, PTL

\* Requests lose their pool or their connection only after a failure of Serve
\* or a shutdown that ran out of time.
THEOREM ApiServesToTheEnd == Spec => []ServedToTheEnd
<1>1. ApiInv => ServedToTheEnd
  BY DEF ApiInv
<1>2. QED
  BY ApiInvariance, <1>1, PTL
=============================================================================
