----------------------------- MODULE ApiProcess -----------------------------
(***************************************************************************)
(* The API process (cmd/api/main.go): the main goroutine with              *)
(* stopHTTPServer, the goroutine that runs server.Serve, and the requests  *)
(* in progress, each of which may hold a connection of the pool.           *)
(*                                                                         *)
(* A signal, a failing listener and the shutdown timeout come at any       *)
(* moment.  Shutdown waits for requests; Close cuts their connections and  *)
(* does not wait; the deferred dbPool.Close waits for transactions.  What  *)
(* a request does inside is HttpExchange and RewardClaims.                 *)
(***************************************************************************)
CONSTANT Requests   \* requests the process may be sent

VARIABLES
    signaled,     \* ctx.Err() # nil: SIGINT or SIGTERM has arrived
    main,         \* where run and stopHTTPServer are
    timedOut,     \* the shutdown context has expired
    exit,         \* what run returns, once decided; "none" before
    serve,        \* where the goroutine of Serve is
    serveErr,     \* (history) Serve failed
    serverErrCh,  \* the buffered channel: "empty", "nil" or "error"
    inShutdown,   \* Shutdown has been called on the server
    connsClosed,  \* Close has closed every connection
    poolClosed,   \* dbPool.Close has been called
    req           \* where each request is

mainVars  == <<main, timedOut, exit>>
serveVars == <<serve, serveErr, serverErrCh>>
vars == <<signaled, mainVars, serveVars, inShutdown, connsClosed, poolClosed, req>>

MainPCs  == {"starting", "select", "shutdown", "draining", "close", "await", "closing",
             "pool_wait", "exited"}
ServePCs == {"unborn", "new", "serving", "returned", "gone"}
\* "connected": accepted, no request read yet; "cut": the server closed the
\* connection before the response was written.
ReqPCs   == {"none", "connected", "handling", "in_tx", "rolling_back", "responding",
             "answered", "cut"}
HoldsConnection(r) == req[r] \in {"in_tx", "rolling_back"}

Init ==
    /\ signaled = FALSE
    /\ main = "starting"
    /\ timedOut = FALSE
    /\ exit = "none"
    /\ serve = "unborn"
    /\ serveErr = FALSE
    /\ serverErrCh = "empty"
    /\ inShutdown = FALSE
    /\ connsClosed = FALSE
    /\ poolClosed = FALSE
    /\ req = [r \in Requests |-> "none"]

Alive == main # "exited"

-----------------------------------------------------------------------------
(* The main goroutine. *)

Signal ==
    /\ Alive
    /\ ~signaled
    /\ signaled' = TRUE
    /\ UNCHANGED <<mainVars, serveVars, inShutdown, connsClosed, poolClosed, req>>

\* run returns code; what it has deferred is still to come.
Return(code) ==
    /\ main' = "closing"
    /\ exit' = code

\* A startup step fails, or finds the context done and returns 0.
AbortStartup ==
    /\ main = "starting"
    /\ \/ signaled /\ Return("0")
       \/ Return("1")
    /\ UNCHANGED <<signaled, timedOut, serveVars, inShutdown, connsClosed, poolClosed, req>>

\* The listener is open and the goroutine is launched; a signal may have come
\* since the last check of ctx.Err().
Launch ==
    /\ main = "starting"
    /\ main' = "select"
    /\ serve' = "new"
    /\ UNCHANGED <<signaled, timedOut, exit, serveErr, serverErrCh, inShutdown,
                   connsClosed, poolClosed, req>>

\* case err := <-serverErrCh
ServerStopped ==
    /\ main = "select"
    /\ serverErrCh # "empty"
    /\ serverErrCh' = "empty"
    /\ Return(IF serverErrCh = "error" THEN "1" ELSE "0")
    /\ UNCHANGED <<signaled, timedOut, serve, serveErr, inShutdown, connsClosed, poolClosed, req>>

\* case <-ctx.Done(): also when a result is waiting in the channel.
ShutdownRequested ==
    /\ main = "select"
    /\ signaled
    /\ main' = "shutdown"
    /\ UNCHANGED <<signaled, timedOut, exit, serveVars, inShutdown, connsClosed, poolClosed, req>>

\* Faulty variant: Close is called in the place of Shutdown.
BeginClose ==
    /\ main = "shutdown"
    /\ inShutdown' = TRUE
    /\ connsClosed' = TRUE
    /\ main' = "await"
    /\ UNCHANGED <<signaled, timedOut, exit, serveVars, poolClosed, req>>

\* server.Shutdown closes the listener ...
BeginShutdown ==
    /\ main = "shutdown"
    /\ inShutdown' = TRUE
    /\ main' = "draining"
    /\ UNCHANGED <<signaled, timedOut, exit, serveVars, connsClosed, poolClosed, req>>

\* ... closes connections that have sent nothing for a while ...
CloseUnused(r) ==
    /\ main = "draining"
    /\ req[r] = "connected"
    /\ req' = [req EXCEPT ![r] = "none"]
    /\ UNCHANGED <<signaled, mainVars, serveVars, inShutdown, connsClosed, poolClosed>>

\* ... and returns when Serve has let go of the listener and every connection
\* is done with its request, or at its deadline with an error.
EndShutdown ==
    /\ main = "draining"
    /\ serve # "serving"
    /\ \/ (\A r \in Requests : req[r] \in {"none", "answered"}) /\ main' = "await"
       \/ timedOut /\ main' = "close"
    /\ UNCHANGED <<signaled, timedOut, exit, serveVars, inShutdown, connsClosed, poolClosed, req>>

\* The shutdown context expires.
ShutdownTimeout ==
    /\ main = "draining"
    /\ ~timedOut
    /\ timedOut' = TRUE
    /\ UNCHANGED <<signaled, main, exit, serveVars, inShutdown, connsClosed, poolClosed, req>>

\* server.Close: connections are closed, which ends the contexts of their
\* requests; the handlers are not waited for.
ForceClose ==
    /\ main = "close"
    /\ connsClosed' = TRUE
    /\ main' = "await"
    /\ UNCHANGED <<signaled, timedOut, exit, serveVars, inShutdown, poolClosed, req>>

\* Faulty variant: the result of Serve is not looked at.
AwaitServeIgnoringResult ==
    /\ main = "await"
    /\ serverErrCh # "empty"
    /\ serverErrCh' = "empty"
    /\ Return(IF connsClosed THEN "1" ELSE "0")
    /\ UNCHANGED <<signaled, timedOut, serve, serveErr, inShutdown, connsClosed, poolClosed, req>>

\* <-serveResult, without a timeout; then the errors are joined.
AwaitServe ==
    /\ main = "await"
    /\ serverErrCh # "empty"
    /\ serverErrCh' = "empty"
    /\ Return(IF connsClosed \/ serverErrCh = "error" THEN "1" ELSE "0")
    /\ UNCHANGED <<signaled, timedOut, serve, serveErr, inShutdown, connsClosed, poolClosed, req>>

\* The deferred dbPool.Close ends the pool for new transactions ...
ClosePool ==
    /\ main = "closing"
    /\ poolClosed' = TRUE
    /\ main' = "pool_wait"
    /\ UNCHANGED <<signaled, timedOut, exit, serveVars, inShutdown, connsClosed, req>>

\* ... and waits until no request holds a connection; then os.Exit.
ExitProcess ==
    /\ main = "pool_wait"
    /\ \A r \in Requests : ~HoldsConnection(r)
    /\ main' = "exited"
    /\ UNCHANGED <<signaled, timedOut, exit, serveVars, inShutdown, connsClosed, poolClosed, req>>

-----------------------------------------------------------------------------
(* The goroutine of Serve. *)

\* Serve accepts connections, or returns ErrServerClosed, which becomes nil,
\* also when Shutdown was called before it.
Serve ==
    /\ Alive
    /\ \/ serve = "new" /\ ~inShutdown /\ serve' = "serving"
       \/ serve \in {"new", "serving"} /\ inShutdown /\ serve' = "returned"
    /\ UNCHANGED <<signaled, mainVars, serveErr, serverErrCh, inShutdown, connsClosed,
                   poolClosed, req>>

ServeFails ==
    /\ Alive
    /\ serve = "serving"
    /\ ~inShutdown
    /\ serve' = "returned"
    /\ serveErr' = TRUE
    /\ UNCHANGED <<signaled, mainVars, serverErrCh, inShutdown, connsClosed, poolClosed, req>>

\* Faulty variant: only an error is sent.
SendOnlyErrors ==
    /\ Alive
    /\ serve = "returned"
    /\ serve' = "gone"
    /\ serverErrCh' = IF serveErr THEN "error" ELSE "empty"
    /\ UNCHANGED <<signaled, mainVars, serveErr, inShutdown, connsClosed, poolClosed, req>>

\* Faulty variant: ErrServerClosed is sent as an error.
SendServerClosed ==
    /\ Alive
    /\ serve = "returned"
    /\ serve' = "gone"
    /\ serverErrCh' = "error"
    /\ UNCHANGED <<signaled, mainVars, serveErr, inShutdown, connsClosed, poolClosed, req>>

SendServeResult ==
    /\ Alive
    /\ serve = "returned"
    /\ serve' = "gone"
    /\ serverErrCh' = IF serveErr THEN "error" ELSE "nil"
    /\ UNCHANGED <<signaled, mainVars, serveErr, inShutdown, connsClosed, poolClosed, req>>

-----------------------------------------------------------------------------
(* The goroutine of a request. *)

RequestGoes(r, from, to) ==
    /\ Alive
    /\ req[r] = from
    /\ req' = [req EXCEPT ![r] = to]
    /\ UNCHANGED <<signaled, mainVars, serveVars, inShutdown, connsClosed, poolClosed>>

Accept(r) ==
    /\ serve = "serving"
    /\ ~inShutdown
    /\ RequestGoes(r, "none", "connected")

\* The request is read, also on a connection accepted before Shutdown.
Arrive(r) == ~connsClosed /\ RequestGoes(r, "connected", "handling")

\* createClaim takes a connection and begins its transaction.
BeginTx(r) == ~poolClosed /\ RequestGoes(r, "handling", "in_tx")

\* A response without a transaction: other routes, invalid requests, BeginTx
\* failing, on a closed pool among others.
Refuse(r) == RequestGoes(r, "handling", "responding")

Commit(r) == RequestGoes(r, "in_tx", "responding")

\* The query timeout, the end of the request's context or any other error;
\* rollbackTransaction keeps the connection, bounded by a context of its own.
FailTx(r) == RequestGoes(r, "in_tx", "rolling_back")

Rollback(r) == RequestGoes(r, "rolling_back", "responding")

\* A response written to a closed connection reaches nobody.
Answer(r) == RequestGoes(r, "responding", IF connsClosed THEN "cut" ELSE "answered")

-----------------------------------------------------------------------------
MainStep ==
    \/ AbortStartup
    \/ Launch
    \/ ServerStopped
    \/ ShutdownRequested
    \/ BeginShutdown
    \/ EndShutdown
    \/ ForceClose
    \/ AwaitServe
    \/ ClosePool
    \/ ExitProcess

ServeStep == Serve \/ SendServeResult

TxStep(r)      == Commit(r) \/ FailTx(r) \/ Rollback(r)
HandlerStep(r) == BeginTx(r) \/ Refuse(r) \/ Answer(r)

Next ==
    \/ Signal
    \/ ShutdownTimeout
    \/ MainStep
    \/ ServeStep
    \/ ServeFails
    \/ \E r \in Requests :
           CloseUnused(r) \/ Accept(r) \/ Arrive(r) \/ TxStep(r) \/ HandlerStep(r)

Spec == Init /\ [][Next]_vars

\* Goroutines that can run do run, the shutdown timeout expires, and
\* DB_QUERY_TIMEOUT ends every transaction, by COMMIT or by a rollback.
\* Nothing is assumed of a client, nor of a handler outside its transaction.
Fairness ==
    /\ WF_vars(MainStep)
    /\ WF_vars(ShutdownTimeout)
    /\ WF_vars(ServeStep)
    /\ \A r \in Requests : WF_vars(TxStep(r))

LiveSpec == Spec /\ Fairness

-----------------------------------------------------------------------------
(* Properties. *)

\* Every variable has its type, and run has decided its exit code exactly when
\* it has returned.
TypeOK ==
    /\ signaled \in BOOLEAN
    /\ main \in MainPCs
    /\ timedOut \in BOOLEAN
    /\ exit \in {"none", "0", "1"}
    /\ serve \in ServePCs
    /\ serveErr \in BOOLEAN
    /\ serverErrCh \in {"empty", "nil", "error"}
    /\ inShutdown \in BOOLEAN
    /\ connsClosed \in BOOLEAN
    /\ poolClosed \in BOOLEAN
    /\ req \in [Requests -> ReqPCs]
    /\ exit # "none" <=> main \in {"closing", "pool_wait", "exited"}

\* Exit code 0 is never a lie: a signal was the cause, Serve did not fail, not
\* even just before it, its goroutine is done, and every request that was
\* accepted has had its response.
ExitZeroIsClean ==
    exit = "0" =>
        /\ signaled
        /\ ~serveErr
        /\ serve \in {"unborn", "gone"}
        /\ \A r \in Requests : req[r] \in {"none", "answered"}

\* A launched process exits with 1 only after Serve failed or when the
\* shutdown timeout ran out: a plain SIGTERM is not a failure.
FailureHasCause ==
    exit = "1" /\ serve # "unborn" => serveErr \/ timedOut

\* A request finds the pool closed, or loses its connection to the server,
\* only after a failure of Serve or a shutdown that ran out of time.
ServedToTheEnd ==
    \A r \in Requests :
        (poolClosed /\ req[r] \notin {"none", "answered"}) \/ req[r] = "cut" =>
            serveErr \/ timedOut

\* A signal or a failing listener always ends the process, although the wait
\* for the result of Serve has no timeout and a handler need never return.
ProcessTerminates ==
    (signaled \/ serveErr) ~> main = "exited"
=============================================================================
