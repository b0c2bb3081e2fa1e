---------------------------- MODULE HttpExchange ----------------------------
(***************************************************************************)
(* One HTTP request through a server of the service: the middleware, the   *)
(* reward-claim handler with the validation and the error classes behind   *)
(* it, and the metrics it leaves.  The API server (internal/httpapi) and   *)
(* the worker's admin server (internal/adminhttp) share all but the claim  *)
(* route and one check of the middleware.                                  *)
(*                                                                         *)
(* Three things happen beside the handler: the client goes away, which     *)
(* ends the request's context and later the query's; the query timeout     *)
(* expires; the handler panics.  The transaction itself is RewardClaims;   *)
(* here CreateClaim returns any of its results or any error of the driver. *)
(***************************************************************************)
EXTENDS Naturals, Sequences

CONSTANTS
    MaxIDLength,      \* maxIDLength, in characters
    MaxColumnLength,  \* the upper limit in the CHECKs of reward_claims, in characters
    MaxKeyLength,     \* maxIdempotencyKeyLength, in bytes
    NULL

VARIABLES
    server,       \* "api" or "admin"
    pc,           \* where the request is
    panic,        \* what recover() will return: "none", "abort" (ErrAbortHandler), "other"
    ctxDone,      \* r.Context().Err() # nil
    key,          \* the idempotency key readIdempotencyKey returned
    cmd,          \* the identifiers as decoded
    params,       \* the identifiers as CreateClaim passes them on
    query,        \* queryCtx: "none", "live", "timeout" (by itself) or "canceled"
    driverErr,    \* the error of pgx, as the traits errors.Is and errors.As find
    err,          \* the error CreateClaim returned
    result,       \* or its result
    rec,          \* the statusRecorder
    sent,         \* the response header handed to net/http
    claimMetric,  \* (history) labels counted by ObserveRewardClaim
    httpMetric    \* (history) statuses counted by ObserveRequest

requestVars == <<key, cmd, params>>
callVars    == <<query, driverErr, err, result>>
replyVars   == <<rec, sent>>
metricVars  == <<claimMetric, httpMetric>>
vars == <<server, pc, panic, ctxDone, requestVars, callVars, replyVars, metricVars>>

HandlerPCs == {"routing", "key", "content", "decode", "prepare", "calling", "observing",
               "responding", "writing"}
Ended == pc \in {"completed", "aborted"}
Fields == {"player_id", "campaign_id", "reward_id"}
Errors == {"none", "invalid", "key_reused", "unavailable", "internal", "Canceled"}
Traits == {"pg_unavailable", "pg_other", "conn_closed", "pg_timeout", "network",
           "Canceled", "DeadlineExceeded"}

\* Strings, by what the checks ask of them.  An identifier is decoded from
\* JSON, which is valid UTF-8; a wide one takes more bytes than characters.
IDs  == {v \in [padded : BOOLEAN, size : 0..MaxIDLength + 1, wide : BOOLEAN, nul : BOOLEAN] :
             v.size = 0 => ~v.wide /\ ~v.nul}
KeyValues == {v \in [padded : BOOLEAN, size : 0..MaxKeyLength + 1, control : BOOLEAN] :
             v.size = 0 => ~v.control}

Results == [status : {201, 409}, replayed : BOOLEAN]
Labels  == {"created", "already_claimed", "replayed_created", "replayed_already_claimed",
            "idempotency_key_reused", "canceled", "unavailable", "internal_error"}

\* A response header, with the code of the body it goes with; "implicit" is
\* the one net/http sends by itself.
Statuses == {200, 201, 400, 404, 405, 409, 413, 415, 500, 503}
Codes    == {"ok", "ready", "not_ready", "metrics", "too_many_scrapes", "gather_failed",
             "not_found", "method_not_allowed", "idempotency_key_required",
             "invalid_idempotency_key", "unsupported_media_type", "request_body_too_large",
             "invalid_request", "invalid_json", "created", "reward_already_claimed",
             "idempotency_key_reused", "service_unavailable", "internal_error", "implicit"}
Header   == [status : Statuses, code : Codes]

ASSUME LimitsAssumption ==
    /\ MaxIDLength \in Nat \ {0}
    /\ MaxKeyLength \in Nat \ {0}
    /\ NULL \notin Results \cup Header

\* Both are 128, one a constant of the service, the other written out in the
\* migration.
ASSUME ColumnAssumption == MaxColumnLength = MaxIDLength

Init ==
    /\ server \in {"api", "admin"}
    /\ pc = "routing"
    /\ panic = "none"
    /\ ctxDone = FALSE
    /\ key = NULL
    /\ cmd = NULL
    /\ params = NULL
    /\ query = "none"
    /\ driverErr = {}
    /\ err = "none"
    /\ result = NULL
    /\ rec = [status |-> 200, wroteHeader |-> FALSE]
    /\ sent = NULL
    /\ claimMetric = <<>>
    /\ httpMetric = <<>>

-----------------------------------------------------------------------------
(* Beside the handler. *)

\* The connection breaks, by the client or by a forced server close.
ClientGone ==
    /\ ~Ended
    /\ ~ctxDone
    /\ ctxDone' = TRUE
    /\ UNCHANGED <<server, pc, panic, requestVars, callVars, replyVars, metricVars>>

\* The end of the request's context reaches the query's, if that one is live.
PropagateCancel ==
    /\ ctxDone
    /\ query = "live"
    /\ query' = "canceled"
    /\ UNCHANGED <<server, pc, panic, ctxDone, requestVars, driverErr, err, result,
                   replyVars, metricVars>>

\* Faulty variant: the query has no timeout of its own.
NoQueryTimeout == FALSE /\ UNCHANGED vars

\* context.WithTimeoutCause: the first cause to end the context is kept.
QueryTimeout ==
    /\ query = "live"
    /\ query' = "timeout"
    /\ UNCHANGED <<server, pc, panic, ctxDone, requestVars, driverErr, err, result,
                   replyVars, metricVars>>

Panic ==
    /\ pc \in HandlerPCs
    /\ panic' \in {"abort", "other"}
    /\ pc' = "panicked"
    /\ UNCHANGED <<server, ctxDone, requestVars, callVars, replyVars, metricVars>>

-----------------------------------------------------------------------------
(* Responses and routes. *)

\* statusRecorder.WriteHeader: only the first header counts.
WriteHeader(status, code) ==
    IF rec.wroteHeader
    THEN UNCHANGED replyVars
    ELSE /\ rec' = [status |-> status, wroteHeader |-> TRUE]
         /\ sent' = [status |-> status, code |-> code]

\* writeError, writeJSON and writeRawJSON: the header, then the body.
Respond(status, code) ==
    /\ WriteHeader(status, code)
    /\ pc' = "writing"
    /\ UNCHANGED <<server, panic, ctxDone, requestVars, callVars, metricVars>>

\* The handler takes its next step without touching the response.
Proceed(next) ==
    /\ pc' = next
    /\ UNCHANGED <<server, panic, ctxDone, replyVars>>

MethodNotAllowed == pc = "routing" /\ Respond(405, "method_not_allowed")
NotFound         == pc = "routing" /\ Respond(404, "not_found")
Live             == pc = "routing" /\ Respond(200, "ok")

\* The first check pings under the request's context.
Ready ==
    /\ pc = "routing"
    /\ \/ ~ctxDone /\ Respond(200, "ready")
       \/ Respond(503, "not_ready")

\* A scrape; promhttp serves a limited number of them at a time and, by its
\* default ErrorHandling, answers 500 when a collector fails.
Metrics ==
    /\ pc = "routing"
    /\ \/ Respond(200, "metrics")
       \/ Respond(503, "too_many_scrapes")
       \/ Respond(500, "gather_failed")

RouteClaim ==
    /\ pc = "routing"
    /\ server = "api"
    /\ Proceed("key")
    /\ UNCHANGED <<requestVars, callVars, metricVars>>

BodyWritten ==
    /\ pc = "writing"
    /\ Proceed("returned")
    /\ UNCHANGED <<requestVars, callVars, metricVars>>

-----------------------------------------------------------------------------
(* The reward-claim handler. *)

TrimSpace(v) == [v EXCEPT !.padded = FALSE]
Length(v)    == IF v.padded THEN v.size + 1 ELSE v.size

\* validateIdempotencyKey, the same in httpapi and in rewards.
validateIdempotencyKey(v) == Length(v) \in 1..MaxKeyLength /\ ~v.control

\* readIdempotencyKey: exactly one header value, valid once trimmed.
ReadIdempotencyKey ==
    /\ pc = "key"
    /\ \/ Respond(400, "idempotency_key_required")
       \/ Respond(400, "invalid_idempotency_key")
       \/ \E v \in KeyValues :
              /\ validateIdempotencyKey(TrimSpace(v))
              /\ key' = TrimSpace(v)
              /\ Proceed("content")
              /\ UNCHANGED <<cmd, params, callVars, metricVars>>

CheckContentType ==
    /\ pc = "content"
    /\ \/ Respond(415, "unsupported_media_type")
       \/ Proceed("decode") /\ UNCHANGED <<requestVars, callVars, metricVars>>

\* decodeCreateRewardClaimRequest: too large; an unknown member; unreadable,
\* blank, malformed or null; or an object.
DecodeBody ==
    /\ pc = "decode"
    /\ \/ Respond(413, "request_body_too_large")
       \/ Respond(400, "invalid_request")
       \/ Respond(400, "invalid_json")
       \/ /\ cmd' \in [Fields -> IDs]
          /\ Proceed("prepare")
          /\ UNCHANGED <<key, params, callVars, metricVars>>

\* Faulty variant: bytes are counted, as for the key.
validateClaimIDBytes(v) ==
    LET bytes == IF v.wide THEN 2 * Length(v) ELSE Length(v)
    IN  bytes \in 1..MaxIDLength /\ ~v.nul

\* utf8.RuneCountInString, not len.
validateClaimID(v) == Length(v) \in 1..MaxIDLength /\ ~v.nul

\* Faulty variant: the query's context is not set up.
PrepareWithoutContext ==
    /\ pc = "prepare"
    /\ params' = [f \in Fields |-> TrimSpace(cmd[f])]
    /\ Proceed("calling")
    /\ UNCHANGED <<key, cmd, callVars, metricVars>>

\* prepareCreateClaim trims and validates; then createClaim derives its query
\* context from the request's.
PrepareCreateClaim ==
    LET trimmed == [f \in Fields |-> TrimSpace(cmd[f])]
        valid   == /\ \A f \in Fields : validateClaimID(trimmed[f])
                   /\ validateIdempotencyKey(TrimSpace(key))
    IN  /\ pc = "prepare"
        /\ IF valid
           THEN /\ params' = trimmed
                /\ query' = IF ctxDone THEN "canceled" ELSE "live"
                /\ Proceed("calling")
                /\ UNCHANGED err
           ELSE /\ err' = "invalid"
                /\ Proceed("responding")
                /\ UNCHANGED <<params, query>>
        /\ UNCHANGED <<key, cmd, driverErr, result, metricVars>>

\* postgres.IsUnavailable: a server error is judged by its SQLSTATE alone; a
\* context's error is not taken for a failure of the network.
IsUnavailable(e) ==
    IF e \cap {"pg_unavailable", "pg_other"} # {}
    THEN "pg_unavailable" \in e
    ELSE \/ e \cap {"conn_closed", "pg_timeout"} # {}
         \/ "network" \in e /\ e \cap {"Canceled", "DeadlineExceeded"} = {}

\* queryCtx.Err()
QueryErr ==
    CASE query = "timeout"  -> "DeadlineExceeded"
      [] query = "canceled" -> "Canceled"
      [] OTHER              -> "none"

\* Faulty variant: the cause of the context's end is not looked at.
mapPostgresErrorNoCause(e) ==
    IF QueryErr \in e THEN "Canceled" ELSE IF IsUnavailable(e) THEN "unavailable" ELSE "internal"

\* mapPostgresError; ErrNoRows is handled before it by its only two sources.
mapPostgresError(e) ==
    CASE QueryErr \in e                        -> IF query = "timeout" THEN "unavailable" ELSE "Canceled"
      [] QueryErr \notin e /\ IsUnavailable(e)  -> "unavailable"
      [] QueryErr \notin e /\ ~IsUnavailable(e) -> "internal"

\* createClaim returns a result, refuses the key, or fails with any error of
\* the driver; for a context that is done, also with that context's error.
CreateClaimReturns ==
    /\ pc = "calling"
    /\ \/ result' \in Results /\ UNCHANGED <<driverErr, err>>
       \/ err' = "key_reused" /\ UNCHANGED <<driverErr, result>>
       \/ /\ driverErr' \in SUBSET Traits
          /\ err' = mapPostgresError(driverErr')
          /\ UNCHANGED result
    /\ query' = IF query = "live" THEN "none" ELSE query   \* defer cancel()
    /\ Proceed("observing")
    /\ UNCHANGED <<requestVars, metricVars>>

mapClaimSuccess(r) ==
    CASE r.status = 201 -> IF r.replayed THEN "replayed_created" ELSE "created"
      [] r.status = 409 -> IF r.replayed THEN "replayed_already_claimed" ELSE "already_claimed"

\* ObserveRewardClaim: the label of reward_claim_operations_total.
ClaimLabel ==
    CASE err = "none"        -> mapClaimSuccess(result)
      [] err = "key_reused"  -> "idempotency_key_reused"
      [] err = "Canceled"    -> "canceled"
      [] err = "unavailable" -> "unavailable"
      [] err = "internal"    -> "internal_error"

Observe ==
    /\ pc = "observing"
    /\ claimMetric' = Append(claimMetric, ClaimLabel)
    /\ Proceed("responding")
    /\ UNCHANGED <<requestVars, callVars, httpMetric>>

RespondResult ==
    /\ pc = "responding"
    /\ err = "none"
    /\ Respond(result.status, IF result.status = 201 THEN "created" ELSE "reward_already_claimed")

\* Faulty variant: a query that timed out is taken for a canceled request.
isCanceledOrTimedOut == err \in {"Canceled", "unavailable"}

\* ctxErr != nil && errors.Is(err, ctxErr): a request context is only canceled.
isRequestContextError == ctxDone /\ err = "Canceled"

\* Nobody is there to be answered.
StaySilent ==
    /\ pc = "responding"
    /\ isRequestContextError
    /\ Proceed("returned")
    /\ UNCHANGED <<requestVars, callVars, metricVars>>

\* Faulty variant: no case for a reused key.
writeCreateClaimErrorNoReuse ==
    CASE err = "invalid"     -> Respond(400, "invalid_request")
      [] err = "unavailable" -> Respond(503, "service_unavailable")
      [] OTHER               -> Respond(500, "internal_error")

writeCreateClaimError ==
    CASE err = "key_reused"  -> Respond(409, "idempotency_key_reused")
      [] err = "invalid"     -> Respond(400, "invalid_request")
      [] err = "unavailable" -> Respond(503, "service_unavailable")
      [] OTHER               -> Respond(500, "internal_error")

RespondError ==
    /\ pc = "responding"
    /\ err # "none"
    /\ ~isRequestContextError
    /\ writeCreateClaimError

-----------------------------------------------------------------------------
(* requestLogger's deferred function, and net/http. *)

\* Faulty variant: a response that was begun is ended as if it were whole.
AbortOnRequestOnly == panic = "abort"

\* A response that was begun cannot be replaced: the connection is aborted.
Abort == panic = "abort" \/ (panic = "other" /\ rec.wroteHeader)

\* Faulty variant: the status recorded before the panic is kept.
HandleRecoveredPanicKeepsStatus ==
    IF panic = "none" \/ Abort THEN UNCHANGED replyVars ELSE WriteHeader(500, "internal_error")

HandleRecoveredPanic ==
    CASE panic = "none"           -> UNCHANGED replyVars
      [] panic # "none" /\ Abort  -> rec' = [rec EXCEPT !.status = 0] /\ UNCHANGED sent
      [] panic # "none" /\ ~Abort -> WriteHeader(500, "internal_error")

\* The rest of the deferred function: ObserveRequest, and the panic again when
\* the connection is to be aborted.
Log(status) ==
    /\ httpMetric' = Append(httpMetric, status)
    /\ pc' = IF Abort THEN "repanicked" ELSE "logged"
    /\ UNCHANGED <<server, panic, ctxDone, requestVars, callVars, claimMetric>>

\* The API's middleware does not count an implicit 200 for a client that left.
LogRequest ==
    /\ server = "api"
    /\ pc \in {"returned", "panicked"}
    /\ HandleRecoveredPanic
    /\ Log(IF ctxDone /\ ~rec'.wroteHeader THEN 0 ELSE rec'.status)

LogAdminRequest ==
    /\ server = "admin"
    /\ pc \in {"returned", "panicked"}
    /\ HandleRecoveredPanic
    /\ Log(rec'.status)

\* net/http completes the response, with a header of its own when the handler
\* wrote none.
FinishExchange ==
    /\ pc = "logged"
    /\ sent' = IF sent = NULL THEN [status |-> 200, code |-> "implicit"] ELSE sent
    /\ pc' = "completed"
    /\ UNCHANGED <<server, panic, ctxDone, requestVars, callVars, rec, metricVars>>

\* net/http closes the connection of a handler that panicked.
AbortConnection ==
    /\ pc = "repanicked"
    /\ pc' = "aborted"
    /\ UNCHANGED <<server, panic, ctxDone, requestVars, callVars, replyVars, metricVars>>

-----------------------------------------------------------------------------
HandlerStep ==
    \/ MethodNotAllowed
    \/ NotFound
    \/ Live
    \/ Ready
    \/ Metrics
    \/ RouteClaim
    \/ ReadIdempotencyKey
    \/ CheckContentType
    \/ DecodeBody
    \/ PrepareCreateClaim
    \/ Observe
    \/ RespondResult
    \/ StaySilent
    \/ RespondError
    \/ BodyWritten
    \/ LogRequest
    \/ LogAdminRequest
    \/ FinishExchange
    \/ AbortConnection

Next == ClientGone \/ PropagateCancel \/ QueryTimeout \/ Panic \/ CreateClaimReturns \/ HandlerStep

Spec == Init /\ [][Next]_vars

\* The handler runs, reading and writing end by the server's timeouts, the
\* query timeout expires, and the driver returns once its context is done.
\* Nothing is assumed of the database while the context is live.
Fairness ==
    /\ WF_vars(HandlerStep)
    /\ WF_vars(QueryTimeout)
    /\ WF_vars(query # "live" /\ CreateClaimReturns)

LiveSpec == Spec /\ Fairness

-----------------------------------------------------------------------------
(* Properties. *)

\* Every variable has its type; the service runs under a query context, and
\* what is to be answered is either a result or an error.
TypeOK ==
    /\ server \in {"api", "admin"}
    /\ pc \in HandlerPCs \cup {"panicked", "returned", "logged", "repanicked", "completed", "aborted"}
    /\ panic \in {"none", "abort", "other"}
    /\ ctxDone \in BOOLEAN
    /\ key = NULL \/ key \in KeyValues
    /\ cmd = NULL \/ cmd \in [Fields -> IDs]
    /\ params = NULL \/ params \in [Fields -> IDs]
    /\ query \in {"none", "live", "timeout", "canceled"}
    /\ driverErr \in SUBSET Traits
    /\ err \in Errors
    /\ result \in Results \cup {NULL}
    /\ rec \in [status : {0} \cup Statuses, wroteHeader : BOOLEAN]
    /\ sent \in Header \cup {NULL}
    /\ claimMetric \in {<<>>} \cup {<<l>> : l \in Labels}
    /\ Len(httpMetric) \in 0..1
    /\ pc = "calling" => query # "none"
    /\ pc \in {"observing", "responding"} => (err = "none" <=> result # NULL)

\* Every request is counted once, with the status of the header its client
\* was sent, or with 0 when it was sent no whole response of the handler's:
\* after a panic, an abort, or the end of the request's context.
RecordedIsSent ==
    Ended =>
        httpMetric = <<IF pc = "aborted" \/ sent.code = "implicit" THEN 0 ELSE sent.status>>

\* The 200 that net/http sends for a handler that wrote nothing is sent only
\* when the client has gone: nobody takes silence for a granted reward.
NoImplicitSuccess ==
    sent # NULL /\ sent.code = "implicit" => ctxDone

\* Three switches classify one error: what the client is answered and what
\* the reward metrics count never contradict each other.
OutcomesAgree ==
    Ended /\ panic = "none" /\ claimMetric # <<>> =>
        LET expected ==
                CASE claimMetric[1] \in {"created", "replayed_created"} -> {<<201, "created">>}
                  [] claimMetric[1] \in {"already_claimed", "replayed_already_claimed"} ->
                         {<<409, "reward_already_claimed">>}
                  [] claimMetric[1] = "idempotency_key_reused" -> {<<409, "idempotency_key_reused">>}
                  [] claimMetric[1] = "unavailable"            -> {<<503, "service_unavailable">>}
                  [] claimMetric[1] = "internal_error"         -> {<<500, "internal_error">>}
                  [] claimMetric[1] = "canceled"               -> {<<200, "implicit">>}
        IN  <<sent.status, sent.code>> \in expected

\* Caller and query timeout race: the first of them decides.  The service's
\* own timeout is an unavailable dependency, answered 503 also when the client
\* leaves meanwhile; the caller's cancellation is never blamed on PostgreSQL.
FirstCauseDecides ==
    claimMetric # <<>> /\ QueryErr \in driverErr =>
        claimMetric[1] = IF query = "timeout" THEN "unavailable" ELSE "canceled"

\* CHECK (length(...) BETWEEN 1 AND 128) on a text column, which has no NUL.
Storable(v) == Length(v) \in 1..MaxColumnLength /\ ~v.nul

\* The validation asks for exactly what the tables can store: what passes is
\* never an internal error of a CHECK, what is refused could not be stored;
\* and the second check of the key never contradicts the handler's.
ValidationMatchesTable ==
    /\ pc = "calling" => \A f \in Fields : Storable(params[f])
    /\ err = "invalid" => \E f \in Fields : ~Storable(TrimSpace(cmd[f]))

\* A client never sees a whole response of a handler that panicked, but for
\* the 500 of the middleware.
PanicIsVisible ==
    pc = "completed" /\ panic # "none" => sent.status = 500

\* Every request ends, whether or not the database answers.
EveryExchangeEnds == <>Ended
=============================================================================
