------------------------- MODULE HttpExchangeProofs -------------------------
(***************************************************************************)
(* Proofs about HttpExchange, for every limit on the lengths: response,    *)
(* recorded status and metrics tell one story, whatever happens beside the *)
(* handler.  The invariant says what is known at each place of the         *)
(* exchange.                                                               *)
(***************************************************************************)
EXTENDS HttpExchange, TLAPS

-----------------------------------------------------------------------------
(* The inductive invariant. *)

BeforeCall == {"routing", "key", "content", "decode", "prepare"}
ClaimPCs   == {"key", "content", "decode", "prepare", "calling", "observing", "responding"}

\* The statusRecorder and net/http have seen the same header, until the
\* status is struck out for an aborted connection.
HeaderRecorded ==
    /\ rec.wroteHeader =>
           /\ sent # NULL
           /\ sent.code # "implicit"
           /\ pc \notin {"repanicked", "aborted"} => rec.status = sent.status
    /\ ~rec.wroteHeader =>
           sent = IF pc = "completed" THEN [status |-> 200, code |-> "implicit"] ELSE NULL
    /\ pc \in {"routing"} \cup ClaimPCs => ~rec.wroteHeader
    /\ pc = "writing" => rec.wroteHeader

\* A panic ends in an abort or in the middleware's 500.
PanicHandled ==
    /\ pc \in HandlerPCs \cup {"returned"} => panic = "none"
    /\ pc \in {"panicked", "repanicked", "aborted"} => panic # "none"
    /\ pc \in {"logged", "completed"} /\ panic # "none" =>
           rec.wroteHeader /\ sent.status = 500

\* Only the claim handler is ever silent, and only towards a client that left.
SilenceExcused ==
    /\ pc \in ClaimPCs => server = "api"
    /\ pc \in {"returned", "logged", "completed"} /\ ~rec.wroteHeader =>
           server = "api" /\ ctxDone /\ err = "Canceled"

\* The request is counted when the middleware logs it.
RequestCounted ==
    /\ pc \in HandlerPCs \cup {"panicked", "returned"} => httpMetric = <<>>
    /\ pc \in {"logged", "completed"} =>
           httpMetric = <<IF rec.wroteHeader THEN sent.status ELSE 0>>
    /\ pc \in {"repanicked", "aborted"} => httpMetric = <<0>>

\* What CreateClaim returned, once it has.
Classified ==
    /\ err # "invalid"
    /\ err = "none" <=> result # NULL
    /\ query # "live"
    /\ QueryErr \in driverErr =>
           err = IF query = "timeout" THEN "unavailable" ELSE "Canceled"

\* The call and its error: the caller's cancellation is an error only of a
\* request whose context is done.
CallClassified ==
    /\ query = "canceled" \/ err = "Canceled" => ctxDone
    /\ pc \in BeforeCall => query = "none"
    /\ pc \in BeforeCall \cup {"calling"} => driverErr = {} /\ result = NULL /\ err = "none"
    /\ pc \in BeforeCall \cup {"calling", "observing"} => claimMetric = <<>>
    /\ pc = "observing" => Classified
    /\ claimMetric # <<>> => Classified /\ claimMetric = <<ClaimLabel>>
    /\ pc = "responding" => (err = "invalid" <=> claimMetric = <<>>)

\* The answer that goes with an error, or with the result.
Answer ==
    CASE err = "none" ->
             [status |-> result.status,
              code   |-> IF result.status = 201 THEN "created" ELSE "reward_already_claimed"]
      [] err = "key_reused"  -> [status |-> 409, code |-> "idempotency_key_reused"]
      [] err = "unavailable" -> [status |-> 503, code |-> "service_unavailable"]
      [] err = "internal"    -> [status |-> 500, code |-> "internal_error"]

\* What was counted for the claim is what its client was answered.
AnswerMatchesCall ==
    /\ claimMetric # <<>>
    /\ panic = "none"
    /\ pc \in {"writing", "returned", "logged", "completed"}
    /\ rec.wroteHeader
    => err # "Canceled" /\ sent = Answer

\* What the two validations have established so far.
InputValidated ==
    /\ pc \in {"content", "decode", "prepare"} =>
           key \in KeyValues /\ ~key.padded /\ validateIdempotencyKey(key)
    /\ pc = "prepare" => cmd \in [Fields -> IDs]
    /\ pc = "calling" => \A f \in Fields : Storable(params[f])
    /\ err = "invalid" => \E f \in Fields : ~Storable(TrimSpace(cmd[f]))

HttpInv ==
    /\ TypeOK
    /\ HeaderRecorded
    /\ PanicHandled
    /\ SilenceExcused
    /\ RequestCounted
    /\ CallClassified
    /\ AnswerMatchesCall
    /\ InputValidated

-----------------------------------------------------------------------------
(* Its parts, step by step. *)

\* A fresh request satisfies the invariant.
LEMMA HttpInit == Init => HttpInv
<1> SUFFICES ASSUME Init PROVE HttpInv  OBVIOUS
<1> USE DEF Init, HandlerPCs, ClaimPCs
<1>1. TypeOK
  <2>1. claimMetric \in {<<>>} \cup {<<l>> : l \in Labels}
    BY Zenon
  <2>2. Len(httpMetric) \in 0..1
    OBVIOUS
  <2>3. rec \in [status : {0} \cup Statuses, wroteHeader : BOOLEAN]
    BY DEF Statuses
  <2> QED
    BY <2>1, <2>2, <2>3 DEF TypeOK, Errors, Statuses
<1>2. HeaderRecorded /\ PanicHandled /\ SilenceExcused
  BY DEF HeaderRecorded, PanicHandled, SilenceExcused
<1>3. RequestCounted
  BY DEF RequestCounted
<1>4. CallClassified
  BY DEF CallClassified, BeforeCall
<1>5. AnswerMatchesCall /\ InputValidated
  BY DEF AnswerMatchesCall, InputValidated
<1> QED
  BY <1>1, <1>2, <1>3, <1>4, <1>5 DEF HttpInv

\* What the error and the result decide does not change with anything else.
LEMMA CallFrame ==
    UNCHANGED callVars =>
        /\ ClaimLabel' = ClaimLabel
        /\ Answer' = Answer
        /\ Classified' = Classified
BY DEF callVars, ClaimLabel, mapClaimSuccess, Answer, Classified, QueryErr

\* Nothing of the strings changes while the request is only passed on.
LEMMA RequestFrame ==
    UNCHANGED requestVars =>
        /\ (\A f \in Fields : Storable(params[f]))' = (\A f \in Fields : Storable(params[f]))
        /\ (\E f \in Fields : ~Storable(TrimSpace(cmd[f])))' =
               (\E f \in Fields : ~Storable(TrimSpace(cmd[f])))
        /\ validateIdempotencyKey(key)' = validateIdempotencyKey(key)
BY DEF requestVars, Storable, TrimSpace, Length, validateIdempotencyKey

\* A header is not the absence of one.
LEMMA HeaderIsNotNull ==
    ASSUME NEW status \in Statuses, NEW code \in Codes
    PROVE  /\ [status |-> status, code |-> code] \in Header
           /\ [status |-> status, code |-> code] # NULL
BY LimitsAssumption DEF Header

\* writeError, writeJSON, writeRawJSON: a handler that has written nothing yet
\* answers; a claim that was counted, with what goes with its outcome.
LEMMA RespondStep ==
    ASSUME HttpInv,
           NEW status \in Statuses, NEW code \in Codes \ {"implicit"},
           pc \in {"routing"} \cup ClaimPCs,
           Respond(status, code),
           claimMetric # <<>> => err # "Canceled" /\ [status |-> status, code |-> code] = Answer
    PROVE  HttpInv'
<1> USE DEF HttpInv
<1>1. /\ rec' = [status |-> status, wroteHeader |-> TRUE]
      /\ sent' = [status |-> status, code |-> code]
      /\ pc' = "writing"
      /\ UNCHANGED <<server, panic, ctxDone, requestVars, callVars, metricVars>>
  BY DEF Respond, WriteHeader, HeaderRecorded
<1>2. UNCHANGED <<server, panic, ctxDone, key, cmd, params, query, driverErr, err, result,
                  claimMetric, httpMetric>>
  BY <1>1 DEF requestVars, callVars, metricVars
<1>3. TypeOK'
  BY <1>1, <1>2, HeaderIsNotNull DEF TypeOK, HandlerPCs
<1>4. HeaderRecorded'
  BY <1>1, HeaderIsNotNull DEF HeaderRecorded, ClaimPCs
<1>5. PanicHandled' /\ SilenceExcused' /\ RequestCounted'
  BY <1>1, <1>2 DEF PanicHandled, SilenceExcused, RequestCounted, HandlerPCs, ClaimPCs
<1>6. CallClassified'
  BY <1>1, <1>2, CallFrame DEF CallClassified, BeforeCall
<1>7. AnswerMatchesCall'
  BY <1>1, <1>2, CallFrame DEF AnswerMatchesCall
<1>8. InputValidated'
  BY <1>1, <1>2, RequestFrame DEF InputValidated
<1> QED
  BY <1>3, <1>4, <1>5, <1>6, <1>7, <1>8

\* The client, the timer and the propagation of a cancellation keep it.
LEMMA BesideStep ==
    ASSUME HttpInv, ClientGone \/ PropagateCancel \/ QueryTimeout
    PROVE  HttpInv'
<1> USE DEF HttpInv
<1>1. /\ UNCHANGED <<server, pc, panic, key, cmd, params, driverErr, err, result, rec, sent,
                     claimMetric, httpMetric>>
      /\ ctxDone' \in BOOLEAN /\ (ctxDone => ctxDone')
      /\ query' # query =>
             query = "live" /\ query' \in {"canceled", "timeout"} /\ (query' = "canceled" => ctxDone')
  <2> USE DEF requestVars, callVars, replyVars, metricVars, TypeOK
  <2>1. CASE ClientGone  BY <2>1 DEF ClientGone
  <2>2. CASE PropagateCancel  BY <2>2 DEF PropagateCancel
  <2>3. CASE QueryTimeout  BY <2>3 DEF QueryTimeout
  <2> QED  BY <2>1, <2>2, <2>3
<1>2. TypeOK'
  BY <1>1 DEF TypeOK
<1>3. HeaderRecorded' /\ PanicHandled' /\ SilenceExcused' /\ RequestCounted'
  BY <1>1 DEF HeaderRecorded, PanicHandled, SilenceExcused, RequestCounted
<1>4. ClaimLabel' = ClaimLabel /\ Answer' = Answer
  BY <1>1 DEF ClaimLabel, mapClaimSuccess, Answer
<1>5. query # "live" => Classified' = Classified
  BY <1>1 DEF Classified, QueryErr
<1>6. CallClassified'
  BY <1>1, <1>4, <1>5 DEF CallClassified, Classified
<1>7. AnswerMatchesCall'
  BY <1>1, <1>4 DEF AnswerMatchesCall
<1>8. InputValidated'
  BY <1>1, RequestFrame DEF InputValidated, requestVars
<1> QED
  BY <1>2, <1>3, <1>6, <1>7, <1>8

\* A step that only moves on keeps what is known of the response.
LEMMA HandlerResponse ==
    ASSUME HttpInv,
           pc \in ClaimPCs \cup {"routing"},
           pc' \in ClaimPCs,
           server = "api",
           UNCHANGED <<server, panic, ctxDone, rec, sent, httpMetric>>
    PROVE  /\ HeaderRecorded' /\ PanicHandled' /\ SilenceExcused' /\ RequestCounted'
           /\ AnswerMatchesCall'
BY DEF HttpInv, HeaderRecorded, PanicHandled, SilenceExcused, RequestCounted,
       AnswerMatchesCall, ClaimPCs, HandlerPCs

\* Routing, and the checks before the claim is decoded.
LEMMA AdmitStep ==
    ASSUME HttpInv, RouteClaim \/ CheckContentType \/ ReadIdempotencyKey \/ DecodeBody
    PROVE  HttpInv'
<1> USE DEF HttpInv
<1>1. CASE \E status \in Statuses, code \in Codes \ {"implicit"} : Respond(status, code)
  <2>1. claimMetric = <<>> /\ pc \in {"routing"} \cup ClaimPCs
    BY DEF CallClassified, BeforeCall, ClaimPCs, RouteClaim, CheckContentType,
           ReadIdempotencyKey, DecodeBody
  <2> HIDE DEF HttpInv
  <2> QED
    BY <1>1, <2>1, RespondStep
<1>2. CASE /\ pc \in BeforeCall /\ pc' \in {"key", "content", "decode", "prepare"}
           /\ server = "api"
           /\ UNCHANGED <<server, panic, ctxDone, params, rec, sent, query, driverErr, err,
                          result, claimMetric, httpMetric>>
           /\ \/ pc' = "key" /\ UNCHANGED <<key, cmd>>
              \/ /\ pc' = "content"
                 /\ key' \in KeyValues /\ ~key'.padded /\ validateIdempotencyKey(key')
                 /\ UNCHANGED cmd
              \/ pc' = "decode" /\ pc = "content" /\ UNCHANGED <<key, cmd>>
              \/ /\ pc' = "prepare" /\ pc = "decode"
                 /\ cmd' \in [Fields -> IDs]
                 /\ UNCHANGED key
  <2>1. TypeOK'
    BY <1>2 DEF TypeOK, BeforeCall, HandlerPCs
  <2>2. /\ HeaderRecorded' /\ PanicHandled' /\ SilenceExcused' /\ RequestCounted'
        /\ AnswerMatchesCall'
    BY <1>2, HandlerResponse DEF BeforeCall, ClaimPCs
  <2>3. CallClassified'
    BY <1>2 DEF CallClassified, BeforeCall
  <2>4. InputValidated'
    BY <1>2 DEF InputValidated, CallClassified, validateIdempotencyKey, Length
  <2> QED
    BY <2>1, <2>2, <2>3, <2>4
<1>3. \A v \in KeyValues : TrimSpace(v) \in KeyValues /\ ~TrimSpace(v).padded
  BY DEF KeyValues, TrimSpace
<1> USE DEF Proceed, BeforeCall, ClaimPCs, SilenceExcused, requestVars, callVars, replyVars,
            metricVars
<1>4. CASE RouteClaim  BY <1>2, <1>4 DEF RouteClaim
<1>5. CASE CheckContentType  BY <1>1, <1>2, <1>5 DEF CheckContentType, Statuses, Codes
<1>6. CASE ReadIdempotencyKey
  BY <1>1, <1>2, <1>3, <1>6 DEF ReadIdempotencyKey, Statuses, Codes
<1>7. CASE DecodeBody  BY <1>1, <1>2, <1>7 DEF DecodeBody, Statuses, Codes
<1> QED
  BY <1>4, <1>5, <1>6, <1>7

\* prepareCreateClaim: what passes can be stored; what is refused could not be,
\* the key having passed the same check before.
LEMMA PrepareStep ==
    ASSUME HttpInv, PrepareCreateClaim
    PROVE  HttpInv'
<1> USE DEF HttpInv
<1> DEFINE trimmed == [f \in Fields |-> TrimSpace(cmd[f])]
           valid   == \A f \in Fields : validateClaimID(trimmed[f])
<1>1. pc = "prepare" /\ cmd \in [Fields -> IDs] /\ server = "api" /\ UNCHANGED cmd
  BY DEF PrepareCreateClaim, InputValidated, SilenceExcused, ClaimPCs
<1>2. trimmed \in [Fields -> IDs]
  <2>1. \A v \in IDs : TrimSpace(v) \in IDs  BY DEF IDs, TrimSpace
  <2> QED  BY <1>1, <2>1
<1>3. validateIdempotencyKey(TrimSpace(key))
  <2>1. key \in KeyValues /\ ~key.padded /\ validateIdempotencyKey(key)
    BY <1>1 DEF InputValidated
  <2>2. TrimSpace(key) = key
    BY <2>1 DEF TrimSpace, KeyValues
  <2> QED  BY <2>1, <2>2
<1>4. valid <=> \A f \in Fields : Storable(TrimSpace(cmd[f]))
  BY ColumnAssumption DEF validateClaimID, Storable
<1>5. /\ UNCHANGED <<server, panic, ctxDone, key, driverErr, result, rec, sent, claimMetric,
                     httpMetric>>
      /\ \/ /\ valid /\ pc' = "calling" /\ params' = trimmed /\ UNCHANGED err
            /\ query' = IF ctxDone THEN "canceled" ELSE "live"
         \/ ~valid /\ pc' = "responding" /\ err' = "invalid" /\ UNCHANGED <<params, query>>
  BY <1>3 DEF PrepareCreateClaim, Proceed, replyVars, metricVars
<1>6. (\A f \in Fields : Storable(params[f]))' <=> \A f \in Fields : Storable(params'[f])
  BY DEF Storable, Length
<1>7. (\E f \in Fields : ~Storable(TrimSpace(cmd[f])))' <=>
          \E f \in Fields : ~Storable(TrimSpace(cmd[f]))
  BY <1>1 DEF Storable, Length, TrimSpace
<1>8. valid => \A f \in Fields : Storable(trimmed[f])
  BY <1>4
<1> HIDE DEF trimmed, valid
<1>9. TypeOK'
  BY <1>1, <1>2, <1>5 DEF TypeOK, HandlerPCs, Errors, CallClassified, BeforeCall
<1>10. /\ HeaderRecorded' /\ PanicHandled' /\ SilenceExcused' /\ RequestCounted'
       /\ AnswerMatchesCall'
  BY <1>1, <1>5, HandlerResponse DEF ClaimPCs
<1>11. CallClassified'
  BY <1>1, <1>5 DEF CallClassified, BeforeCall
<1>12. InputValidated'
  BY <1>1, <1>4, <1>5, <1>6, <1>7, <1>8 DEF InputValidated, CallClassified, BeforeCall
<1> QED
  BY <1>9, <1>10, <1>11, <1>12

\* mapPostgresError: the first cause decides, and nothing else is canceled.
LEMMA MappedError ==
    ASSUME TypeOK, NEW e \in SUBSET Traits
    PROVE  /\ mapPostgresError(e) \in {"unavailable", "internal", "Canceled"}
           /\ mapPostgresError(e) = "Canceled" => query = "canceled"
           /\ QueryErr \in e =>
                  mapPostgresError(e) = IF query = "timeout" THEN "unavailable" ELSE "Canceled"
           /\ QueryErr \in e => query \in {"timeout", "canceled"}
BY DEF TypeOK, Traits, mapPostgresError, QueryErr

\* CreateClaim returns: a result or an error, classified by the first cause.
LEMMA ReturnStep ==
    ASSUME HttpInv, CreateClaimReturns
    PROVE  HttpInv'
<1> USE DEF HttpInv
<1>1. /\ pc = "calling" /\ pc' = "observing" /\ server = "api"
      /\ driverErr = {} /\ result = NULL /\ err = "none" /\ claimMetric = <<>>
  BY DEF CreateClaimReturns, Proceed, CallClassified, SilenceExcused, ClaimPCs
<1>2. /\ UNCHANGED <<server, panic, ctxDone, key, cmd, params, rec, sent, claimMetric, httpMetric>>
      /\ query' = IF query = "live" THEN "none" ELSE query
  BY DEF CreateClaimReturns, Proceed, requestVars, replyVars, metricVars
<1>3. /\ driverErr' \in SUBSET Traits
      /\ result' \in Results \cup {NULL}
      /\ err' \in Errors \ {"invalid"}
      /\ err' = "none" <=> result' # NULL
      /\ err' = "Canceled" => query = "canceled"
      /\ QueryErr' \in driverErr' =>
             err' = IF query' = "timeout" THEN "unavailable" ELSE "Canceled"
  <2>1. CASE result' \in Results /\ UNCHANGED <<driverErr, err>>
    BY <1>1, <2>1, LimitsAssumption DEF Errors
  <2>2. CASE err' = "key_reused" /\ UNCHANGED <<driverErr, result>>
    BY <1>1, <2>2 DEF Errors
  <2>3. CASE /\ driverErr' \in SUBSET Traits
             /\ err' = mapPostgresError(driverErr')
             /\ UNCHANGED result
    <3>1. QueryErr' = QueryErr
      BY <1>2 DEF QueryErr
    <3> QED
      BY <1>1, <1>2, <2>3, <3>1, MappedError DEF Errors
  <2> QED
    BY <2>1, <2>2, <2>3 DEF CreateClaimReturns
<1>4. TypeOK'
  BY <1>1, <1>2, <1>3 DEF TypeOK, HandlerPCs
<1>5. /\ HeaderRecorded' /\ PanicHandled' /\ SilenceExcused' /\ RequestCounted'
      /\ AnswerMatchesCall'
  BY <1>1, <1>2, HandlerResponse DEF ClaimPCs
<1>6. Classified'
  BY <1>2, <1>3 DEF Classified
<1>7. CallClassified'
  BY <1>1, <1>2, <1>3, <1>6 DEF CallClassified, BeforeCall
<1>8. InputValidated'
  BY <1>1, <1>2, <1>3, RequestFrame DEF InputValidated, requestVars
<1> QED
  BY <1>4, <1>5, <1>7, <1>8

\* Probes, scrapes and unknown routes answer at once.
LEMMA RouteStep ==
    ASSUME HttpInv, MethodNotAllowed \/ NotFound \/ Live \/ Ready \/ Metrics
    PROVE  HttpInv'
<1>1. pc = "routing" /\ \E status \in Statuses, code \in Codes \ {"implicit"} : Respond(status, code)
  BY DEF MethodNotAllowed, NotFound, Live, Ready, Metrics, Statuses, Codes
<1>2. claimMetric = <<>>
  BY <1>1 DEF HttpInv, CallClassified, BeforeCall
<1> QED
  BY <1>1, <1>2, RespondStep

\* ObserveRewardClaim has a label for everything CreateClaim returns.
LEMMA LabelKnown ==
    ASSUME TypeOK, Classified
    PROVE  ClaimLabel \in Labels
<1>1. err \in Errors \ {"invalid"} /\ (err = "none" => result \in Results)
  BY DEF TypeOK, Classified
<1>2. CASE err = "none"
  <2>1. result.status \in {201, 409}
    BY <1>1, <1>2 DEF Results
  <2> QED
    BY <1>2, <2>1 DEF ClaimLabel, mapClaimSuccess, Labels
<1>3. CASE err # "none"
  BY <1>1, <1>3 DEF ClaimLabel, Labels, Errors
<1> QED
  BY <1>2, <1>3

\* The claim is counted, once.
LEMMA ObserveStep ==
    ASSUME HttpInv, Observe
    PROVE  HttpInv'
<1> USE DEF HttpInv
<1>1. /\ pc = "observing" /\ pc' = "responding" /\ server = "api"
      /\ claimMetric = <<>> /\ Classified
  BY DEF Observe, Proceed, CallClassified, SilenceExcused, ClaimPCs
<1>2. UNCHANGED <<server, panic, ctxDone, key, cmd, params, query, driverErr, err, result, rec,
                  sent, httpMetric>>
  BY DEF Observe, Proceed, requestVars, callVars, replyVars
<1>3. claimMetric' = <<ClaimLabel>> /\ claimMetric' # <<>>
  <2>1. claimMetric' = Append(<<>>, ClaimLabel)
    BY <1>1 DEF Observe
  <2>2. \A x : Append(<<>>, x) = <<x>> /\ <<x>> # <<>>
    OBVIOUS
  <2> QED
    BY <2>1, <2>2
<1>4. TypeOK'
  <2>1. claimMetric' \in {<<l>> : l \in Labels}
    BY <1>1, <1>3, LabelKnown
  <2> QED
    BY <1>1, <1>2, <2>1 DEF TypeOK, HandlerPCs
<1>5. /\ HeaderRecorded' /\ PanicHandled' /\ SilenceExcused' /\ RequestCounted'
      /\ AnswerMatchesCall'
  BY <1>1, <1>2, HandlerResponse DEF ClaimPCs
<1>6. CallClassified'
  BY <1>1, <1>2, <1>3, CallFrame DEF CallClassified, BeforeCall, Classified, callVars
<1>7. InputValidated'
  BY <1>1, <1>2, RequestFrame DEF InputValidated, requestVars
<1> QED
  BY <1>4, <1>5, <1>6, <1>7

\* The claim is answered with what goes with its outcome.
LEMMA AnswerStep ==
    ASSUME HttpInv, RespondResult \/ RespondError
    PROVE  HttpInv'
<1>1. /\ pc = "responding" /\ TypeOK
      /\ claimMetric # <<>> => Classified
      /\ err = "none" => result \in Results
      /\ err = "Canceled" => ctxDone
      /\ err = "invalid" => claimMetric = <<>>
  BY DEF HttpInv, CallClassified, RespondResult, RespondError, TypeOK
<1>2. CASE RespondResult
  <2> DEFINE code == IF result.status = 201 THEN "created" ELSE "reward_already_claimed"
  <2>1. err = "none" /\ Respond(result.status, code)
    BY <1>2 DEF RespondResult
  <2>2. result.status \in Statuses /\ code \in Codes \ {"implicit"}
    BY <1>1, <2>1 DEF Results, Statuses, Codes
  <2>3. [status |-> result.status, code |-> code] = Answer
    BY <2>1 DEF Answer
  <2> HIDE DEF code
  <2> QED
    BY <1>1, <2>1, <2>2, <2>3, RespondStep DEF ClaimPCs
<1>3. CASE RespondError
  <2>1. err \in Errors \ {"none", "Canceled"}
    BY <1>1, <1>3 DEF RespondError, isRequestContextError, TypeOK
  <2>2. PICK status \in Statuses, code \in Codes \ {"implicit"} :
            /\ Respond(status, code)
            /\ err # "invalid" => [status |-> status, code |-> code] = Answer
    BY <1>3, <2>1 DEF RespondError, writeCreateClaimError, Answer, Errors, Statuses, Codes
  <2> QED
    BY <1>1, <2>1, <2>2, RespondStep DEF ClaimPCs
<1> QED
  BY <1>2, <1>3

\* The handler returns, silently or with the body written, or it panics.
LEMMA LeaveStep ==
    ASSUME HttpInv, StaySilent \/ BodyWritten \/ Panic
    PROVE  HttpInv'
<1> USE DEF HttpInv
<1>1. /\ UNCHANGED <<server, ctxDone, key, cmd, params, query, driverErr, err, result, rec, sent,
                     claimMetric, httpMetric>>
      /\ pc \in HandlerPCs
      /\ \/ /\ pc' = "returned" /\ UNCHANGED panic
            /\ \/ pc = "responding" /\ ctxDone /\ err = "Canceled"
               \/ pc = "writing"
         \/ pc' = "panicked" /\ panic' \in {"abort", "other"}
  <2> USE DEF requestVars, callVars, replyVars, metricVars, Proceed, HandlerPCs
  <2>1. CASE StaySilent  BY <2>1 DEF StaySilent, isRequestContextError
  <2>2. CASE BodyWritten  BY <2>2 DEF BodyWritten
  <2>3. CASE Panic  BY <2>3 DEF Panic
  <2> QED  BY <2>1, <2>2, <2>3
<1>2. TypeOK'
  BY <1>1 DEF TypeOK
<1>3. HeaderRecorded'
  BY <1>1 DEF HeaderRecorded, HandlerPCs, ClaimPCs
<1>4. PanicHandled' /\ RequestCounted'
  BY <1>1 DEF PanicHandled, RequestCounted, HandlerPCs
<1>5. SilenceExcused'
  BY <1>1 DEF SilenceExcused, HeaderRecorded, HandlerPCs, ClaimPCs
<1>6. CallClassified'
  BY <1>1, CallFrame DEF CallClassified, callVars, BeforeCall
<1>7. AnswerMatchesCall'
  BY <1>1, CallFrame DEF AnswerMatchesCall, HeaderRecorded, ClaimPCs, callVars
<1>8. InputValidated'
  BY <1>1, RequestFrame DEF InputValidated, requestVars
<1> QED
  BY <1>2, <1>3, <1>4, <1>5, <1>6, <1>7, <1>8

\* requestLogger's deferred function, of either server.
LEMMA LogStep ==
    ASSUME HttpInv, LogRequest \/ LogAdminRequest
    PROVE  HttpInv'
<1> USE DEF HttpInv
<1> DEFINE counted == IF server = "api" /\ ctxDone /\ ~rec'.wroteHeader THEN 0 ELSE rec'.status
<1>1. /\ pc \in {"returned", "panicked"} /\ HandleRecoveredPanic /\ Log(counted)
  BY DEF LogRequest, LogAdminRequest
<1>2. /\ UNCHANGED <<server, panic, ctxDone, key, cmd, params, query, driverErr, err, result,
                     claimMetric>>
      /\ pc' = IF Abort THEN "repanicked" ELSE "logged"
      /\ httpMetric' = <<counted>> /\ Len(httpMetric') = 1
  <2>1. httpMetric' = Append(<<>>, counted)
    BY <1>1 DEF Log, RequestCounted
  <2>2. \A x : Append(<<>>, x) = <<x>> /\ Len(<<x>>) = 1
    OBVIOUS
  <2>3. httpMetric' = <<counted>> /\ Len(httpMetric') = 1
    BY <2>1, <2>2
  <2> QED
    BY <1>1, <2>3 DEF Log, requestVars, callVars
<1>3. \/ panic = "none" /\ ~Abort /\ UNCHANGED <<rec, sent>>
      \/ panic # "none" /\ Abort /\ rec' = [rec EXCEPT !.status = 0] /\ UNCHANGED sent
      \/ /\ panic # "none" /\ ~Abort
         /\ rec' = [status |-> 500, wroteHeader |-> TRUE]
         /\ sent' = [status |-> 500, code |-> "internal_error"]
  BY <1>1 DEF HandleRecoveredPanic, WriteHeader, Abort, replyVars, TypeOK
<1>4. [status |-> 500, code |-> "internal_error"] \in Header \ {NULL}
  BY HeaderIsNotNull DEF Statuses, Codes
<1>5. rec \in [status : {0} \cup Statuses, wroteHeader : BOOLEAN]
  BY DEF TypeOK
<1>6. rec' \in [status : {0} \cup Statuses, wroteHeader : BOOLEAN]
  <2> DEFINE R == [status : {0} \cup Statuses, wroteHeader : BOOLEAN]
  <2> HIDE DEF HttpInv
  <2>1. rec \in R /\ [rec EXCEPT !.status = 0] \in R
    BY <1>5
  <2>2. [status |-> 500, wroteHeader |-> TRUE] \in R
    BY DEF Statuses
  <2> HIDE DEF R
  <2>3. rec' = rec => rec' \in R
    BY <2>1
  <2>4. rec' = [rec EXCEPT !.status = 0] => rec' \in R
    BY <2>1
  <2>5. rec' = [status |-> 500, wroteHeader |-> TRUE] => rec' \in R
    BY <2>2
  <2>6. rec' \in R
    BY <1>3, <2>3, <2>4, <2>5
  <2> QED
    BY <2>6 DEF R
<1> HIDE DEF counted
<1>7. TypeOK'
  BY <1>1, <1>2, <1>3, <1>4, <1>6 DEF TypeOK
<1>8. HeaderRecorded'
  BY <1>1, <1>2, <1>3, <1>4, <1>5 DEF HeaderRecorded, ClaimPCs
<1>9. PanicHandled'
  BY <1>1, <1>2, <1>3, <1>5 DEF PanicHandled, HandlerPCs, Abort
<1>10. SilenceExcused'
  BY <1>1, <1>2, <1>3, <1>5 DEF SilenceExcused, PanicHandled, ClaimPCs
<1>11. RequestCounted'
  BY <1>1, <1>2, <1>3, <1>5
  DEF RequestCounted, HandlerPCs, counted, SilenceExcused, HeaderRecorded, PanicHandled
<1>12. CallClassified'
  BY <1>1, <1>2, CallFrame DEF CallClassified, BeforeCall, callVars
<1>13. AnswerMatchesCall'
  BY <1>1, <1>2, <1>3, CallFrame DEF AnswerMatchesCall, PanicHandled, callVars
<1>14. InputValidated'
  BY <1>1, <1>2, RequestFrame DEF InputValidated, requestVars
<1> QED
  BY <1>7, <1>8, <1>9, <1>10, <1>11, <1>12, <1>13, <1>14

\* net/http ends the exchange.
LEMMA EndStep ==
    ASSUME HttpInv, FinishExchange \/ AbortConnection
    PROVE  HttpInv'
<1> USE DEF HttpInv
<1>1. /\ UNCHANGED <<server, panic, ctxDone, key, cmd, params, query, driverErr, err, result, rec,
                     claimMetric, httpMetric>>
      /\ \/ /\ pc = "logged" /\ pc' = "completed"
            /\ sent' = IF sent = NULL THEN [status |-> 200, code |-> "implicit"] ELSE sent
         \/ pc = "repanicked" /\ pc' = "aborted" /\ UNCHANGED sent
  <2> USE DEF requestVars, callVars, replyVars, metricVars
  <2>1. CASE FinishExchange  BY <2>1 DEF FinishExchange
  <2>2. CASE AbortConnection  BY <2>2 DEF AbortConnection
  <2> QED  BY <2>1, <2>2
<1>2. [status |-> 200, code |-> "implicit"] \in Header \ {NULL}
  BY HeaderIsNotNull DEF Statuses, Codes
<1>3. TypeOK'
  BY <1>1, <1>2 DEF TypeOK
<1>4. HeaderRecorded'
  BY <1>1, <1>2 DEF HeaderRecorded, ClaimPCs
<1>5. PanicHandled'
  BY <1>1, <1>2 DEF PanicHandled, HeaderRecorded, HandlerPCs
<1>6. SilenceExcused'
  BY <1>1 DEF SilenceExcused, ClaimPCs
<1>7. RequestCounted'
  BY <1>1 DEF RequestCounted, HeaderRecorded, HandlerPCs
<1>8. CallClassified'
  BY <1>1, CallFrame DEF CallClassified, BeforeCall, callVars
<1>9. AnswerMatchesCall'
  BY <1>1, CallFrame DEF AnswerMatchesCall, HeaderRecorded, callVars
<1>10. InputValidated'
  BY <1>1, RequestFrame DEF InputValidated, requestVars
<1> QED
  BY <1>3, <1>4, <1>5, <1>6, <1>7, <1>8, <1>9, <1>10

\* HttpInv is an inductive invariant.
THEOREM HttpInvariance == Spec => []HttpInv
<1>1. HttpInv /\ [Next]_vars => HttpInv'
  <2> SUFFICES ASSUME HttpInv, [Next]_vars PROVE HttpInv'  OBVIOUS
  <2>1. CASE ClientGone \/ PropagateCancel \/ QueryTimeout  BY <2>1, BesideStep
  <2>2. CASE MethodNotAllowed \/ NotFound \/ Live \/ Ready \/ Metrics  BY <2>2, RouteStep
  <2>3. CASE RouteClaim \/ CheckContentType \/ ReadIdempotencyKey \/ DecodeBody
    BY <2>3, AdmitStep
  <2>4. CASE PrepareCreateClaim  BY <2>4, PrepareStep
  <2>5. CASE CreateClaimReturns  BY <2>5, ReturnStep
  <2>6. CASE Observe  BY <2>6, ObserveStep
  <2>7. CASE RespondResult \/ RespondError  BY <2>7, AnswerStep
  <2>8. CASE StaySilent \/ BodyWritten \/ Panic  BY <2>8, LeaveStep
  <2>9. CASE LogRequest \/ LogAdminRequest  BY <2>9, LogStep
  <2>10. CASE FinishExchange \/ AbortConnection  BY <2>10, EndStep
  <2>11. CASE UNCHANGED vars
    <3>1. UNCHANGED <<server, pc, panic, ctxDone, key, cmd, params, query, driverErr, err, result,
                      rec, sent, claimMetric, httpMetric>>
      BY <2>11 DEF vars, requestVars, callVars, replyVars, metricVars
    <3> QED
      BY <3>1, CallFrame, RequestFrame
      DEF HttpInv, TypeOK, HeaderRecorded, PanicHandled, SilenceExcused, RequestCounted,
          CallClassified, AnswerMatchesCall, InputValidated, callVars, requestVars
  <2> QED
    BY <2>1, <2>2, <2>3, <2>4, <2>5, <2>6, <2>7, <2>8, <2>9, <2>10, <2>11
    DEF Next, HandlerStep
<1> QED
  BY HttpInit, <1>1, PTL DEF Spec

-----------------------------------------------------------------------------
(* What follows from it. *)

\* Types, the query's context while the service runs, and that every answer
\* has a result or an error to go by, for every limit.
THEOREM HttpTypes == Spec => []TypeOK
<1>1. HttpInv => TypeOK  BY DEF HttpInv
<1> QED  BY HttpInvariance, <1>1, PTL

\* requestLogger counts every request once, with the status its client was
\* sent, or 0 when there was no whole response of the handler's.
THEOREM StatusRecorded == Spec => []RecordedIsSent
<1>1. HttpInv => RecordedIsSent
  BY DEF HttpInv, RecordedIsSent, Ended, RequestCounted, HeaderRecorded
<1> QED  BY HttpInvariance, <1>1, PTL

\* net/http's implicit 200 is sent only to a client that has gone.
THEOREM SilenceIsNoSuccess == Spec => []NoImplicitSuccess
<1>1. HttpInv => NoImplicitSuccess
  <2> SUFFICES ASSUME HttpInv, sent # NULL, sent.code = "implicit" PROVE ctxDone
    BY DEF NoImplicitSuccess
  <2>1. ~rec.wroteHeader /\ pc = "completed"
    BY DEF HttpInv, HeaderRecorded, TypeOK
  <2> QED
    BY <2>1 DEF HttpInv, SilenceExcused
<1> QED  BY HttpInvariance, <1>1, PTL

\* The three switches over one error (mapPostgresError, writeCreateClaimError,
\* ObserveRewardClaim) agree on every outcome.
THEOREM SwitchesAgree == Spec => []OutcomesAgree
<1>1. HttpInv => OutcomesAgree
  <2> SUFFICES ASSUME HttpInv, Ended, panic = "none", claimMetric # <<>>
               PROVE  OutcomesAgree
    BY DEF OutcomesAgree
  <2>1. /\ pc = "completed" /\ Classified
        /\ claimMetric[1] = ClaimLabel
        /\ err \in Errors \ {"invalid"}
        /\ err = "none" => result \in Results
    BY DEF HttpInv, Ended, PanicHandled, CallClassified, Classified, TypeOK
  <2>2. CASE ~rec.wroteHeader
    <3>1. sent = [status |-> 200, code |-> "implicit"] /\ err = "Canceled"
      BY <2>1, <2>2 DEF HttpInv, HeaderRecorded, SilenceExcused
    <3>2. claimMetric[1] = "canceled"
      BY <2>1, <3>1 DEF ClaimLabel
    <3> QED
      BY <3>1, <3>2 DEF OutcomesAgree
  <2>3. CASE rec.wroteHeader
    <3>1. sent = Answer /\ err # "Canceled"
      BY <2>1, <2>3 DEF HttpInv, AnswerMatchesCall
    <3>2. CASE err = "none"
      <4>1. result.status \in {201, 409}
        BY <2>1, <3>2 DEF Results
      <4>2. CASE result.status = 201
        <5>1. claimMetric[1] \in {"created", "replayed_created"}
          BY <2>1, <3>2, <4>2 DEF ClaimLabel, mapClaimSuccess
        <5>2. sent.status = 201 /\ sent.code = "created"
          BY <3>1, <3>2, <4>2 DEF Answer
        <5> QED
          BY <5>1, <5>2 DEF OutcomesAgree
      <4>3. CASE result.status = 409
        <5>1. claimMetric[1] \in {"already_claimed", "replayed_already_claimed"}
          BY <2>1, <3>2, <4>3 DEF ClaimLabel, mapClaimSuccess
        <5>2. sent.status = 409 /\ sent.code = "reward_already_claimed"
          BY <3>1, <3>2, <4>3 DEF Answer
        <5> QED
          BY <5>1, <5>2 DEF OutcomesAgree
      <4> QED
        BY <4>1, <4>2, <4>3
    <3>3. CASE err # "none"
      BY <2>1, <3>1, <3>3 DEF OutcomesAgree, ClaimLabel, Answer, Errors
    <3> QED
      BY <3>2, <3>3
  <2> QED
    BY <2>1, <2>2, <2>3 DEF HttpInv, TypeOK
<1> QED  BY HttpInvariance, <1>1, PTL

\* mapPostgresError blames the query timeout or the caller, whichever ended
\* the query's context first.
THEOREM FirstCause == Spec => []FirstCauseDecides
<1>1. HttpInv => FirstCauseDecides
  <2> SUFFICES ASSUME HttpInv, claimMetric # <<>>, QueryErr \in driverErr
               PROVE  claimMetric[1] = IF query = "timeout" THEN "unavailable" ELSE "canceled"
    BY DEF FirstCauseDecides
  <2>1. Classified /\ claimMetric[1] = ClaimLabel
    BY DEF HttpInv, CallClassified
  <2> QED
    BY <2>1 DEF Classified, ClaimLabel
<1> QED  BY HttpInvariance, <1>1, PTL

\* prepareCreateClaim accepts exactly what the CHECKs of the tables accept.
THEOREM ValidationFits == Spec => []ValidationMatchesTable
<1>1. HttpInv => ValidationMatchesTable
  BY DEF HttpInv, InputValidated, ValidationMatchesTable
<1> QED  BY HttpInvariance, <1>1, PTL

\* No whole response of a handler that panicked but the middleware's 500.
THEOREM PanicsShow == Spec => []PanicIsVisible
<1>1. HttpInv => PanicIsVisible
  BY DEF HttpInv, PanicHandled, PanicIsVisible
<1> QED  BY HttpInvariance, <1>1, PTL
=============================================================================
