---------------------------- MODULE RewardClaims ----------------------------
(***************************************************************************)
(* POST /v1/reward-claims against PostgreSQL: Service.createClaim          *)
(* (internal/rewards/postgres.go) run by concurrent requests, each in one  *)
(* READ COMMITTED transaction, with the retention job of the runbook       *)
(* deleting idempotency records at any time.                               *)
(*                                                                         *)
(* A statement sees what is committed when it starts.  The rows a          *)
(* transaction has inserted are its own until it commits; an insert that   *)
(* conflicts with one of them (ON CONFLICT DO NOTHING) waits for that      *)
(* transaction to end.  A request may fail at any statement, and its       *)
(* COMMIT may be applied without the answer ever arriving.                 *)
(***************************************************************************)
EXTENDS Naturals

CONSTANTS
    Requests,   \* calls of CreateClaim; the claim id a call draws is the call
    Keys,       \* SHA-256 hashes of normalized idempotency keys
    Rewards,    \* normalized (player_id, campaign_id, reward_id)
    NULL

VARIABLES
    claims,     \* reward_claims, committed; key is history: who was granted
    keyRow,     \* reward_claim_idempotency_keys, committed
    events,     \* outbox_events, committed: the aggregate ids
    forgotten,  \* (history) keys whose record retention has deleted
    pc,         \* the next statement of each call
    key,        \* its params: KeyHash
    reward,     \* and PlayerID, CampaignID, RewardID
    txKey,      \* the uncommitted idempotency row of its transaction
    txClaim,    \* has its transaction an uncommitted reward_claims row?
    txEvent,    \* has its transaction an uncommitted outbox_events row?
    result,     \* the CreateClaimResult it is about to return
    reply       \* what the call returned

dbVars == <<claims, keyRow, events, forgotten>>
txVars == <<txKey, txClaim, txEvent>>
vars   == <<dbVars, pc, key, reward, txVars, result, reply>>

PCs == {"idle", "reserve", "load", "replay", "insert", "event", "complete",
        "commit", "aborting", "in_doubt", "done"}

\* Errors the code can return: its request-level refusal, the two branches
\* for a record in an impossible state, and a failure of the database or of
\* the caller (ErrUnavailable, ErrInternal, ctx.Err()).
Errors   == {"key_reused", "missing_response", "not_completed", "failed"}
\* "created" is 201, "duplicate" is 409 reward_already_claimed.
Response == [status : {"created", "duplicate"}, claim : Requests \cup {NULL}]
Failure  == [status : Errors, claim : {NULL}]
KeyRow   == [reward : Rewards, response : Response \cup {NULL}]
Claim    == [id : Requests, key : Keys, reward : Rewards]

ASSUME ClaimsAssumption ==
    /\ NULL \notin Requests \cup Keys \cup Rewards
    /\ NULL \notin Response \cup Failure \cup KeyRow

Created(r) == [status |-> "created", claim |-> r]
Duplicate  == [status |-> "duplicate", claim |-> NULL]

Failed(err) == [status |-> err, claim |-> NULL]

Init ==
    /\ claims = {}
    /\ keyRow = [k \in Keys |-> NULL]
    /\ events = {}
    /\ forgotten = {}
    /\ pc      = [r \in Requests |-> "idle"]
    /\ key     = [r \in Requests |-> NULL]
    /\ reward  = [r \in Requests |-> NULL]
    /\ txKey   = [r \in Requests |-> NULL]
    /\ txClaim = [r \in Requests |-> FALSE]
    /\ txEvent = [r \in Requests |-> FALSE]
    /\ result  = [r \in Requests |-> NULL]
    /\ reply   = [r \in Requests |-> NULL]

Goto(r, label) == pc' = [pc EXCEPT ![r] = label]

\* The call returns err; its deferred rollbackTransaction is still to come.
FailWith(r, err) ==
    /\ reply' = [reply EXCEPT ![r] = Failed(err)]
    /\ Goto(r, "aborting")

-----------------------------------------------------------------------------
(* The statements of createClaim. *)

\* A validated command arrives and BeginTx succeeds.
Begin(r, k, w) ==
    /\ pc[r] = "idle"
    /\ key'    = [key EXCEPT ![r] = k]
    /\ reward' = [reward EXCEPT ![r] = w]
    /\ Goto(r, "reserve")
    /\ UNCHANGED <<dbVars, txVars, result, reply>>

\* Faulty variant: no unique constraint makes an insert wait.
NeverContended(r) == FALSE

\* An uncommitted idempotency row, or claim, of another transaction that an
\* insert of r has to wait for.
KeyContended(r)   == \E q \in Requests \ {r} : txKey[q] # NULL /\ key[q] = key[r]
ClaimContended(r) == \E q \in Requests \ {r} : txClaim[q] /\ reward[q] = reward[r]

\* tryReserveIdempotencyKey inserts the row: the key is ours.
Reserve(r) ==
    /\ pc[r] = "reserve"
    /\ ~KeyContended(r)
    /\ keyRow[key[r]] = NULL
    /\ txKey' = [txKey EXCEPT ![r] = [reward |-> reward[r], response |-> NULL]]
    /\ Goto(r, "insert")
    /\ UNCHANGED <<dbVars, key, reward, txClaim, txEvent, result, reply>>

\* tryReserveIdempotencyKey finds a committed row.
ReserveConflict(r) ==
    /\ pc[r] = "reserve"
    /\ ~KeyContended(r)
    /\ keyRow[key[r]] # NULL
    /\ Goto(r, "load")
    /\ UNCHANGED <<dbVars, key, reward, txVars, result, reply>>

\* tryLoadIdempotentClaimResult: retention has deleted the row meanwhile.
LoadMissing(r) ==
    /\ pc[r] = "load"
    /\ keyRow[key[r]] = NULL
    /\ Goto(r, "reserve")
    /\ UNCHANGED <<dbVars, key, reward, txVars, result, reply>>

\* tryLoadIdempotentClaimResult: a row without a response, or for another
\* request, is refused.
LoadRefused(r) ==
    LET row == keyRow[key[r]]
    IN  /\ pc[r] = "load"
        /\ row # NULL
        /\ row.response = NULL \/ row.reward # reward[r]
        /\ FailWith(r, IF row.response = NULL THEN "missing_response" ELSE "key_reused")
        /\ UNCHANGED <<dbVars, key, reward, txVars, result>>

\* Faulty variant: the stored request is not compared with this one.
LoadReplayAnyRequest(r) ==
    LET row == keyRow[key[r]]
    IN  /\ pc[r] = "load"
        /\ row # NULL
        /\ row.response # NULL
        /\ result' = [result EXCEPT ![r] = row.response]
        /\ Goto(r, "replay")
        /\ UNCHANGED <<dbVars, key, reward, txVars, reply>>

\* Faulty variant: the response is worked out anew.
LoadReplayRecomputed(r) ==
    LET row == keyRow[key[r]]
    IN  /\ pc[r] = "load"
        /\ row # NULL
        /\ row.response # NULL
        /\ row.reward = reward[r]
        /\ result' = [result EXCEPT ![r] = Duplicate]
        /\ Goto(r, "replay")
        /\ UNCHANGED <<dbVars, key, reward, txVars, reply>>

\* tryLoadIdempotentClaimResult: the stored response is replayed.
LoadReplay(r) ==
    LET row == keyRow[key[r]]
    IN  /\ pc[r] = "load"
        /\ row # NULL
        /\ row.response # NULL
        /\ row.reward = reward[r]
        /\ result' = [result EXCEPT ![r] = row.response]
        /\ Goto(r, "replay")
        /\ UNCHANGED <<dbVars, key, reward, txVars, reply>>

\* Faulty variant: the outbox event is left out.
InsertClaimNoEvent(r) ==
    /\ pc[r] = "insert"
    /\ ~ClaimContended(r)
    /\ \A c \in claims : c.reward # reward[r]
    /\ txClaim' = [txClaim EXCEPT ![r] = TRUE]
    /\ result'  = [result EXCEPT ![r] = Created(r)]
    /\ Goto(r, "complete")
    /\ UNCHANGED <<dbVars, key, reward, txKey, txEvent, reply>>

\* tryInsertClaim returns a new claim.
InsertClaim(r) ==
    /\ pc[r] = "insert"
    /\ ~ClaimContended(r)
    /\ \A c \in claims : c.reward # reward[r]
    /\ txClaim' = [txClaim EXCEPT ![r] = TRUE]
    /\ result'  = [result EXCEPT ![r] = Created(r)]
    /\ Goto(r, "event")
    /\ UNCHANGED <<dbVars, key, reward, txKey, txEvent, reply>>

\* Faulty variant: the duplicate answer is not stored.
InsertClaimConflictUnstored(r) ==
    /\ pc[r] = "insert"
    /\ ~ClaimContended(r)
    /\ \E c \in claims : c.reward = reward[r]
    /\ result' = [result EXCEPT ![r] = Duplicate]
    /\ Goto(r, "commit")
    /\ UNCHANGED <<dbVars, key, reward, txVars, reply>>

\* tryInsertClaim returns no row: the reward is taken.
InsertClaimConflict(r) ==
    /\ pc[r] = "insert"
    /\ ~ClaimContended(r)
    /\ \E c \in claims : c.reward = reward[r]
    /\ result' = [result EXCEPT ![r] = Duplicate]
    /\ Goto(r, "complete")
    /\ UNCHANGED <<dbVars, key, reward, txVars, reply>>

\* insertRewardClaimedOutboxEvent, before the key is completed.
InsertOutboxEvent(r) ==
    /\ pc[r] = "event"
    /\ txEvent' = [txEvent EXCEPT ![r] = TRUE]
    /\ Goto(r, "complete")
    /\ UNCHANGED <<dbVars, key, reward, txKey, txClaim, result, reply>>

\* completeIdempotencyKey fills our own, still empty row; anything else is
\* an internal error.
CompleteKey(r) ==
    /\ pc[r] = "complete"
    /\ IF txKey[r] = [reward |-> reward[r], response |-> NULL]
       THEN /\ txKey' = [txKey EXCEPT ![r].response = result[r]]
            /\ Goto(r, "commit")
            /\ UNCHANGED reply
       ELSE /\ FailWith(r, "not_completed")
            /\ UNCHANGED txKey
    /\ UNCHANGED <<dbVars, key, reward, txClaim, txEvent, result>>

\* Faulty variant: the reservation of the key is never released.
DiscardTxKeepsKey(r) ==
    /\ txClaim' = [txClaim EXCEPT ![r] = FALSE]
    /\ txEvent' = [txEvent EXCEPT ![r] = FALSE]
    /\ UNCHANGED txKey

\* What the end of a transaction does to its own writes.
DiscardTx(r) ==
    /\ txKey'   = [txKey EXCEPT ![r] = NULL]
    /\ txClaim' = [txClaim EXCEPT ![r] = FALSE]
    /\ txEvent' = [txEvent EXCEPT ![r] = FALSE]

\* COMMIT makes all of them visible at once.
PublishTx(r) ==
    /\ keyRow' = IF txKey[r] = NULL THEN keyRow ELSE [keyRow EXCEPT ![key[r]] = txKey[r]]
    /\ claims' = IF txClaim[r]
                 THEN claims \cup {[id |-> r, key |-> key[r], reward |-> reward[r]]}
                 ELSE claims
    /\ events' = IF txEvent[r] THEN events \cup {r} ELSE events
    /\ DiscardTx(r)
    /\ UNCHANGED forgotten

\* tx.Commit succeeds and the result is returned.
Commit(r) ==
    /\ pc[r] \in {"commit", "replay"}
    /\ PublishTx(r)
    /\ reply' = [reply EXCEPT ![r] = result[r]]
    /\ Goto(r, "done")
    /\ UNCHANGED <<key, reward, result>>

\* The query timeout, a lost connection, the caller going away or the process
\* dying.  A COMMIT already sent may or may not be applied.
Fail(r) ==
    /\ pc[r] \in {"reserve", "load", "replay", "insert", "event", "complete", "commit"}
    /\ reply' = [reply EXCEPT ![r] = Failed("failed")]
    /\ Goto(r, IF pc[r] = "commit" THEN "in_doubt" ELSE "aborting")
    /\ UNCHANGED <<dbVars, key, reward, txVars, result>>

\* rollbackTransaction, or the server ending an abandoned transaction.
Rollback(r) ==
    /\ pc[r] \in {"aborting", "in_doubt"}
    /\ DiscardTx(r)
    /\ Goto(r, "done")
    /\ UNCHANGED <<dbVars, key, reward, result, reply>>

\* A COMMIT whose answer was lost is applied all the same.
LateCommit(r) ==
    /\ pc[r] = "in_doubt"
    /\ PublishTx(r)
    /\ Goto(r, "done")
    /\ UNCHANGED <<key, reward, result, reply>>

\* Routine retention: only records with a stored response are deleted.
CleanupKey(k) ==
    /\ keyRow[k] # NULL
    /\ keyRow[k].response # NULL
    /\ keyRow' = [keyRow EXCEPT ![k] = NULL]
    /\ forgotten' = forgotten \cup {k}
    /\ UNCHANGED <<claims, events, pc, key, reward, txVars, result, reply>>

\* One statement of the call, if it does not have to wait.
Statement(r) ==
    \/ Reserve(r)
    \/ ReserveConflict(r)
    \/ LoadMissing(r)
    \/ LoadRefused(r)
    \/ LoadReplay(r)
    \/ InsertClaim(r)
    \/ InsertClaimConflict(r)
    \/ InsertOutboxEvent(r)
    \/ CompleteKey(r)
    \/ Commit(r)

Next ==
    \/ \E r \in Requests :
           \/ \E k \in Keys, w \in Rewards : Begin(r, k, w)
           \/ Statement(r)
           \/ Fail(r)
           \/ Rollback(r)
           \/ LateCommit(r)
    \/ \E k \in Keys : CleanupKey(k)

Spec == Init /\ [][Next]_vars

\* Every statement that need not wait is executed and every abandoned
\* transaction is ended by the server; no call is bound to fail.
Fairness ==
    \A r \in Requests : WF_vars(Statement(r)) /\ WF_vars(Rollback(r))

LiveSpec == Spec /\ Fairness

-----------------------------------------------------------------------------
(* The ledger the service implements. *)

Ledger == INSTANCE ClaimLedger

\* Seen through its committed tables, the service decides every request in
\* one atomic step, whatever interleaves, fails or commits unnoticed.
ImplementsLedger == Ledger!LedgerSpec

-----------------------------------------------------------------------------
(* Properties. *)

\* Every variable has its type, only an open transaction has
\* writes, and a call has returned exactly when it has no statement left.
TypeOK ==
    /\ claims \in SUBSET Claim
    /\ keyRow \in [Keys -> KeyRow \cup {NULL}]
    /\ events \in SUBSET Requests
    /\ forgotten \in SUBSET Keys
    /\ pc      \in [Requests -> PCs]
    /\ key     \in [Requests -> Keys \cup {NULL}]
    /\ reward  \in [Requests -> Rewards \cup {NULL}]
    /\ txKey   \in [Requests -> KeyRow \cup {NULL}]
    /\ txClaim \in [Requests -> BOOLEAN]
    /\ txEvent \in [Requests -> BOOLEAN]
    /\ result  \in [Requests -> Response \cup {NULL}]
    /\ reply   \in [Requests -> Response \cup Failure \cup {NULL}]
    /\ \A r \in Requests :
           /\ reply[r] # NULL <=> pc[r] \in {"aborting", "in_doubt", "done"}
           /\ pc[r] # "idle" => key[r] \in Keys /\ reward[r] \in Rewards
           /\ txKey[r] # NULL \/ txClaim[r] \/ txEvent[r] =>
                  pc[r] \in {"insert", "event", "complete", "commit", "aborting", "in_doubt"}

\* A reward is granted at most once, whatever keys ask for it concurrently.
OneClaimPerReward ==
    \A c, d \in claims : c.reward = d.reward => c = d

\* A committed claim has its outbox event and, until retention removes it,
\* its stored response under the key that created it; there is no other event.
ClaimIsComplete ==
    /\ events = {c.id : c \in claims}
    /\ \A c \in claims :
           c.key \notin forgotten =>
               keyRow[c.key] = [reward |-> c.reward, response |-> Created(c.id)]

\* What a caller is told is true: 201 names the one committed claim of its
\* reward, 409 is answered only for a reward somebody was granted.
RepliesAreTrue ==
    \A r \in Requests :
        /\ reply[r] # NULL /\ reply[r].status = "created" =>
               \E c \in claims : c.id = reply[r].claim /\ c.reward = reward[r]
        /\ reply[r] = Duplicate => \E c \in claims : c.reward = reward[r]

\* A client that retries with its key is never told that the reward it was
\* itself granted is taken, not even after a COMMIT it never heard of;
\* only after retention has deleted the record.
NoSelfConflict ==
    \A r \in Requests :
        reply[r] = Duplicate =>
            \A c \in claims : c.reward = reward[r] /\ c.key = key[r] => key[r] \in forgotten

\* The error branches for records in an impossible state (a committed row
\* without a response, a reserved row that is not ours to complete) are dead.
ImpossibleErrors ==
    \A r \in Requests :
        reply[r] \notin {Failed("missing_response"), Failed("not_completed")}

\* Replays are deterministic: two calls with one key that were both given a
\* response asked for the same reward and were given the same response, in
\* whatever order they ran and commits were lost, until retention deletes it.
DeterministicReplay ==
    \A q, r \in Requests :
        /\ reply[q] \in Response
        /\ reply[r] \in Response
        /\ key[q] = key[r]
        /\ key[r] \notin forgotten
        => reply[q] = reply[r] /\ reward[q] = reward[r]

\* A stored response is immutable: replays agree until retention deletes it.
StoredResponseImmutable ==
    [][\A k \in Keys : keyRow[k] # NULL => keyRow'[k] \in {keyRow[k], NULL}]_vars

\* No set of calls waits for one another for ever, and the retry of the
\* reservation ends: every call that begins returns.
EveryCallReturns ==
    \A r \in Requests : pc[r] = "reserve" ~> reply[r] # NULL
=============================================================================
