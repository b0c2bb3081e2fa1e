---------------------------- MODULE ClaimLedger -----------------------------
(***************************************************************************)
(* What the reward-claim endpoint promises, with no transactions, locks or *)
(* failures: a request is decided in one atomic step.  The step grants the *)
(* reward, with its stored response and its outbox event, or refuses it    *)
(* because somebody has it, and stores that.                               *)
(***************************************************************************)
CONSTANTS Requests, Keys, Rewards, NULL

VARIABLES
    claims,   \* the granted rewards, [id, key, reward]
    keyRow,   \* the retained idempotency records, [reward, response]
    events    \* ids of the claims that have an outbox event

ledgerVars == <<claims, keyRow, events>>

LedgerInit ==
    /\ claims = {}
    /\ keyRow = [k \in Keys |-> NULL]
    /\ events = {}

Granted(w) == \E c \in claims : c.reward = w

Grant(id, k, w) ==
    /\ keyRow[k] = NULL
    /\ ~Granted(w)
    /\ claims' = claims \cup {[id |-> id, key |-> k, reward |-> w]}
    /\ keyRow' = [keyRow EXCEPT ![k] =
                     [reward |-> w, response |-> [status |-> "created", claim |-> id]]]
    /\ events' = events \cup {id}

Refuse(k, w) ==
    /\ keyRow[k] = NULL
    /\ Granted(w)
    /\ keyRow' = [keyRow EXCEPT ![k] =
                     [reward |-> w, response |-> [status |-> "duplicate", claim |-> NULL]]]
    /\ UNCHANGED <<claims, events>>

Forget(k) ==
    /\ keyRow' = [keyRow EXCEPT ![k] = NULL]
    /\ UNCHANGED <<claims, events>>

LedgerNext ==
    \E k \in Keys :
        \/ \E id \in Requests, w \in Rewards : Grant(id, k, w)
        \/ \E w \in Rewards : Refuse(k, w)
        \/ Forget(k)

LedgerSpec == LedgerInit /\ [][LedgerNext]_ledgerVars
=============================================================================
