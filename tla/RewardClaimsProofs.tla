------------------------- MODULE RewardClaimsProofs -------------------------
(***************************************************************************)
(* Proofs about RewardClaims, for any sets of requests, keys and rewards.  *)
(***************************************************************************)
EXTENDS RewardClaims, TLAPS

-----------------------------------------------------------------------------
(* The inductive invariant. *)

Taken(w) == \E c \in claims : c.reward = w

EmptyRow(r) == [reward |-> reward[r], response |-> NULL]

\* The writes and the result of a decided request: both rows of a new claim,
\* or neither for a reward that is taken.
Decided(r) ==
    \/ txClaim[r] /\ txEvent[r] /\ result[r] = Created(r)
    \/ ~txClaim[r] /\ ~txEvent[r] /\ result[r] = Duplicate /\ Taken(reward[r])

\* What a transaction has written by the time it reaches each statement.
TxShape ==
    \A r \in Requests :
        /\ pc[r] = "insert" => txKey[r] = EmptyRow(r) /\ ~txClaim[r] /\ ~txEvent[r]
        /\ pc[r] = "event" =>
               txKey[r] = EmptyRow(r) /\ txClaim[r] /\ ~txEvent[r] /\ result[r] = Created(r)
        /\ pc[r] = "complete" => txKey[r] = EmptyRow(r) /\ Decided(r)
        /\ pc[r] \in {"commit", "in_doubt"} =>
               txKey[r] = [reward |-> reward[r], response |-> result[r]] /\ Decided(r)

\* An uncommitted row excludes every other row with the same unique key.
KeyLocks ==
    \A r \in Requests : txKey[r] # NULL =>
        /\ keyRow[key[r]] = NULL
        /\ \A q \in Requests : txKey[q] # NULL /\ key[q] = key[r] => q = r

ClaimLocks ==
    \A r \in Requests : txClaim[r] =>
        /\ ~Taken(reward[r])
        /\ \A q \in Requests : txClaim[q] /\ reward[q] = reward[r] => q = r

\* A response for key k and reward w that is true of the claims cs, and no
\* conflict of k with itself unless k is among the forgotten keys fs.
SoundIn(cs, fs, resp, k, w) ==
    /\ resp.status = "created" => \E c \in cs : c.id = resp.claim /\ c.reward = w
    /\ resp = Duplicate =>
           /\ \E c \in cs : c.reward = w
           /\ \A c \in cs : c.reward = w /\ c.key = k => k \in fs

Sound(resp, k, w) == SoundIn(claims, forgotten, resp, k, w)

StoredSound ==
    \A k \in Keys : keyRow[k] # NULL =>
        keyRow[k].response # NULL /\ Sound(keyRow[k].response, k, keyRow[k].reward)

ReplaySound ==
    \A r \in Requests :
        pc[r] = "replay" => result[r] # NULL /\ Sound(result[r], key[r], reward[r])

RepliesSound ==
    \A r \in Requests : reply[r] # NULL =>
        /\ Sound(reply[r], key[r], reward[r])
        /\ reply[r] \notin {Failed("missing_response"), Failed("not_completed")}

ClaimsInv ==
    /\ TypeOK
    /\ TxShape
    /\ KeyLocks
    /\ ClaimLocks
    /\ StoredSound
    /\ ReplaySound
    /\ RepliesSound
    /\ OneClaimPerReward
    /\ ClaimIsComplete

-----------------------------------------------------------------------------
(* Type correctness. *)

\* An error is an answer.
LEMMA FailedType ==
    \A err \in Errors : Failed(err) \in Failure /\ Failed(err) # NULL
BY ClaimsAssumption DEF Failed, Failure

\* Every step keeps the types; COMMIT needs the shape of what it publishes.
LEMMA TypeStep ==
    ASSUME ClaimsInv, [Next]_vars
    PROVE  TypeOK'
<1> USE ClaimsAssumption DEF PCs
<1>0. TypeOK
  BY DEF ClaimsInv
<1>1. CASE UNCHANGED vars
  BY <1>0, <1>1 DEF TypeOK, vars, dbVars, txVars
<1>2. ASSUME NEW r \in Requests, NEW k \in Keys, NEW w \in Rewards, Begin(r, k, w)
      PROVE  TypeOK'
  BY <1>0, <1>2 DEF TypeOK, Begin, Goto, dbVars, txVars
<1>3. ASSUME NEW r \in Requests, Reserve(r)
      PROVE  TypeOK'
  <2>1. [reward |-> reward[r], response |-> NULL] \in KeyRow
    BY <1>0, <1>3 DEF TypeOK, Reserve, KeyRow
  <2>2. QED
    BY <1>0, <1>3, <2>1 DEF TypeOK, Reserve, Goto, dbVars
<1>4. ASSUME NEW r \in Requests, ReserveConflict(r) \/ LoadMissing(r)
      PROVE  TypeOK'
  BY <1>0, <1>4 DEF TypeOK, ReserveConflict, LoadMissing, Goto, dbVars, txVars
<1>5. ASSUME NEW r \in Requests, LoadRefused(r)
      PROVE  TypeOK'
  <2>1. \E err \in Errors : reply' = [reply EXCEPT ![r] = Failed(err)]
    BY <1>0, <1>5 DEF LoadRefused, FailWith, Errors
  <2>2. QED
    BY <1>0, <1>5, <2>1, FailedType DEF TypeOK, LoadRefused, FailWith, Goto, dbVars, txVars
<1>6. ASSUME NEW r \in Requests, LoadReplay(r)
      PROVE  TypeOK'
  <2>1. keyRow[key[r]].response \in Response
    BY <1>0, <1>6 DEF TypeOK, LoadReplay, KeyRow
  <2>2. QED
    BY <1>0, <1>6, <2>1 DEF TypeOK, LoadReplay, Goto, dbVars, txVars
<1>7. ASSUME NEW r \in Requests, InsertClaim(r)
      PROVE  TypeOK'
  <2>1. Created(r) \in Response
    BY DEF Created, Response
  <2>2. QED
    BY <1>0, <1>7, <2>1 DEF TypeOK, InsertClaim, Goto, dbVars
<1>8. ASSUME NEW r \in Requests, InsertClaimConflict(r)
      PROVE  TypeOK'
  <2>1. Duplicate \in Response
    BY DEF Duplicate, Response
  <2>2. QED
    BY <1>0, <1>8, <2>1 DEF TypeOK, InsertClaimConflict, Goto, dbVars, txVars
<1>9. ASSUME NEW r \in Requests, InsertOutboxEvent(r)
      PROVE  TypeOK'
  BY <1>0, <1>9 DEF TypeOK, InsertOutboxEvent, Goto, dbVars
<1>10. ASSUME NEW r \in Requests, CompleteKey(r)
       PROVE  TypeOK'
  <2>1. /\ reply' \in [Requests -> Response \cup Failure \cup {NULL}]
        /\ \A q \in Requests : reply'[q] # NULL <=> pc'[q] \in {"aborting", "in_doubt", "done"}
    BY <1>0, <1>10, FailedType DEF TypeOK, CompleteKey, FailWith, Goto, Errors
  <2>2. txKey' \in [Requests -> KeyRow \cup {NULL}]
    <3>1. CASE txKey[r] = [reward |-> reward[r], response |-> NULL]
      <4>1. [txKey[r] EXCEPT !.response = result[r]] \in KeyRow
        BY <1>0, <1>10, <3>1 DEF TypeOK, CompleteKey, KeyRow
      <4>2. QED
        BY <1>0, <1>10, <3>1, <4>1 DEF TypeOK, CompleteKey
    <3>2. CASE txKey[r] # [reward |-> reward[r], response |-> NULL]
      BY <1>0, <1>10, <3>2 DEF TypeOK, CompleteKey
    <3>3. QED
      BY <3>1, <3>2
  <2>3. pc' \in [Requests -> PCs]
    BY <1>0, <1>10 DEF TypeOK, CompleteKey, FailWith, Goto
  <2>4. \A q \in Requests : txKey'[q] # NULL \/ txClaim'[q] \/ txEvent'[q] =>
          pc'[q] \in {"insert", "event", "complete", "commit", "aborting", "in_doubt"}
    BY <1>0, <1>10 DEF TypeOK, CompleteKey, FailWith, Goto
  <2>5. \A q \in Requests : pc'[q] # "idle" => key'[q] \in Keys /\ reward'[q] \in Rewards
    BY <1>0, <1>10 DEF TypeOK, CompleteKey, FailWith, Goto
  <2>6. QED
    BY <1>0, <1>10, <2>1, <2>2, <2>3, <2>4, <2>5 DEF TypeOK, CompleteKey, dbVars
<1>11. ASSUME NEW r \in Requests, PublishTx(r), Goto(r, "done"), pc[r] # "idle",
              UNCHANGED <<key, reward, result>>,
              reply' \in [Requests -> Response \cup Failure \cup {NULL}],
              \A q \in Requests : reply'[q] # NULL <=> q = r \/ reply[q] # NULL
       PROVE  TypeOK'
  <2>1. [id |-> r, key |-> key[r], reward |-> reward[r]] \in Claim
    BY <1>0, <1>11 DEF TypeOK, Claim
  <2>2. claims' \in SUBSET Claim
    BY <1>0, <1>11, <2>1 DEF TypeOK, PublishTx
  <2>3. keyRow' \in [Keys -> KeyRow \cup {NULL}]
    BY <1>0, <1>11 DEF TypeOK, PublishTx
  <2>4. QED
    BY <1>0, <1>11, <2>2, <2>3 DEF TypeOK, PublishTx, DiscardTx, Goto
<1>12. ASSUME NEW r \in Requests, Commit(r)
       PROVE  TypeOK'
  <2>1. result[r] \in Response
    BY <1>0, <1>12 DEF Commit, ClaimsInv, TxShape, Decided, ReplaySound, TypeOK, Created, Duplicate, Response
  <2>2. /\ reply' \in [Requests -> Response \cup Failure \cup {NULL}]
        /\ \A q \in Requests : reply'[q] # NULL <=> q = r \/ reply[q] # NULL
    BY <1>0, <1>12, <2>1 DEF TypeOK, Commit
  <2>3. QED
    BY <1>0, <1>11, <1>12, <2>2 DEF Commit
<1>13. ASSUME NEW r \in Requests, LateCommit(r)
       PROVE  TypeOK'
  <2>1. \A q \in Requests : reply'[q] # NULL <=> q = r \/ reply[q] # NULL
    BY <1>0, <1>13 DEF LateCommit, TypeOK
  <2>2. QED
    BY <1>0, <1>11, <1>13, <2>1 DEF LateCommit, TypeOK
<1>14. ASSUME NEW r \in Requests, Fail(r)
       PROVE  TypeOK'
  <2>1. /\ reply' \in [Requests -> Response \cup Failure \cup {NULL}]
        /\ \A q \in Requests : reply'[q] # NULL <=> q = r \/ reply[q] # NULL
    BY <1>0, <1>14, FailedType DEF TypeOK, Fail, Errors
  <2>2. QED
    BY <1>0, <1>14, <2>1 DEF TypeOK, Fail, Goto, dbVars, txVars
<1>15. ASSUME NEW r \in Requests, Rollback(r)
       PROVE  TypeOK'
  BY <1>0, <1>15 DEF TypeOK, Rollback, DiscardTx, Goto, dbVars
<1>16. ASSUME NEW k \in Keys, CleanupKey(k)
       PROVE  TypeOK'
  BY <1>0, <1>16 DEF TypeOK, CleanupKey, txVars
<1>17. QED
  BY <1>1, <1>2, <1>3, <1>4, <1>5, <1>6, <1>7, <1>8, <1>9, <1>10, <1>12, <1>13, <1>14,
     <1>15, <1>16 DEF Next, Statement

-----------------------------------------------------------------------------
(* Frames. *)

\* What call r does, or what the server does to its transaction.
CallStep(r) ==
    \/ \E k \in Keys, w \in Rewards : Begin(r, k, w)
    \/ Statement(r)
    \/ Fail(r)
    \/ Rollback(r)
    \/ LateCommit(r)

\* A step of one call leaves the memory and the transaction of every other alone.
LEMMA OnlyOwn ==
    ASSUME TypeOK, NEW r \in Requests, CallStep(r), NEW q \in Requests, q # r
    PROVE  /\ pc'[q] = pc[q] /\ key'[q] = key[q] /\ reward'[q] = reward[q]
           /\ txKey'[q] = txKey[q] /\ txClaim'[q] = txClaim[q] /\ txEvent'[q] = txEvent[q]
           /\ result'[q] = result[q] /\ reply'[q] = reply[q]
<1>1. CASE \E k \in Keys, w \in Rewards : Begin(r, k, w)
  BY <1>1 DEF TypeOK, Begin, Goto, txVars
<1>2. CASE Reserve(r) \/ ReserveConflict(r) \/ LoadMissing(r) \/ LoadRefused(r) \/ LoadReplay(r)
  BY <1>2 DEF TypeOK, Reserve, ReserveConflict, LoadMissing, LoadRefused, LoadReplay, FailWith,
              Goto, txVars
<1>3. CASE InsertClaim(r) \/ InsertClaimConflict(r) \/ InsertOutboxEvent(r) \/ CompleteKey(r)
  BY <1>3 DEF TypeOK, InsertClaim, InsertClaimConflict, InsertOutboxEvent, CompleteKey, FailWith,
              Goto, txVars
<1>4. CASE Commit(r) \/ Fail(r) \/ Rollback(r) \/ LateCommit(r)
  BY <1>4 DEF TypeOK, Commit, Fail, Rollback, LateCommit, PublishTx, DiscardTx, Goto, txVars
<1>5. QED
  BY <1>1, <1>2, <1>3, <1>4 DEF CallStep, Statement

\* Only a COMMIT changes the committed tables.
LEMMA OnlyCommit ==
    ASSUME NEW r \in Requests, CallStep(r), ~Commit(r), ~LateCommit(r)
    PROVE  UNCHANGED dbVars
BY DEF CallStep, Statement, Begin, Reserve, ReserveConflict, LoadMissing, LoadRefused, LoadReplay,
       InsertClaim, InsertClaimConflict, InsertOutboxEvent, CompleteKey, Fail, Rollback

\* What a COMMIT of r publishes: nothing for a replay, a new claim with its
\* event and response, or a refusal.
Grants(r) ==
    /\ keyRow[key[r]] = NULL
    /\ ~Taken(reward[r])
    /\ result[r] = Created(r)
    /\ keyRow' = [keyRow EXCEPT ![key[r]] = [reward |-> reward[r], response |-> Created(r)]]
    /\ claims' = claims \cup {[id |-> r, key |-> key[r], reward |-> reward[r]]}
    /\ events' = events \cup {r}
    /\ forgotten' = forgotten

Refuses(r) ==
    /\ keyRow[key[r]] = NULL
    /\ Taken(reward[r])
    /\ result[r] = Duplicate
    /\ keyRow' = [keyRow EXCEPT ![key[r]] = [reward |-> reward[r], response |-> Duplicate]]
    /\ UNCHANGED <<claims, events, forgotten>>

\* The locks decide what a COMMIT does.
LEMMA CommitEffect ==
    ASSUME ClaimsInv, NEW r \in Requests, PublishTx(r), pc[r] \in {"commit", "replay", "in_doubt"}
    PROVE  \/ pc[r] = "replay" /\ UNCHANGED dbVars
           \/ pc[r] # "replay" /\ (Grants(r) \/ Refuses(r))
<1> USE ClaimsAssumption
<1>1. CASE pc[r] = "replay"
  <2>1. txKey[r] = NULL /\ ~txClaim[r] /\ ~txEvent[r]
    BY <1>1 DEF ClaimsInv, TypeOK
  <2>2. QED
    BY <1>1, <2>1 DEF PublishTx, dbVars
<1>2. CASE pc[r] \in {"commit", "in_doubt"}
  <2>1. txKey[r] = [reward |-> reward[r], response |-> result[r]] /\ Decided(r)
    BY <1>2 DEF ClaimsInv, TxShape
  <2>2. txKey[r] # NULL
    BY <2>1, <1>2 DEF ClaimsInv, TypeOK, KeyRow
  <2>3. keyRow[key[r]] = NULL
    BY <2>2 DEF ClaimsInv, KeyLocks
  <2>4. CASE txClaim[r] /\ txEvent[r] /\ result[r] = Created(r)
    <3>1. ~Taken(reward[r])
      BY <2>4 DEF ClaimsInv, ClaimLocks
    <3>2. QED
      BY <1>2, <2>1, <2>2, <2>3, <2>4, <3>1 DEF PublishTx, Grants
  <2>5. CASE ~txClaim[r] /\ ~txEvent[r] /\ result[r] = Duplicate /\ Taken(reward[r])
    BY <1>2, <2>1, <2>2, <2>3, <2>5 DEF PublishTx, Refuses
  <2>6. QED
    BY <2>1, <2>4, <2>5 DEF Decided
<1>3. QED
  BY <1>1, <1>2

-----------------------------------------------------------------------------
(* The locks and the shape of the open transactions are preserved. *)

\* A reward once taken stays taken.
LEMMA TakenStays ==
    ASSUME ClaimsInv, NEW r \in Requests, CallStep(r)
    PROVE  claims \subseteq claims'
BY OnlyCommit, CommitEffect DEF Commit, LateCommit, Grants, Refuses, dbVars

\* Each statement writes what the next one expects.
LEMMA TxShapeStep ==
    ASSUME ClaimsInv, NEW r \in Requests, CallStep(r)
    PROVE  TxShape'
<1> USE ClaimsAssumption
<1> SUFFICES ASSUME NEW q \in Requests
             PROVE  (/\ pc[q] = "insert" => txKey[q] = EmptyRow(q) /\ ~txClaim[q] /\ ~txEvent[q]
                     /\ pc[q] = "event" =>
                            /\ txKey[q] = EmptyRow(q) /\ txClaim[q] /\ ~txEvent[q]
                            /\ result[q] = Created(q)
                     /\ pc[q] = "complete" => txKey[q] = EmptyRow(q) /\ Decided(q)
                     /\ pc[q] \in {"commit", "in_doubt"} =>
                            /\ txKey[q] = [reward |-> reward[q], response |-> result[q]]
                            /\ Decided(q))'
  BY DEF TxShape
<1>1. CASE q # r
  <2>1. Taken(reward[q]) => Taken(reward[q])'
    BY <1>1, OnlyOwn, TakenStays DEF Taken, ClaimsInv
  <2>2. QED
    BY <1>1, <2>1, OnlyOwn DEF ClaimsInv, TxShape, EmptyRow, Decided
<1>2. CASE q = r
  <2>1. CASE \E k \in Keys, w \in Rewards : Begin(r, k, w)
    BY <1>2, <2>1 DEF Begin, Goto, ClaimsInv, TypeOK
  <2>2. CASE Reserve(r)
    <3>1. ~txClaim[r] /\ ~txEvent[r]
      BY <2>2 DEF Reserve, ClaimsInv, TypeOK
    <3>2. QED
      BY <1>2, <2>2, <3>1 DEF Reserve, Goto, ClaimsInv, TypeOK, EmptyRow
  <2>3. CASE ReserveConflict(r) \/ LoadMissing(r) \/ LoadRefused(r) \/ LoadReplay(r)
    BY <1>2, <2>3 DEF ReserveConflict, LoadMissing, LoadRefused, LoadReplay, FailWith, Goto,
                      ClaimsInv, TypeOK
  <2>4. CASE InsertClaim(r)
    BY <1>2, <2>4 DEF InsertClaim, Goto, ClaimsInv, TypeOK, TxShape, EmptyRow
  <2>5. CASE InsertClaimConflict(r)
    BY <1>2, <2>5 DEF InsertClaimConflict, Goto, ClaimsInv, TypeOK, TxShape, EmptyRow, Decided,
                      Taken, txVars, dbVars
  <2>6. CASE InsertOutboxEvent(r)
    BY <1>2, <2>6 DEF InsertOutboxEvent, Goto, ClaimsInv, TypeOK, TxShape, EmptyRow, Decided
  <2>7. CASE CompleteKey(r)
    <3>1. txKey[r] = EmptyRow(r) /\ Decided(r)
      BY <2>7 DEF CompleteKey, ClaimsInv, TxShape
    <3>2. /\ pc'[r] = "commit"
          /\ txKey'[r] = [reward |-> reward[r], response |-> result[r]]
      BY <2>7, <3>1 DEF CompleteKey, Goto, EmptyRow, ClaimsInv, TypeOK
    <3>3. Decided(r)'
      BY <2>7, <3>1 DEF CompleteKey, Decided, Taken, dbVars
    <3>4. QED
      BY <1>2, <2>7, <3>2, <3>3 DEF CompleteKey
  <2>8. CASE Commit(r) \/ LateCommit(r) \/ Rollback(r)
    BY <1>2, <2>8 DEF Commit, LateCommit, Rollback, Goto, ClaimsInv, TypeOK
  <2>9. CASE Fail(r)
    <3>1. pc'[r] = "in_doubt" => pc[r] = "commit"
      BY <2>9 DEF Fail, Goto, ClaimsInv, TypeOK
    <3>2. pc'[r] \in {"in_doubt", "aborting"}
      BY <2>9 DEF Fail, Goto, ClaimsInv, TypeOK
    <3>3. Decided(r) => Decided(r)'
      BY <2>9 DEF Fail, Decided, Taken, dbVars, txVars
    <3>4. QED
      BY <1>2, <2>9, <3>1, <3>2, <3>3 DEF Fail, ClaimsInv, TxShape, txVars
  <2>10. QED
    BY <2>1, <2>2, <2>3, <2>4, <2>5, <2>6, <2>7, <2>8, <2>9 DEF CallStep, Statement
<1>3. QED
  BY <1>1, <1>2

\* A reservation is made only where no row and no other reservation stands.
LEMMA KeyLocksStep ==
    ASSUME ClaimsInv, NEW r \in Requests, CallStep(r)
    PROVE  KeyLocks'
<1> USE ClaimsAssumption
<1>1. CASE Reserve(r)
  <2>1. keyRow' = keyRow /\ key' = key /\ \A q \in Requests : q # r => txKey'[q] = txKey[q]
    BY <1>1 DEF Reserve, ClaimsInv, TypeOK, dbVars
  <2>2. keyRow[key[r]] = NULL /\ \A q \in Requests : txKey[q] # NULL /\ key[q] = key[r] => q = r
    BY <1>1 DEF Reserve, KeyContended
  <2>3. QED
    BY <2>1, <2>2 DEF KeyLocks, ClaimsInv
<1>2. CASE ~Reserve(r)
  <2>1. txKey'[r] # NULL => txKey[r] # NULL /\ key'[r] = key[r]
    <3>1. CASE CompleteKey(r)
      <4>1. txKey[r] = EmptyRow(r) /\ reward[r] \in Rewards /\ key' = key
        BY <3>1 DEF CompleteKey, ClaimsInv, TxShape, TypeOK
      <4>2. EmptyRow(r) \in KeyRow
        BY <4>1 DEF EmptyRow, KeyRow
      <4>3. QED
        BY <4>1, <4>2
    <3>2. CASE \E k \in Keys, w \in Rewards : Begin(r, k, w)
      BY <3>2 DEF Begin, ClaimsInv, TypeOK, txVars
    <3>3. CASE ~CompleteKey(r) /\ ~\E k \in Keys, w \in Rewards : Begin(r, k, w)
      BY <1>2, <3>3
         DEF CallStep, Statement, ReserveConflict, LoadMissing, LoadRefused, LoadReplay,
             InsertClaim, InsertClaimConflict, InsertOutboxEvent, Commit, Fail, Rollback,
             LateCommit, PublishTx, DiscardTx, txVars, ClaimsInv, TypeOK
    <3>4. QED
      BY <3>1, <3>2, <3>3
  <2>2. \A q \in Requests : txKey'[q] # NULL => txKey[q] # NULL /\ key'[q] = key[q]
    BY <2>1, OnlyOwn DEF ClaimsInv
  <2>3. ASSUME NEW q \in Requests, txKey'[q] # NULL
        PROVE  keyRow'[key[q]] = NULL
    <3>1. keyRow[key[q]] = NULL /\ key[q] \in Keys
      BY <2>2, <2>3 DEF ClaimsInv, KeyLocks, TypeOK
    <3>2. CASE Commit(r) \/ LateCommit(r)
      <4>1. txKey'[r] = NULL
        BY <3>2 DEF Commit, LateCommit, PublishTx, DiscardTx, ClaimsInv, TypeOK
      <4>2. q # r
        BY <2>3, <4>1
      <4>3. CASE txKey[r] = NULL
        BY <3>1, <3>2, <4>3 DEF Commit, LateCommit, PublishTx
      <4>4. CASE txKey[r] # NULL
        <5>1. key[q] # key[r]
          BY <2>2, <2>3, <4>2, <4>4 DEF ClaimsInv, KeyLocks
        <5>2. QED
          BY <3>1, <3>2, <4>4, <5>1 DEF Commit, LateCommit, PublishTx, ClaimsInv, TypeOK
      <4>5. QED
        BY <4>3, <4>4
    <3>3. CASE ~(Commit(r) \/ LateCommit(r))
      BY <3>1, <3>3, OnlyCommit DEF dbVars
    <3>4. QED
      BY <3>2, <3>3
  <2>4. QED
    BY <2>2, <2>3 DEF KeyLocks, ClaimsInv
<1>3. QED
  BY <1>1, <1>2

\* A claim is inserted only where no claim and no other insert stands.
LEMMA ClaimLocksStep ==
    ASSUME ClaimsInv, NEW r \in Requests, CallStep(r)
    PROVE  ClaimLocks'
<1>1. CASE InsertClaim(r)
  <2>1. claims' = claims /\ reward' = reward /\ \A q \in Requests : q # r => txClaim'[q] = txClaim[q]
    BY <1>1 DEF InsertClaim, ClaimsInv, TypeOK, dbVars
  <2>2. ~Taken(reward[r]) /\ \A q \in Requests : txClaim[q] /\ reward[q] = reward[r] => q = r
    BY <1>1 DEF InsertClaim, ClaimContended, Taken
  <2>3. QED
    BY <2>1, <2>2 DEF ClaimLocks, ClaimsInv, Taken
<1>2. CASE ~InsertClaim(r)
  <2>1. txClaim'[r] => txClaim[r] /\ reward'[r] = reward[r]
    <3>1. CASE \E k \in Keys, w \in Rewards : Begin(r, k, w)
      BY <3>1 DEF Begin, ClaimsInv, TypeOK, txVars
    <3>2. CASE ~\E k \in Keys, w \in Rewards : Begin(r, k, w)
      BY <1>2, <3>2
         DEF CallStep, Statement, Reserve, ReserveConflict, LoadMissing, LoadRefused, LoadReplay,
             InsertClaimConflict, InsertOutboxEvent, CompleteKey, Commit, Fail, Rollback,
             LateCommit, PublishTx, DiscardTx, txVars, ClaimsInv, TypeOK
    <3>3. QED
      BY <3>1, <3>2
  <2>2. \A q \in Requests : txClaim'[q] => txClaim[q] /\ reward'[q] = reward[q]
    BY <2>1, OnlyOwn DEF ClaimsInv
  <2>3. ASSUME NEW q \in Requests, txClaim'[q], NEW c \in claims'
        PROVE  c.reward # reward[q]
    <3>1. ~Taken(reward[q])
      BY <2>2, <2>3 DEF ClaimsInv, ClaimLocks
    <3>2. CASE Commit(r) \/ LateCommit(r)
      <4>1. ~txClaim'[r]
        BY <3>2 DEF Commit, LateCommit, PublishTx, DiscardTx, ClaimsInv, TypeOK
      <4>2. txClaim[r] => reward[q] # reward[r]
        BY <2>2, <2>3, <4>1 DEF ClaimsInv, ClaimLocks
      <4>3. c \in claims \/ (txClaim[r] /\ c = [id |-> r, key |-> key[r], reward |-> reward[r]])
        BY <3>2, <2>3 DEF Commit, LateCommit, PublishTx
      <4>4. QED
        BY <3>1, <4>2, <4>3 DEF Taken
    <3>3. CASE ~(Commit(r) \/ LateCommit(r))
      BY <3>1, <3>3, OnlyCommit DEF dbVars, Taken
    <3>4. QED
      BY <3>2, <3>3
  <2>4. QED
    BY <2>2, <2>3 DEF ClaimLocks, ClaimsInv, Taken
<1>3. QED
  BY <1>1, <1>2

-----------------------------------------------------------------------------
(* What is stored, replayed and answered stays true. *)

\* A response stays sound when claims are added only for free rewards.
LEMMA SoundStays ==
    ASSUME NEW cs, NEW ds, NEW fs, NEW gs, NEW resp, NEW k, NEW w,
           SoundIn(cs, fs, resp, k, w),
           cs \subseteq ds, fs \subseteq gs,
           \A d \in ds : d \in cs \/ \A c \in cs : c.reward # d.reward
    PROVE  SoundIn(ds, gs, resp, k, w)
BY DEF SoundIn

\* Every step adds claims in that way.
LEMMA ClaimsGrow ==
    ASSUME ClaimsInv, NEW r \in Requests, CallStep(r)
    PROVE  /\ claims \subseteq claims'
           /\ forgotten' = forgotten
           /\ \A d \in claims' : d \in claims \/ \A c \in claims : c.reward # d.reward
<1>1. CASE Commit(r) \/ LateCommit(r)
  <2>1. UNCHANGED dbVars \/ Grants(r) \/ Refuses(r)
    BY <1>1, CommitEffect DEF Commit, LateCommit
  <2>2. CASE Grants(r)
    <3> DEFINE new == [id |-> r, key |-> key[r], reward |-> reward[r]]
    <3>1. claims' = claims \cup {new} /\ forgotten' = forgotten
      BY <2>2 DEF Grants
    <3>2. \A c \in claims : c.reward # new.reward
      BY <2>2 DEF Grants, Taken
    <3>3. QED
      BY <3>1, <3>2
  <2>3. CASE Refuses(r) \/ UNCHANGED dbVars
    BY <2>3 DEF Refuses, dbVars
  <2>4. QED
    BY <2>1, <2>2, <2>3
<1>2. CASE ~(Commit(r) \/ LateCommit(r))
  BY <1>2, OnlyCommit DEF dbVars
<1>3. QED
  BY <1>1, <1>2

\* The result of a decided request is sound once it is committed.
LEMMA DecisionSound ==
    ASSUME ClaimsInv, NEW r \in Requests, pc[r] # "idle", Grants(r) \/ Refuses(r)
    PROVE  /\ result[r] \in Response
           /\ SoundIn(claims', forgotten', result[r], key[r], reward[r])
<1> USE ClaimsAssumption
<1>1. key[r] \in Keys
  BY DEF ClaimsInv, TypeOK
<1>2. CASE Grants(r)
  <2> DEFINE new == [id |-> r, key |-> key[r], reward |-> reward[r]]
  <2>1. new \in claims' /\ new.id = r /\ new.reward = reward[r]
    BY <1>2 DEF Grants
  <2>2. result[r] = Created(r) /\ Created(r).claim = r /\ Created(r) # Duplicate
    BY <1>2 DEF Grants, Created, Duplicate
  <2>3. Created(r) \in Response
    BY DEF Created, Response
  <2> HIDE DEF new
  <2>4. QED
    BY <2>1, <2>2, <2>3 DEF SoundIn
<1>3. CASE Refuses(r)
  <2>1. \A c \in claims : c.key = key[r] => key[r] \in forgotten
    <3> SUFFICES ASSUME NEW c \in claims, c.key = key[r], key[r] \notin forgotten
                 PROVE  FALSE
      OBVIOUS
    <3>1. keyRow[key[r]] = [reward |-> c.reward, response |-> Created(c.id)]
      BY DEF ClaimsInv, ClaimIsComplete
    <3>2. [reward |-> c.reward, response |-> Created(c.id)] \in KeyRow
      BY DEF ClaimsInv, TypeOK, Claim, KeyRow, Created, Response
    <3>3. QED
      BY <1>3, <3>1, <3>2 DEF Refuses
  <2>2. QED
    BY <1>3, <2>1 DEF Refuses, SoundIn, Taken, Duplicate, Response
<1>4. QED
  BY <1>2, <1>3

\* No step stores, replays or answers anything that is not sound.
LEMMA AnswersStep ==
    ASSUME ClaimsInv, NEW r \in Requests, CallStep(r)
    PROVE  StoredSound' /\ ReplaySound' /\ RepliesSound'
<1> USE ClaimsAssumption
<1>1. \A resp, k, w : Sound(resp, k, w) => SoundIn(claims', forgotten', resp, k, w)
  BY ClaimsGrow, SoundStays DEF Sound
<1>2. \A err \in Errors : \A k, w : SoundIn(claims', forgotten', Failed(err), k, w)
  BY DEF SoundIn, Failed, Errors, Duplicate
<1>3. StoredSound'
  <2> SUFFICES ASSUME NEW k \in Keys, keyRow'[k] # NULL
               PROVE  /\ keyRow'[k].response # NULL
                      /\ SoundIn(claims', forgotten', keyRow'[k].response, k, keyRow'[k].reward)
    BY DEF StoredSound, Sound
  <2>1. CASE keyRow'[k] = keyRow[k]
    BY <1>1, <2>1 DEF ClaimsInv, StoredSound
  <2>2. CASE keyRow'[k] # keyRow[k]
    <3>1. (Commit(r) \/ LateCommit(r)) /\ (Grants(r) \/ Refuses(r))
      BY <2>2, OnlyCommit, CommitEffect DEF Commit, LateCommit, dbVars
    <3>2. pc[r] # "idle"
      BY <3>1 DEF Commit, LateCommit
    <3>3. result[r] \in Response /\ SoundIn(claims', forgotten', result[r], key[r], reward[r])
      BY <3>1, <3>2, DecisionSound
    <3>4. k = key[r] /\ keyRow'[k] = [reward |-> reward[r], response |-> result[r]]
      BY <2>2, <3>1 DEF Grants, Refuses, ClaimsInv, TypeOK
    <3>5. QED
      BY <3>3, <3>4
  <2>3. QED
    BY <2>1, <2>2
<1>4. ReplaySound'
  <2> SUFFICES ASSUME NEW q \in Requests, pc'[q] = "replay"
               PROVE  result'[q] # NULL /\ SoundIn(claims', forgotten', result'[q], key'[q], reward'[q])
    BY DEF ReplaySound, Sound
  <2>1. CASE q # r
    BY <1>1, <2>1, OnlyOwn DEF ClaimsInv, ReplaySound
  <2>2. CASE q = r
    <3>1. LoadReplay(r)
      BY <2>2 DEF CallStep, Statement, Begin, Reserve, ReserveConflict, LoadMissing, LoadRefused,
                  InsertClaim, InsertClaimConflict, InsertOutboxEvent, CompleteKey, Commit, Fail,
                  Rollback, LateCommit, FailWith, Goto, ClaimsInv, TypeOK
    <3>2. /\ result'[r] = keyRow[key[r]].response /\ result'[r] # NULL
          /\ key' = key /\ reward' = reward /\ keyRow[key[r]] # NULL
          /\ keyRow[key[r]].reward = reward[r]
      BY <3>1 DEF LoadReplay, ClaimsInv, TypeOK
    <3>3. key[r] \in Keys
      BY <3>1 DEF LoadReplay, ClaimsInv, TypeOK
    <3>4. QED
      BY <1>1, <2>2, <3>2, <3>3 DEF ClaimsInv, StoredSound
  <2>3. QED
    BY <2>1, <2>2
<1>5. RepliesSound'
  <2> SUFFICES ASSUME NEW q \in Requests, reply'[q] # NULL
               PROVE  /\ SoundIn(claims', forgotten', reply'[q], key'[q], reward'[q])
                      /\ reply'[q] \notin {Failed("missing_response"), Failed("not_completed")}
    BY DEF RepliesSound, Sound, Failed
  <2>1. CASE reply'[q] = reply[q]
    <3>1. key'[q] = key[q] /\ reward'[q] = reward[q]
      <4>1. CASE q # r
        BY <4>1, OnlyOwn DEF ClaimsInv
      <4>2. CASE q = r
        <5>1. pc[r] # "idle"
          BY <2>1, <4>2 DEF ClaimsInv, TypeOK
        <5>2. QED
          BY <4>2, <5>1
             DEF CallStep, Statement, Begin, Reserve, ReserveConflict, LoadMissing, LoadRefused,
                 LoadReplay, InsertClaim, InsertClaimConflict, InsertOutboxEvent, CompleteKey,
                 Commit, Fail, Rollback, LateCommit
      <4>3. QED
        BY <4>1, <4>2
    <3>2. QED
      BY <1>1, <2>1, <3>1 DEF ClaimsInv, RepliesSound
  <2>2. CASE reply'[q] # reply[q]
    <3>1. q = r
      BY <2>2, OnlyOwn DEF ClaimsInv
    <3>2. CASE LoadRefused(r)
      <4>1. key[r] \in Keys /\ keyRow[key[r]].response # NULL
        BY <3>2 DEF LoadRefused, ClaimsInv, TypeOK, StoredSound
      <4>2. reply'[r] = Failed("key_reused") /\ "key_reused" \in Errors
        BY <3>2, <4>1 DEF LoadRefused, FailWith, ClaimsInv, TypeOK, Errors
      <4>3. QED
        BY <1>2, <3>1, <4>2 DEF Failed
    <3>3. CASE Fail(r)
      <4>1. reply'[r] = Failed("failed") /\ "failed" \in Errors
        BY <3>3 DEF Fail, ClaimsInv, TypeOK, Errors
      <4>2. QED
        BY <1>2, <3>1, <4>1 DEF Failed
    <3>4. CASE Commit(r)
      <4>1. reply'[r] = result[r] /\ key' = key /\ reward' = reward /\ pc[r] # "idle"
        BY <3>4 DEF Commit, ClaimsInv, TypeOK
      <4>2. result[r] \in Response /\ SoundIn(claims', forgotten', result[r], key[r], reward[r])
        <5>1. CASE pc[r] = "replay"
          BY <1>1, <5>1 DEF ClaimsInv, TypeOK, ReplaySound
        <5>2. CASE pc[r] # "replay"
          BY <3>4, <4>1, <5>2, CommitEffect, DecisionSound DEF Commit
        <5>3. QED
          BY <5>1, <5>2
      <4>3. QED
        BY <3>1, <4>1, <4>2 DEF Response, Failed
    <3>5. CASE CompleteKey(r)
      <4>1. txKey[r] = EmptyRow(r)
        BY <3>5 DEF CompleteKey, ClaimsInv, TxShape
      <4>2. reply' = reply
        BY <3>5, <4>1 DEF CompleteKey, EmptyRow
      <4>3. QED
        BY <2>2, <4>2
    <3>6. QED
      BY <2>2, <3>2, <3>3, <3>4, <3>5
         DEF CallStep, Statement, Begin, Reserve, ReserveConflict, LoadMissing, LoadReplay,
             InsertClaim, InsertClaimConflict, InsertOutboxEvent, Rollback, LateCommit
  <2>3. QED
    BY <2>1, <2>2
<1>6. QED
  BY <1>3, <1>4, <1>5

\* A COMMIT adds at most one claim, for a free reward, complete with its
\* event and its stored response.
LEMMA TablesStep ==
    ASSUME ClaimsInv, NEW r \in Requests, CallStep(r)
    PROVE  OneClaimPerReward' /\ ClaimIsComplete'
<1>1. CASE UNCHANGED dbVars
  BY <1>1 DEF ClaimsInv, OneClaimPerReward, ClaimIsComplete, dbVars
<1>2. CASE (Commit(r) \/ LateCommit(r)) /\ (Grants(r) \/ Refuses(r))
  <2>1. key[r] \in Keys
    BY <1>2 DEF Commit, LateCommit, ClaimsInv, TypeOK
  <2>2. \A c \in claims : c.key \in Keys /\ (c.key \notin forgotten => c.key # key[r])
    <3> SUFFICES ASSUME NEW c \in claims
                 PROVE  c.key \in Keys /\ (c.key \notin forgotten => c.key # key[r])
      OBVIOUS
    <3>1. c.key \in Keys /\ [reward |-> c.reward, response |-> Created(c.id)] \in KeyRow
      BY DEF ClaimsInv, TypeOK, Claim, KeyRow, Created, Response
    <3>2. keyRow[key[r]] = NULL
      BY <1>2 DEF Grants, Refuses
    <3>3. QED
      BY <3>1, <3>2, ClaimsAssumption DEF ClaimsInv, ClaimIsComplete
  <2>3. \A c \in claims : c.key \notin forgotten => keyRow'[c.key] = keyRow[c.key]
    BY <1>2, <2>1, <2>2 DEF Grants, Refuses, ClaimsInv, TypeOK
  <2>4. CASE Grants(r)
    <3> DEFINE new == [id |-> r, key |-> key[r], reward |-> reward[r]]
    <3>1. /\ claims' = claims \cup {new} /\ new.id = r /\ new.key = key[r]
          /\ new.reward = reward[r] /\ forgotten' = forgotten /\ events' = events \cup {r}
          /\ keyRow'[key[r]] = [reward |-> reward[r], response |-> Created(r)]
          /\ \A c \in claims : c.reward # reward[r]
      BY <2>1, <2>4 DEF Grants, Taken, ClaimsInv, TypeOK
    <3> HIDE DEF new
    <3>2. OneClaimPerReward'
      BY <3>1 DEF ClaimsInv, OneClaimPerReward
    <3>3. ClaimIsComplete'
      BY <2>3, <3>1 DEF ClaimsInv, ClaimIsComplete
    <3>4. QED
      BY <3>2, <3>3
  <2>5. CASE Refuses(r)
    BY <2>3, <2>5 DEF Refuses, ClaimsInv, OneClaimPerReward, ClaimIsComplete
  <2>6. QED
    BY <1>2, <2>4, <2>5
<1>3. QED
  BY <1>1, <1>2, OnlyCommit, CommitEffect DEF Commit, LateCommit

\* Deleting a record frees its key; everything that was true stays true.
LEMMA CleanupStep ==
    ASSUME ClaimsInv, NEW k \in Keys, CleanupKey(k), TypeOK'
    PROVE  ClaimsInv'
<1>1. /\ claims' = claims /\ events' = events /\ forgotten' = forgotten \cup {k}
      /\ keyRow' = [keyRow EXCEPT ![k] = NULL]
      /\ pc' = pc /\ key' = key /\ reward' = reward /\ txKey' = txKey /\ txClaim' = txClaim
      /\ txEvent' = txEvent /\ result' = result /\ reply' = reply
  BY DEF CleanupKey, txVars
<1>2. \A resp, j, w : Sound(resp, j, w) => SoundIn(claims', forgotten', resp, j, w)
  BY <1>1, SoundStays DEF Sound
<1>3. \A j \in Keys : keyRow'[j] # NULL => j # k /\ keyRow'[j] = keyRow[j]
  BY <1>1 DEF ClaimsInv, TypeOK
<1>4. TxShape'
  BY <1>1 DEF ClaimsInv, TxShape, EmptyRow, Decided, Taken
<1>5. KeyLocks'
  BY <1>1 DEF ClaimsInv, KeyLocks, TypeOK
<1>6. ClaimLocks'
  BY <1>1 DEF ClaimsInv, ClaimLocks, Taken
<1>7. StoredSound'
  BY <1>2, <1>3 DEF ClaimsInv, StoredSound, Sound
<1>8. ReplaySound'
  BY <1>1, <1>2 DEF ClaimsInv, ReplaySound, Sound
<1>9. RepliesSound'
  BY <1>1, <1>2 DEF ClaimsInv, RepliesSound, Sound, Failed
<1>10. OneClaimPerReward'
  BY <1>1 DEF ClaimsInv, OneClaimPerReward
<1>11. ClaimIsComplete'
  <2>1. \A c \in claims : c.key \in Keys
    BY DEF ClaimsInv, TypeOK, Claim
  <2>2. QED
    BY <1>1, <2>1 DEF ClaimsInv, ClaimIsComplete, TypeOK
<1>12. QED
  BY <1>4, <1>5, <1>6, <1>7, <1>8, <1>9, <1>10, <1>11 DEF ClaimsInv

-----------------------------------------------------------------------------
(* The theorems. *)

\* The inductive invariant holds in every reachable state.
THEOREM ClaimsInvariance == Spec => []ClaimsInv
<1>1. Init => ClaimsInv
  BY ClaimsAssumption
     DEF Init, ClaimsInv, TypeOK, TxShape, KeyLocks, ClaimLocks, StoredSound, ReplaySound,
         RepliesSound, OneClaimPerReward, ClaimIsComplete, PCs
<1>2. ClaimsInv /\ [Next]_vars => ClaimsInv'
  <2> SUFFICES ASSUME ClaimsInv, [Next]_vars
               PROVE  ClaimsInv'
    OBVIOUS
  <2>1. CASE UNCHANGED vars
    BY <2>1, TypeStep
       DEF ClaimsInv, TxShape, KeyLocks, ClaimLocks, StoredSound, ReplaySound, RepliesSound,
           OneClaimPerReward, ClaimIsComplete, Sound, SoundIn, EmptyRow, Decided, Taken, Failed,
           Created, Duplicate, vars, dbVars, txVars
  <2>2. ASSUME NEW r \in Requests, CallStep(r)
        PROVE  ClaimsInv'
    BY <2>2, TypeStep, TxShapeStep, KeyLocksStep, ClaimLocksStep, AnswersStep, TablesStep
       DEF ClaimsInv
  <2>3. ASSUME NEW k \in Keys, CleanupKey(k)
        PROVE  ClaimsInv'
    BY <2>3, TypeStep, CleanupStep
  <2>4. QED
    BY <2>1, <2>2, <2>3 DEF Next, CallStep
<1>3. QED
  BY <1>1, <1>2, PTL DEF Spec

\* Types, who may have uncommitted writes, and who has returned.
THEOREM ClaimsTypes == Spec => []TypeOK
<1>1. ClaimsInv => TypeOK
  BY DEF ClaimsInv
<1>2. QED
  BY ClaimsInvariance, <1>1, PTL

\* A reward is granted at most once.
THEOREM AtMostOneClaim == Spec => []OneClaimPerReward
<1>1. ClaimsInv => OneClaimPerReward
  BY DEF ClaimsInv
<1>2. QED
  BY ClaimsInvariance, <1>1, PTL

\* A committed claim has its event and, while retained, its stored response.
THEOREM ClaimAtomicity == Spec => []ClaimIsComplete
<1>1. ClaimsInv => ClaimIsComplete
  BY DEF ClaimsInv
<1>2. QED
  BY ClaimsInvariance, <1>1, PTL

\* Callers are told the truth.
THEOREM TruthfulReplies == Spec => []RepliesAreTrue
<1>1. ClaimsInv => RepliesAreTrue
  <2>1. Duplicate # NULL
    BY ClaimsAssumption DEF Duplicate, Response
  <2>2. QED
    BY <2>1 DEF ClaimsInv, RepliesSound, Sound, SoundIn, RepliesAreTrue
<1>2. QED
  BY ClaimsInvariance, <1>1, PTL

\* A retry under the same key never conflicts with its own earlier success
\* while the record is retained.
THEOREM RetryIsSafe == Spec => []NoSelfConflict
<1>1. ClaimsInv => NoSelfConflict
  <2>1. Duplicate # NULL
    BY ClaimsAssumption DEF Duplicate, Response
  <2>2. QED
    BY <2>1 DEF ClaimsInv, RepliesSound, Sound, SoundIn, NoSelfConflict
<1>2. QED
  BY ClaimsInvariance, <1>1, PTL

\* The invariant-failure branches of the code cannot be taken.
THEOREM DeadErrorBranches == Spec => []ImpossibleErrors
<1>1. ClaimsInv => ImpossibleErrors
  <2>1. Failed("missing_response") # NULL /\ Failed("not_completed") # NULL
    BY FailedType DEF Errors
  <2>2. QED
    BY <2>1 DEF ClaimsInv, RepliesSound, ImpossibleErrors
<1>2. QED
  BY ClaimsInvariance, <1>1, PTL

\* A stored response changes only by being deleted.
THEOREM ReplayIsStable == Spec => StoredResponseImmutable
<1>1. ClaimsInv /\ [Next]_vars =>
        [\A k \in Keys : keyRow[k] # NULL => keyRow'[k] \in {keyRow[k], NULL}]_vars
  <2> SUFFICES ASSUME ClaimsInv, Next, NEW k \in Keys, keyRow[k] # NULL
               PROVE  keyRow'[k] \in {keyRow[k], NULL}
    OBVIOUS
  <2>1. ASSUME NEW r \in Requests, CallStep(r)
        PROVE  keyRow'[k] \in {keyRow[k], NULL}
    <3>1. UNCHANGED dbVars \/ Grants(r) \/ Refuses(r)
      BY <2>1, OnlyCommit, CommitEffect DEF Commit, LateCommit
    <3>2. QED
      BY <3>1 DEF Grants, Refuses, dbVars, ClaimsInv, TypeOK
  <2>2. ASSUME NEW j \in Keys, CleanupKey(j)
        PROVE  keyRow'[k] \in {keyRow[k], NULL}
    BY <2>2 DEF CleanupKey, ClaimsInv, TypeOK
  <2>3. QED
    BY <2>1, <2>2 DEF Next, CallStep
<1>2. QED
  BY ClaimsInvariance, <1>1, PTL DEF Spec, StoredResponseImmutable

-----------------------------------------------------------------------------
(* Replays are deterministic. *)

\* What a call was told, or is about to be told from the record of its key, is
\* what that record holds until retention deletes it.
OnRecord(r) ==
    /\ pc[r] \in {"aborting", "in_doubt"} => reply[r] \notin Response
    /\ key[r] \notin forgotten /\ pc[r] = "replay" =>
           keyRow[key[r]] = [reward |-> reward[r], response |-> result[r]]
    /\ key[r] \notin forgotten /\ reply[r] \in Response =>
           keyRow[key[r]] = [reward |-> reward[r], response |-> reply[r]]

ReplyOnRecord == \A r \in Requests : OnRecord(r)

\* An error is no response.
LEMMA FailedIsNoResponse ==
    \A err \in Errors : Failed(err) \notin Response
BY DEF Failed, Response, Errors

\* A record on file is not overwritten by a call.
LEMMA RecordStays ==
    ASSUME ClaimsInv, NEW r \in Requests, CallStep(r),
           NEW k \in Keys, NEW w \in Rewards, NEW resp \in Response,
           keyRow[k] = [reward |-> w, response |-> resp]
    PROVE  keyRow'[k] = keyRow[k] /\ forgotten' = forgotten
<1>1. UNCHANGED dbVars \/ Grants(r) \/ Refuses(r)
  BY OnlyCommit, CommitEffect DEF Commit, LateCommit
<1>2. keyRow[k] # NULL
  BY ClaimsAssumption DEF KeyRow
<1>3. QED
  BY <1>1, <1>2 DEF Grants, Refuses, dbVars, ClaimsInv, TypeOK

\* The call itself: it takes its replay from the record, and what its COMMIT
\* answers is what its COMMIT stores.
LEMMA OwnReplyStep ==
    ASSUME ClaimsInv, ReplyOnRecord, NEW r \in Requests, CallStep(r)
    PROVE  OnRecord(r)'
<1> USE ClaimsAssumption
<1>0. TypeOK /\ NULL \notin Response
  BY DEF ClaimsInv
<1>1. CASE LoadReplay(r)
  <2>1. keyRow[key[r]] \in KeyRow
    BY <1>0, <1>1 DEF LoadReplay, TypeOK, PCs
  <2>2. keyRow[key[r]] = [reward |-> reward[r], response |-> keyRow[key[r]].response]
    BY <1>1, <2>1 DEF LoadReplay, KeyRow
  <2>3. reply'[r] = NULL
    BY <1>0, <1>1 DEF LoadReplay, TypeOK
  <2>4. QED
    BY <1>0, <1>1, <2>2, <2>3 DEF OnRecord, LoadReplay, Goto, TypeOK, dbVars
<1>2. CASE Commit(r)
  <2>1. /\ pc'[r] = "done" /\ reply'[r] = result[r]
        /\ key'[r] = key[r] /\ reward'[r] = reward[r]
        /\ PublishTx(r) /\ pc[r] \in {"commit", "replay"}
    BY <1>0, <1>2 DEF Commit, Goto, TypeOK
  <2>2. key[r] \in Keys
    BY <1>0, <2>1 DEF TypeOK
  <2>3. CASE pc[r] = "replay" /\ UNCHANGED dbVars
    BY <2>1, <2>3 DEF ReplyOnRecord, OnRecord, dbVars
  <2>4. CASE Grants(r) \/ Refuses(r)
    BY <1>0, <2>1, <2>2, <2>4 DEF OnRecord, Grants, Refuses, TypeOK
  <2>5. QED
    BY <2>1, <2>3, <2>4, CommitEffect
<1>3. CASE ~LoadReplay(r) /\ ~Commit(r)
  <2>1. pc'[r] # "replay"
    BY <1>0, <1>3 DEF CallStep, Statement, Begin, Reserve, ReserveConflict, LoadMissing,
       LoadRefused, InsertClaim, InsertClaimConflict, InsertOutboxEvent, CompleteKey, Fail,
       Rollback, LateCommit, FailWith, Goto, TypeOK
  <2>2. reply'[r] \notin Response
    <3>1. CASE LoadRefused(r) \/ CompleteKey(r) \/ Fail(r)
      <4>1. reply'[r] = NULL \/ \E err \in Errors : reply'[r] = Failed(err)
        BY <1>0, <3>1 DEF LoadRefused, CompleteKey, Fail, FailWith, TypeOK, Errors
      <4>2. QED
        BY <1>0, <4>1, FailedIsNoResponse
    <3>2. CASE Rollback(r) \/ LateCommit(r)
      BY <3>2 DEF Rollback, LateCommit, ReplyOnRecord, OnRecord
    <3>3. CASE ~(LoadRefused(r) \/ CompleteKey(r) \/ Fail(r) \/ Rollback(r) \/ LateCommit(r))
      <4>1. reply' = reply /\ pc[r] \notin {"aborting", "in_doubt", "done"}
        BY <1>3, <3>3 DEF CallStep, Statement, Begin, Reserve, ReserveConflict, LoadMissing,
           InsertClaim, InsertClaimConflict, InsertOutboxEvent
      <4>2. QED
        BY <1>0, <4>1 DEF TypeOK
    <3>4. QED
      BY <3>1, <3>2, <3>3
  <2>3. QED
    BY <2>1, <2>2 DEF OnRecord
<1>4. QED
  BY <1>1, <1>2, <1>3

\* Two calls with one key that were given a response were given the same one,
\* for the same reward, until retention deletes the record.
THEOREM ReplayIsDeterministic == Spec => []DeterministicReplay
<1>1. Init => ReplyOnRecord
  <2>1. NULL \notin Response
    BY ClaimsAssumption
  <2>2. QED
    BY <2>1 DEF Init, ReplyOnRecord, OnRecord
<1>2. ClaimsInv /\ ReplyOnRecord /\ [Next]_vars => ReplyOnRecord'
  <2> SUFFICES ASSUME ClaimsInv, ReplyOnRecord, [Next]_vars
               PROVE  ReplyOnRecord'
    OBVIOUS
  <2>1. CASE UNCHANGED vars
    BY <2>1 DEF ReplyOnRecord, OnRecord, vars, dbVars, txVars
  <2>2. ASSUME NEW r \in Requests, CallStep(r)
        PROVE  ReplyOnRecord'
    <3> SUFFICES ASSUME NEW q \in Requests, q # r
                 PROVE  OnRecord(q)'
      BY <2>2, OwnReplyStep DEF ReplyOnRecord
    <3>1. /\ pc'[q] = pc[q] /\ key'[q] = key[q] /\ reward'[q] = reward[q]
          /\ result'[q] = result[q] /\ reply'[q] = reply[q]
      BY <2>2, OnlyOwn DEF ClaimsInv
    <3>2. forgotten \subseteq forgotten'
      BY <2>2, OnlyCommit, CommitEffect DEF Commit, LateCommit, Grants, Refuses, dbVars
    <3>3. ASSUME pc[q] = "replay"
          PROVE  key[q] \in Keys /\ reward[q] \in Rewards /\ result[q] \in Response
      BY <3>3 DEF ClaimsInv, TypeOK, ReplaySound
    <3>4. ASSUME reply[q] \in Response
          PROVE  key[q] \in Keys /\ reward[q] \in Rewards
      BY <3>4, ClaimsAssumption DEF ClaimsInv, TypeOK
    <3>5. QED
      BY <2>2, <3>1, <3>2, <3>3, <3>4, RecordStays DEF ReplyOnRecord, OnRecord
  <2>3. ASSUME NEW k \in Keys, CleanupKey(k)
        PROVE  ReplyOnRecord'
    BY <2>3 DEF CleanupKey, ReplyOnRecord, OnRecord, ClaimsInv, TypeOK
  <2>4. QED
    BY <2>1, <2>2, <2>3 DEF Next, CallStep
<1>3. ReplyOnRecord => DeterministicReplay
  <2> SUFFICES ASSUME ReplyOnRecord, NEW q \in Requests, NEW r \in Requests,
                      reply[q] \in Response, reply[r] \in Response, key[q] = key[r],
                      key[r] \notin forgotten
               PROVE  reply[q] = reply[r] /\ reward[q] = reward[r]
    BY DEF DeterministicReplay
  <2>1. [reward |-> reward[q], response |-> reply[q]] = [reward |-> reward[r], response |-> reply[r]]
    BY DEF ReplyOnRecord, OnRecord
  <2>2. QED
    BY <2>1
<1>4. QED
  BY ClaimsInvariance, <1>1, <1>2, <1>3, PTL DEF Spec

-----------------------------------------------------------------------------
(* The service implements the ledger. *)

\* Every COMMIT is one decision of the ledger; no other step of a call shows.
LEMMA LedgerStep ==
    ASSUME ClaimsInv, Next
    PROVE  Ledger!LedgerNext \/ UNCHANGED Ledger!ledgerVars
<1> USE DEF Ledger!LedgerNext, Ledger!ledgerVars
<1>1. ASSUME NEW r \in Requests, CallStep(r)
      PROVE  Ledger!LedgerNext \/ UNCHANGED Ledger!ledgerVars
  <2>1. CASE UNCHANGED dbVars
    BY <2>1 DEF dbVars
  <2>2. CASE (Commit(r) \/ LateCommit(r)) /\ Grants(r)
    <3>1. key[r] \in Keys /\ reward[r] \in Rewards
      BY <2>2 DEF Commit, LateCommit, ClaimsInv, TypeOK
    <3>2. Ledger!Grant(r, key[r], reward[r])
      BY <2>2 DEF Grants, Taken, Created, Ledger!Grant, Ledger!Granted
    <3>3. QED
      BY <3>1, <3>2
  <2>3. CASE (Commit(r) \/ LateCommit(r)) /\ Refuses(r)
    <3>1. key[r] \in Keys /\ reward[r] \in Rewards
      BY <2>3 DEF Commit, LateCommit, ClaimsInv, TypeOK
    <3>2. Ledger!Refuse(key[r], reward[r])
      BY <2>3 DEF Refuses, Taken, Duplicate, Ledger!Refuse, Ledger!Granted
    <3>3. QED
      BY <3>1, <3>2
  <2>4. QED
    BY <1>1, <2>1, <2>2, <2>3, OnlyCommit, CommitEffect DEF Commit, LateCommit
<1>2. ASSUME NEW k \in Keys, CleanupKey(k)
      PROVE  Ledger!LedgerNext
  <2>1. Ledger!Forget(k)
    BY <1>2 DEF CleanupKey, Ledger!Forget
  <2>2. QED
    BY <2>1
<1>3. QED
  BY <1>1, <1>2 DEF Next, CallStep

\* Through its committed tables the service is the atomic ledger.
THEOREM LedgerRefinement == Spec => ImplementsLedger
<1>1. Init => Ledger!LedgerInit
  BY DEF Init, Ledger!LedgerInit
<1>2. ClaimsInv /\ [Next]_vars => [Ledger!LedgerNext]_(Ledger!ledgerVars)
  BY LedgerStep DEF vars, dbVars, Ledger!ledgerVars
<1>3. QED
  BY ClaimsInvariance, <1>1, <1>2, PTL DEF Spec, ImplementsLedger, Ledger!LedgerSpec
=============================================================================
