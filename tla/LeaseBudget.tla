---------------------------- MODULE LeaseBudget ----------------------------
(***************************************************************************)
(* Why validateOutbox (internal/config/config.go) asks what it asks: under *)
(* an accepted configuration, an iteration of the worker whose queries and *)
(* whose publish respect their timeouts is over before its lease is.       *)
(*                                                                         *)
(* Time is discrete.  It is kept relative, as the time since the current   *)
(* call began and the time left of the row's lease, so that no horizon is  *)
(* needed.  A scheduler stall between two calls is outside this budget, as *)
(* the runbook says; Outbox covers it.                                     *)
(***************************************************************************)
EXTENDS TimeDuration

VARIABLES
    cfg,      \* the settings the process was started with
    pc,       \* where the process, then its worker's iteration, is
    elapsed,  \* time since the current query or publish began
    owner,    \* who leases the row: "none", "self" or "other"
    left      \* locked_until - now(), 0 once it has passed

vars == <<cfg, pc, elapsed, owner, left>>

\* getDuration accepts positive durations only.
Durations == 1..MaxDuration
Config    == [lockTTL : Durations, publishTimeout : Durations, queryTimeout : Durations]

\* Subtraction of time.Durations.
Minus(a, b) == Wrap(a - b)

\* Faulty variants: the sum is compared, and may wrap; one query is forgotten.
validateSum(c) == c.lockTTL > Minus(c.publishTimeout, -(2 * c.queryTimeout))
validateOneQuery(c) == c.lockTTL - c.publishTimeout > c.queryTimeout

\* validateOutbox: the lease budget, subtracted step by step.
validateOutbox(c) ==
    LET afterPublish == Minus(c.lockTTL, c.publishTimeout)
        afterClaim   == Minus(afterPublish, c.queryTimeout)
    IN  /\ c.lockTTL > c.publishTimeout
        /\ afterPublish > c.queryTimeout
        /\ afterClaim > c.queryTimeout

Init ==
    /\ cfg \in Config
    /\ pc = "loading"
    /\ elapsed = 0
    /\ owner = "none"
    /\ left = 0

\* LoadWorker: the process starts with a validated configuration or not at all.
Load ==
    /\ pc = "loading"
    /\ pc' = IF validateOutbox(cfg) THEN "idle" ELSE "rejected"
    /\ UNCHANGED <<cfg, elapsed, owner, left>>

\* The next call of the iteration begins, or the iteration is over.
Goto(label) ==
    /\ pc' = label
    /\ elapsed' = 0

BeginClaim ==
    /\ pc = "idle"
    /\ Goto("claiming")
    /\ UNCHANGED <<cfg, owner, left>>

\* The row is pending or its lease is over; the lease runs from here on.
ExecuteClaim ==
    /\ pc = "claiming"
    /\ left = 0
    /\ owner' = "self"
    /\ left' = cfg.lockTTL
    /\ pc' = "claimed"
    /\ UNCHANGED <<cfg, elapsed>>

ClaimEmpty ==
    /\ pc = "claiming"
    /\ left > 0
    /\ Goto("idle")
    /\ UNCHANGED <<cfg, owner, left>>

\* ClaimNext returns the event and the publisher is called.
ClaimReturns ==
    /\ pc = "claimed"
    /\ Goto("publishing")
    /\ UNCHANGED <<cfg, owner, left>>

PublishReturns ==
    /\ pc = "publishing"
    /\ Goto("finalizing")
    /\ UNCHANGED <<cfg, owner, left>>

\* The transition is recorded under WHERE locked_by = $2, or refused.
ExecuteFinalization ==
    /\ pc = "finalizing"
    /\ IF owner = "self" THEN owner' = "none" /\ left' = 0 ELSE UNCHANGED <<owner, left>>
    /\ Goto("idle")
    /\ UNCHANGED cfg

\* The query timeout ends a claim or a finalization.
QueryTimesOut ==
    /\ pc \in {"claiming", "claimed", "finalizing"}
    /\ elapsed = cfg.queryTimeout
    /\ Goto("idle")
    /\ UNCHANGED <<cfg, owner, left>>

\* Another worker recovers the row once its lease is over, and may settle it.
Recover ==
    /\ pc \notin {"loading", "rejected"}
    /\ left = 0
    /\ owner' = "other"
    /\ left' = cfg.lockTTL
    /\ UNCHANGED <<cfg, pc, elapsed>>

OtherFinalizes ==
    /\ owner = "other"
    /\ owner' = "none"
    /\ left' = 0
    /\ UNCHANGED <<cfg, pc, elapsed>>

\* The time by which the call in progress has returned.
Limit ==
    IF pc = "publishing" THEN cfg.publishTimeout ELSE cfg.queryTimeout

Tick ==
    /\ pc \notin {"loading", "rejected"}
    /\ pc # "idle" => elapsed < Limit
    /\ elapsed' = IF pc = "idle" THEN 0 ELSE elapsed + 1
    /\ left' = IF left = 0 THEN 0 ELSE left - 1
    /\ UNCHANGED <<cfg, pc, owner>>

Next ==
    \/ Load
    \/ BeginClaim
    \/ ExecuteClaim
    \/ ClaimEmpty
    \/ ClaimReturns
    \/ PublishReturns
    \/ ExecuteFinalization
    \/ QueryTimesOut
    \/ Recover
    \/ OtherFinalizes
    \/ Tick

Spec == Init /\ [][Next]_vars

-----------------------------------------------------------------------------
(* Properties. *)

\* Every variable has its type.
TypeOK ==
    /\ cfg \in Config
    /\ pc \in {"loading", "rejected", "idle", "claiming", "claimed", "publishing", "finalizing"}
    /\ elapsed \in 0..MaxDuration
    /\ owner \in {"none", "self", "other"}
    /\ left \in 0..MaxDuration

\* The error message of validateOutbox is exact, up to the largest Duration:
\* no subtraction wraps, and a configuration is refused exactly when the
\* lease is not longer than the publish timeout plus twice the query timeout.
BudgetExact ==
    pc # "loading" =>
        (pc = "rejected" <=>
             cfg.lockTTL <= cfg.publishTimeout + 2 * cfg.queryTimeout)

\* From the claim to the finalization the row is ours, with lease to spare:
\* no other worker publishes the event meanwhile.
LeaseCoversIteration ==
    pc \in {"claimed", "publishing", "finalizing"} => owner = "self" /\ left > 0
=============================================================================
