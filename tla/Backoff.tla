------------------------------ MODULE Backoff ------------------------------
(***************************************************************************)
(* backoffPolicy.retryDelay (internal/outbox/backoff.go), the loop that    *)
(* doubles the retry delay, one step per round, in time.Duration's width.  *)
(***************************************************************************)
EXTENDS TimeDuration

CONSTANT MaxAttempts  \* bound on failedAttempts

ASSUME BackoffAssumption == MaxAttempts \in Nat

VARIABLES
    base, max,       \* the policy
    failedAttempts,  \* the argument
    stage,           \* "entry", "loop" or "done"
    delay, remaining,
    ideal            \* (history) base * 2^i after i rounds, of any size

backoffVars == <<base, max, failedAttempts, stage, delay, remaining, ideal>>

\* newBackoffPolicy refuses any other policy.
ValidPolicy(b, m) == b > 0 /\ m > 0 /\ m >= b

\* Faulty variant: the comparison doubles, and may wrap.
ExceedsBySum(d) == Wrap(d + d) > max

\* delay > p.max - delay
Exceeds(d) == d > Wrap(max - d)

BackoffInit ==
    /\ base \in 0..MaxDuration
    /\ max \in 0..MaxDuration
    /\ ValidPolicy(base, max)
    /\ failedAttempts \in 0..MaxAttempts
    /\ stage = "entry"
    /\ delay = 0
    /\ remaining = 0
    /\ ideal = base

\* if failedAttempts <= 1: return base; otherwise the loop is set up.
Enter ==
    /\ stage = "entry"
    /\ delay' = base
    /\ \/ /\ failedAttempts <= 1
          /\ stage' = "done"
          /\ UNCHANGED remaining
       \/ /\ failedAttempts > 1
          /\ remaining' = failedAttempts - 1
          /\ stage' = "loop"
    /\ UNCHANGED <<base, max, failedAttempts, ideal>>

\* if delay > max - delay: return max
Saturate ==
    /\ stage = "loop"
    /\ remaining > 0
    /\ Exceeds(delay)
    /\ delay' = max
    /\ stage' = "done"
    /\ UNCHANGED <<base, max, failedAttempts, remaining, ideal>>

\* delay *= 2
Double ==
    /\ stage = "loop"
    /\ remaining > 0
    /\ ~Exceeds(delay)
    /\ delay' = Wrap(delay + delay)
    /\ ideal' = ideal + ideal
    /\ remaining' = remaining - 1
    /\ UNCHANGED <<base, max, failedAttempts, stage>>

Exit ==
    /\ stage = "loop"
    /\ remaining = 0
    /\ stage' = "done"
    /\ UNCHANGED <<base, max, failedAttempts, delay, remaining, ideal>>

BackoffNext == Enter \/ Saturate \/ Double \/ Exit

BackoffSpec == BackoffInit /\ [][BackoffNext]_backoffVars

-----------------------------------------------------------------------------
(* Properties. *)

\* 2^n
Pow2[n \in Nat] == IF n = 0 THEN 1 ELSE 2 * Pow2[n - 1]

\* The ideal delay for n failures, with unbounded integers.
Exponential(b, n) == IF n <= 1 THEN b ELSE b * Pow2[n - 1]

\* retryDelay is base * 2^(failedAttempts - 1) cut off at max, with no
\* overflow on the way, however large the exponent or max; it is therefore
\* never a delay that ScheduleRetry refuses.
CappedExponential ==
    stage = "done" =>
        delay = IF Exponential(base, failedAttempts) < max
                THEN Exponential(base, failedAttempts) ELSE max
=============================================================================
