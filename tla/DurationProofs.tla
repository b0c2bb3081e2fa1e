--------------------------- MODULE DurationProofs ---------------------------
(***************************************************************************)
(* Proofs about the arithmetic on time.Durations, for every width of the   *)
(* type: the doubling loop of retryDelay (Backoff) for every policy and    *)
(* attempt count, and the lease budget of validateOutbox (LeaseBudget) for *)
(* every configuration.                                                    *)
(***************************************************************************)
EXTENDS Backoff, LeaseBudget, WellFoundedInduction, TLAPS

-----------------------------------------------------------------------------
(* Powers of two.  The library's induction theorems take the predicate as  *)
(* an operator, which the provers cannot instantiate; here it is a set.    *)

\* Induction over the naturals: a least counterexample would have a
\* predecessor that is none.
LEMMA SetInduction ==
    ASSUME NEW T \in SUBSET Nat, 0 \in T, \A n \in T : n + 1 \in T
    PROVE  T = Nat
<1> DEFINE R == OpToRel(<, Nat)
<1>1. IsWellFoundedOn(R, Nat)
  BY NatLessThanWellFounded
<1>2. \A x, y \in Nat : x < y => <<x, y>> \in R
  BY DEF OpToRel
<1> HIDE DEF R
<1> SUFFICES ASSUME Nat \ T # {} PROVE FALSE
  OBVIOUS
<1>3. PICK m \in Nat \ T : \A k \in Nat \ T : ~ (<<k, m>> \in R)
  BY <1>1, WFMin
<1>4. m # 0 /\ m - 1 \in Nat
  OBVIOUS
<1>5. <<m - 1, m>> \in R
  BY <1>2, <1>4
<1>6. m - 1 \in T
  BY <1>3, <1>4, <1>5
<1>7. (m - 1) + 1 \in T
  BY <1>6
<1> QED
  BY <1>7

\* The functions that follow the recursion of Pow2 up to n.
Pow2UpTo(n) ==
    {g \in [0..n -> Nat] : g[0] = 1 /\ \A i \in 1..n : g[i] = 2 * g[i - 1]}

\* There is one for every n,
LEMMA Pow2UpToExists == \A n \in Nat : Pow2UpTo(n) # {}
<1> DEFINE T == {n \in Nat : Pow2UpTo(n) # {}}
<1>1. 0 \in T
  <2>1. [i \in 0..0 |-> 1] \in Pow2UpTo(0)
    BY DEF Pow2UpTo
  <2> QED
    BY <2>1
<1>2. ASSUME NEW n \in T PROVE n + 1 \in T
  <2>1. PICK g : g \in Pow2UpTo(n)
    OBVIOUS
  <2> DEFINE h == [i \in 0..n + 1 |-> IF i = n + 1 THEN 2 * g[n] ELSE g[i]]
  <2>2. h \in [0..n + 1 -> Nat] /\ h[0] = 1
    BY <2>1 DEF Pow2UpTo
  <2>3. ASSUME NEW i \in 1..n + 1 PROVE h[i] = 2 * h[i - 1]
    <3>1. CASE i = n + 1
      BY <2>1, <3>1 DEF Pow2UpTo
    <3>2. CASE i # n + 1
      <4>1. i \in 1..n /\ i - 1 \in 0..n /\ i - 1 # n + 1
        BY <3>2
      <4> QED
        BY <2>1, <4>1 DEF Pow2UpTo
    <3> QED
      BY <3>1, <3>2
  <2> HIDE DEF h
  <2>4. h \in Pow2UpTo(n + 1)
    BY <2>2, <2>3 DEF Pow2UpTo
  <2> QED
    BY <2>4
<1> HIDE DEF T
<1>3. T \in SUBSET Nat
  BY DEF T
<1>4. T = Nat
  BY <1>1, <1>2, <1>3, SetInduction
<1> QED
  BY <1>4 DEF T

\* and it agrees with the next.
LEMMA Pow2UpToAgree ==
    ASSUME NEW n \in Nat, NEW g \in Pow2UpTo(n), NEW h \in Pow2UpTo(n + 1)
    PROVE  \A i \in 0..n : g[i] = h[i]
<1> DEFINE T == {i \in Nat : i <= n => g[i] = h[i]}
<1>1. 0 \in T
  BY DEF Pow2UpTo
<1>2. ASSUME NEW i \in T PROVE i + 1 \in T
  <2> SUFFICES ASSUME i + 1 <= n PROVE g[i + 1] = h[i + 1]
    OBVIOUS
  <2>1. i + 1 \in 1..n /\ i + 1 \in 1..n + 1 /\ (i + 1) - 1 = i
    OBVIOUS
  <2>2. g[i + 1] = 2 * g[i] /\ h[i + 1] = 2 * h[i]
    BY <2>1 DEF Pow2UpTo
  <2> QED
    BY <2>2
<1> HIDE DEF T
<1>3. T \in SUBSET Nat
  BY DEF T
<1>4. T = Nat
  BY <1>1, <1>2, <1>3, SetInduction
<1> QED
  BY <1>4 DEF T

\* So the recursion has a solution, and Pow2 is one.
LEMMA Pow2Def ==
    /\ Pow2 \in [Nat -> Nat]
    /\ Pow2[0] = 1
    /\ \A n \in Nat : Pow2[n + 1] = 2 * Pow2[n]
<1> DEFINE G(n) == CHOOSE g \in Pow2UpTo(n) : TRUE
           f == [n \in Nat |-> G(n)[n]]
<1>1. \A n \in Nat : G(n) \in Pow2UpTo(n)
  BY Pow2UpToExists
<1>2. \A n \in Nat : f[n] = G(n)[n]
  OBVIOUS
<1> HIDE DEF G
<1>3. f \in [Nat -> Nat] /\ f[0] = 1
  BY <1>1 DEF Pow2UpTo
<1>4. ASSUME NEW n \in Nat PROVE f[n + 1] = 2 * f[n]
  <2>1. G(n + 1)[n + 1] = 2 * G(n + 1)[n]
    BY <1>1 DEF Pow2UpTo
  <2>2. G(n)[n] = G(n + 1)[n]
    BY <1>1, Pow2UpToAgree
  <2> QED
    BY <2>1, <2>2, <1>2
<1> HIDE DEF f
<1>5. f = [n \in Nat |-> IF n = 0 THEN 1 ELSE 2 * f[n - 1]]
  <2>1. ASSUME NEW n \in Nat PROVE f[n] = IF n = 0 THEN 1 ELSE 2 * f[n - 1]
    <3>1. CASE n = 0
      BY <3>1, <1>3
    <3>2. CASE n # 0
      <4>1. n - 1 \in Nat /\ (n - 1) + 1 = n
        BY <3>2
      <4>2. f[(n - 1) + 1] = 2 * f[n - 1]
        BY <4>1, <1>4
      <4> QED
        BY <4>1, <4>2, <3>2
    <3> QED
      BY <3>1, <3>2
  <2> QED
    BY <1>3, <2>1
<1>6. Pow2 = [n \in Nat |-> IF n = 0 THEN 1 ELSE 2 * Pow2[n - 1]]
  BY <1>5, Zenon DEF Pow2
<1>7. Pow2[0] = 1 /\ \A n \in Nat : Pow2[n + 1] = 2 * Pow2[n]
  BY <1>6
<1>8. Pow2 \in [Nat -> Nat]
  <2> DEFINE T == {n \in Nat : Pow2[n] \in Nat}
  <2>1. 0 \in T /\ \A n \in T : n + 1 \in T
    BY <1>7
  <2> HIDE DEF T
  <2>2. T \in SUBSET Nat
    BY DEF T
  <2>3. T = Nat
    BY <2>1, <2>2, SetInduction
  <2> QED
    BY <2>3, <1>6 DEF T
<1> QED
  BY <1>7, <1>8

\* Powers of two grow.
LEMMA Pow2Monotone ==
    ASSUME NEW m \in Nat, NEW n \in Nat, m <= n
    PROVE  Pow2[m] <= Pow2[n]
<1> DEFINE T == {k \in Nat : Pow2[m] <= Pow2[m + k]}
<1>1. 0 \in T
  BY Pow2Def
<1>2. ASSUME NEW k \in T PROVE k + 1 \in T
  <2>1. Pow2[m + (k + 1)] = 2 * Pow2[m + k]
    BY Pow2Def
  <2> QED
    BY <2>1, Pow2Def
<1> HIDE DEF T
<1>3. T \in SUBSET Nat
  BY DEF T
<1>4. T = Nat
  BY <1>1, <1>2, <1>3, SetInduction
<1>5. n - m \in T /\ m + (n - m) = n
  BY <1>4
<1> QED
  BY <1>5 DEF T

-----------------------------------------------------------------------------
(* The loop of retryDelay. *)

Rounds == (failedAttempts - 1) - remaining

\* The loop invariant: the delay is the ideal one as long as the loop runs,
\* so neither the subtraction nor the doubling wraps; and the ideal one is
\* base * 2^i after i rounds.
LoopInv ==
    /\ base \in 1..MaxDuration
    /\ max \in base..MaxDuration
    /\ failedAttempts \in 0..MaxAttempts
    /\ stage \in {"entry", "loop", "done"}
    /\ remaining \in Nat
    /\ stage = "entry" => ideal = base
    /\ stage = "loop" =>
           /\ delay = ideal
           /\ delay \in base..max
           /\ failedAttempts > 1
           /\ Rounds \in Nat
           /\ ideal = base * Pow2[Rounds]
    /\ stage = "done" => delay \in base..max
    /\ CappedExponential

\* LoopInv is inductive.
THEOREM LoopInvariance == BackoffSpec => []LoopInv
<1> USE DurationAssumption, BackoffAssumption
<1>1. BackoffInit => LoopInv
  BY DEF BackoffInit, LoopInv, ValidPolicy, CappedExponential
<1>2. LoopInv /\ [BackoffNext]_backoffVars => LoopInv'
  <2> SUFFICES ASSUME LoopInv, [BackoffNext]_backoffVars PROVE LoopInv'
    OBVIOUS
  <2> USE DEF LoopInv
  <2>1. CASE Enter
    <3>1. CASE failedAttempts <= 1
      BY <2>1, <3>1 DEF Enter, CappedExponential, Exponential
    <3>2. CASE failedAttempts > 1
      <4>1. Rounds' = 0 /\ base * Pow2[0] = base
        BY <2>1, <3>2, Pow2Def DEF Enter, Rounds
      <4> QED
        BY <2>1, <3>2, <4>1 DEF Enter, CappedExponential
    <3> QED
      BY <3>1, <3>2
  <2>2. CASE Saturate
    <3>1. stage = "loop" /\ remaining > 0 /\ delay + delay > max
      <4>1. Wrap(max - delay) = max - delay
        BY <2>2 DEF Saturate, Wrap
      <4> QED
        BY <2>2, <4>1 DEF Saturate, Exceeds
    <3>2. Rounds + 1 \in Nat /\ failedAttempts - 1 \in Nat /\ Rounds + 1 <= failedAttempts - 1
      BY <3>1 DEF Rounds
    <3> DEFINE p == Pow2[failedAttempts - 1]
               r == Pow2[Rounds]
    <3>3. p \in Nat /\ r \in Nat /\ 2 * r <= p
      BY <3>1, <3>2, Pow2Def, Pow2Monotone
    <3>4. delay = base * r
      BY <3>1
    <3> HIDE DEF p, r
    <3>5. base * (2 * r) <= base * p
      BY <3>3
    <3>6. base * (2 * r) = delay + delay
      BY <3>3, <3>4
    <3>7. base * p > max
      BY <3>1, <3>3, <3>5, <3>6
    <3>8. ~(Exponential(base, failedAttempts) < max)
      BY <3>1, <3>3, <3>7 DEF Exponential, p
    <3>9. Exponential(base, failedAttempts)' = Exponential(base, failedAttempts)
      BY <2>2 DEF Saturate, Exponential
    <3>10. CappedExponential'
      BY <2>2, <3>8, <3>9 DEF Saturate, CappedExponential
    <3> QED
      BY <2>2, <3>10 DEF Saturate
  <2>3. CASE Double
    <3>1. Wrap(max - delay) = max - delay
      BY <2>3 DEF Double, Wrap
    <3>2. delay + delay <= max
      BY <2>3, <3>1 DEF Double, Exceeds
    <3>3. Wrap(delay + delay) = delay + delay
      BY <2>3, <3>2 DEF Double, Wrap
    <3>4. Rounds' = Rounds + 1 /\ Rounds \in Nat
      BY <2>3 DEF Double, Rounds
    <3>5. ideal' = base * Pow2[Rounds + 1]
      <4>1. Pow2[Rounds + 1] = 2 * Pow2[Rounds] /\ Pow2[Rounds] \in Nat
        BY <3>4, Pow2Def
      <4>2. ideal' = base * Pow2[Rounds] + base * Pow2[Rounds]
        BY <2>3 DEF Double
      <4> QED
        BY <4>1, <4>2
    <3> QED
      BY <2>3, <3>2, <3>3, <3>4, <3>5 DEF Double, CappedExponential
  <2>4. CASE Exit
    <3>1. Rounds = failedAttempts - 1
      BY <2>4 DEF Exit, Rounds
    <3>2. delay = Exponential(base, failedAttempts)
      BY <2>4, <3>1 DEF Exit, Exponential
    <3> QED
      BY <2>4, <3>2 DEF Exit, CappedExponential, Exponential
  <2>5. CASE UNCHANGED backoffVars
    BY <2>5 DEF backoffVars, Rounds, CappedExponential, Exponential
  <2> QED
    BY <2>1, <2>2, <2>3, <2>4, <2>5 DEF BackoffNext
<1> QED
  BY <1>1, <1>2, PTL DEF BackoffSpec

\* retryDelay computes base * 2^(failedAttempts - 1), cut off at max, for every
\* policy that newBackoffPolicy accepts and every count of failures.
THEOREM RetryDelayIsCapped == BackoffSpec => []CappedExponential
<1>1. LoopInv => CappedExponential
  BY DEF LoopInv
<1> QED
  BY <1>1, LoopInvariance, PTL

-----------------------------------------------------------------------------
(* The lease budget. *)

Affordable(c) == c.lockTTL > c.publishTimeout + 2 * c.queryTimeout

\* What is left of the lease covers the calls that are still to come.
BudgetLeft ==
    LET q == cfg.queryTimeout
        p == cfg.publishTimeout
    IN  /\ pc \notin {"loading", "rejected"} => Affordable(cfg)
        /\ pc \in {"claiming", "claimed", "finalizing"} => elapsed <= q
        /\ pc = "publishing" => elapsed <= p
        /\ pc \in {"claimed", "publishing", "finalizing"} => owner = "self"
        /\ pc = "claimed"    => left > p + 2 * q - elapsed
        /\ pc = "publishing" => left > p + q - elapsed
        /\ pc = "finalizing" => left > q - elapsed

LeaseInv == TypeOK /\ BudgetExact /\ BudgetLeft

\* No subtraction of validateOutbox wraps, and the chain of comparisons is
\* the inequality of its error message.
LEMMA ValidateIsExact ==
    ASSUME NEW c \in Config
    PROVE  validateOutbox(c) <=> Affordable(c)
<1> DEFINE t == c.lockTTL
           p == c.publishTimeout
           q == c.queryTimeout
<1>1. t \in Durations /\ p \in Durations /\ q \in Durations  BY DEF Config
<1>2. Minus(t, p) = t - p
  BY <1>1, DurationAssumption DEF Minus, Wrap, Durations
<1>3. ASSUME t > p  PROVE Minus(t - p, q) = t - p - q
  BY <1>1, <1>3, DurationAssumption DEF Minus, Wrap, Durations
<1>4. CASE t > p
  BY <1>1, <1>2, <1>3, <1>4, DurationAssumption DEF validateOutbox, Affordable, Durations
<1>5. CASE ~(t > p)
  BY <1>1, <1>5, DurationAssumption DEF validateOutbox, Affordable, Durations
<1> QED  BY <1>4, <1>5

\* BudgetLeft leaves a positive lease in every state of the iteration.
LEMMA BudgetImpliesCover == LeaseInv => LeaseCoversIteration
BY DurationAssumption
DEF LeaseInv, TypeOK, BudgetLeft, LeaseCoversIteration, Config, Durations

\* LeaseInv is an inductive invariant.
THEOREM LeaseInvariance == Spec => []LeaseInv
<1> USE DurationAssumption DEF Config, Durations
<1>1. Init => LeaseInv
  BY DEF Init, LeaseInv, TypeOK, BudgetExact, BudgetLeft
<1>2. LeaseInv /\ [Next]_(vars) => LeaseInv'
  <2> SUFFICES ASSUME LeaseInv, [Next]_(vars) PROVE LeaseInv'  OBVIOUS
  <2> USE DEF LeaseInv, TypeOK, BudgetExact, BudgetLeft, Affordable
  <2>1. CASE Load
    <3>1. validateOutbox(cfg) <=> Affordable(cfg)  BY ValidateIsExact
    <3> QED  BY <2>1, <3>1 DEF Load
  <2>2. CASE BeginClaim  BY <2>2 DEF BeginClaim, Goto
  <2>3. CASE ExecuteClaim  BY <2>3 DEF ExecuteClaim
  <2>4. CASE ClaimEmpty  BY <2>4 DEF ClaimEmpty, Goto
  <2>5. CASE ClaimReturns  BY <2>5 DEF ClaimReturns, Goto
  <2>6. CASE PublishReturns  BY <2>6 DEF PublishReturns, Goto
  <2>7. CASE ExecuteFinalization  BY <2>7 DEF ExecuteFinalization, Goto
  <2>8. CASE QueryTimesOut  BY <2>8 DEF QueryTimesOut, Goto
  <2>9. CASE Recover  BY <2>9 DEF Recover
  <2>10. CASE OtherFinalizes  BY <2>10 DEF OtherFinalizes
  <2>11. CASE Tick  BY <2>11 DEF Tick, Limit
  <2>12. CASE UNCHANGED vars  BY <2>12 DEF vars
  <2> QED
    BY <2>1, <2>2, <2>3, <2>4, <2>5, <2>6, <2>7, <2>8, <2>9, <2>10, <2>11, <2>12 DEF Next
<1> QED  BY <1>1, <1>2, PTL DEF Spec

\* Types, for any configuration and any clock.
THEOREM LeaseTypes == Spec => []TypeOK
<1>1. LeaseInv => TypeOK  BY DEF LeaseInv
<1>2. QED  BY LeaseInvariance, <1>1, PTL

\* validateOutbox accepts exactly the configurations its message describes,
\* up to the largest Duration.
THEOREM ValidationExact == Spec => []BudgetExact
BY LeaseInvariance, PTL DEF LeaseInv

\* Under every accepted configuration, an iteration whose calls respect their
\* timeouts holds its lease from ClaimNext to the finalization.
THEOREM LeaseCovers == Spec => []LeaseCoversIteration
BY LeaseInvariance, BudgetImpliesCover, PTL
=============================================================================
