---------------------------- MODULE TimeDuration ----------------------------
(***************************************************************************)
(* Go's time.Duration: a signed integer of a fixed width.                  *)
(***************************************************************************)
EXTENDS Integers

CONSTANT MaxDuration  \* the largest time.Duration, 2^63 - 1 in the code

ASSUME DurationAssumption == MaxDuration \in Nat \ {0}

\* What the sum or the difference x of two Durations wraps around to.
Wrap(x) ==
    LET w == 2 * (MaxDuration + 1)
    IN  IF x > MaxDuration THEN x - w ELSE IF x < -(MaxDuration + 1) THEN x + w ELSE x
=============================================================================
