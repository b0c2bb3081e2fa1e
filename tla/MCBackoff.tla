----------------------------- MODULE MCBackoff -----------------------------
(* A small time.Duration: every policy and attempt count up to the bounds. *)
EXTENDS Backoff
=============================================================================
