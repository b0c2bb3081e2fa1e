--------------------------- MODULE MCLeaseBudget ---------------------------
(* A small time.Duration: every configuration up to it is explored. *)
EXTENDS LeaseBudget
=============================================================================
