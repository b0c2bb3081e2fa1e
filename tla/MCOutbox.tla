------------------------------ MODULE MCOutbox ------------------------------
(* Small instances of Outbox for TLC. *)
EXTENDS Outbox, TLC

\* Worker ids, event ids and acquisitions are only compared with each other.
Symmetry == Permutations(Workers) \cup Permutations(Events) \cup Permutations(Leases)
=============================================================================
