-------------------------- MODULE MCWorkerMetrics ---------------------------
(* Small instances of WorkerMetrics for TLC. *)
EXTENDS WorkerMetrics, TLC

\* Worker ids, event ids and acquisitions are only compared with each other.
Symmetry == Permutations(Workers) \cup Permutations(Events) \cup Permutations(Leases)
=============================================================================
