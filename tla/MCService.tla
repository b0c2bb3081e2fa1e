----------------------------- MODULE MCService ------------------------------
(* Small instances of Service for TLC. *)
EXTENDS Service, TLC

\* Worker ids, acquisitions, keys and calls are only compared with each other.
Symmetry == Permutations(Workers) \cup Permutations(Leases)
                \cup Permutations(Keys) \cup Permutations(Requests)
=============================================================================
