--------------------------- MODULE MCRewardClaims ---------------------------
(* Small instances of RewardClaims for TLC. *)
EXTENDS RewardClaims, TLC

\* Requests, keys and rewards are only compared with each other.
Symmetry == Permutations(Requests) \cup Permutations(Keys) \cup Permutations(Rewards)
=============================================================================
