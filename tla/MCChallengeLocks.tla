-------------------------- MODULE MCChallengeLocks --------------------------
(* Instances of ChallengeLocks for TLC. *)
EXTENDS ChallengeLocks, TLC

CONSTANTS r1, r2, r3, r4, c1, c2, l1, l2, l3, l4, l5

Interchangeable ==
  Permutations(Requests) \cup Permutations(Codes) \cup Permutations(Locks)
=============================================================================
