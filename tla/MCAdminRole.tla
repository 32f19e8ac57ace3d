---------------------------- MODULE MCAdminRole ----------------------------
(* An instance of AdminRole for TLC. *)
EXTENDS AdminRole, TLC

CONSTANTS r1, r2, alice, bob

Symmetry == Permutations(Callers) \cup Permutations(Names)
=============================================================================
