---------------------------- MODULE MCMembership ----------------------------
(* Instances of Membership for TLC. *)
EXTENDS Membership, TLC

CONSTANTS m1, m2

\* An office without its permission, the permission without its office.
MCTokens == {[role |-> "mod", permissions |-> {}],
             [role |-> "member", permissions |-> {"manage_boards"}]}

MCSymmetry == Permutations(Requests)
=============================================================================
