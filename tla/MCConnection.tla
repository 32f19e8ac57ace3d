---------------------------- MODULE MCConnection ----------------------------
(* Instances of Connection for TLC. *)
EXTENDS Connection, TLC

MCSymmetry == Permutations(Requests)

(* The user of the environment is not root, and its database is not "forum". *)
MCCandidates == <<[user |-> "env", db |-> "home"], [user |-> "root", db |-> "home"],
                  [user |-> "root", db |-> "forum"], [user |-> "root", db |-> "auth"]>>
=============================================================================
