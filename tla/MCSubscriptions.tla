--------------------------- MODULE MCSubscriptions ---------------------------
(* Instances of Subscriptions for TLC. *)
EXTENDS Subscriptions, TLC

CONSTANTS m1, m2

MCSymmetry == Permutations(Requests)

MCReaders == {<<m2>>, <<m2, m1>>}
=============================================================================
