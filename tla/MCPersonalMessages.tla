------------------------- MODULE MCPersonalMessages -------------------------
(* Instances of PersonalMessages for TLC. *)
EXTENDS PersonalMessages, TLC

CONSTANTS m1, m2

MCLists == {<<m2, Nobody>>, <<m1, m2>>}
MCPerHour == [s \in Stores |-> IF s = "memory" THEN 2 ELSE 1]
MCMaxMessages == [s \in Stores |-> IF s = "memory" THEN 3 ELSE 2]
MCSymmetry == Permutations(Requests)
=============================================================================
