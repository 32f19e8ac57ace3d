-------------------------- MODULE MCClassicPosting --------------------------
(* Instances of ClassicPosting for TLC. *)
EXTENDS ClassicPosting

CONSTANTS m1, m2, o1, o2

MCSymmetry == Permutations(Requests) \cup Permutations(Members)

MCMaxCalls == [attach |-> 1, attach_upload |-> 2]

MCBatches == {<<1, 2>>, <<2, 2>>}

MCBallots == {<<o1>>, <<o1, o2>>}

MCBodies == {{}, {m1}, {m1, m2}, {m2}}
=============================================================================
