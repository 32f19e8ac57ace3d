--------------------------- MODULE MCVerification ---------------------------
(* Instances of Verification for TLC. *)
EXTENDS Verification, TLC

CONSTANTS r1, r2, r3, r4, c1, c2, s1, s2

\* Requests are interchangeable; so are subjects where all are bannable.
Interchangeable == Permutations(Requests)
InterchangeableBoth == Permutations(Requests) \cup Permutations(Subjects)
=============================================================================
