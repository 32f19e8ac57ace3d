------------------------------ MODULE MCPoints ------------------------------
(* An instance of Points for TLC. *)
EXTENDS Points

CONSTANTS r1, r2, k1, m1

\* A gain, a loss and a payload that is refused: 1 - 2 + 1 is clamped.
SomeDeltas == {-2, 0, 1}
=============================================================================
