------------------------------- MODULE MCGate -------------------------------
(* Two houses; a has two connections to the gate.                          *)
EXTENDS GateServer, TLC

CONSTANTS a, b, a1, a2, b1

Owner == [r \in Conn |-> IF r = b1 THEN b ELSE a]

\* The two connections of a are alike.
Symmetry == Permutations({a1, a2})
=============================================================================
