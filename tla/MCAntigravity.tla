--------------------------- MODULE MCAntigravity ---------------------------
(* Instances of Antigravity for TLC. *)
EXTENDS Antigravity

CONSTANTS r1, r2, r3, r4

ThreeRules == {<<r1, r2, r3>>}
=============================================================================
