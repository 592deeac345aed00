------------------------------ MODULE MCNoWork ------------------------------
(* Instances of NoWork for TLC. *)
EXTENDS NoWork

CONSTANTS a1, a2, a3

\* Handshakes of a1, of a2 and of a3.
Shape(x, y, z) == [d \in Agent |-> CASE d = a1 -> x [] d = a2 -> y [] d = a3 -> z]

\* A circle through the root, and one under it.
Circles == {Shape({a2}, {a3}, {a1}), Shape({a2}, {a3}, {a2})}
=============================================================================
