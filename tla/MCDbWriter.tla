----------------------------- MODULE MCDbWriter -----------------------------
(* Instances of DbWriter for TLC. *)
EXTENDS DbWriter, TLC

CONSTANTS Here, There, w1, w2, w3, w4

\* Three callers in one process, one in the other.
Homes == (w1 :> Here) @@ (w2 :> Here) @@ (w3 :> There) @@ (w4 :> Here)
=============================================================================
