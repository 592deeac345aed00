---------------------------- MODULE MCDrainServer ----------------------------
(***************************************************************************)
(* DrainServer for TLC.                                                    *)
(***************************************************************************)
EXTENDS DrainServer, TLC

\* Threads are interchangeable; for runs without a liveness property.
ThreadSymmetry == Permutations(Thread)
=============================================================================
