---------------------------- MODULE MCAgentQueue ----------------------------
(***************************************************************************)
(* Rankings for the model checker: the one the schema ships, and one in    *)
(* which a deployment has given [QUERY] the rank of [ERROR].               *)
(***************************************************************************)
EXTENDS AgentQueue

ShippedRank == Priority
TiedRank == [Priority EXCEPT !["QUERY"] = Priority["ERROR"]]
=============================================================================
