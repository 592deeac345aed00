----------------------------- MODULE MCRegistry -----------------------------
(* Instances of Registry for TLC. *)
EXTENDS Registry, TLC

CONSTANTS Code, Lab, Lab2, Chat, Chat2

Sources == (Code :> "code") @@ (Lab :> "science") @@ (Lab2 :> "science")
             @@ (Chat :> "gemini") @@ (Chat2 :> "gemini")

Member(j, r) == [project |-> j, role |-> r, archived |-> FALSE]

\* Some calls after Init: a human's session, two conversations, a project with
\* two of its roles claimed and a worker, whom its orchestrator has met, and a
\* budget spent on one conversation.  A second laboratory is yet to be created.
Staffed ==
  /\ projects = {Code, Lab, Chat, Chat2}
  /\ partner = <<Member(Code, NoRole), Member(Chat, NoRole), Member(Chat2, NoRole),
                 Member(Lab, "project-orchestrator"), Member(Lab, "gemini-orchestrator"),
                 Member(Lab, NoRole)>>
  /\ handshakes = {<<4, 6>>, <<5, 2>>}
  /\ extended = {}
  /\ grants = {[to |-> 5, by |-> 4, count |-> 1]}
  /\ work = {}
  /\ call = [s \in Source |-> Idle]
  /\ calls = 0

StaffedSpec == Staffed /\ [][Next]_vars
=============================================================================
