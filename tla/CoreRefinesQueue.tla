-------------------------- MODULE CoreRefinesQueue --------------------------
(***************************************************************************)
(* In one process, every agent of MessagingCore is an AgentQueue: split as *)
(* they are over remote calls, its operations look atomic to whoever reads *)
(* its queue, its slot and its mark.                                       *)
(***************************************************************************)
EXTENDS MessagingCore

CONSTANT Subject   \* the agent that is looked at

ASSUME SubjectAssumption == Subject \in Partner

Labelled(row) == [label |-> row.label, paused |-> row.paused]

\* Its rows, as the abstract queue has them.
LabelledRows == [i \in DOMAIN queue[Subject] |-> Labelled(queue[Subject][i])]

\* The label the slot is given over to: a task on its way to the remote has
\* taken it, whatever becomes of the delivery.
SlotLabel ==
  IF Delivering(Subject) THEN adv[Subject].head.label
  ELSE IF slot[Subject] # Nothing THEN slot[Subject].label
  ELSE NoLabel

\* The mark is cleared as the advance starts and takes effect as it swaps.
StillInterrupted ==
  interrupted[Subject] \/ (Swapping(Subject) /\ adv[Subject].restarts)

Agent ==
  INSTANCE AgentQueue
    WITH Rank <- Priority, Interruptible <- TRUE, Lengths <- Nat,
         queue <- LabelledRows,
         slot <- SlotLabel,
         interrupted <- StillInterrupted

\* Every send, advance, drain pass and failure of one process, interleaved in
\* any order, is to each agent a sequence of the queue's own operations: its
\* properties hold of the running system as they do of AgentQueue.
SubjectIsAQueue == Agent!Spec
=============================================================================
