----------------------------- MODULE AgentQueue -----------------------------
(***************************************************************************)
(* One agent's queue, its working slot and its interrupted mark, with      *)
(* every operation on them taken as a single step: what the slot lock is   *)
(* there to make true.  Module MessagingCore has the same operations split *)
(* at the points where the code lets go of what it has read.               *)
(*                                                                         *)
(* The ranks are a parameter (label_caps is data that a deployment may     *)
(* change), and so is whether the agent ever sends a request, which is     *)
(* what interrupts it.                                                     *)
(***************************************************************************)
EXTENDS LabelCaps, Sequences, FiniteSets, SequencesExt

CONSTANTS Rank,           \* the priority column
          Interruptible,  \* whether this agent sends requests
          Lengths         \* the lengths a queue may be filled to (bound): any
                          \* number of rows in the code

ASSUME RankAssumption == Rank \in [Label -> Nat]

INSTANCE PriorityQueue

VARIABLES queue,       \* the rows, in arrival order
          slot,        \* the label being worked, or NoLabel
          interrupted  \* partners.interrupted

vars == <<queue, slot, interrupted>>

Row == [label : Label, paused : BOOLEAN]

TypeOK ==
  /\ queue \in Seq(Row)
  /\ slot \in Label \cup {NoLabel}
  /\ interrupted \in BOOLEAN

Init ==
  /\ queue = <<>>
  /\ slot = NoLabel
  /\ interrupted = FALSE

Fresh(l) == [label |-> l, paused |-> FALSE]
Paused(l) == [label |-> l, paused |-> TRUE]

\* A task leaving the slot unfinished goes back marked in_process.
PutBack(q, l) == Append(q, Paused(l))

-----------------------------------------------------------------------------
AnyResponse(q) == {i \in DOMAIN q : q[i].label \in RepliesNothing}

\* What may restart an interrupted agent: an answer that arrived, and not one
\* the interruption itself pushed back.
FreshResponses(q) == {i \in FreshRows(q) : q[i].label \in RepliesNothing}

\* _fresh_response: the best ranked of them, then the oldest.
IsFreshResponse(q, i) ==
  /\ i \in FreshResponses(q)
  /\ \A j \in FreshResponses(q) \ {i} :
       \/ Outranks(q[i].label, q[j].label)
       \/ Rank[q[i].label] = Rank[q[j].label] /\ i < j

\* An interrupted agent reading the head instead of looking for its answer.
CandidateIsTheHead(i) ==
  /\ IsHead(queue, i)
  /\ interrupted => queue[i].label \in RepliesNothing

\* An agent restarted by whatever is queued, paused or not.
CandidateOfAnyAge(i) ==
  IF slot = NoLabel /\ interrupted
    THEN i \in AnyResponse(queue)
    ELSE IsHead(queue, i)

\* The row advance would take: the head, or while interrupted a response.
Candidate(i) ==
  IF slot = NoLabel /\ interrupted
    THEN IsFreshResponse(queue, i)
    ELSE IsHead(queue, i)

Promotable(i) ==
  /\ i \in DOMAIN queue
  /\ Candidate(i)
  /\ slot # NoLabel => Outranks(queue[i].label, slot)

-----------------------------------------------------------------------------
\* A message of label l is admitted.
Push(l) ==
  /\ Len(queue) + 1 \in Lengths
  /\ queue' = Append(queue, Fresh(l))
  /\ UNCHANGED <<slot, interrupted>>

\* advance: row i takes the slot, and the task it displaces goes back paused.
Advance(i) ==
  /\ Promotable(i)
  /\ queue' = LET rest == RemoveAt(queue, i)
              IN  IF slot = NoLabel THEN rest ELSE PutBack(rest, slot)
  /\ slot' = queue[i].label
  /\ interrupted' = (interrupted /\ slot # NoLabel)

\* _requeue: the remote refused the delivery, and the task goes back paused.
DeliveryFails ==
  /\ slot # NoLabel
  /\ queue' = PutBack(queue, slot)
  /\ slot' = NoLabel
  /\ UNCHANGED interrupted

\* release: the remote's turn ended.
Finish ==
  /\ slot # NoLabel
  /\ slot' = NoLabel
  /\ UNCHANGED <<queue, interrupted>>

\* begin_summary_phase: finished research is asked for its report in the slot.
BeginSummary ==
  /\ slot = "RESEARCH"
  /\ slot' = "TRUTHFUL_REPORT"
  /\ UNCHANGED <<queue, interrupted>>

\* An interruption that puts back the slot without looking whether it is empty.
InterruptOfAnEmptySlot ==
  /\ Interruptible
  /\ queue' = PutBack(queue, slot)
  /\ slot' = NoLabel
  /\ interrupted' = TRUE

\* interrupt: the agent sent a request and waits for the outcome.
Interrupt ==
  /\ Interruptible
  /\ queue' = IF slot = NoLabel THEN queue ELSE PutBack(queue, slot)
  /\ slot' = NoLabel
  /\ interrupted' = TRUE

\* restart: its permissions were corrected, and no response will come.
Restart ==
  /\ interrupted
  /\ interrupted' = FALSE
  /\ UNCHANGED <<queue, slot>>

Next ==
  \/ \E l \in Label : Push(l)
  \/ \E i \in DOMAIN queue : Advance(i)
  \/ DeliveryFails
  \/ Finish
  \/ BeginSummary
  \/ Interrupt
  \/ Restart

Spec == Init /\ [][Next]_vars

-----------------------------------------------------------------------------
(***************************************************************************)
(* Properties.                                                             *)
(***************************************************************************)

PausedRows(l) == {i \in DOMAIN queue : queue[i].paused /\ queue[i].label = l}

AtMostOnePaused(l) == \A i, j \in PausedRows(l) : i = j

\* The one-line prompt "resume your previous [RESEARCH]" has one referent: of
\* the labels that are work, at most one row is paused, whatever is displaced,
\* interrupted or refused.
OnePausedWorkRow == \A l \in Label \ RepliesNothing : AtMostOnePaused(l)

\* An interrupted agent whose answer has arrived is never left waiting for it,
\* wherever the answer stands in the queue.
AnswerIsTaken ==
  interrupted /\ slot = NoLabel /\ FreshResponses(queue) # {}
    => \E i \in DOMAIN queue : Promotable(i)

\* The interruption does not undo itself: with nothing in the queue but what
\* the agent had already started, it stays interrupted until it is restarted.
InterruptionHolds ==
  [][interrupted /\ FreshResponses(queue) = {} /\ slot = NoLabel
       => interrupted' \/ Restart]_vars

\* Fresh work is not passed over for paused work of another label of the same
\* rank: a label with nothing fresh never hides one that has a fresh row, and
\* nor does one whose fresh rows all arrived later.
FreshLabelFirst ==
  \A i, j \in DOMAIN queue :
    /\ IsHead(queue, i)
    /\ ~queue[j].paused
    /\ Rank[queue[j].label] = Rank[queue[i].label]
    => \E k \in RowsOf(queue, queue[i].label) \cap FreshRows(queue) : k <= j
=============================================================================
