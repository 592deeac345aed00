------------------------------- MODULE NoWork -------------------------------
(***************************************************************************)
(* no_work, the condition to ask for a summary: one walk over the agents   *)
(* under an agent, a database read at a time, while everybody goes on:     *)
(* messages are sent, taken, answered and reported on, senders interrupted *)
(* and handshakes made between any two reads.  Handshakes may form circles.*)
(*                                                                         *)
(* An agent's task is here from the row it leaves to the row its reply is; *)
(* which row is next is module AgentQueue, what a pass does with its task  *)
(* MessagingCore.  Nobody is archived.                                     *)
(***************************************************************************)
EXTENDS LabelCaps, Sequences, FiniteSets

CONSTANTS
  Agent,     \* the live partners
  Root,      \* the one that would summarise
  Director,  \* who gave it its research, no partner that is looked at
  Graphs,    \* the handshakes there may be to begin with (bound)
  Sendable,  \* the labels that are sent (bound)
  MaxCalls   \* how many messages are sent and handshakes made in all (bound)

ASSUME NoWorkAssumption ==
  /\ Root \in Agent /\ Director \notin Agent
  /\ Graphs \subseteq [Agent -> SUBSET Agent]
  /\ Sendable \subseteq Label /\ MaxCalls \in Nat

VARIABLES
  dependents,   \* the live partners each role holder has handshaken to
  rows,         \* message_queue
  slot,         \* the task each agent is at, until its reply is a row
  interrupted,  \* the agents stopped until they are answered
  calling,      \* those that have sent a request and are about to be stopped
  summarized,   \* those with a [TRUTHFUL-REPORT] in messages
  calls,        \* how many messages and handshakes there were (bound)
  stack,        \* the calls of no_work that have not returned
  seen,         \* _seen
  verdict,      \* what the outermost call returned
  lasting,      \* history: why each agent has had work left ever since the walk
                \* began
  before        \* history: the dependents when it began, and who had no summary

Reasons == {"queued", "sent", "interrupted"}

world == <<dependents, rows, slot, interrupted, calling, summarized, calls>>
walk == <<stack, seen, verdict>>
history == <<lasting, before>>
vars == <<dependents, rows, slot, interrupted, calling, summarized, calls,
          stack, seen, verdict, lasting, before>>

\* A call is at one of its three reads or in its loop.
Frame == [agent : Agent, at : Reasons \cup {"loop"}, todo : SUBSET Agent]

Task == [id : 0 .. MaxCalls, label : Label, from : Agent \cup {Director}]
Row == [task : Task, to : Agent \cup {Director}, paused : BOOLEAN]
Nothing == [id |-> 0, label |-> NoLabel, from |-> Director]

TypeOK ==
  /\ dependents \in [Agent -> SUBSET Agent]
  /\ rows \subseteq Row
  /\ slot \in [Agent -> Task \cup {Nothing}]
  /\ {interrupted, calling, summarized, seen} \subseteq SUBSET Agent
  /\ calls \in 0 .. MaxCalls
  /\ stack \in Seq(Frame)
  /\ verdict \in {"none", "yes", "no"}
  /\ lasting \in [Agent -> SUBSET Reasons]
  /\ before \in [dependents : [Agent -> SUBSET Agent], open : SUBSET Agent]

NeverAsked == [a \in Agent |-> {}]

\* The root has its research, and nothing has come of it yet.
Init ==
  /\ dependents \in Graphs
  /\ rows = {}
  /\ slot = [a \in Agent |-> IF a = Root THEN [id |-> 0, label |-> "RESEARCH", from |-> Director]
                                         ELSE Nothing]
  /\ interrupted = {} /\ calling = {} /\ summarized = {}
  /\ calls = 0
  /\ stack = <<>> /\ seen = {} /\ verdict = "none"
  /\ lasting = NeverAsked
  /\ before = [dependents |-> NeverAsked, open |-> {}]

\* Why an agent has work left: a row of its own, one it is the caller of, or that
\* it waits.  (Its working slot is not asked.)
Unfinished(a) ==
  {r \in Reasons : \/ r = "queued" /\ \E row \in rows : row.to = a
                   \/ r = "sent" /\ \E row \in rows : row.task.from = a
                   \/ r = "interrupted" /\ a \in interrupted}

-----------------------------------------------------------------------------
(***************************************************************************)
(* The walk.  The innermost call is first on the stack.                    *)
(***************************************************************************)

Called(a) == [agent |-> a, at |-> "queued", todo |-> {}]

\* The root's research has come to the end of its turn.  After a no the next pass
\* asks again.
Ask ==
  /\ stack = <<>> /\ verdict # "yes"
  /\ slot[Root].label = "RESEARCH"
  /\ stack' = <<Called(Root)>>
  /\ seen' = {Root}
  /\ verdict' = "none"
  /\ before' = [dependents |-> dependents, open |-> Agent \ summarized]
  /\ lasting' = [a \in Agent |-> Unfinished(a)]
  /\ UNCHANGED world

Top == Head(stack)
Now(f) == stack' = <<f>> \o Tail(stack)

\* The loop entered before interrupted is read.
AfterSkipping(r) == IF r = "queued" THEN "sent" ELSE "loop"

After(r) == CASE r = "queued" -> "sent" [] r = "sent" -> "interrupted" [] OTHER -> "loop"

\* One of the three conjuncts fails, and every call returns False.
Fail ==
  /\ Top.at \in Unfinished(Top.agent)
  /\ stack' = <<>> /\ verdict' = "no"
  /\ seen' = {}
  /\ lasting' = NeverAsked
  /\ before' = [dependents |-> NeverAsked, open |-> {}]

\* It holds, and the next is read; the last read is of the dependents.
Pass ==
  /\ Top.at \in Reasons \ Unfinished(Top.agent)
  /\ Now([Top EXCEPT !.at = After(Top.at),
                     !.todo = IF After(Top.at) = "loop" THEN dependents[Top.agent] ELSE {}])
  /\ UNCHANGED <<seen, verdict, history>>

\* A dependent's own report does not count.
SkippedIfSeen(d) == d \in seen

Skipped(d) == d \in summarized \/ d \in seen

\* The loop looks at one dependent for ever.
LoopStays(f, d) == f

LoopPast(f, d) == [f EXCEPT !.todo = @ \ {d}]

\* A dependent that has summarised, or that a call has been made for.
Skip(d) ==
  /\ Top.at = "loop" /\ d \in Top.todo
  /\ Skipped(d)
  /\ Now(LoopPast(Top, d))
  /\ UNCHANGED <<seen, verdict, history>>

Recurse(d) ==
  /\ Top.at = "loop" /\ d \in Top.todo
  /\ ~Skipped(d)
  /\ stack' = <<Called(d), LoopPast(Top, d)>> \o Tail(stack)
  /\ seen' = seen \cup {d}
  /\ UNCHANGED <<verdict, history>>

Return ==
  /\ Top.at = "loop" /\ Top.todo = {}
  /\ stack' = Tail(stack)
  /\ verdict' = IF Tail(stack) = <<>> THEN "yes" ELSE verdict
  /\ UNCHANGED <<seen, history>>

Walk ==
  /\ stack # <<>>
  /\ Fail \/ Pass \/ Return \/ \E d \in Agent : Skip(d) \/ Recurse(d)
  /\ UNCHANGED world

-----------------------------------------------------------------------------
(***************************************************************************)
(* What the agents do meanwhile.                                           *)
(***************************************************************************)

Fresh(t, a) == [task |-> t, to |-> a, paused |-> FALSE]

\* What is in a's slot, if anything, goes back to its queue.
PutBack(a) == IF slot[a] = Nothing THEN {} ELSE {[task |-> slot[a], to |-> a, paused |-> TRUE]}

\* _admit: the row, and in the same transaction the report in messages.
Admit(t, a, rest) ==
  /\ rows' = rest \cup {Fresh(t, a)}
  /\ summarized' = summarized \cup (IF t.label = "TRUTHFUL_REPORT" THEN {t.from} ELSE {})

\* Research goes along a handshake, anything else against it too.  A batch is a
\* number of these before its sender is stopped.
Send(a, b, l) ==
  /\ \/ b \in dependents[a]
     \/ l # "RESEARCH" /\ a \in dependents[b]
  /\ calls < MaxCalls
  /\ calls' = calls + 1
  /\ Admit([id |-> calls', label |-> l, from |-> a], b, rows)
  /\ calling' = calling \cup (IF l \in RequestBehaviors THEN {a} ELSE {})
  /\ UNCHANGED <<dependents, slot, interrupted>>

\* The sender of a request is stopped after that.
Interrupt(a) ==
  /\ a \in calling
  /\ rows' = rows \cup PutBack(a)
  /\ slot' = [slot EXCEPT ![a] = Nothing]
  /\ interrupted' = interrupted \cup {a}
  /\ calling' = calling \ {a}
  /\ UNCHANGED <<dependents, summarized, calls>>

\* What went wrong after the row was in leaves its sender alone.
SendRaises(a) ==
  /\ a \in calling
  /\ calling' = calling \ {a}
  /\ UNCHANGED <<dependents, rows, slot, interrupted, summarized, calls>>

\* advance: a row takes the slot, and a task of a lower rank goes back for it; an
\* agent that waits takes an answer only, which ends its wait.
Take(row) ==
  LET a == row.to
  IN /\ a \in Agent
     /\ IF slot[a] # Nothing
        THEN Priority[row.task.label] < Priority[slot[a].label]
        ELSE a \in interrupted => ~row.paused /\ row.task.label \in RepliesNothing
     /\ rows' = (rows \ {row}) \cup PutBack(a)
     /\ slot' = [slot EXCEPT ![a] = row.task]
     /\ interrupted' = IF slot[a] = Nothing THEN interrupted \ {a} ELSE interrupted
     /\ UNCHANGED <<dependents, calling, summarized, calls>>

\* The task is done, and what it is owed goes to its caller: of research a report.
\* The root's waits for the walk.
Complete(a) ==
  /\ slot[a] # Nothing
  /\ ~(a = Root /\ slot[a].label = "RESEARCH")
  /\ LET t == slot[a]
         reply == ReplyBehavior[t.label]
     IN IF reply = NoLabel
        THEN UNCHANGED <<rows, summarized>>
        ELSE Admit([id |-> t.id, label |-> reply, from |-> a], t.from, rows)
  /\ slot' = [slot EXCEPT ![a] = Nothing]
  /\ UNCHANGED <<dependents, interrupted, calling, calls>>

\* restart: an agent that waits is told to go on.
Restart(a) ==
  /\ a \in interrupted
  /\ interrupted' = interrupted \ {a}
  /\ UNCHANGED <<dependents, rows, slot, calling, summarized, calls>>

Handshake(a, b) ==
  /\ a # b /\ b \notin dependents[a] /\ calls < MaxCalls
  /\ calls' = calls + 1
  /\ dependents' = [dependents EXCEPT ![a] = @ \cup {b}]
  /\ UNCHANGED <<rows, slot, interrupted, calling, summarized>>

\* What follows a yes is not looked at (bound).
Work ==
  /\ verdict # "yes"
  /\ \/ \E a \in Agent :
          \/ Interrupt(a) \/ SendRaises(a) \/ Complete(a) \/ Restart(a)
          \/ \E b \in Agent : Handshake(a, b) \/ \E l \in Sendable : Send(a, b, l)
     \/ \E row \in rows : Take(row)
  /\ lasting' = [a \in Agent |-> lasting[a] \cap Unfinished(a)']
  /\ UNCHANGED <<walk, before>>

Next == Ask \/ Walk \/ Work

Spec == Init /\ [][Next]_vars

\* Nobody has to do anything but go on with the walk.
FairSpec == Spec /\ WF_vars(Walk)

-----------------------------------------------------------------------------
\* A set of agents that are all done and wait only for one another: what "this
\* agent, and everything under it" comes to when handshakes form circles.
Settled(S, busy, under) ==
  /\ S \cap busy = {}
  /\ \A a \in S : under[a] \subseteq S

NothingLeft(busy, under) == \E S \in SUBSET Agent : Root \in S /\ Settled(S, busy, under)

\* Nothing that stands through a whole walk is overlooked, whatever circles the
\* handshakes form and whatever moves while it is read: a yes says of the agents
\* under the root, as they were when the walk began, that none of them has had a
\* row, a message on its way or a wait ever since, and that those it depends on
\* have reported or are such agents too.
YesOverlooksNothing ==
  verdict = "yes" =>
    NothingLeft({a \in Agent : lasting[a] # {}},
                [a \in Agent |-> before.dependents[a] \ summarized])

\* It says no only of something that is really there: an agent under the root by
\* handshakes that lead past nobody with a report has work left at that moment.
\* Circles of handshakes never hold a summary up.
NoHasAReason ==
  [][stack # <<>> /\ verdict' = "no" =>
       ~NothingLeft({a \in Agent : Unfinished(a) # {}},
                    [a \in Agent |-> dependents[a] \cap before.open])]_vars

\* A yes is never given over an answer or a report the root has not read.  (The
\* code does not keep this: one may come after the root's own queue was read, and
\* a report lets the walk pass over the dependent that made it.)
NoAnswerUnread ==
  [][stack # <<>> /\ verdict' = "yes" =>
       \A row \in rows : row.to = Root => row.paused \/ row.task.label \notin RepliesNothing]_vars

\* No call of no_work is made for an agent twice, so that the recursion is no
\* deeper than there are agents.
AskedOnce == \A i, j \in DOMAIN stack : stack[i].agent = stack[j].agent => i = j

\* A walk ends, whatever the handshakes and whatever is done meanwhile.
WalkEnds == []<>(stack = <<>>)
=============================================================================
