--------------------------- MODULE MessagingCore ---------------------------
(***************************************************************************)
(* The queue, the working slot and the drain pass, over several partners,  *)
(* the agents behind them, and the processes that share one database.      *)
(*                                                                         *)
(* What is in SQLite (queue, interrupted, archived, the messages) is       *)
(* shared.  A working slot is memory of one process: the one whose         *)
(* extension serves the partner, Owner[p].  A slot lock is memory of one   *)
(* process too, so it orders nothing between two of them.                  *)
(*                                                                         *)
(* An operation that holds the lock throughout and does no remote I/O is   *)
(* one step.  advance is split where it talks to the remote, send where it *)
(* has resolved its target and not yet taken the lock, and the drain pass  *)
(* where it has read the slot and not yet acted on what it read.           *)
(***************************************************************************)
EXTENDS LabelCaps, Sequences, FiniteSets, SequencesExt

CONSTANTS
  Partner,        \* the partners; each is an agent that may also send
  Process,        \* the server processes
  Owner,          \* the process holding the extension for a partner's source
  Directs,        \* the partners an orchestrator has handshaken to
  Traffic,        \* the <<sender, target, label>> a send may ask for
  Uncancellable,  \* the partners whose remote has no cancel
  Events,         \* what the environment does: "deliver" and "stop" failing,
                  \* "approval" prompts, "archive" and "restart" calls,
                  \* and agents that send a "batch"
  MaxSends,       \* bound on the messages sent
  MaxErrors       \* bound on the errors agents are stopped by: no approval
                  \* prompt comes after so many

ASSUME CoreAssumption ==
  /\ Owner \in [Partner -> Process]
  /\ Directs \in [Partner -> SUBSET Partner]
  /\ Traffic \subseteq Partner \X Partner \X Label
  /\ \A s \in Traffic : s[1] # s[2]
  /\ {MaxSends, MaxErrors} \subseteq Nat

INSTANCE PriorityQueue WITH Rank <- Priority

VARIABLES
  queue,        \* message_queue: the rows of each partner, in arrival order
  slot,         \* WorkingSlots, in the process that owns the partner
  interrupted,  \* partners.interrupted
  archived,     \* partners.archived_at IS NOT NULL
  adv,          \* the advance holding the slot lock of a partner, if any
  call,         \* the send each agent is in the middle of
  pass,         \* the drain pass of each partner, after its advance
  remote,       \* the turns each partner's remote is running
  tasks,        \* history: every message ever admitted, in order
  closed,       \* history: each partner's tasks that were released
  dropped,      \* history: its tasks deleted because it is archived
  started,      \* history: its tasks whose text reached the remote
  done          \* history: its tasks whose latest turn the remote ended

database == <<queue, interrupted, archived>>
history  == <<closed, dropped, started, done>>
vars == <<queue, slot, interrupted, archived, adv, call, pass, remote,
          tasks, closed, dropped, started, done>>

TaskId == Nat \ {0}

\* A task, whether it is a row of the queue or sits in a slot.
Row == [task : TaskId, caller : Partner, label : Label, paused : BOOLEAN,
        summary : BOOLEAN, origin : Label \cup {NoLabel}]
Nothing == [task |-> 0]

Free == [pc |-> "free"]
Idle == [pc |-> "idle"]

Advance == [pc : {"swapping", "delivering"}, head : Row, working : Row \cup {Nothing},
            by : Partner, restarts : BOOLEAN]
Call == [pc : {"resolved", "admitted", "advancing", "between", "interrupting"},
         to : Partner, label : Label, via : Process,
         batch : BOOLEAN, asked : BOOLEAN, accepted : SUBSET Label]
Pass == [pc : {"polling", "blocked", "finished", "ready", "answered", "summarising"},
         work : Row, reply : {NoLabel}]
        \cup [pc : {"reporting"}, work : Row, reply : Label]
Message == [from : Partner, to : SUBSET Partner, label : Label,
            kind : {"send", "answer", "error", "notice"}, of : Nat]

TypeOK ==
  /\ queue \in [Partner -> Seq(Row)]
  /\ slot \in [Partner -> Row \cup {Nothing}]
  /\ interrupted \in [Partner -> BOOLEAN]
  /\ archived \in [Partner -> BOOLEAN]
  /\ adv \in [Partner -> Advance \cup {Free}]
  /\ call \in [Partner -> Call \cup {Idle}]
  /\ pass \in [Partner -> Pass \cup {Idle}]
  /\ remote \in [Partner -> SUBSET TaskId]
  /\ tasks \in Seq(Message)
  /\ {closed, dropped, started, done} \subseteq [Partner -> SUBSET TaskId]

Init ==
  /\ queue = [p \in Partner |-> <<>>]
  /\ slot = [p \in Partner |-> Nothing]
  /\ interrupted = [p \in Partner |-> FALSE]
  /\ archived = [p \in Partner |-> FALSE]
  /\ adv = [p \in Partner |-> Free]
  /\ call = [p \in Partner |-> Idle]
  /\ pass = [p \in Partner |-> Idle]
  /\ remote = [p \in Partner |-> {}]
  /\ tasks = <<>>
  /\ closed = [p \in Partner |-> {}]
  /\ dropped = [p \in Partner |-> {}]
  /\ started = [p \in Partner |-> {}]
  /\ done = [p \in Partner |-> {}]

-----------------------------------------------------------------------------
(***************************************************************************)
(* The queue and the slot.                                                 *)
(***************************************************************************)

NewRow(t, c, l) ==
  [task |-> t, caller |-> c, label |-> l, paused |-> FALSE,
   summary |-> FALSE, origin |-> NoLabel]

\* A task put back without the marks of its summary phase.
PausedWithoutMarks(w) == [w EXCEPT !.paused = TRUE, !.summary = FALSE, !.origin = NoLabel]

\* A task put back in the queue: in_process, with its summary marks.
PausedRow(w) == [w EXCEPT !.paused = TRUE]

\* A promoted row that stays in the queue.
KeptRow(q, t) == q

\* DELETE ... WHERE id: nothing happens if the row is already gone.
Without(q, t) ==
  IF \E i \in DOMAIN q : q[i].task = t
    THEN RemoveAt(q, CHOOSE i \in DOMAIN q : q[i].task = t)
    ELSE q

\* The id the next admitted message gets.
NextTask == Len(tasks) + 1

\* A message joins the history of what was admitted.
Record(from, to, l, kind, of) ==
  tasks' = Append(tasks, [from |-> from, to |-> to, label |-> l, kind |-> kind, of |-> of])

\* The slot lock of p, as process k sees it: only the owner's threads hold it
\* over a remote call.
LockFree(k, p) == Owner[p] = k => adv[p] = Free

\* The slot of p, as process k sees it.
Working(k, p) == IF Owner[p] = k THEN slot[p] ELSE Nothing

\* A cap that does not see the task in the slot.
OutstandingIgnoringSlot(k, p, c, l) == 0

\* WorkingSlots.outstanding.
Outstanding(k, p, c, l) ==
  LET w == Working(k, p)
  IN  IF w # Nothing /\ w.caller = c /\ l \in {w.label, w.origin} THEN 1 ELSE 0

\* The label a task counts against: the one it was admitted under.
CountedLabel(w) == IF w.origin = NoLabel THEN w.label ELSE w.origin

Queued(p, c, l) ==
  {i \in DOMAIN queue[p] : queue[p][i].caller = c /\ CountedLabel(queue[p][i]) = l}

\* _ADMIT_SQL's condition.
WithinCap(k, p, c, l) ==
  l \in Capped => Cardinality(Queued(p, c, l)) + Outstanding(k, p, c, l) < MaxOutstanding[l]

\* A remote that can be stopped runs nothing once it is.
Stopped(p) == IF p \in Uncancellable THEN remote[p] ELSE {}

-----------------------------------------------------------------------------
(***************************************************************************)
(* send: resolve, admit, advance the target, interrupt the sender.         *)
(***************************************************************************)

Sends == {n \in DOMAIN tasks : tasks[n].kind = "send"}

\* Calls that have yet to admit their message.
Resolving == {c \in Partner : call[c].pc = "resolved"}

\* The target is live and the message may travel.
MaySend(c, p, l) ==
  /\ <<c, p, l>> \in Traffic
  /\ Cardinality(Sends) + Cardinality(Resolving) < MaxSends
  /\ ~archived[p]

\* send, or the first item of a batch: the sender is live as well.
SendResolve(c, p, l, k, b) ==
  /\ b => "batch" \in Events
  /\ call[c] = Idle
  /\ ~archived[c]
  /\ MaySend(c, p, l)
  /\ call' = [call EXCEPT ![c] = [pc |-> "resolved", to |-> p, label |-> l, via |-> k,
                                 batch |-> b, asked |-> FALSE, accepted |-> {}]]
  /\ UNCHANGED <<database, slot, adv, pass, remote, tasks, history>>

\* The next item of a batch, whose sender is not looked up again.
NextItem(c, p, l) ==
  /\ call[c].pc = "between"
  /\ MaySend(c, p, l)
  /\ call' = [call EXCEPT ![c].pc = "resolved", ![c].to = p, ![c].label = l]
  /\ UNCHANGED <<database, slot, adv, pass, remote, tasks, history>>

\* A refusal ends a send; a batch goes on, and forgets what it has asked for.
RefusedAndForgotten(c) ==
  IF call[c].batch THEN [call[c] EXCEPT !.pc = "between", !.asked = FALSE] ELSE Idle

\* A refusal or an exception ends a send, and is one item of a batch.
Refused(c) == IF call[c].batch THEN [call[c] EXCEPT !.pc = "between"] ELSE Idle

\* _admit, under the target's lock: one row, or over_queue.
SendAdmit(c) ==
  /\ call[c].pc = "resolved"
  /\ LET p == call[c].to
         l == call[c].label
         k == call[c].via
     IN  /\ LockFree(k, p)
         /\ IF WithinCap(k, p, c, l)
              THEN /\ queue' = [queue EXCEPT ![p] = Append(@, NewRow(NextTask, c, l))]
                   /\ Record(c, {p}, l, "send", 0)
                   /\ call' = [call EXCEPT ![c].pc = "admitted"]
              ELSE /\ call' = [call EXCEPT ![c] = Refused(c)]
                   /\ UNCHANGED <<queue, tasks>>
  /\ UNCHANGED <<slot, interrupted, archived, adv, pass, remote, history>>

\* All messages are in: if there was a request, its sender is interrupted.
Ended(x) == IF x.asked THEN [x EXCEPT !.pc = "interrupting"] ELSE Idle

\* What is left of the call once its advance has returned.
AfterAdvance(c) ==
  LET l == call[c].label
      x == [call[c] EXCEPT !.asked = @ \/ l \in RequestBehaviors, !.accepted = @ \cup {l}]
  IN  IF x.batch THEN [x EXCEPT !.pc = "between"] ELSE Ended(x)

BatchEnds(c) ==
  /\ call[c].pc = "between"
  /\ call' = [call EXCEPT ![c] = Ended(@)]
  /\ UNCHANGED <<database, slot, adv, pass, remote, tasks, history>>

\* interrupt(sender): its task goes back paused, its slot is emptied, and it
\* is marked.  Without a matching extension the remote is not stopped.
SendInterrupt(c) ==
  /\ call[c].pc = "interrupting"
  /\ LET k == call[c].via
         w == Working(k, c)
     IN  /\ LockFree(k, c)
         /\ IF w = Nothing
              THEN UNCHANGED <<queue, slot, remote>>
              ELSE /\ queue' = [queue EXCEPT ![c] = Append(@, PausedRow(w))]
                   /\ slot' = [slot EXCEPT ![c] = Nothing]
                   /\ remote' = [remote EXCEPT ![c] = Stopped(c)]
  /\ interrupted' = [interrupted EXCEPT ![c] = TRUE]
  /\ call' = [call EXCEPT ![c] = Idle]
  /\ UNCHANGED <<archived, adv, pass, tasks, history>>

\* interrupt raises: the remote did not stop, and nothing was written.
SendInterruptFails(c) ==
  /\ "stop" \in Events
  /\ call[c].pc = "interrupting"
  /\ LockFree(call[c].via, c)
  /\ Working(call[c].via, c) # Nothing
  /\ call' = [call EXCEPT ![c] = Idle]
  /\ UNCHANGED <<database, slot, adv, pass, remote, tasks, history>>

-----------------------------------------------------------------------------
(***************************************************************************)
(* advance(partner_id), called by a send (by # p) or by p's own drain      *)
(* thread (by = p).                                                        *)
(***************************************************************************)

\* An interrupted agent with an empty slot, waiting for its answer.
Waiting(k, p) == Working(k, p) = Nothing /\ interrupted[p]

FreshResponses(q) == {i \in FreshRows(q) : q[i].label \in RepliesNothing}

\* _fresh_response.
IsFreshResponse(q, i) ==
  /\ i \in FreshResponses(q)
  /\ \A j \in FreshResponses(q) \ {i} :
       \/ Outranks(q[i].label, q[j].label)
       \/ q[i].label = q[j].label /\ i < j

\* An agent that takes its head whether or not it is waiting.
PromotableToWaiting(k, p, i) ==
  LET q == queue[p]
      w == Working(k, p)
  IN  /\ i \in DOMAIN q
      /\ IsHead(q, i)
      /\ w # Nothing => Outranks(q[i].label, w.label)

\* An agent that waits for its answer to become the head.
PromotableAtHead(k, p, i) ==
  LET q == queue[p]
      w == Working(k, p)
  IN  /\ i \in DOMAIN q
      /\ IsHead(q, i)
      /\ Waiting(k, p) => i \in FreshResponses(q)
      /\ w # Nothing => Outranks(q[i].label, w.label)

\* Row i of p's queue is the one advance would put in the slot.
Promotable(k, p, i) ==
  LET q == queue[p]
      w == Working(k, p)
  IN  /\ i \in DOMAIN q
      /\ IF Waiting(k, p) THEN IsFreshResponse(q, i) ELSE IsHead(q, i)
      /\ w # Nothing => Outranks(q[i].label, w.label)

\* A mark that the restarting answer leaves standing.
MarkLeft(k, p) == UNCHANGED interrupted

\* The extension is resolved after the waiting agent's mark is cleared.
ClearIfWaiting(k, p) ==
  interrupted' = [interrupted EXCEPT ![p] = @ /\ ~Waiting(k, p)]

TasksOf(q) == {q[i].task : i \in DOMAIN q}
TaskIn(w) == {w.task} \ {0}

\* The partner is archived: its queue is deleted and its slot cleared.
AdvanceDrops(k, p) ==
  /\ archived[p]
  /\ queue' = [queue EXCEPT ![p] = <<>>]
  /\ slot' = IF Owner[p] = k THEN [slot EXCEPT ![p] = Nothing] ELSE slot
  /\ dropped' = [dropped EXCEPT ![p] = @ \cup TasksOf(queue[p]) \cup TaskIn(Working(k, p))]
  /\ UNCHANGED <<interrupted, archived, adv, pass, remote, tasks, closed, started, done>>

\* Nothing moves.
AdvanceReturns(k, p) ==
  /\ ~archived[p]
  /\ LockFree(k, p)
  /\ ~\E i \in DOMAIN queue[p] : Promotable(k, p, i)
  /\ UNCHANGED <<database, slot, adv, pass, remote, tasks, history>>

\* NeedsRemote: this process has no extension for p's source.
AdvanceNeedsRemote(k, p) ==
  /\ ~archived[p]
  /\ k # Owner[p]
  /\ \E i \in DOMAIN queue[p] : Promotable(k, p, i)
  /\ ClearIfWaiting(k, p)
  /\ UNCHANGED <<queue, archived, slot, adv, pass, remote, tasks, history>>

\* A row is chosen, and the lock is held from here to the end of the delivery.
AdvanceBegins(k, p, by) ==
  /\ ~archived[p]
  /\ k = Owner[p]
  /\ LockFree(k, p)
  /\ \E i \in DOMAIN queue[p] :
       /\ Promotable(k, p, i)
       /\ adv' = [adv EXCEPT ![p] = [pc |-> "swapping", head |-> queue[p][i],
                                     working |-> slot[p], by |-> by,
                                     restarts |-> Waiting(k, p)]]
  /\ ClearIfWaiting(k, p)
  /\ UNCHANGED <<queue, archived, slot, pass, remote, tasks, history>>

Swapping(p) == adv[p].pc = "swapping"
Delivering(p) == adv[p].pc = "delivering"

\* The displaced task's remote did not stop; nothing was written yet.
AdvanceStopFails(p) ==
  /\ "stop" \in Events
  /\ Swapping(p)
  /\ adv[p].working # Nothing
  /\ adv' = [adv EXCEPT ![p] = Free]
  /\ call' = IF adv[p].by = p THEN call ELSE [call EXCEPT ![adv[p].by] = Refused(adv[p].by)]
  /\ UNCHANGED <<database, slot, pass, remote, tasks, history>>

\* _swap: the head leaves the queue and the displaced task joins it, paused.
AdvanceSwaps(p) ==
  /\ Swapping(p)
  /\ LET a == adv[p]
         rest == Without(queue[p], a.head.task)
     IN  /\ queue' = [queue EXCEPT ![p] =
                        IF a.working = Nothing THEN rest
                        ELSE Append(rest, PausedRow(a.working))]
         /\ remote' = IF a.working = Nothing THEN remote
                      ELSE [remote EXCEPT ![p] = Stopped(p)]
  /\ slot' = [slot EXCEPT ![p] = Nothing]
  /\ adv' = [adv EXCEPT ![p].pc = "delivering", ![p].working = Nothing,
                        ![p].restarts = FALSE]
  /\ UNCHANGED <<interrupted, archived, call, pass, tasks, history>>

\* The remote took the task: it is in the slot.
AdvanceDelivers(p) ==
  /\ Delivering(p)
  /\ LET a == adv[p]
         t == a.head.task
     IN  /\ slot' = [slot EXCEPT ![p] = a.head]
         /\ remote' = [remote EXCEPT ![p] = @ \cup {t}]
         /\ started' = [started EXCEPT ![p] = @ \cup {t}]
         /\ done' = [done EXCEPT ![p] = @ \ {t}]
         /\ call' = IF a.by = p THEN call ELSE [call EXCEPT ![a.by] = AfterAdvance(a.by)]
  /\ adv' = [adv EXCEPT ![p] = Free]
  /\ UNCHANGED <<database, pass, tasks, closed, dropped>>

\* A delivery that fails and leaves the task to nobody.
AdvanceLosesTask(p) ==
  /\ "deliver" \in Events
  /\ Delivering(p)
  /\ call' = IF adv[p].by = p THEN call ELSE [call EXCEPT ![adv[p].by] = Refused(adv[p].by)]
  /\ adv' = [adv EXCEPT ![p] = Free]
  /\ UNCHANGED <<database, slot, pass, remote, tasks, history>>

\* _requeue: the remote refused it, and it goes back paused.  The exception
\* ends the send, which never reaches its interrupt.
AdvanceRequeues(p) ==
  /\ "deliver" \in Events
  /\ Delivering(p)
  /\ queue' = [queue EXCEPT ![p] = Append(@, PausedRow(adv[p].head))]
  /\ call' = IF adv[p].by = p THEN call ELSE [call EXCEPT ![adv[p].by] = Refused(adv[p].by)]
  /\ adv' = [adv EXCEPT ![p] = Free]
  /\ UNCHANGED <<slot, interrupted, archived, pass, remote, tasks, history>>

\* The advance a send ends with.
SendAdvance(c) ==
  /\ call[c].pc = "admitted"
  /\ LET k == call[c].via
         p == call[c].to
     IN  \/ /\ AdvanceDrops(k, p) \/ AdvanceReturns(k, p)
            /\ call' = [call EXCEPT ![c] = AfterAdvance(c)]
         \/ /\ AdvanceNeedsRemote(k, p)
            /\ call' = [call EXCEPT ![c] = Refused(c)]
         \/ /\ AdvanceBegins(k, p, c)
            /\ call' = [call EXCEPT ![c].pc = "advancing"]

\* The advance a drain pass starts with.
DrainAdvance(p) ==
  /\ pass[p] = Idle
  /\ \/ /\ queue[p] # <<>> \/ slot[p] # Nothing
        /\ AdvanceDrops(Owner[p], p)
     \/ AdvanceBegins(Owner[p], p, p)
  /\ UNCHANGED call

-----------------------------------------------------------------------------
(***************************************************************************)
(* The rest of the drain pass: poll, summarise, release, report.           *)
(***************************************************************************)

\* This agent has nothing queued, nothing it sent is queued, and it is not
\* waiting for an answer.
Quiet(p) ==
  /\ queue[p] = <<>>
  /\ \A q \in Partner : \A i \in DOMAIN queue[q] : queue[q][i].caller # p
  /\ ~interrupted[p]

\* dependents: the live partners it directs.
Dependents(p) == {q \in Directs[p] : ~archived[q]}

\* has_summarized: a report of its own was once stored.
HasSummarized(p) ==
  \E n \in DOMAIN tasks : tasks[n].from = p /\ tasks[n].label = "TRUTHFUL_REPORT"

\* The partners no_work visits: p, and what hangs below through dependents
\* that have not reported.  Cardinality(Partner) rounds reach all of them.
Below(p) ==
  LET visited[n \in Nat] ==
        IF n = 0 THEN {p}
        ELSE visited[n - 1] \cup
             {q \in UNION {Dependents(r) : r \in visited[n - 1]} : ~HasSummarized(q)}
  IN  visited[Cardinality(Partner)]

NoWork(p) == \A q \in Below(p) : Quiet(q)

\* A reply chosen by the label alone: every report is answered by a report.
ReplyByLabel(w) ==
  IF w.label = "TRUTHFUL_REPORT" THEN "TRUTHFUL_REPORT" ELSE ReplyBehavior[w.label]

\* A report that nobody is owed.
ReplyWithoutSummary(w) == ReplyBehavior[w.label]

\* What a finished task owes its caller.
ReplyTo(w) == IF w.summary THEN "TRUTHFUL_REPORT" ELSE ReplyBehavior[w.label]

InPass(p, pc) == pass[p].pc = pc

\* The pass reads the task it will act on.  Its own advance comes first, so
\* it polls only when that left nothing to promote.
Poll(p) ==
  /\ pass[p] = Idle
  /\ adv[p] # Free => adv[p].by # p
  /\ ~archived[p]
  /\ ~\E i \in DOMAIN queue[p] : Promotable(Owner[p], p, i)
  /\ slot[p] # Nothing
  /\ pass' = [pass EXCEPT ![p] = [pc |-> "polling", work |-> slot[p], reply |-> NoLabel]]
  /\ UNCHANGED <<database, slot, adv, call, remote, tasks, history>>

\* poll_completion answers: finished, and an answer is read if one is owed, or
\* try again on the next pass.
PollAnswers(p) ==
  /\ InPass(p, "polling")
  /\ pass' = [pass EXCEPT ![p] =
                IF remote[p] # {} THEN Idle
                ELSE IF pass[p].work.label = "RESEARCH" THEN [pass[p] EXCEPT !.pc = "finished"]
                ELSE [pass[p] EXCEPT !.pc = "answered"]]
  /\ UNCHANGED <<database, slot, adv, call, remote, tasks, history>>

\* The remote stopped on a permission it lacks, and is told to stop.
PollMeetsApproval(p) ==
  /\ "approval" \in Events
  /\ Cardinality({n \in DOMAIN tasks : tasks[n].kind = "error"}) < MaxErrors
  /\ InPass(p, "polling")
  /\ remote[p] # {}
  /\ remote' = [remote EXCEPT ![p] = Stopped(p)]
  /\ pass' = [pass EXCEPT ![p].pc = "blocked"]
  /\ UNCHANGED <<database, slot, adv, call, tasks, history>>

\* release: the slot is emptied, whatever it holds.
Release(p) ==
  /\ LockFree(Owner[p], p)
  /\ slot' = [slot EXCEPT ![p] = Nothing]
  /\ closed' = [closed EXCEPT ![p] = @ \cup TaskIn(slot[p])]
  /\ UNCHANGED <<database, adv, call, remote, tasks, dropped, started, done>>

\* A report on whatever the release returned, an empty slot too.
ReportingAnything(w, l) ==
  IF l = NoLabel THEN Idle ELSE [pc |-> "reporting", work |-> w, reply |-> l]

\* The pass leaves with task w to report on as l, or has nothing to report.
Reporting(w, l) ==
  IF l = NoLabel \/ w = Nothing THEN Idle
  ELSE [pc |-> "reporting", work |-> w, reply |-> l]

\* _raise_approval_to_caller: the task is released and its caller is owed an
\* [ERROR].
ReleaseBlocked(p) ==
  /\ InPass(p, "blocked")
  /\ Release(p)
  /\ pass' = [pass EXCEPT ![p] =
                Reporting(IF slot[p] = Nothing THEN pass[p].work ELSE slot[p], "ERROR")]

\* Research is over.  If work it depends on is not, ask again next pass.
CheckNoWork(p) ==
  /\ InPass(p, "finished")
  /\ pass' = [pass EXCEPT ![p] = IF NoWork(p) THEN [pass[p] EXCEPT !.pc = "ready"] ELSE Idle]
  /\ UNCHANGED <<database, slot, adv, call, remote, tasks, history>>

\* A research task asked for its report.
Summary(w) == [w EXCEPT !.label = "TRUTHFUL_REPORT", !.summary = TRUE, !.origin = "RESEARCH"]

\* begin_summary_phase: research is relabelled in the slot, and anything else
\* found there is left to be completed as an ordinary task.
BeginSummary(p) ==
  /\ InPass(p, "ready")
  /\ LockFree(Owner[p], p)
  /\ IF slot[p] # Nothing /\ slot[p].label = "RESEARCH"
       THEN /\ slot' = [slot EXCEPT ![p] = Summary(@)]
            /\ pass' = [pass EXCEPT ![p] = [pc |-> "summarising", work |-> Summary(slot[p]),
                                            reply |-> NoLabel]]
       ELSE /\ pass' = [pass EXCEPT ![p].pc = "answered"]
            /\ UNCHANGED slot
  /\ UNCHANGED <<database, adv, call, remote, tasks, history>>

\* The remote took the request for the summary: its second turn.
SummaryRequested(p) ==
  /\ InPass(p, "summarising")
  /\ remote' = [remote EXCEPT ![p] = @ \cup {pass[p].work.task}]
  /\ done' = [done EXCEPT ![p] = @ \ {pass[p].work.task}]
  /\ pass' = [pass EXCEPT ![p] = Idle]
  /\ UNCHANGED <<database, slot, adv, call, tasks, closed, dropped, started>>

\* The remote refused it: the task is released and its caller is told.
SummaryRefused(p) ==
  /\ "deliver" \in Events
  /\ InPass(p, "summarising")
  /\ Release(p)
  /\ pass' = [pass EXCEPT ![p] = Reporting(slot[p], "ERROR")]

\* The task the pass had read, taken for the one released.
ObservedTask(p) == pass[p].work

\* What release returns.
ReleasedTask(p) == slot[p]

\* The answer was read before the slot is released, and is reported for the
\* task the release found there.
Complete(p) ==
  /\ InPass(p, "answered")
  /\ Release(p)
  /\ pass' = [pass EXCEPT ![p] = Reporting(ReleasedTask(p), ReplyTo(pass[p].work))]

\* report_back: the answer joins the caller's queue if the caller is live.
ReportBack(p) ==
  /\ InPass(p, "reporting")
  /\ LET c == pass[p].work.caller
         l == pass[p].reply
     IN  /\ LockFree(Owner[p], c)
         /\ IF archived[c]
              THEN UNCHANGED <<queue, tasks>>
              ELSE /\ queue' = [queue EXCEPT ![c] = Append(@, NewRow(NextTask, p, l))]
                   /\ Record(p, {c}, l, IF l = "ERROR" THEN "error" ELSE "answer",
                             pass[p].work.task)
  /\ pass' = [pass EXCEPT ![p] = Idle]
  /\ UNCHANGED <<slot, interrupted, archived, adv, call, remote, history>>

-----------------------------------------------------------------------------
(***************************************************************************)
(* The remote, the archive and the restart.                                *)
(***************************************************************************)

\* A remote ends one of its turns.
RemoteFinishes(p) ==
  /\ \E t \in remote[p] :
       /\ remote' = [remote EXCEPT ![p] = @ \ {t}]
       /\ done' = [done EXCEPT ![p] = @ \cup {t}]
  /\ UNCHANGED <<database, slot, adv, call, pass, tasks, closed, dropped, started>>

\* A loss reported to the queue's callers only.
QueuedCallers(k, p) == {queue[p][i].caller : i \in DOMAIN queue[p]}

\* The callers _report_lost_work finds: of the queue and of the slot.
WaitingCallers(k, p) ==
  {queue[p][i].caller : i \in DOMAIN queue[p]}
    \cup (IF Working(k, p) = Nothing THEN {} ELSE {Working(k, p).caller})

\* archive_sessions, for one title, in process k.  It takes no slot lock.
Archive(p, k) ==
  /\ "archive" \in Events
  /\ ~archived[p]
  /\ archived' = [archived EXCEPT ![p] = TRUE]
  /\ LET told == {c \in WaitingCallers(k, p) \ {p} : ~archived[c]}
     IN  /\ queue' = [c \in Partner |->
                        IF c \in told THEN Append(queue[c], NewRow(NextTask, p, "ERROR"))
                        ELSE queue[c]]
         /\ IF told = {} THEN UNCHANGED tasks ELSE Record(p, told, "ERROR", "notice", 0)
  /\ slot' = IF Owner[p] = k THEN [slot EXCEPT ![p] = Nothing] ELSE slot
  /\ dropped' = [dropped EXCEPT ![p] = @ \cup TaskIn(Working(k, p))]
  /\ UNCHANGED <<interrupted, adv, call, pass, remote, closed, started, done>>

\* restart_partner: its permissions were changed.
Restart(p, k) ==
  /\ "restart" \in Events
  /\ interrupted[p]
  /\ LockFree(k, p)
  /\ interrupted' = [interrupted EXCEPT ![p] = FALSE]
  /\ UNCHANGED <<queue, archived, slot, adv, call, pass, remote, tasks, history>>

-----------------------------------------------------------------------------
Send == \E c \in Partner :
  \/ \E p \in Partner, l \in Label :
       \/ \E k \in Process, b \in BOOLEAN : SendResolve(c, p, l, k, b)
       \/ NextItem(c, p, l)
  \/ BatchEnds(c)
  \/ SendAdmit(c)
  \/ SendAdvance(c)
  \/ SendInterrupt(c)
  \/ SendInterruptFails(c)

Advances(p) ==
  \/ AdvanceStopFails(p)
  \/ AdvanceSwaps(p)
  \/ AdvanceDelivers(p)
  \/ AdvanceRequeues(p)

Drain(p) ==
  \/ DrainAdvance(p)
  \/ Poll(p)
  \/ PollAnswers(p)
  \/ PollMeetsApproval(p)
  \/ ReleaseBlocked(p)
  \/ CheckNoWork(p)
  \/ BeginSummary(p)
  \/ SummaryRequested(p)
  \/ SummaryRefused(p)
  \/ Complete(p)
  \/ ReportBack(p)

Next ==
  \/ Send
  \/ \E p \in Partner : Advances(p) \/ Drain(p) \/ RemoteFinishes(p)
  \/ \E p \in Partner, k \in Process : Archive(p, k) \/ Restart(p, k)

Spec == Init /\ [][Next]_vars
-----------------------------------------------------------------------------
(***************************************************************************)
(* Fairness.  A drain thread exists wherever there is work (the supervisor *)
(* scan arms one) and runs its passes one after the other; a call that has *)
(* started comes to its end; a remote ends its turns.  Nothing makes an    *)
(* agent send, a remote fail, or anybody archive or restart a partner.     *)
(***************************************************************************)
Finishing(c) == SendAdmit(c) \/ SendAdvance(c) \/ BatchEnds(c) \/ SendInterrupt(c)
Delivery(p) == AdvanceSwaps(p) \/ AdvanceDelivers(p)

Fairness ==
  /\ \A c \in Partner : WF_vars(Finishing(c))
  /\ \A p \in Partner : WF_vars(Delivery(p)) /\ WF_vars(Drain(p)) /\ WF_vars(RemoteFinishes(p))

FairSpec == Spec /\ Fairness

-----------------------------------------------------------------------------
(***************************************************************************)
(* Properties.                                                             *)
(***************************************************************************)

\* The task an advance of p has taken out of the queue and not yet delivered.
InFlight(p) == IF Delivering(p) THEN adv[p].head ELSE Nothing

\* Everything that is p's to do: rows, slot and delivery in flight.
Held(p) == Range(queue[p]) \cup ({slot[p], InFlight(p)} \ {Nothing})

AdmittedTo(p) == {n \in DOMAIN tasks : p \in tasks[n].to}

\* How many places task n of p is in: its row, the slot, a delivery, or over.
Places(p, n) ==
  Cardinality({i \in DOMAIN queue[p] : queue[p][i].task = n})
    + (IF slot[p].task = n THEN 1 ELSE 0)
    + (IF InFlight(p).task = n THEN 1 ELSE 0)
    + (IF n \in closed[p] \cup dropped[p] THEN 1 ELSE 0)

\* One task, one place: whatever is displaced, interrupted, refused or
\* released, in whatever order, no task of a live partner is lost, none is in
\* the queue and in the slot at once, and none runs again once it is over.
OnePlace == \A p \in Partner : ~archived[p] => \A n \in AdmittedTo(p) : Places(p, n) = 1

\* A cap counts work in flight, not work waiting: the task in the slot, the
\* one on its way to the remote and research being summarised all count.
CapHolds ==
  \A p, c \in Partner : \A l \in Capped :
    Cardinality({w \in Held(p) : w.caller = c /\ CountedLabel(w) = l}) <= MaxOutstanding[l]

\* An agent that waits for an answer has nothing in its slot and nothing on
\* the way there.
InterruptedHoldsNothing ==
  \A p \in Partner : interrupted[p] => slot[p] = Nothing /\ InFlight(p) = Nothing

\* A report that is owed stays recognisable, through every displacement,
\* interruption and refusal: exactly the research in its second phase is
\* marked, and every task still counts under the label it was admitted with.
SummaryMarkers ==
  \A p \in Partner : \A w \in Held(p) :
    /\ CountedLabel(w) = tasks[w.task].label
    /\ w.summary <=> w.label # tasks[w.task].label

Answers == {n \in DOMAIN tasks : tasks[n].kind = "answer"}

\* A task is answered at most once, and by the partner it was sent to, to the
\* one who sent it.
AnsweredOnce ==
  \A n \in Answers :
    LET of == tasks[n].of
    IN  /\ tasks[n].from \in tasks[of].to
        /\ tasks[n].to = {tasks[of].from}
        /\ \A m \in Answers : tasks[m].of = of => m = n

\* Nothing goes back for what owes nothing: a pass that closes the task it has
\* polled answers it only if the label it was admitted under asks for a reply,
\* whatever it was relabelled to since, and so no two agents answer each other
\* for ever.
OnlyOwedAnswers ==
  [][\A p \in Partner :
       InPass(p, "answered") /\ pass'[p].pc = "reporting" /\ slot[p].task = pass[p].work.task
         => ReplyBehavior[tasks[slot[p].task].label] # NoLabel]_vars

\* What goes back for a task is produced by a turn that ended.
AnswersEndedTurns ==
  \A n \in Answers : \A p \in tasks[tasks[n].of].to : tasks[n].of \in done[p]

\* Work that an archive drops is reported: at that moment every caller with a
\* row in the queue or a task in the slot gets an [ERROR], unless it is the
\* partner itself or gone.
ArchiveTellsCallers ==
  [][\A p \in Partner : ~archived[p] /\ archived'[p] =>
       \A w \in Range(queue[p]) \cup ({slot[p]} \ {Nothing}) :
         w.caller = p \/ archived[w.caller]
           \/ \E row \in Range(queue'[w.caller]) \ Range(queue[w.caller]) :
                row.caller = p /\ row.label = "ERROR"]_vars

\* An interruption that raises: the remote did not stop, and the task stays.
GoesOn(c) == slot[c] # Nothing /\ slot'[c] = slot[c]

\* A batch is sent whole before it stops its sender, and stops it if any request
\* of it was accepted, whatever was refused or failed before, after or between.
BatchStopsSender ==
  [][\A c \in Partner :
       /\ interrupted'[c] /\ ~interrupted[c] => call'[c] = Idle
       /\ call[c] # Idle /\ call'[c] = Idle /\ call[c].accepted \cap RequestBehaviors # {}
            => interrupted'[c] \/ GoesOn(c)]_vars

\* A task handed over with "resume your previous" has been handed over before:
\* it is something the agent is still holding in its own context.  (The code
\* does not keep this: a task whose first delivery failed goes back paused.)
ResumedWasStarted ==
  \A p \in Partner :
    InFlight(p) # Nothing /\ InFlight(p).paused => InFlight(p).task \in started[p]

Answered(n) == \E m \in Answers : tasks[m].of = n

Researching(p) ==
  {n \in AdmittedTo(p) : tasks[n].label = "RESEARCH" /\ n \notin closed[p]}

\* The messages that can be sent and answered within the bounds.
Ids == 1 .. 2 * MaxSends

Asked(n) ==
  n \in DOMAIN tasks /\ tasks[n].kind = "send" /\ ReplyBehavior[tasks[n].label] # NoLabel

\* Everything asked for is answered in the end: finished research waits for
\* the work it depends on, and is never refused its summary.  (The code does not keep this, for the
\* reasons OthersAreAnswered names.)
RequestsAreAnswered == \A n \in Ids : Asked(n) ~> Answered(n)

SecondResearch == \E p \in Partner : Cardinality(Researching(p)) > 1

AnswerPutBack ==
  \E p \in Partner : interrupted[p] /\ \E row \in Range(queue[p]) :
    row.paused /\ row.task \in Answers

\* The same, unless a partner is given a second research task before it is
\* through with the first, or an agent is interrupted on an answer and keeps
\* it in its queue: nothing else keeps a request from its answer.
OthersAreAnswered ==
  \A n \in Ids : Asked(n) ~> Answered(n) \/ SecondResearch \/ AnswerPutBack

\* An agent that waits is restarted in the end.  (The code does not keep this:
\* an answer may come back before the interruption, and is put back with it.)
AgentsAreRestarted == \A p \in Partner : interrupted[p] ~> ~interrupted[p]

\* An agent never sits waiting for an answer that is in its queue, wherever in
\* the queue it is.
ArrivedAnswersRestart ==
  \A p \in Partner : interrupted[p] /\ FreshResponses(queue[p]) # {} ~> ~interrupted[p]
=============================================================================
