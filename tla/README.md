# A TLA+ verification of the agent messaging server

The server lets agents that live in different remote applications (Claude
Science, Antigravity, NotebookLM) message each other. Every message is a row in
the queue of the partner it is sent to; one task at a time is taken out of the
queue, put in the partner's *working slot* and handed to the remote; what the
remote produces goes back to the caller as another message. This directory
models that mechanism, model-checks it on small instances with TLC, and proves
what it can for every instance with TLAPS.

## 1. The system's parts

| Part | State | Operations | Meets |
|---|---|---|---|
| Label table (`schema/schema.sql`, `labels.py`) | `label_caps`: rank, cap, stored, reply; seeded, never written | none | read by everything below |
| Message queue (`message_queue`, the SQL of `core.py`) | rows: caller, label, `in_process`, summary marks, arrival | admit, take the head, put back | shared by all processes |
| Working slots (`slots.py`) | per process: one task and one lock per partner | get, set, clear, outstanding | memory; gone with the process |
| Messaging core (`core.py`) | `partners.interrupted`, `archived_at`, `messages` | `send`, `send_batch`, `advance`, `interrupt`, `restart`, `begin_summary_phase`, `release`, `report_back`, `no_work`, `archive_sessions`, `delete_partner` | called by tools and by drain threads |
| Drain pass (`polling/server.py`) | the task it read | `drain_once`, `_complete`, `_raise_approval_to_caller` | advances, polls and answers |
| Drain threads, supervisor (`polling/server.py`) | threads, stop flags, `drain_threads` | arm, retire, stop, scan, start, stop | one per partner with work |
| Entities, handshakes (`core.py`) | projects, partners and roles, handshakes, extensions, budgets, layers | create, claim, grant, extend, handshake, archive, delete; search, read, status | decide who may send what |
| Permissions (`core.py`) | recorded paths, the remote's own grants | get, add, delete | a correction restarts a partner |
| Database (`db.py`) | the file; per process one writer thread and its queue of closures | `read`, `write`, `close` | every write of the above |
| Antigravity adapter (`adapters/antigravity/`) | per session: last body, time of delivery, footer seen | deliver, stop, poll, read, add and delete permissions | types into and reads off a terminal |
| Other remotes (`extension/base.py`, `adapters/`) | the turns each remote runs | deliver, stop, poll, read | outside the server |
| MCP server (`mcp_server/`) | none of its own | the tools | calls the core, arms threads |

How they interact: a tool call runs `send` in the thread of the request:
resolve and validate, admit one row under the target's slot lock, `advance` the
target, then `interrupt` the *sender* if the label is a request. The same
`advance` is the first step of each pass of the target's drain thread, which
then reads the slot, polls the remote and, when the turn is over, releases the
slot and pushes the answer into the caller's queue. Several processes can do all
this on one database: the queue, the marks and the messages are shared, the
slots and their locks are not.

What is hard here: the slot is read, then a remote is polled without the lock,
then the slot is acted on; `send` talks to a remote between admitting a request
and interrupting its sender; a delivery or a stop can fail after or before the
queue was changed; a handshake decides on rows it read before the transaction
that inserts; a terminal shows a moment that has passed, and what is typed goes
to whatever screen there is; a process holds neither the lock nor the slot of a partner
another process serves; agents wait for each other, and for a condition on the
whole queue (`no_work`) before they report; archiving takes no lock. The list,
with lines, is under `hazards` in `PROJECT.json`.

What makes each part correct: the **queue** hands out one row, the same
whoever looks, and resumes at most one task per label; the **slot** and the
queue hold each task in exactly one place between them; a **cap** counts work in
flight; an **interrupted agent** holds nothing, is restarted by an answer that
arrived and by nothing else, and is restarted in the end; a task is **answered**
at most once, by whom it was sent to, when its turn has ended, and in the end;
an **archived** partner leaves nobody waiting; a **thread** exists wherever there
is work; a **handshake** gives a conversation one director and one successor, a
director no more conversations than its budget, and nobody a circle to wait in;
a **summary** waits for what stands under an agent and for nothing else; a
**write** is whole, once, and truthfully answered; a **turn** is called finished
when it is and answered with its own text; a **permission** recorded is one the
remote has, and only a named one is removed.

## 2. The modules

| Module | What it is |
|---|---|
| `LabelCaps` | the label table, as constants |
| `PriorityQueue` | `_HEAD_LABEL_SQL` and `_HEAD_ROW_SQL` as operators on a sequence of rows, for any ranking |
| `AgentQueue` | one agent's queue, slot and mark, every operation one atomic step: the abstract specification |
| `MessagingCore` | several agents, several processes, `send`, `advance` and the drain pass split where the code lets go of what it read |
| `CoreRefinesQueue` | the refinement: `MessagingCore`, seen from one agent, implements `AgentQueue` |
| `DrainServer` | the drain threads of one process, their registry and rows, the supervisor, `start`, `stop` and a crash |
| `NoWork` | the walk of `no_work`, a database read at a time, while everybody under it goes on |
| `Registry` | who exists and who may talk to whom, and the work that partners vanish under |
| `AtomicStore` | what `Database.write` promises: the abstract specification |
| `DbWriter` | the writer threads of several processes on one file; implements `AtomicStore` |
| `AgyPane` | the terminal session of an Antigravity conversation, external |
| `AgyTurns`, `AgyPermissions` | the adapter's turns, and its permission changes with the core's around them |
| `Antigravity` | the two composed on one session, with restarts of the process |
| `MCAgentQueue`, `MCMessagingCore`, `MCDrainServer`, `MCNoWork`, `MCRegistry`, `MCDbWriter`, `MCAntigravity` | the instances TLC checks |
| `AgentQueue_proofs`, `MessagingCore_proofs`, `CoreRefinesQueue_proofs`, `DrainServer_proofs`, `NoWork_proofs`, `Registry_proofs`, `DbWriter_proofs`, `Antigravity_proofs` | the theorems |

`MessagingCore` and `DrainServer` look at the same pass from two sides. The
first has the tasks, their labels and callers, and one pass per partner that
goes on for ever; the second has the threads that make the passes, several of
one partner if it comes to that, and knows of a partner's work only how many
rows there are and whether the slot is taken. What `DrainServer` shows of its
supervisor (`WorkIsAttended`) is what the liveness runs of `MessagingCore`
assume of a pass.

### State

In `MessagingCore`, `queue[p]` is the rows of `message_queue` with that
`partner_id`, in insertion order, which stands for `(enqueued_at, id)`. A task
is a record of the columns the code branches on (`caller`, `label`, `paused`
for `in_process`, `summary` for `summary_phase`, `origin` for
`origin_behavior`) with the number of the message it came from in place of its
body. `slot[p]` is the entry of `WorkingSlots` in the one process that serves
the partner, `Owner[p]`; another process sees its own, empty, entry
(`Working`), and its own lock (`LockFree`). `interrupted` and `archived` are
the columns of `partners`. `adv[p]`, `call[c]` and `pass[p]` are the program
counters of an `advance`, of the send an agent is in the middle of, and of the
drain pass, with the local variables each carries across its remote calls; of
`send_batch` these are `interrupted_any` (`asked`) and the labels of `accepted`.
`remote[p]` is the set of tasks whose turn the remote is running. The other
variables are history: every message ever admitted (`tasks`) and, per partner,
the tasks that were released, deleted, started and finished.

In `DrainServer`, `rows[p]` counts the queue, `reply[p]` says that a fresh
answer may be among it (the one thing an interrupted agent promotes), and
`slot` and `waiting` are the slot and the mark. `thread[t]` is a thread's place
in `_drain_loop` and `drain_once`, with the partner it serves and its stop flag;
`registry` is `_drain_threads`, `row` the `drain_threads` table. `sender[p]` is
the one call of this process that is sending to `p` or restarting it,
`stopping[p]` the one that is interrupting it: a second call of a kind waits.
`closing` is the time between the two locks `stop()` takes, `looking` and `todo`
are the supervisor's scan. `armed` and the field `late` of a thread are history.

In `NoWork`, `stack` is the calls of `no_work` that have not returned, innermost
first, each at one of its three reads or in its loop; `seen` is the set the
calls share. What it reads are the tables: `rows` of `message_queue`, the mark
`interrupted`, `summarized` for the `[TRUTHFUL-REPORT]`s in `messages`, and
`dependents` for the live handshakes. `slot[a]` is the task `a` is at, which no
read sees, and `calling` the senders between the admission of a request and their
interruption. `lasting` and `before` are history: why an agent has had work left
ever since the walk began, and what the handshakes and reports were then.

In `Registry` the tables are themselves, with ids for rows: `partner` has
project, role and `archived_at`; `handshakes` are pairs, `extended` sets of two
projects. `work` is the tasks of the queues and slots, and of the advance that
has taken one out of a queue and not yet put it in a slot, where it is in
neither. `call[s]` is the handshake or send that the process of source `s` has
checked and not yet made; every other call reads only what its own process, or
its own transaction, can change, and is one step.

In `DbWriter`, `committed` and `version` are the file (which writes it holds,
and a value that every write reads and replaces), `lock` is SQLite's write lock,
`jobs[k]` is `_job_queue` of process `k`, `writer[k]` its writer thread, `call`
the calls of `write()` with the futures they wait on.

In `AgyPane`, `screen` is what keys go to, `status` and `log` are the turns and
the transcript, `allow` and `cursor` the allowlist and the selected row, and
`shown` the pane as it was last painted: everything the adapter decides is
decided on `shown`. `AgyTurns` adds the adapter's three dictionaries
(`delivered`, `age` for `_delivered_at` against `settle_seconds`, `saw`), the
thread that holds the slot's lock (`caller`) and the drain thread, which does
not (`poller`). `AgyPermissions` adds the running permission call and
`recorded`, the rows of `partner_paths`. `Antigravity` adds `mixed`, a history: a
permission change and a turn have been under way at once, and the session has not
come to rest since.

### Actions

| Code | Actions |
|---|---|
| `send`, `_send_one` | `SendResolve`, `SendAdmit`, `SendAdvance`, `SendInterrupt`, `SendInterruptFails` |
| `send_batch` | the same for its items, with `NextItem` between two of them and `BatchEnds` after the last; `Refused` is its `except` clauses |
| `advance` | `AdvanceDrops`, `AdvanceReturns`, `AdvanceNeedsRemote`, `AdvanceBegins` (inside `SendAdvance` or `DrainAdvance`), `AdvanceStopFails`, `AdvanceSwaps`, `AdvanceDelivers`, `AdvanceRequeues` |
| `drain_once` | `DrainAdvance`, `Poll`, `PollAnswers`, `PollMeetsApproval` |
| `_raise_approval_to_caller` | `ReleaseBlocked`, `ReportBack` |
| `_complete` | `CheckNoWork`, `BeginSummary`, `SummaryRequested`, `SummaryRefused`, `Complete`, `ReportBack` |
| `archive_sessions`, `_report_lost_work` | `Archive` |
| `restart` | `Restart` |
| the remotes | `RemoteFinishes` |

`DrainServer`:

| Code | Actions |
|---|---|
| `send`'s tool, `_complete`'s push | `Push`, `PushFromElsewhere`, `SendAdvance`, `SendDelivers`, `SendFails`, `SendArms` |
| `interrupt`, `stop_partner_thread`, `restart_partner` | `Interrupt`, `StopThreadSignals`, `StopThreadSkipped`, `StopThreadDeletes`, `Restart` |
| `_drain_loop`, `drain_once` | `Top`, `PassAdvance`, `PassDelivers`, `PassFails`, `PassReads`, `PassCounts`, `PassPolls` |
| `_drain_loop`, `_has_work`, `_deregister` | `Recheck`, `Retire`, `RetireFails`, `LeavingDeletes`, `LeavingForgets` |
| `_ensure_thread`, `_spawn_drain_thread` | `EnsureThread`, `SpawnFails` (inside `SendArms`, `ScanArms`, `ScanFails`) |
| `scan_once`, `_supervisor_loop` | `ScanReads`, `ScanLooks`, `ScanArms`, `ScanFails` |
| `start`, `stop`, the end of the process | `Start`, `StopTells`, `StopReturns`, `Crash` |

The modules of the second half of the server:

| Code | Actions |
|---|---|
| `no_work` (`NoWork`) | `Ask` (in `_complete`), `Fail`, `Pass`, `Skip`, `Recurse`, `Return` |
| `send`, `advance`, `_complete`, `restart`, `handshake`, beside the walk (`NoWork`) | `Send`, `Interrupt`, `SendRaises`; `Take`; `Complete`; `Restart`; `Handshake` |
| `create_project`, `create_partner`, `claim_orchestrator`, `grant_gemini_budget`, `extend_project` (`Registry`) | `CreateProject`, `CreatePartner`, `Claim`, `GrantBudget`, `Extend` |
| `handshake`, `_send_one` (`Registry`) | `HandshakeChecked` then `HandshakeMade`, `SendChecked` then `Sent` |
| `archive_sessions`, `delete_partner`, `delete_project` (`Registry`) | `Archive`, `DeletePartner`, `DeleteProject` |
| `advance`, `_requeue`, `report_back` (`Registry`) | `Take`, `Deliver`, `DeliveryFails`, `Finish`, `Drop` |
| `_submit`, `close` (`DbWriter`) | `Submit`, `CloseBegins`, `CloseReturns` |
| `_writer_loop`, `_run_write` (`DbWriter`) | `Take`, `Begin`, `BeginFails`, `Run`, `RolledBack`, `Commit`, `Answer` |
| `deliver_message` (`AgyTurns`) | `BeginDelivery` or `Displace`, `ReadyToType`, `DeliveryRefused`, `TypeBody`, `AwaitBusy` |
| `stop_remote_execution` (`AgyTurns`) | `Interrupt` or `Displace`, `PressEscape` |
| `poll_completion`, `read_remote_result` (`AgyTurns`) | `PollCapture`, `PollJudge`, `ApprovalStop`, `ApprovalReported`, `ReadResult` |
| `add_permissions`, `delete_permissions` (`AgyPermissions`) | `BeginCall`, the steps of `Edit`, `Verify`, `Record` |

What is one step: everything done under one hold of the slot lock without
remote I/O, and every database write. `AdvanceBegins` takes the lock (`adv[p]`
leaves `Free`) and the last step of the delivery gives it back, so a second
thread of that process waits, and a thread of another does not. `Archive` takes
no lock in the code and none in the model. In `DrainServer` the server's lock is held over
two steps by a thread that is about to retire (its look at the slot, then its
look at the queue with the deregistration), because the slot can be filled
between the two; all else under that lock is one step.

What is abstracted: bodies, titles and prompts; one drain pass runs per partner
at a time. A batch with an item refused before anything is admitted (malformed,
no handshake) is the batch without that item. In `MessagingCore` the checks of
`_send_one` on layers, sources and handshakes are the set `Traffic` of sends that
pass them, a handshake to a partner is `Directs` and `no_work` is one read:
`Registry` and `NoWork` have them in full. An agent has at most one call in
progress: a tool call blocks it.

In `NoWork` a task is with its agent from the step in which its row goes to the step
in which its reply is a row: deliveries, refused summaries and archivings are left
to `MessagingCore`, and which row an agent takes is left open but for what an
interrupted agent may take and what may displace a task. A report is a row at the
caller and in `messages` in one step, as `report_back` writes it. The root's own
research stays in its slot while the walk asks about it, unless it is displaced.

In `DrainServer`, `stop_partner_thread` takes the thread out of the registry under
the lock and sets its event after it: one step (`StopThreadSignals`). The thread
looks at the event at the top of its loop only, so that one that passes the top
between the two is one that had passed it before; it is out of the registry either way.

`Registry` assumes that an agent uses the process of its own source and that a
process serves one call at a time, which is how `docs/01` deploys it and how its
tools run; which row a queue promotes is left open there. `AgyPane` is what the
adapter's comments take the terminal to do: a screen takes a key or swallows it,
and the pane follows at some time. Its timing assumptions are in the guards: the
pane is painted within `_KEY_SETTLE` of a movement key and between two calls; a
turn starts within `settle_seconds`; the six seconds of `_await_busy` outlast a
poll, or end while the approval it met waits for the lock, and then the message has
started; a restart takes longer than a turn takes to start. A permission call
names one of the sets `Requests` (a bound), and changes those that need it in any
order. A permission change and a turn may overlap at any step, as in the code: the
two share no lock. A message that meets the open editor is lost, its letters may
delete the selected rule, and its Enter leads to the list (`SwallowedByEditor`). Two
things of an overlap are not looked at: a human closes
the editor by hand only while no call is in it (`Session`), and what an agent does
with a rule that a stop has made a message to it (`TypeRule`).

## 3. What is checked

Every bound is a constant of a `.cfg`. The lengths a queue may be filled to
(`Lengths`) are one: `agent_queue` allows four rows, the refinement all of `Nat`.
The `core_*` runs have two partners, a director that has handshaken to a worker;
the `drain_*` runs have one partner and two threads.

| Run | Instance | Shows |
|---|---|---|
| `agent_queue` | up to 4 rows, `[QUERY]` given the rank of `[ERROR]` | no fresh label is passed over for a later one; of each label that is work one row at most is paused; an answer in the queue is always taken, and an interruption stands until one arrives |
| `core_delegation` | one process, research and questions back, a worker that cannot be cancelled, failing stops and deliveries, approval prompts | one task in one place, an empty slot while interrupted, summary marks, one answer per task and only to a task that is owed one, and the refinement of `AgentQueue` |
| `core_archive` | three research tasks, singly or in a batch, either partner archived at any moment | one task in one place; the cap of two, through the slot and the summary phase; the archive tells every caller it can see; a batch is sent whole and then stops its sender, whatever of it failed |
| `core_fair` | research and a question, permission restarts, under fairness | every request is answered but in two situations; an answer in the queue restarts its agent |
| `drain_server` | failing deliveries and writes, stop, crash | a thread nobody told to stop is the registered one; work that was armed for keeps a thread in its loop |
| `drain_fair` | failing deliveries and writes, crash, under fairness | work that nobody armed for gets a pass, over and over |
| `no_work` | three agents in a circle through the root or in one under it; two messages or handshakes while it walks, with their answers and reports | a yes overlooks nothing that stood through the walk, a no is for work that is there, the walk ends |
| `registry` | six partners of four sources and a spare project; four calls of any kind, two tasks | one director and one successor per conversation, budgets, no circle of delegation, nobody vanishes unreported |
| `db_writer` | two processes, four writes, failing commits, `close()`, crashes | no lost update; `AtomicStore`; every caller hears |
| `antigravity` | two turns and one permission call that names three rules, in any overlap, any number of restarts; three rules granted, two of them named | the editor is left; what is recorded is granted; every turn is settled; and, where no permission change was beside them, messages reach the prompt, turns are finished when they are and answered with their own text, and only named rules go |
| `stale_release`, `typed_into_editor` | `core_delegation` without its failures, and `antigravity` | two disagreements of the code with its comments, below |

`core_delegation` and `core_archive` are runs of one process, as are the
properties of theirs that need it. That a task is in one place (`OnePlace`) for any
number of processes is a theorem (`OneTaskOnePlace`); TLC agrees on `core_delegation`
with `Process = {Here, There}`, `Owner <- TwoOwners`, `OnePlace` as its only
property and `"restart"` among its events in place of the failures.

Bounds. Two agents are enough for every hazard of the core listed: each is about
one queue and the callers of its rows, and the director and the worker take both
roles. `MaxSends` bounds the sends; answers, errors and notices come on top, so
two sends give up to five messages. The cap needs three research tasks, one over
it. `MaxErrors` ends the approval prompts: without it a partner could be stopped
on a prompt by each of its own `[ERROR]`s for ever. The ranks of `agent_queue`
are tied because the shipped ones never reach the second key of the order.
Two threads are what a partner can have at once in the races the code comments
on, one on its way out and its replacement; with none spare an arm waits, which
only leaves behaviours out, and the theorems hold for any number. Partners share
nothing in `DrainServer` but the server's lock, and the theorems hold for any
number of those too. `MaxTasks` of 2 lets a displaced task and its displacer, or
a task in the slot and a row, be there together.

Three agents make the two kinds of circle the walk of `no_work` can meet: one that
leads back to the root, whose own call is still to be finished, and one that leads
back to an agent below it. They start idle, with the research of the root; two
messages or handshakes (`MaxCalls`), each message with its answer on top, are one
that is there when the walk begins and one that crosses it, or a report that comes
while it reads. `registry`
starts from a staffed system, reached by calls of the model itself, because from
nothing every call of the bound would go into creating it: two conversations and
two possible directors (the second by claiming the role of an archived one) are
what the rules about handshakes need, a budget of one makes the second
conversation one too many, and four calls are two handshakes that cross and what
makes them cross. In `db_writer` a lost update needs two processes; the other
writes queue behind. In `antigravity` two turns are an echo and a stale one; of the three
rules named two are granted, so that a deletion renumbers the list of the next, one
granted rule is not to go, and one is to be added; one call is enough to
cross any step of a turn.

Deadlock is not checked in the `core_*` runs, `no_work`, `registry`, `db_writer`
and `antigravity`, because a bounded number of sends or calls comes to its end;
`agent_queue` and the `drain_*` runs check it.

### Where the code does not do what it says

`stale_release` checks one property, `AnswersEndedTurns`, that the comment on
`release` states, and TLC finds a behaviour of the code that violates it: a pass
sees the remote idle, a send displaces the task before the pass releases, and
the new task is closed and answered while its turn runs.

`typed_into_editor` checks `TypedAtThePrompt`, what `_await_idle` says of itself:
"so that nothing is ever typed into a session that cannot accept it"
(`adapter.py:447-449`). TLC finds a permission change that opens the editor of the
same session after the idle footer was seen and before the body is typed. A
permission change is made by a tool's thread (`core.py:1714-1865`), a delivery by
a drain thread under the slot's lock, and there is no lock that both take. What
follows is seen by TLC too, with the guard `~mixed` taken off: the message that the
editor swallowed is judged a finished turn (`FinishedMeansEnded`), an earlier
echo or the whole pane is its answer (`AnswersAreOwn`), and a letter of it may delete
a rule that no call names (`OnlyNamedRulesGo`); with a second call the record may
then be wrong as well (`RecordedIsReal`). `TypedWhenApart` is what is left of the
claim. `findings` in `PROJECT.json` has both quotations.

Stated in the modules, seen violated, and kept without a run of their own:

- `RequestsAreAnswered` (`MessagingCore`): with a second research task queued,
  which the cap of two allows, the summary of the first waits for ever, since
  `no_work` asks for an empty queue (`core.py:2917`). `docs/05` calls it a wait.
- `AgentsAreRestarted` (`MessagingCore`): an answer that comes back before its
  asker is interrupted (`core.py:2040`) is put back paused, and no longer counts
  as an answer. `docs/03` says it restarts its agent. Two agents that ask each
  other both wait too, and so does the sender of an `[ERROR]`.
- `ResumedWasStarted` (`MessagingCore`): a task whose first delivery failed
  (`core.py:2415`) is handed over as one to resume, which `templates.py` says
  the agent still holds in its context.
- `InterruptedHasNoThread` (`DrainServer`): a message for an interrupted agent
  arms it a thread (`polling/server.py:803`), which may drain nothing and never
  retires. `docs/04` calls such a row an inconsistency.
- `NoWorkIsDropped` (`Registry`): a task that `advance` is delivering is in
  neither the queue nor the slot, so `delete_partner`, whose comment says it
  refuses instead of dropping work, deletes its partner, and `archive_sessions`
  tells its caller nothing.

- `NoAnswerUnread` (`NoWork`): the comment on the gate (`polling/server.py:655`)
  says that without it a summary would be written over answers still arriving. With
  it one still can be: the root's queue is read first, an answer that comes
  after that is not seen, and a dependent that reports while the walk is elsewhere
  is skipped as having summarized, with its report unread in the root's queue.

Seen on the way, variations of these or out of the instances above:

- with two processes, a sender in the other one does not see the slot and gets
  one task over the cap; an advance in a process without the extension clears
  the mark and then raises; an agent interrupted from there keeps its task;
- the sender of a request whose delivery raised is not interrupted; a fresh
  `[ERROR]` restarts an agent that waits for an answer;
- an early answer put back in the director's queue holds up the worker's summary;
- a message admitted between the check that its target is live and the archive
  is deleted without a word;
- two rows of an *answer* label can be paused at once, and with tied ranks paused
  work goes before another label's fresh row if a row of its own is the older;
- a thread that retires, or is told to, deletes the `drain_threads` row of its
  replacement; one spawned by a scan while `stop()` joins is not told to stop;
- a bridge and two `code_` partners whose handshakes cross are left with two,
  where `core.py:1274` says exactly one: their processes differ;
- ids are reused (`partners.id` has no `AUTOINCREMENT`), so a task in a slot
  whose caller was deleted may be answered to a new partner, and one that cannot
  go back (its caller's row is gone) makes the swap fail after the remote was
  stopped;
- a budget can be lowered below what is used; two conversations of extended
  projects can each continue the other;
- `no_work` reads no working slot: a dependent in the middle of its task is done,
  and its answer comes after the summary;
- an approval that is polled while a send waits to displace the task frees the slot
  without asking whose it is by then (`polling/server.py:605`), so that a
  message that has not started six seconds after it was typed loses the slot, and
  the next one would be typed over it. The timing assumption above rules it out:
  without it TLC shows it with three turns in `antigravity.cfg`;
- a failure in `_open_permissions_view` is raised outside the `try`, so the editor
  may stay open until a human closes it, and deliveries are refused meanwhile;
  the editor is opened without a look at the pane, so that its Enter may answer a
  prompt;
- a deletion that fails half way leaves rules recorded that are not granted, until
  it is repeated; conversations of one project share one allowlist, so deleting
  for one does the same to the other.

### Fairness

`FairSpec` of `MessagingCore` assumes that a call in progress goes on
(`Finishing`), that a delivery in progress ends well (`Delivery`: the liveness
runs have no failing events), that a partner's drain pass goes on whenever it
can (`Drain`), and that a remote ends its turns. All are weak. No fairness is
given to sends, failures, archives or restarts: a permission may never be
corrected. An agent is not assumed to do anything because it was told to; it
only has to end its turn.

That a pass goes on is what `DrainServer` shows of the threads, and its own
`FairSpec` assumes less: every thread of the process that can take a step takes
one (the drain threads, the supervisor's scan, the calls in progress), all weak,
and strong fairness of `ScanArms`, because a scan is ended by a write that fails
and the next one starts afresh: it says that a database which fails again and
again lets a write through in the end. `WorkIsAttended` claims nothing of a
process that goes down for good, nor of a partner that is interrupted for ever.

`NoWork` needs only that the walk goes on, not that any agent does anything.
`DbWriter` needs that the writer thread and the thread that joins it run; the
callers are free. `Antigravity` assumes that the threads run, the pane is
painted, and a turn that started ends or asks, all weak, and strong fairness of
`SettleTime`, because time passes whatever the polls do.

## 4. What is proved

`AgentQueue_proofs`, from `RankAssumption` alone (ranks are numbers), for every
ranking and every length of the queue:

- `TypeCorrect`: the type invariant.
- `OnePausedWork`: `OnePausedWorkRow`. That one row at most is paused is not
  inductive: what is put back is what the slot holds, so the invariant
  `PausedOnce(l)` adds that no row of label `l` is paused while the slot holds
  an `l`. An advance keeps it because a head of label `l` that is fresh means
  that no `l` was paused (`FreshHeadHasNoPausedSibling`), and one that is paused
  was the only one. It holds of the labels that are work and not of the answers,
  which an interrupted agent takes fresh past a paused one.
- `InterruptionStands`: `InterruptionHolds`.
- `AnswersAreTaken`: `AnswerIsTaken`. Of a set of rows that may share a rank there
  is one that is best ranked and then the oldest (`SomeFreshResponse`).
- `FreshIsNotPassedOver`: `FreshLabelFirst`, from the order of the labels.

`MessagingCore_proofs`, from `CoreAssumption`, for any number of partners and
any traffic, bounds and events:

- `CoreTypeCorrect`: the type invariant, for any number of processes. It needs
  `Linked`: the send behind an advance is waiting for it and for no other one,
  or the end of the advance could not be said to resume a call.
- `InterruptedAreEmpty`: `InterruptedHoldsNothing`, in a system of one process.
  The inductive invariant `Still` says that an interrupted agent has an empty
  slot *and* that nobody is advancing its queue: the lock an advance holds from
  its first read to the end of its delivery is what keeps an interruption from
  falling between the two, and the mark is cleared as the advance starts. With
  two processes the lock does not do that, and the property fails.
- `CoreInvariant`: `CoreInv`, the inductive invariant of all that follows, for
  any number of processes, failures and archivings. `Located` says of a partner
  that no task is in two places (`Apart`), that none it still has is over
  (`Over`), that none is missing unless it is archived (`AllHere`), and that each
  is as it was admitted (`AllGenuine`). What makes it hard is the advance, which
  keeps the row it chose and the task it will displace over two remote calls,
  while another process or an archive changes both: a swap whose row or task is
  no longer there must not bring it back. So `Apart` and `AllHere` speak of the
  *burden* of a partner, what an advance holds included. `PassGenuine` says the
  same of the task a drain pass holds, `Told` and `Answering` say which messages
  are notices and answers and that a pass about to answer is the only one to.
  Every step of the system is first put into one of twelve *motions* of one
  partner (`StepMoves`: it rests, a message arrives, an advance begins, swaps,
  delivers, ...), so that each part of the invariant is proved against twelve motions and
  not against every action for every partner.
- `OneTaskOnePlace`, `MarkersKept`, `AnswersAreUnique`, `AnswersAreOwed`:
  `OnePlace`, `SummaryMarkers`, `AnsweredOnce`, `OnlyOwedAnswers`, from `CoreInv`.
- `BatchStops`: `BatchStopsSender`. `Remembering` says that a call knows that
  it is to interrupt its sender exactly when a request of it was accepted.
- `CapsHold`: `CapHolds`, in a system of one process. The cap counts rows and the
  slot, and a task can leave both for the time of a delivery; `LoadCap` bounds the
  *load*, the set of messages a caller has with a partner wherever they are, and
  in one process no admission falls into a delivery. With two it can: a sender
  in the other one sees no slot.
- `ArchiveTells`: `ArchiveTellsCallers`, in a system of one process: an archive
  looks into the slots of its own.

`CoreRefinesQueue_proofs`, for any subject:

- `CoreImplementsQueue`: `SubjectIsAQueue`, the refinement of `AgentQueue`, in a
  system of one process without archivings. A swap maps to `Advance`, a delivery
  that fails to `DeliveryFails`, an end of turn to `Finish`, and the steps before
  and after a swap to a stutter. The operations are atomic because of `Poised`:
  what an advance has chosen is still what the queue would hand out when it swaps,
  and a mark that it took off is on until then. `Still` and the lock give that.
  Both hypotheses are needed. A second process swaps between the choice and the
  swap; and `archive_sessions` pushes its `[ERROR]`s without the lock, one of which
  may outrank the row that is being swapped in. Nothing is lost then
  (`OneTaskOnePlace`), but the queue has not handed out its head.
- `ResumeNamesOne`: what `OnePausedWork` says of the abstract queue, of the
  running system, under the same hypotheses: the refinement carries it over.
- `ArrivedAnswersAreTaken`: the same of `AnswersAreTaken`, for any number of
  processes and archivings, since it needs no more than the types.

`DrainServer_proofs`, from `ThreadAssumption` and `TasksAssumption`, for any
number of partners and threads and any set of failures. Each theorem adds one
group to the inductive invariant of the one before:

- `TypeCorrect`: the type invariant, with its bound on the queue. The bound is
  not inductive alone: `RoomLeft` adds that a task in the slot, or on its way
  there, has left room to go back, and `SlotGuarded` that the slot lock has one
  holder and that its holder's slot is empty.
- `LiveAreRegistered`: `LiveIsRegistered`. `Registrations` adds that a live
  thread is registered for the partner it serves, so that telling one partner's
  thread to stop disturbs no other, and `ClosingToldAll` that between the two
  locks of `stop()` every thread it could know of has been told, so that
  forgetting the registry forgets nobody who stays.
- `ArmedWorkIsServed`: `ArmedWorkHasThread`. A thread retires on two looks, into
  the slot and then at the queue. `SomebodyElse` is the reason why the first may
  be old by the time of the second: a slot filled in between was filled by
  another thread, which is in its loop and, with the server's lock held
  (`OneDecides`), can neither retire nor be told to stop.

`NoWork_proofs`, from `NoWorkAssumption`, for any agents and any handshakes,
circles included, and whatever is sent, answered, reported and shaken hands on
meanwhile:

- `NoWorkTypeCorrect`: the type invariant.
- `YesSeesWhatLasts`: `YesOverlooksNothing`. The tables change under every read, so
  nothing that a read found need be so any more; but what it did not find has not
  been there *ever since the walk began*, and stays out of `lasting`. On that
  `Sound` builds: it says what a call knows of its agent at each of its reads
  (`Knows`), and that an agent in `_seen` that is not on the stack is one the walk
  is through with: nothing of it has lasted, and its dependents of that time have
  reported or are in `_seen` too, reports being for good. An agent that a circle
  leads back to is skipped because its own call is on the stack and has yet to look
  at the rest of it. With the stack empty, `_seen` itself is the set of agents that
  wait only for one another.
- `NoIsForAReason`: `NoHasAReason`. Every agent in `_seen` is in each set that
  contains the root and is closed under handshakes to agents that had not reported
  when the walk began, so that the one whose read fails refutes every such set.
- `NobodyAskedTwice`: no two calls on the stack are about one agent.

`DbWriter_proofs`, from `DbAssumption`, for any number of processes and
writes, any commits that fail and any processes that die:

- `DbTypeCorrect`: the type invariant.
- `NothingIsLost`: `NoLostUpdate`. `FileInv` says that the version in the file
  is the number of writes it holds, and that a transaction that has read it has
  the lock and read what is still there: `BEGIN IMMEDIATE` takes the lock before
  the first read.
- `WritesAreAtomic`: `StoreIsAtomic`, the refinement. A commit maps to `Apply`
  of `AtomicStore`, an answer to `Tell`, a crash to `Lose`, a submission to `Ask`
  or, after `close()`, to `TurnAway`, everything else to a stutter. `JobInv` says
  where a call can be: in one queue once, or with one writer thread, or answered,
  and that only one about to be answered is in the file already.

`Registry_proofs`, from `RegistryAssumption`, for any projects, limits and
budgets and any number of partners, calls and tasks:

- `RegistryTypeCorrect`: the type invariant, in which every handshake, grant and
  queued row has both of its ends. A new id is free (`NewIdIsFree`).
- `OneDirector`, `OneSuccessor`, `BudgetHolds`: `OneScienceSource`,
  `LineageIsALine`, `BudgetIsKept`. A handshake is checked in one step and made
  in another, and between the two every other process goes on. `Asked` is what
  the process that asks may still believe at the second: only the science_
  process gives conversations a director, takes budgets or deletes, only the
  gemini_ process says what continues what, and each is busy with this call
  (`ScienceAsked`, `GeminiAsked`). The steps of all other actions are folded
  into three facts (`PartnersStep`, `CallsStep`, `RowsStep`), so that each
  invariant is proved against three and not against twenty actions.
- `NoCircleOfWaiting`: `NobodyWaitsInACircle`. `Rank` refines the layers by half
  a step, an orchestrator above the plain partners of its project, and
  `CommandsDown` shows that every send of research goes down in it. It needs
  `RowsAreShaped` (what a handshake is, whoever the two have become, and if the
  id of one was another's) and `RoleUnique` (no two live partners of a project
  share a role, though a role may be claimed anew). The lowest in rank of any
  set of agents then waits for none of it.
- `NobodyVanishesUntold`: `VanishingTells`.

`Antigravity_proofs`, from `PaneAssumption` and `PermissionsAssumption`, for any
number of turns, calls and restarts, any rules and any allowlist:

- `AgyTypeCorrect`: the type invariant, with `Equipped`: a message that is about
  to be typed is there.
- `EditorInvariant`: `EditorInv`, what a permission call relies on. `ListIsKnown`
  is the heart of it: a list that is seen is the list there is, until the call's
  own first key; after a deletion the pane may still have its cursor on a rule
  that has gone, but never on one that is still to go, since the rules to go are
  each named once (`TodoIsNamed`); and when the key without a question is pressed
  the pane is accurate again. `IdleIsOut` says that once the scope selector was
  seen an idle pane is a session out of the editor. All others at the session only
  do `Around`: they leave the list and the selected row alone. What it says of the
  list it says while not `mixed`; where the editor is, always.
- `NamedRulesGo`, `RecordsAreReal`: `OnlyNamedRulesGo`, `RecordedIsReal`, which
  speak of calls no message was typed beside; `EditorLeft`: `EditorIsLeft`, of all.
- `TurnsInvariant`: `TurnsHold`, what the adapter knows of its turns unless `mixed`.
  No constant is assumed for it: an overlap makes `mixed` true, and the
  invariant is established afresh when it is over and the session is at rest, from
  the types and what holds always. At most the last message is live
  (`OneAtATime`), one that has not started is in the slot or awaited
  (`TypedIsHeld`), and `NotTrusted` is why a pane without a footer is not taken
  for the end of a turn that has not begun: while a live turn's pane, or the one a
  poll has in its hands, shows neither work nor a question, the turn is fresh
  and no footer is remembered, also not one of an older turn that a poll has yet
  to report. `AnswersFollowEcho` says whose answer is after the last echo.
- `TypedAtPrompt`, `FinishedHaveEnded`, `OwnAnswers`: `TypedWhenApart`,
  `FinishedMeansEnded`, `AnswersAreOwn`, from `TurnsHold`.

So every safety property of a passing run is a theorem, about the instances of the
run and all others its hypotheses name. Only model-checked are
the six liveness properties (`OthersAreAnswered`, `ArrivedAnswersRestart`,
`WorkIsAttended`, `WalkEnds`, `EveryCallReturns`, `TurnsAreSettled`): fairness and
`ENABLED` are out of the prover's reach. The hypotheses of one process are those of
the runs that check the same properties; `OneTaskOnePlace` says what is left with
two. Only proved, because a run of their own would ask nothing
new: `TypeOK` of `Registry`, `DbWriter`, `NoWork` and `Antigravity`,
`NobodyAskedTwice`, `OneToResume` and `AnswerCanBeTaken`.

## 5. What is not modelled, and the plan

Done: the queue, the slot, `send`, `send_batch`, `advance`, the drain pass, interruption and
archiving, with the refinement of one agent's queue; the drain threads and their
supervisor; the walk of `no_work`; the entities, handshakes, routing rules and
deletions; the writer thread and its refinement; the turns and permissions of
the Antigravity adapter.

Left, in the order in which it would be worth doing:

1. Proofs: the refinement with archivings, against an `AgentQueue` whose choice may
   be overtaken; what is left of the cap with two processes; `OneToResume` for any
   number of processes.
2. A session that dies, and errors of the terminal itself, in `Antigravity`; its
   timing assumptions, which are guards now.
3. The readers of `db.py`: a connection per thread, the `:memory:` mode, and the
   reconciliation of an older schema when a file is opened.
4. The Claude Science adapter, whose turns are kept by a remote service, under
   the contract that `AgyTurns` is checked for.

Left out for good: search scoring, status and history, titles and prompts, the
tool surface (argument validation and rendering), the parsing of project files,
and HTTP and command lines in the adapters, whose outcomes are those of the
extension contract.
