----------------------------- MODULE DrainServer -----------------------------
(***************************************************************************)
(* The drain threads of one process: what arms one, what retires one, what *)
(* takes one away, and the supervisor that finds the work nobody armed     *)
(* for.  What a pass does with its task is module MessagingCore; here a    *)
(* partner's work is the number of its rows and whether its slot is taken. *)
(*                                                                         *)
(* Two locks are held over several steps.  The server's is held by a       *)
(* thread that makes up its mind to retire, from its look at the slot to   *)
(* the end of its deregistration; everything else done under it is one     *)
(* step.  A partner's slot lock is held over a delivery.                   *)
(***************************************************************************)
EXTENDS Naturals, FiniteSets

CONSTANTS
  Partner,   \* the partners whose source this process has an extension for
  Thread,    \* the drain threads: a thread that ended may be started again
  NoThread,  \* no registration
  Events,    \* what may go wrong: a "deliver" or a "database" write fails,
             \* the process "stop"s or "crash"es
  MaxTasks   \* bound on a partner's rows and what it is at: no message arrives
             \* beyond it

ASSUME ThreadAssumption == NoThread \notin Thread

ASSUME TasksAssumption == MaxTasks \in Nat

VARIABLES
  rows,      \* how many rows a partner's queue has
  reply,     \* whether a fresh answer may be among them
  slot,      \* whether its working slot is taken
  waiting,   \* partners.interrupted
  sender,    \* where a call of this process that sends to it, or restarts it, is
  stopping,  \* where the call that stops its thread is
  thread,    \* the drain threads
  registry,  \* _drain_threads: the partner's thread, or none
  row,       \* whether drain_threads has a row for it
  started,   \* _started, and with it the supervisor
  closing,   \* stop() has told the threads and not yet forgotten them
  looking,   \* the supervisor's scan has asked the queue, and not yet the slots
  todo,      \* the partners the scan has yet to arm
  armed      \* history: the last message was armed for, and nobody has taken
             \* the thread away since

work == <<rows, reply, slot, waiting>>
calls == <<sender, stopping>>
supervisor == <<looking, todo>>
server == <<registry, row, started, closing, looking, todo>>
vars == <<rows, reply, slot, waiting, sender, stopping, thread, registry, row,
          started, closing, looking, todo, armed>>

Off == [pc |-> "off"]

\* told is the stop flag; late, a history variable, that stop() was already
\* past its list of threads when this one was spawned.
Running == [pc : {"top", "advance", "delivering", "read", "depth", "poll", "idle",
                  "rechecking", "leaving", "forgetting"},
            of : Partner, told : BOOLEAN, late : BOOLEAN]

TypeOK ==
  /\ rows \in [Partner -> 0 .. MaxTasks]
  /\ {reply, slot, waiting, row, armed} \subseteq [Partner -> BOOLEAN]
  /\ sender \in [Partner -> {"none", "admitted", "delivering", "arming"}]
  /\ stopping \in [Partner -> {"none", "signal", "delete"}]
  /\ thread \in [Thread -> Running \cup {Off}]
  /\ registry \in [Partner -> Thread \cup {NoThread}]
  /\ {started, closing, looking} \subseteq BOOLEAN
  /\ todo \subseteq Partner

Init ==
  /\ rows = [p \in Partner |-> 0]
  /\ reply = [p \in Partner |-> FALSE]
  /\ slot = [p \in Partner |-> FALSE]
  /\ waiting = [p \in Partner |-> FALSE]
  /\ sender = [p \in Partner |-> "none"]
  /\ stopping = [p \in Partner |-> "none"]
  /\ thread = [t \in Thread |-> Off]
  /\ registry = [p \in Partner |-> NoThread]
  /\ row = [p \in Partner |-> FALSE]
  /\ started = FALSE
  /\ closing = FALSE
  /\ looking = FALSE
  /\ todo = {}
  /\ armed = [p \in Partner |-> FALSE]

-----------------------------------------------------------------------------
(***************************************************************************)
(* The locks, and a partner's work.                                        *)
(***************************************************************************)

Live(t) == thread[t] # Off
At(t, pc) == thread[t].pc = pc
Serves(t, p) == Live(t) /\ thread[t].of = p

LockFree == \A t \in Thread : ~At(t, "rechecking")

SlotLockFree(p) ==
  /\ sender[p] # "delivering"
  /\ \A t \in Thread : At(t, "delivering") => thread[t].of # p

\* Another message may arrive.
Room(p) ==
  rows[p] + (IF slot[p] THEN 1 ELSE 0) + (IF SlotLockFree(p) THEN 0 ELSE 1) < MaxTasks

HasWork(p) == slot[p] \/ rows[p] > 0

\* advance may take a row: a displacement depends on the labels, an agent that
\* waits takes a fresh answer only.
MayTake(p) == rows[p] > 0 /\ (waiting[p] /\ ~slot[p] => reply[p])

\* With an empty slot it does not hesitate.
MustTake(p) == MayTake(p) /\ ~slot[p]

\* The row leaves the queue and the displaced task joins it.
Takes(p) ==
  /\ MayTake(p)
  /\ rows' = [rows EXCEPT ![p] = IF slot[p] THEN @ ELSE @ - 1]
  /\ \E left \in {reply[p], FALSE} :
       /\ left => rows'[p] > 0 /\ ~waiting[p]
       /\ reply' = [reply EXCEPT ![p] = left]
  /\ slot' = [slot EXCEPT ![p] = FALSE]
  /\ waiting' = [waiting EXCEPT ![p] = @ /\ slot[p]]

Delivered(p) ==
  /\ slot' = [slot EXCEPT ![p] = TRUE]
  /\ UNCHANGED <<rows, reply, waiting>>

\* _requeue.
Refused(p) ==
  /\ "deliver" \in Events
  /\ rows' = [rows EXCEPT ![p] = @ + 1]
  /\ UNCHANGED <<reply, slot, waiting>>

-----------------------------------------------------------------------------
(***************************************************************************)
(* Arming.                                                                 *)
(***************************************************************************)

\* Threads that have ended and that no registry entry names.
Spare == {t \in Thread : ~Live(t) /\ \A p \in Partner : registry[p] # t}

Started(p) == [pc |-> "top", of |-> p, told |-> FALSE, late |-> closing]

Attended(p) == registry[p] # NoThread /\ Live(registry[p])

\* Nobody has told it to stop, and no failure has thrown it out.
InLoop(t) == Live(t) /\ ~thread[t].told /\ thread[t].pc \notin {"leaving", "forgetting"}

\* _ensure_thread, under the server's lock.
EnsureThread(p) ==
  /\ LockFree
  /\ IF Attended(p)
       THEN UNCHANGED <<thread, registry, row>>
       ELSE \E t \in Spare :
              /\ thread' = [thread EXCEPT ![t] = Started(p)]
              /\ registry' = [registry EXCEPT ![p] = t]
              /\ row' = [row EXCEPT ![p] = TRUE]

\* The write of its row failed: a thread is registered that never started.
SpawnFails(p) ==
  /\ "database" \in Events
  /\ LockFree
  /\ ~Attended(p)
  /\ \E t \in Spare : registry' = [registry EXCEPT ![p] = t]
  /\ UNCHANGED <<thread, row>>

-----------------------------------------------------------------------------
(***************************************************************************)
(* Calls: sends to a partner, its own requests, and its restarts.          *)
(***************************************************************************)

\* A message is admitted by this process: a send goes on to advance the
\* target, report_back only arms for it.
Push(p, answer) ==
  /\ sender[p] = "none"
  /\ Room(p)
  /\ SlotLockFree(p)
  /\ rows' = [rows EXCEPT ![p] = @ + 1]
  /\ reply' = [reply EXCEPT ![p] = @ \/ answer]
  /\ \E next \in {"admitted", "arming"} : sender' = [sender EXCEPT ![p] = next]
  /\ armed' = [armed EXCEPT ![p] = FALSE]
  /\ UNCHANGED <<slot, waiting, stopping, thread, server>>

\* A message from another process: nobody here is told.
PushFromElsewhere(p, answer) ==
  /\ Room(p)
  /\ rows' = [rows EXCEPT ![p] = @ + 1]
  /\ reply' = [reply EXCEPT ![p] = @ \/ answer]
  /\ armed' = [armed EXCEPT ![p] = FALSE]
  /\ UNCHANGED <<slot, waiting, calls, thread, server>>

SendAdvance(p) ==
  /\ sender[p] = "admitted"
  /\ SlotLockFree(p)
  /\ \/ Takes(p) /\ sender' = [sender EXCEPT ![p] = "delivering"]
     \/ ~MustTake(p) /\ sender' = [sender EXCEPT ![p] = "arming"] /\ UNCHANGED work
  /\ UNCHANGED <<stopping, thread, server, armed>>

SendDelivers(p) ==
  /\ sender[p] = "delivering"
  /\ Delivered(p)
  /\ sender' = [sender EXCEPT ![p] = "arming"]
  /\ UNCHANGED <<stopping, thread, server, armed>>

\* The send raises, and the tool arms nothing.
SendFails(p) ==
  /\ sender[p] = "delivering"
  /\ Refused(p)
  /\ sender' = [sender EXCEPT ![p] = "none"]
  /\ armed' = [armed EXCEPT ![p] = FALSE]
  /\ UNCHANGED <<stopping, thread, server>>

\* ensure_partner_thread.  What goes wrong in it the tool ignores.
SendArms(p) ==
  /\ sender[p] = "arming"
  /\ \/ EnsureThread(p) /\ armed' = [armed EXCEPT ![p] = Attended(p) => InLoop(registry[p])]
     \/ SpawnFails(p) /\ armed' = [armed EXCEPT ![p] = FALSE]
  /\ sender' = [sender EXCEPT ![p] = "none"]
  /\ UNCHANGED <<work, stopping, started, closing, supervisor>>

\* A task put back that stays in the slot as well.
InterruptKeepsTask(p) ==
  /\ stopping[p] = "none"
  /\ SlotLockFree(p)
  /\ rows' = [rows EXCEPT ![p] = IF slot[p] THEN @ + 1 ELSE @]
  /\ waiting' = [waiting EXCEPT ![p] = TRUE]
  /\ stopping' = [stopping EXCEPT ![p] = "signal"]
  /\ UNCHANGED <<slot, reply, sender, thread, server, armed>>

\* The partner sends a request: its task goes back, and its thread is to go.
Interrupt(p) ==
  /\ stopping[p] = "none"
  /\ SlotLockFree(p)
  /\ rows' = [rows EXCEPT ![p] = IF slot[p] THEN @ + 1 ELSE @]
  /\ slot' = [slot EXCEPT ![p] = FALSE]
  /\ waiting' = [waiting EXCEPT ![p] = TRUE]
  /\ stopping' = [stopping EXCEPT ![p] = "signal"]
  /\ UNCHANGED <<reply, sender, thread, server, armed>>

Told(r) == IF r = Off THEN Off ELSE [r EXCEPT !.told = TRUE]

\* stop_partner_thread, under the lock: the thread is told and forgotten.
StopThreadSignals(p) ==
  /\ stopping[p] = "signal"
  /\ LockFree
  /\ thread' = IF registry[p] = NoThread THEN thread
               ELSE [thread EXCEPT ![registry[p]] = Told(@)]
  /\ registry' = [registry EXCEPT ![p] = NoThread]
  /\ stopping' = [stopping EXCEPT ![p] = "delete"]
  /\ armed' = [armed EXCEPT ![p] = FALSE]
  /\ UNCHANGED <<work, sender, row, started, closing, supervisor>>

\* What went wrong before it, in arming the target, skips it.
StopThreadSkipped(p) ==
  /\ "database" \in Events
  /\ stopping[p] = "signal"
  /\ stopping' = [stopping EXCEPT ![p] = "none"]
  /\ UNCHANGED <<work, sender, thread, server, armed>>

\* Its row is deleted after that, outside the lock.
StopThreadDeletes(p) ==
  /\ stopping[p] = "delete"
  /\ row' = [row EXCEPT ![p] = FALSE]
  /\ stopping' = [stopping EXCEPT ![p] = "none"]
  /\ UNCHANGED <<work, sender, thread, registry, started, closing, supervisor, armed>>

\* restart_partner: the mark is cleared, and a thread armed.
Restart(p) ==
  /\ waiting[p]
  /\ sender[p] = "none"
  /\ SlotLockFree(p)
  /\ waiting' = [waiting EXCEPT ![p] = FALSE]
  /\ sender' = [sender EXCEPT ![p] = "arming"]
  /\ UNCHANGED <<rows, reply, slot, stopping, thread, server, armed>>

-----------------------------------------------------------------------------
(***************************************************************************)
(* The drain loop.                                                         *)
(***************************************************************************)

GoTo(t, pc) == thread' = [thread EXCEPT ![t].pc = pc]
Ends(t) == thread' = [thread EXCEPT ![t] = Off]

\* while not stop_event.is_set(): the only place that asks.
Top(t) ==
  /\ At(t, "top")
  /\ IF thread[t].told THEN Ends(t) ELSE GoTo(t, "advance")
  /\ UNCHANGED <<work, calls, server, armed>>

PassAdvance(t) ==
  /\ At(t, "advance")
  /\ LET p == thread[t].of
     IN  /\ SlotLockFree(p)
         /\ \/ Takes(p) /\ GoTo(t, "delivering")
            \/ ~MustTake(p) /\ GoTo(t, "read") /\ UNCHANGED work
  /\ UNCHANGED <<calls, server, armed>>

\* A thread that was told to stop may still be filling the slot.
PassDelivers(t) ==
  /\ At(t, "delivering")
  /\ Delivered(thread[t].of)
  /\ GoTo(t, "read")
  /\ armed' = IF thread[t].told THEN [armed EXCEPT ![thread[t].of] = FALSE] ELSE armed
  /\ UNCHANGED <<calls, server>>

\* The pass raises, and the loop keeps the thread alive.
PassFails(t) ==
  /\ At(t, "delivering")
  /\ Refused(thread[t].of)
  /\ GoTo(t, "top")
  /\ armed' = IF thread[t].told THEN [armed EXCEPT ![thread[t].of] = FALSE] ELSE armed
  /\ UNCHANGED <<calls, server>>

\* drain_once looks into the slot and then, if it is empty, at the queue.
PassReads(t) ==
  /\ At(t, "read")
  /\ GoTo(t, IF slot[thread[t].of] THEN "poll" ELSE "depth")
  /\ UNCHANGED <<work, calls, server, armed>>

PassCounts(t) ==
  /\ At(t, "depth")
  /\ GoTo(t, IF rows[thread[t].of] = 0 THEN "idle" ELSE "top")
  /\ UNCHANGED <<work, calls, server, armed>>

\* The remote is still working, or the task is released.
PassPolls(t) ==
  /\ At(t, "poll")
  /\ LET p == thread[t].of
     IN  \/ UNCHANGED work
         \/ /\ SlotLockFree(p)
            /\ slot' = [slot EXCEPT ![p] = FALSE]
            /\ UNCHANGED <<rows, reply, waiting>>
  /\ GoTo(t, "top")
  /\ UNCHANGED <<calls, server, armed>>

\* An idle thread that retires on what the pass saw.
RecheckNothing(t) ==
  /\ At(t, "idle")
  /\ LockFree
  /\ Ends(t)
  /\ registry' = [registry EXCEPT ![thread[t].of] = IF @ = t THEN NoThread ELSE @]
  /\ row' = [row EXCEPT ![thread[t].of] = FALSE]
  /\ UNCHANGED <<work, calls, started, closing, supervisor, armed>>

\* Idle, it takes the server's lock and looks again: first into the slot.
Recheck(t) ==
  /\ At(t, "idle")
  /\ LockFree
  /\ GoTo(t, IF slot[thread[t].of] THEN "top" ELSE "rechecking")
  /\ UNCHANGED <<work, calls, server, armed>>

\* A deregistration that asks not whose it is.
WithoutAny(t) == [registry EXCEPT ![thread[t].of] = NoThread]

\* Only if it is still this thread's registration.
Without(t) == [registry EXCEPT ![thread[t].of] = IF @ = t THEN NoThread ELSE @]

\* Then at the queue: it retires, row and registration with it, or goes on.
Retire(t) ==
  /\ At(t, "rechecking")
  /\ LET p == thread[t].of
     IN  IF rows[p] > 0
           THEN GoTo(t, "top") /\ UNCHANGED <<registry, row>>
           ELSE /\ Ends(t)
                /\ registry' = Without(t)
                /\ row' = [row EXCEPT ![p] = FALSE]
  /\ UNCHANGED <<work, calls, started, closing, supervisor, armed>>

\* The database raises under the lock: the loop's finally deregisters, outside it.
RetireFails(t) ==
  /\ "database" \in Events
  /\ At(t, "rechecking")
  /\ GoTo(t, "leaving")
  /\ armed' = [armed EXCEPT ![thread[t].of] = FALSE]
  /\ UNCHANGED <<work, calls, server>>

\* Its row goes first, and if that raises as well, nothing else does.
LeavingDeletes(t) ==
  /\ At(t, "leaving")
  /\ \/ GoTo(t, "forgetting") /\ row' = [row EXCEPT ![thread[t].of] = FALSE]
     \/ Ends(t) /\ UNCHANGED row
  /\ UNCHANGED <<work, calls, registry, started, closing, supervisor, armed>>

LeavingForgets(t) ==
  /\ At(t, "forgetting")
  /\ LockFree
  /\ registry' = Without(t)
  /\ Ends(t)
  /\ UNCHANGED <<work, calls, row, started, closing, supervisor, armed>>

-----------------------------------------------------------------------------
(***************************************************************************)
(* The supervisor, start, stop, and a crash.                               *)
(***************************************************************************)

\* scan_once asks the queue first.
ScanReads ==
  /\ started
  /\ todo = {} /\ ~looking
  /\ todo' = {p \in Partner : rows[p] > 0}
  /\ looking' = TRUE
  /\ UNCHANGED <<work, calls, thread, registry, row, started, closing, armed>>

\* A scan that trusts the queue.
NobodyOccupied == {}

\* A remote may be at work on a task whose row is gone.
Occupied == {p \in Partner : slot[p]}

\* A scan that began goes on, whether stop() was called meanwhile or not.
ScanLooks ==
  /\ looking
  /\ looking' = FALSE
  /\ todo' = todo \cup Occupied
  /\ UNCHANGED <<work, calls, thread, registry, row, started, closing, armed>>

ScanArms(p) ==
  /\ ~looking
  /\ p \in todo
  /\ EnsureThread(p)
  /\ todo' = todo \ {p}
  /\ UNCHANGED <<work, calls, started, closing, looking, armed>>

\* One partner's failure ends the scan.
ScanFails(p) ==
  /\ ~looking
  /\ p \in todo
  /\ SpawnFails(p)
  /\ todo' = {}
  /\ UNCHANGED <<work, calls, started, closing, looking, armed>>

\* start: the threads whose rows survived are brought back.  One thread of the
\* process calls start and stop, so neither overlaps the other.
Start ==
  /\ ~started /\ ~closing
  /\ LockFree
  /\ LET need == {p \in Partner : row[p] /\ ~Attended(p)}
     IN  \E f \in [need -> Spare] :
           /\ \A p, q \in need : f[p] = f[q] => p = q
           /\ thread' = [t \in Thread |-> IF \E p \in need : f[p] = t
                                          THEN Started(CHOOSE p \in need : f[p] = t)
                                          ELSE thread[t]]
           /\ registry' = [p \in Partner |-> IF p \in need THEN f[p] ELSE registry[p]]
  /\ started' = TRUE
  /\ UNCHANGED <<work, calls, row, closing, supervisor, armed>>

Registered == {registry[p] : p \in Partner} \ {NoThread}

\* stop: every registered thread is told, and the rows stay.
StopTells ==
  /\ "stop" \in Events
  /\ started
  /\ LockFree
  /\ thread' = [t \in Thread |-> IF t \in Registered THEN Told(thread[t]) ELSE thread[t]]
  /\ started' = FALSE
  /\ closing' = TRUE
  /\ armed' = [p \in Partner |-> FALSE]
  /\ UNCHANGED <<work, calls, registry, row, supervisor>>

\* They have ended, or the joins timed out.
StopReturns ==
  /\ closing
  /\ LockFree
  /\ registry' = [p \in Partner |-> NoThread]
  /\ closing' = FALSE
  /\ armed' = [p \in Partner |-> FALSE]
  /\ UNCHANGED <<work, calls, thread, row, started, supervisor>>

\* The process dies, and its memory with it; what was in a slot, or on its way
\* to a remote, is gone.
Crash ==
  /\ "crash" \in Events
  /\ slot' = [p \in Partner |-> FALSE]
  /\ sender' = [p \in Partner |-> "none"]
  /\ stopping' = [p \in Partner |-> "none"]
  /\ thread' = [t \in Thread |-> Off]
  /\ registry' = [p \in Partner |-> NoThread]
  /\ started' = FALSE
  /\ closing' = FALSE
  /\ looking' = FALSE
  /\ todo' = {}
  /\ armed' = [p \in Partner |-> FALSE]
  /\ UNCHANGED <<rows, reply, waiting, row>>

-----------------------------------------------------------------------------
Call(p) ==
  \/ \E answer \in BOOLEAN : Push(p, answer) \/ PushFromElsewhere(p, answer)
  \/ SendAdvance(p)
  \/ SendDelivers(p)
  \/ SendFails(p)
  \/ SendArms(p)
  \/ Interrupt(p)
  \/ StopThreadSignals(p)
  \/ StopThreadSkipped(p)
  \/ StopThreadDeletes(p)
  \/ Restart(p)

DrainLoop(t) ==
  \/ Top(t)
  \/ PassAdvance(t)
  \/ PassDelivers(t)
  \/ PassFails(t)
  \/ PassReads(t)
  \/ PassCounts(t)
  \/ PassPolls(t)
  \/ Recheck(t)
  \/ Retire(t)
  \/ RetireFails(t)
  \/ LeavingDeletes(t)
  \/ LeavingForgets(t)

Supervisor == ScanReads \/ ScanLooks \/ \E p \in Partner : ScanArms(p) \/ ScanFails(p)

Next ==
  \/ \E p \in Partner : Call(p)
  \/ \E t \in Thread : DrainLoop(t)
  \/ Supervisor
  \/ Start
  \/ StopTells
  \/ StopReturns
  \/ Crash

Spec == Init /\ [][Next]_vars

\* Every thread of the process goes on: those that drain, the supervisor, and
\* those that serve a call; and a database that keeps failing lets a write
\* through in the end.  Nothing makes anybody send, start or stop.
FairSpec ==
  /\ Spec
  /\ \A t \in Thread : WF_vars(DrainLoop(t))
  /\ WF_vars(ScanReads \/ ScanLooks)
  /\ \A p \in Partner :
       /\ SF_vars(ScanArms(p))
       /\ WF_vars(SendAdvance(p) \/ SendDelivers(p) \/ SendArms(p))
       /\ WF_vars(StopThreadSignals(p) \/ StopThreadDeletes(p))

-----------------------------------------------------------------------------
(***************************************************************************)
(* Properties.                                                             *)
(***************************************************************************)

Staying(t) == Live(t) /\ ~thread[t].told /\ ~thread[t].late

\* Every thread that nobody has told to stop is the one the registry names, so
\* that whoever wants to stop it finds it, and no partner has two of them: a
\* thread on its way out never takes its replacement's registration along.
LiveIsRegistered ==
  \A t \in Thread : Staying(t) => registry[thread[t].of] = t

\* A push that was armed for, or found a thread in its loop, is not left behind
\* by a thread that was about to retire: while there is work, and until a stop
\* or a failing database takes the thread away, one is in its loop.
ArmedWorkHasThread ==
  \A p \in Partner :
    armed[p] /\ sender[p] = "none" /\ HasWork(p)
      => \E t \in Thread : Serves(t, p) /\ InLoop(t)

\* Work that nobody armed for is found: in a process that stays up, of a
\* partner whose thread is not stopped time and again, either the work goes or
\* a pass begins, over and over.  It is what the fairness of a drain pass in
\* MessagingCore rests on.
WorkIsAttended ==
  \A p \in Partner :
    <>[](started /\ stopping[p] = "none")
      => []<>(~HasWork(p) \/ \E t \in Thread : Serves(t, p) /\ At(t, "advance"))

\* An interrupted agent has no drain thread and no row that claims one, once the
\* call that interrupted it is through and as long as no answer has come.  (The
\* code does not keep this: a message that arrives for it arms it a thread.)
InterruptedHasNoThread ==
  \A p \in Partner :
    waiting[p] /\ ~reply[p] /\ stopping[p] = "none" /\ sender[p] = "none"
      => ~row[p] /\ ~Attended(p)
=============================================================================
