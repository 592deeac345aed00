------------------------------ MODULE AgyTurns ------------------------------
(***************************************************************************)
(* The Antigravity adapter's turns: deliver_message, stop_remote_execution,*)
(* poll_completion and read_remote_result, typed into and read off a       *)
(* terminal pane.                                                          *)
(*                                                                         *)
(* The core calls the first two under the working slot's lock, from any    *)
(* thread; the drain thread makes the other two without it.                *)
(***************************************************************************)
EXTENDS AgyPane

VARIABLES
  slot,       \* the message the working slot holds, or 0
  caller,     \* where the thread that holds the slot's lock is
  poller,     \* where the drain thread is: [at, turn, face]
  delivered,  \* _last_delivered, or 0
  age,        \* _delivered_at against settle_seconds
  saw,        \* _saw_busy
  answer      \* what the last poll reported as its message's result, if it did

memory == <<delivered, age, saw>>
turns == <<slot, caller, poller, memory, answer>>

CallerAt == {"out", "escape_stop", "escape_swap", "await_idle", "type", "await_busy"}

TurnsTypeOK ==
  /\ slot \in 0 .. MaxTurns
  /\ caller \in CallerAt
  /\ poller \in [at : {"out", "judge", "approval", "release", "read"}, turn : 0 .. MaxTurns, face : Faces]
  /\ delivered \in 0 .. MaxTurns
  /\ age \in {"none", "fresh", "settled"}
  /\ saw \in BOOLEAN
  /\ answer \in {"none", "own", "empty", "whole_pane", "another's"}

Unsent == {t \in Turns : status[t] = "unsent"}
NextTurn == CHOOSE t \in Unsent : \A u \in Unsent : t <= u

NotPolling == [at |-> "out", turn |-> 0, face |-> "idle"]

TurnsInit ==
  /\ slot = 0
  /\ caller = "out"
  /\ poller = NotPolling
  /\ delivered = 0
  /\ age = "none"
  /\ saw = FALSE
  /\ answer = "none"

-----------------------------------------------------------------------------
(***************************************************************************)
(* deliver_message and stop_remote_execution                               *)
(***************************************************************************)

\* stop_remote_execution forgets the turn first and presses Escape then.
Forget == age' = "none" /\ saw' = FALSE /\ UNCHANGED delivered

\* A call comes long enough after another for the pane to have been repainted.
BeginStop(then) ==
  /\ caller = "out" /\ slot # 0
  /\ caller' = then
  /\ Forget
  /\ UNCHANGED <<pane, slot, poller, answer>>

Interrupt == BeginStop("escape_stop")
Displace == Unsent # {} /\ BeginStop("escape_swap")

PressEscape ==
  /\ caller \in {"escape_stop", "escape_swap"}
  /\ Escape
  /\ caller' = IF caller = "escape_stop" THEN "out" ELSE "await_idle"
  /\ slot' = 0
  /\ UNCHANGED <<shown, poller, memory, answer>>

BeginDelivery ==
  /\ caller = "out" /\ slot = 0 /\ Unsent # {}
  /\ Fresh
  /\ caller' = "await_idle"
  /\ UNCHANGED <<pane, slot, poller, memory, answer>>

\* Typed at once, whatever the session shows.
NoAwaitIdle == caller = "await_idle"

AwaitIdle == caller = "await_idle" /\ shown.face = "idle"

ReadyToType ==
  /\ AwaitIdle
  /\ caller' = "type"
  /\ UNCHANGED <<pane, slot, poller, memory, answer>>

\* approval_is_an_error at once, antigravity_session_not_ready in the end.
DeliveryRefused ==
  /\ caller = "await_idle" /\ shown.face # "idle"
  /\ caller' = "out"
  /\ UNCHANGED <<pane, slot, poller, memory, answer>>

TypeBody ==
  /\ caller = "type"
  /\ TypeMessage(NextTurn)
  /\ caller' = "await_busy"
  /\ UNCHANGED <<shown, slot, poller, memory, answer>>

JustTyped == CHOOSE t \in Turns \ Unsent : \A u \in Turns \ Unsent : u <= t

\* An old turn's footer counted for the new one.
SawAtAnyTime(seen) == seen \/ saw

SawNow(seen) == seen

\* The footer is seen, or the six seconds pass: the pane is painted by then, and
\* a poll that had begun has ended, or waits with an approval for the lock.  (The
\* turn is taken to start before that one frees the slot.)
AwaitBusy(seen) ==
  /\ caller = "await_busy"
  /\ IF seen THEN shown.face = "busy"
             ELSE /\ shown.face # "busy" /\ Fresh
                  /\ \/ poller.at = "out"
                     \/ poller.at = "release" /\ ~Some("typed")
  /\ delivered' = JustTyped
  /\ age' = "fresh"
  /\ saw' = SawNow(seen)
  /\ slot' = JustTyped
  /\ caller' = "out"
  /\ UNCHANGED <<pane, poller, answer>>

\* settle_seconds pass.  They are measured to be more than a turn takes to start,
\* by more than a poll lasts.
SettleTime ==
  /\ age = "fresh" /\ Fresh /\ ~Some("typed") /\ poller.at # "judge"
  /\ age' = "settled"
  /\ UNCHANGED <<pane, slot, caller, poller, delivered, saw, answer>>

-----------------------------------------------------------------------------
(***************************************************************************)
(* poll_completion and read_remote_result                                  *)
(***************************************************************************)

\* All that a poll looks for: every other pane is the same to it.
Capture == IF shown.face \in {"prompt", "busy"} THEN shown.face ELSE "idle"

PollCapture ==
  /\ poller.at = "out" /\ slot # 0
  /\ poller' = [at |-> "judge", turn |-> slot, face |-> Capture]
  /\ answer' = "none"
  /\ UNCHANGED <<pane, slot, caller, memory>>

\* The footer must have been seen.
BusyMustBeSeen == poller.face \notin {"prompt", "busy"} /\ saw

Finished == poller.face \notin {"prompt", "busy"} /\ (saw \/ age # "fresh")

PollJudge ==
  /\ poller.at = "judge"
  /\ saw' = (saw \/ poller.face = "busy")
  /\ poller' = CASE poller.face = "prompt" -> [poller EXCEPT !.at = "approval", !.face = "idle"]
                 [] Finished -> [poller EXCEPT !.at = "read", !.face = "idle"]
                 [] OTHER -> NotPolling
  /\ UNCHANGED <<pane, slot, caller, delivered, age, answer>>

\* approval_is_an_error: the drain thread stops the remote, without the lock,
ApprovalStop ==
  /\ poller.at = "approval"
  /\ Forget
  /\ Escape
  /\ poller' = [poller EXCEPT !.at = "release"]
  /\ UNCHANGED <<shown, slot, caller, answer>>

\* takes the lock to free the slot, and tells the caller.
ApprovalReported ==
  /\ poller.at = "release" /\ caller = "out"
  /\ slot' = 0
  /\ poller' = NotPolling
  /\ UNCHANGED <<pane, caller, memory, answer>>

Echoes == {i \in DOMAIN log : log[i][1] = "echo"}

\* From the first message on: everything since.
FirstEcho == CHOOSE i \in Echoes : \A j \in Echoes : i <= j

\* Messages share their first line: only the last echo tells this turn.
LastEcho == CHOOSE i \in Echoes : \A j \in Echoes : j <= i

Result(t) ==
  LET kept == SubSeq(log, LastEcho + 1, Len(log))
  IN CASE delivered = 0 -> "whole_pane"
       [] delivered # 0 /\ (Echoes = {} \/ kept = <<>>) -> "empty"
       [] delivered # 0 /\ Echoes # {} /\ kept # <<>> ->
            IF \A i \in DOMAIN kept : kept[i] = <<"answer", t>> THEN "own" ELSE "another's"

\* The result is read before the slot is freed.  (When the slot has changed hands
\* since the poll is MessagingCore's subject: nothing is said of it here.)
ReadResult ==
  /\ poller.at = "read"
  /\ poller' = NotPolling
  /\ IF slot = poller.turn /\ caller = "out"
     THEN answer' = Result(slot) /\ slot' = 0
     ELSE UNCHANGED <<answer, slot>>
  /\ UNCHANGED <<pane, caller, memory>>

Poll == PollCapture \/ PollJudge \/ ApprovalStop \/ ApprovalReported \/ ReadResult
Deliver == PressEscape \/ ReadyToType \/ DeliveryRefused \/ TypeBody
           \/ \E seen \in BOOLEAN : AwaitBusy(seen)
Begin == Interrupt \/ Displace \/ BeginDelivery
=============================================================================
