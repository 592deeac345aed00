---------------------------- MODULE Antigravity ----------------------------
(***************************************************************************)
(* One Antigravity conversation: its turns and its permission changes, made*)
(* by several threads in one terminal session, and a restart of the process*)
(* that makes them.                                                        *)
(***************************************************************************)
EXTENDS AgyTurns, AgyPermissions

VARIABLE
  mixed  \* history: whether a permission change and a turn have been under way at
         \* once, and the session has not come to rest since

vars == <<pane, turns, permissions, mixed>>

TypeOK ==
  /\ PaneTypeOK /\ TurnsTypeOK /\ PermissionsTypeOK
  /\ mixed \in BOOLEAN

Init == PaneInit /\ TurnsInit /\ PermissionsInit /\ mixed = FALSE

NoTurn == slot = 0 /\ caller = "out" /\ poller.at = "out"

\* No lock is taken by both, so that either may begin in the midst of the other.
Together == call.at # "out" /\ ~NoTurn

AtRest ==
  /\ call.at = "out" /\ NoTurn
  /\ \A t \in Turns : status[t] \notin {"typed", "running", "asking"}

Mixing == mixed' = (Together' \/ (mixed /\ ~AtRest'))

InTurn == UNCHANGED permissions /\ Mixing
Turn == (Begin \/ Deliver \/ Poll \/ SettleTime) /\ InTurn

\* A call begins with a read of the allowlist, and the pane is painted by then.
Permission ==
  /\ \/ Fresh /\ \E op \in {"add", "delete"}, named \in Requests : BeginCall(op, named)
     \/ Change
  /\ UNCHANGED turns
  /\ Mixing

\* Nobody else closes the editor while a call is in it (bound).
InSession == UNCHANGED <<turns, permissions>> /\ Mixing
Session ==
  /\ \/ Paint \/ Boot \/ TurnProgress
     \/ (call.at = "out" \/ screen = "trust") /\ ByHand
     \/ \E t \in Turns : AskApproval(t)
  /\ InSession

\* The slots and what the adapter remembers are in the process's memory; the
\* session goes on.  (A restart takes longer than a turn takes to start.)
Restart ==
  /\ ~Some("typed")
  /\ slot' = 0 /\ caller' = "out" /\ poller' = NotPolling
  /\ delivered' = 0 /\ age' = "none" /\ saw' = FALSE /\ answer' = "none"
  /\ call' = NoCall
  /\ UNCHANGED <<pane, recorded, calls>>
  /\ Mixing

Next == Turn \/ Permission \/ Session \/ Restart

Spec == Init /\ [][Next]_vars

\* The threads run, the pane is painted and time passes; a turn that starts ends,
\* or asks.
FairSpec ==
  /\ Spec
  /\ WF_vars(Poll /\ InTurn)
  /\ WF_vars(Deliver /\ InTurn)
  /\ SF_vars(SettleTime /\ InTurn)
  /\ WF_vars(Paint /\ InSession)
  /\ WF_vars(TurnProgress /\ InSession)

-----------------------------------------------------------------------------
\* "Nothing is ever typed into a session that cannot accept it": when the body is
\* typed the session is at its chat prompt with no turn live.
CanAcceptIt == screen = "chat" /\ ~Some("typed") /\ ~Some("running") /\ ~Some("asking")

\* So _await_idle says.  (The code does not keep this: a tool's permission change may
\* open the editor after the idle footer was seen.)
TypedAtThePrompt == caller = "type" => CanAcceptIt

\* It is so when no permission change is made meanwhile, whatever an earlier call
\* that failed, a stop, a refusal, an overlap that is over or a process that ended
\* has left on the screen.  (The pane is painted when a delivery begins.)
TypedWhenApart == caller = "type" /\ ~mixed => CanAcceptIt

\* A turn judged finished has ended, or is being stopped: a turn that has not yet
\* started looks the same on the pane.  Turns only: no permission change has been
\* under way with it.  (The timing is that of AwaitBusy, SettleTime and Restart: six
\* seconds and settle_seconds are longer than a repaint, a poll and a turn's start.)
FinishedMeansEnded ==
  poller.at = "read" /\ ~mixed =>
    status[poller.turn] \in {"done", "stopped"} \/ caller \in {"escape_stop", "escape_swap"}

\* What is reported as a turn's result is its own answer, or nothing: never the
\* whole pane and never the answer to another message.  Turns only, and with the
\* timing above.
AnswersAreOwn ==
  [][~mixed /\ answer' # answer => answer' \in {"none", "own", "empty"}]_vars

\* After a change that is taken to have been made, the session is out of the editor.
EditorIsLeft == call.at = "verify" => screen = "chat"

\* A rule goes only while a call that names it is deleting: the cursor is never
\* trusted to be where an earlier pane had it.  (The letters of a message that is
\* typed into the editor meanwhile are another matter.)
OnlyNamedRulesGo ==
  [][~mixed => \A r \in ToSet(allow) \ ToSet(allow') :
                 call.op = "delete" /\ r \in call.named]_vars

\* Paths are recorded only with the grant in place, and forgotten only with the
\* grant gone, as long as no message has been typed between the check and the record.
RecordedIsReal ==
  [][~mixed => /\ recorded' \ recorded \subseteq ToSet(allow)
               /\ (recorded \ recorded') \cap ToSet(allow) = {}]_vars

\* A delivered turn does not hold its slot for ever.
TurnsAreSettled == slot # 0 ~> slot = 0
=============================================================================
