------------------------------ MODULE AgyPane ------------------------------
(***************************************************************************)
(* The terminal session of one Antigravity conversation, as the adapter    *)
(* takes it to behave: what a key does on each screen, and a pane that is  *)
(* painted some time after the change it shows.  External.                 *)
(***************************************************************************)
EXTENDS Naturals, Sequences, SequencesExt

CONSTANTS
  Rule,      \* permission rules, read_file(p) and write_file(p)
  Grants,    \* the allowlists that the project may have at the start
  MaxTurns   \* how many messages are typed in all (bound)

ASSUME PaneAssumption == MaxTurns \in Nat \ {0} /\ Grants \subseteq Seq(Rule)

Turns == 1 .. MaxTurns

VARIABLES
  screen,  \* what the keys go to
  status,  \* of every message: typed, then running, then done
  log,     \* the transcript within the scrollback that is read
  allow,   \* the project's allowlist, in the order the editor lists it
  cursor,  \* the selected row of that list
  shown    \* the pane as last painted

pane == <<screen, status, log, allow, cursor, shown>>

Editor == {"scope", "rules", "add"}
Faces == Editor \cup {"boot", "prompt", "idle", "busy"}

PaneTypeOK ==
  /\ screen \in Editor \cup {"boot", "trust", "chat"}
  /\ status \in [Turns -> {"unsent", "typed", "running", "asking", "done", "stopped", "lost"}]
  /\ log \in Seq({"echo", "answer"} \X Turns)
  /\ allow \in Seq(Rule)
  /\ cursor \in 1 .. Len(allow) + 1
  /\ shown \in [face : Faces, rules : Seq(Rule), cursor : Nat \ {0}]

Some(s) == \E t \in Turns : status[t] = s

Face ==
  CASE screen = "trust" -> "prompt"
    [] screen \notin {"trust", "chat"} -> screen
    [] screen = "chat" /\ Some("asking") -> "prompt"
    [] screen = "chat" /\ Some("running") /\ ~Some("asking") -> "busy"
    [] OTHER -> "idle"

\* The list is only seen on the screen that lists it.
Pane == IF Face = "rules" THEN [face |-> Face, rules |-> allow, cursor |-> cursor]
                          ELSE [face |-> Face, rules |-> <<>>, cursor |-> 1]

Fresh == shown = Pane

\* The key is followed by a sleep that lets the pane be repainted (_KEY_SETTLE).
Settled == shown' = Pane'

PaneInit ==
  /\ screen \in {"boot", "chat"}
  /\ status = [t \in Turns |-> "unsent"]
  /\ log = <<>>
  /\ allow \in Grants
  /\ cursor = 1
  /\ shown = Pane

-----------------------------------------------------------------------------
(***************************************************************************)
(* Keys                                                                    *)
(***************************************************************************)

\* d deletes the selected rule without asking; the cursor may go anywhere.
DeleteSelected ==
  /\ allow' = IF cursor \in DOMAIN allow THEN RemoveAt(allow, cursor) ELSE allow
  /\ cursor' \in 1 .. Len(allow') + 1

\* In the editor the letters are keys, of which one may take the selected rule, and
\* the Enter leads to the list.
SwallowedByEditor ==
  /\ screen' = "rules"
  /\ \/ UNCHANGED <<allow, cursor>>
     \/ screen = "rules" /\ DeleteSelected

\* A message and Enter.  Anywhere but at the chat prompt it is lost.
TypeMessage(t) ==
  IF screen = "chat"
  THEN /\ status' = [status EXCEPT ![t] = "typed"]
       /\ log' = Append(log, <<"echo", t>>)
       /\ UNCHANGED <<screen, allow, cursor>>
  ELSE /\ status' = [status EXCEPT ![t] = "lost"]
       /\ UNCHANGED log
       /\ IF screen \in Editor THEN SwallowedByEditor ELSE UNCHANGED <<screen, allow, cursor>>

\* Escape cancels the turn, or leaves one screen of the editor.
Escape ==
  /\ screen' = CASE screen = "add" -> "rules"
                 [] screen = "rules" -> "scope"
                 [] OTHER -> "chat"
  /\ status' = [t \in Turns |->
       IF screen = "chat" /\ status[t] \in {"typed", "running", "asking"}
       THEN "stopped" ELSE status[t]]
  /\ UNCHANGED <<log, allow, cursor>>

\* "/permissions" and Enter.  A prompt takes the Enter for its answer; a turn
\* at work takes the command for a message; elsewhere only the Enter counts.
TypeCommand ==
  /\ screen' = CASE screen = "chat" /\ Face = "idle" -> "scope"
                 [] screen = "scope" -> "rules"
                 [] screen = "trust" -> "chat"
                 [] OTHER -> screen
  /\ status' = [t \in Turns |-> IF screen = "chat" /\ status[t] = "asking"
                                THEN "running" ELSE status[t]]
  /\ UNCHANGED <<log, allow, cursor>>

Key(from, to) ==
  /\ screen' = IF screen = from THEN to ELSE screen
  /\ UNCHANGED <<status, log, allow, cursor>>

\* A rule and Enter on the add screen.  The list takes it, or does not.  (When a stop
\* has left the editor since the last capture, it is a message to the agent that no
\* slot holds: what comes of that is not looked at.)
TypeRule(r) ==
  /\ screen' = IF screen = "add" THEN "rules" ELSE screen
  /\ allow' \in {allow} \cup (IF screen = "add" /\ ~Contains(allow, r)
                              THEN {Append(allow, r)} ELSE {})
  /\ UNCHANGED <<status, log, cursor>>

\* The arrows, n rows from where the cursor is.
Move(from, to) ==
  /\ cursor' = LET k == cursor + to
               IN IF k <= from THEN 1
                  ELSE IF k - from > Len(allow) THEN cursor ELSE k - from
  /\ UNCHANGED <<screen, status, log, allow>>

DeleteKey ==
  /\ IF screen = "rules" THEN DeleteSelected ELSE UNCHANGED allow /\ cursor' \in 1 .. Len(allow) + 1
  /\ UNCHANGED <<screen, status, log>>

-----------------------------------------------------------------------------
(***************************************************************************)
(* What the session does by itself, and a human at it                      *)
(***************************************************************************)

Paint == ~Fresh /\ shown' = Pane /\ UNCHANGED <<screen, status, log, allow, cursor>>

Boot ==
  /\ screen = "boot"
  /\ screen' \in {"trust", "chat"}
  /\ UNCHANGED <<status, log, allow, cursor, shown>>

StartTurn(t) ==
  /\ status[t] = "typed"
  /\ status' = [status EXCEPT ![t] = "running"]
  /\ UNCHANGED <<screen, log, allow, cursor, shown>>

\* Its answer may be long enough to push what came before out of the scrollback.
EndTurn(t) ==
  /\ status[t] = "running"
  /\ status' = [status EXCEPT ![t] = "done"]
  /\ log' \in {Append(log, <<"answer", t>>), <<<<"answer", t>>>>}
  /\ UNCHANGED <<screen, allow, cursor, shown>>

AskApproval(t) ==
  /\ status[t] = "running" /\ screen = "chat"
  /\ status' = [status EXCEPT ![t] = "asking"]
  /\ UNCHANGED <<screen, log, allow, cursor, shown>>

\* Somebody trusts the folder, or closes the editor.
ByHand ==
  /\ screen \in Editor \cup {"trust"}
  /\ screen' = "chat"
  /\ UNCHANGED <<status, log, allow, cursor, shown>>

TurnProgress == \E t \in Turns : StartTurn(t) \/ EndTurn(t)
=============================================================================
