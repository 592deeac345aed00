--------------------------- MODULE AgyPermissions ---------------------------
(***************************************************************************)
(* add_permissions and delete_permissions, from the core's read of the     *)
(* allowlist to its record of the paths, through the Antigravity adapter's *)
(* walk over the screens of the permissions editor.                        *)
(***************************************************************************)
EXTENDS AgyPane

CONSTANTS
  Requests,  \* the rules a call may be made for (bound)
  MaxCalls   \* how many permission calls are made in all (bound)

ASSUME PermissionsAssumption ==
  /\ \A named \in Requests : named \subseteq Rule /\ IsFiniteSet(named)
  /\ MaxCalls \in Nat

VARIABLES
  call,      \* the running call: [at, op, named, todo, tries]
  recorded,  \* partner_paths
  calls      \* how many were made (bound)

permissions == <<call, recorded, calls>>

CallAt == {"out", "open", "await_scope", "await_rules", "next", "await_add", "confirm",
           "close", "unwind", "verify", "record"}

PermissionsTypeOK ==
  /\ call \in [at : CallAt, op : {"add", "delete"}, named : SUBSET Rule, todo : Seq(Rule),
               tries : 0 .. 4]
  /\ recorded \in SUBSET Rule
  /\ calls \in 0 .. MaxCalls

NoCall == [at |-> "out", op |-> "add", named |-> {}, todo |-> <<>>, tries |-> 0]

PermissionsInit ==
  /\ call = NoCall
  /\ recorded = ToSet(allow)
  /\ calls = 0

Goto(at) == call' = [call EXCEPT !.at = at]

\* The rules of the request that the remote does not have as it should.
Lacking(op, named) == {r \in named : Contains(allow, r) = (op = "delete")}

\* Read before the change: what is as it should be already is left alone, and the
\* rest is typed in the order it was named in.
BeginCall(op, named) ==
  /\ call.at = "out" /\ calls < MaxCalls
  /\ calls' = calls + 1
  /\ \E todo \in SetToSeqs(Lacking(op, named)) :
       call' = [at |-> IF todo = <<>> THEN "record" ELSE "open",
                op |-> op, named |-> named, todo |-> todo, tries |-> 0]
  /\ UNCHANGED <<pane, recorded>>

-----------------------------------------------------------------------------
(***************************************************************************)
(* The editor                                                              *)
(***************************************************************************)

OpenView ==
  /\ call.at = "open"
  /\ TypeCommand
  /\ Goto("await_scope")
  /\ UNCHANGED <<shown, recorded, calls>>

TakeScope ==
  /\ call.at = "await_scope" /\ shown.face = "scope"
  /\ Key("scope", "rules")
  /\ Goto("await_rules")
  /\ UNCHANGED <<shown, recorded, calls>>

ViewOpened ==
  /\ call.at = "await_rules" /\ shown.face = "rules"
  /\ Goto("next")
  /\ UNCHANGED <<pane, recorded, calls>>

\* permissions_view_did_not_open: raised outside the try, so nothing is closed.
ViewDidNotOpen ==
  /\ \/ call.at = "await_scope" /\ shown.face # "scope"
     \/ call.at = "await_rules" /\ shown.face # "rules"
  /\ call' = NoCall
  /\ UNCHANGED <<pane, recorded, calls>>

PressAdd ==
  /\ call.at = "next" /\ call.op = "add" /\ call.todo # <<>>
  /\ Key("rules", "add")
  /\ Goto("await_add")
  /\ UNCHANGED <<shown, recorded, calls>>

AddRule ==
  /\ call.at = "await_add" /\ shown.face = "add"
  /\ TypeRule(Head(call.todo))
  /\ call' = [call EXCEPT !.at = "next", !.todo = Tail(@)]
  /\ UNCHANGED <<shown, recorded, calls>>

AddDidNotOpen ==
  /\ call.at = "await_add" /\ shown.face # "add"
  /\ Goto("unwind")
  /\ UNCHANGED <<pane, recorded, calls>>

\* Where a rule is on the list that is seen.
Row(r) == CHOOSE i \in DOMAIN shown.rules : shown.rules[i] = r

\* Read off the pane, which may show a list that no longer is; the cursor is moved
\* by as many rows as the pane says.
SelectRule ==
  /\ call.at = "next" /\ call.op = "delete" /\ call.todo # <<>>
  /\ Contains(shown.rules, Head(call.todo))
  /\ LET target == Row(Head(call.todo))
     IN IF target = shown.cursor THEN UNCHANGED pane ELSE Move(shown.cursor, target) /\ Settled
  /\ Goto("confirm")
  /\ UNCHANGED <<recorded, calls>>

NotListed ==
  /\ call.at = "next" /\ call.op = "delete" /\ call.todo # <<>>
  /\ ~Contains(shown.rules, Head(call.todo))
  /\ call' = [call EXCEPT !.todo = Tail(@)]
  /\ UNCHANGED <<pane, recorded, calls>>

\* The key is pressed where the arrows are believed to have led.
Unconfirmed == TRUE

\* The selected row of a second capture.
Confirmed ==
  /\ shown.cursor \in DOMAIN shown.rules
  /\ shown.rules[shown.cursor] = Head(call.todo)

DeleteRule ==
  /\ call.at = "confirm" /\ Confirmed
  /\ DeleteKey
  /\ call' = [call EXCEPT !.at = "next", !.todo = Tail(@)]
  /\ UNCHANGED <<shown, recorded, calls>>

RefuseToDelete ==
  /\ call.at = "confirm" /\ ~Confirmed
  /\ Goto("unwind")
  /\ UNCHANGED <<pane, recorded, calls>>

AllTyped ==
  /\ call.at = "next" /\ call.todo = <<>>
  /\ Goto("close")
  /\ UNCHANGED <<pane, recorded, calls>>

\* One Escape, believed to be enough.
ClosedByOne == call.tries = 1

AtThePrompt == shown.face = "idle"

PressEscapeToClose ==
  /\ call.at \in {"close", "unwind"} /\ ~AtThePrompt /\ call.tries < 4
  /\ Escape /\ Settled
  /\ call' = [call EXCEPT !.tries = @ + 1]
  /\ UNCHANGED <<recorded, calls>>

\* A change that failed has its error; a close that fails on that way is swallowed.
ViewClosed ==
  /\ call.at \in {"close", "unwind"}
  /\ AtThePrompt \/ call.tries = 4
  /\ call' = IF call.at = "close" /\ AtThePrompt THEN [call EXCEPT !.at = "verify"] ELSE NoCall
  /\ UNCHANGED <<pane, recorded, calls>>

Edit == OpenView \/ TakeScope \/ ViewOpened \/ ViewDidNotOpen \/ PressAdd \/ AddRule
        \/ AddDidNotOpen \/ SelectRule \/ NotListed \/ DeleteRule \/ RefuseToDelete
        \/ AllTyped \/ PressEscapeToClose \/ ViewClosed

-----------------------------------------------------------------------------
(***************************************************************************)
(* The core: _apply_and_verify and the record                              *)
(***************************************************************************)

\* What was typed is believed to have landed.
Believed == TRUE

Applied == Lacking(call.op, call.named) = {}

Verify ==
  /\ call.at = "verify"
  /\ call' = IF Applied THEN [call EXCEPT !.at = "record"] ELSE NoCall
  /\ UNCHANGED <<pane, recorded, calls>>

Record ==
  /\ call.at = "record"
  /\ recorded' = IF call.op = "add" THEN recorded \cup call.named
                                    ELSE recorded \ call.named
  /\ call' = NoCall
  /\ UNCHANGED <<pane, calls>>

Change == Edit \/ Verify \/ Record
=============================================================================
