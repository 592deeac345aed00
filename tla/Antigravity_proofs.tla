------------------------- MODULE Antigravity_proofs -------------------------
(***************************************************************************)
(* Theorems about Antigravity, for any number of turns and restarts, any   *)
(* permission calls and any allowlist.                                     *)
(***************************************************************************)
EXTENDS Antigravity, FiniteSetTheorems, SequenceTheorems, WellFoundedInduction, TLAPS

-----------------------------------------------------------------------------
(***************************************************************************)
(* Numbers, sequences and requests.                                        *)
(***************************************************************************)

\* A nonempty set of turns or positions has a least one.
LEMMA LeastOf ==
  ASSUME NEW T \in SUBSET Nat, T # {}
  PROVE  \E x \in T : \A y \in T : x <= y
<1> DEFINE R == {ss \in Nat \X Nat : ss[1] < ss[2]}
<1>1. IsWellFoundedOn(R, Nat)
  BY NatLessThanWellFounded DEF OpToRel
<1>2. PICK x \in T : \A y \in T : ~(<<y, x>> \in R)
  <2> HIDE DEF R
  <2> QED BY <1>1, WFMin
<1>3. ASSUME NEW y \in T PROVE x <= y
  <2>1. x \in Nat /\ y \in Nat
    OBVIOUS
  <2>2. ~(y < x)
    BY <1>2, <2>1
  <2> QED BY <2>1, <2>2
<1> QED BY <1>3

\* A nonempty set of turns or positions below a bound has a greatest one.
LEMMA GreatestOf ==
  ASSUME NEW n \in Nat, NEW T \in SUBSET (1 .. n), T # {}
  PROVE  \E x \in T : \A y \in T : y <= x
<1> DEFINE D == {n - t : t \in T}
<1>1. D \in SUBSET Nat /\ D # {}
  <2>1. \A t \in T : t \in 1 .. n /\ n - t \in Nat
    OBVIOUS
  <2> QED BY <2>1
<1>2. PICK d \in D : \A e \in D : d <= e
  <2> HIDE DEF D
  <2> QED BY <1>1, LeastOf
<1>3. PICK x \in T : d = n - x
  OBVIOUS
<1>4. ASSUME NEW y \in T PROVE y <= x
  <2>1. n - x <= n - y
    BY <1>2, <1>3
  <2>2. x \in 1 .. n /\ y \in 1 .. n
    OBVIOUS
  <2> QED BY <2>1, <2>2
<1> QED BY <1>4

\* A list with entry i taken out: the entries behind it have moved up by one.
LEMMA RemoveAtEntries ==
  ASSUME NEW S, NEW q \in Seq(S), NEW i \in DOMAIN q
  PROVE  /\ RemoveAt(q, i) \in Seq(S)
         /\ Len(RemoveAt(q, i)) = Len(q) - 1
         /\ DOMAIN RemoveAt(q, i) = 1 .. Len(q) - 1
         /\ \A j \in 1 .. Len(q) - 1 :
              RemoveAt(q, i)[j] = IF j < i THEN q[j] ELSE q[j + 1]
<1> DEFINE front == SubSeq(q, 1, i - 1)
           back == SubSeq(q, i + 1, Len(q))
<1>1. i \in 1 .. Len(q) /\ Len(q) \in Nat
  OBVIOUS
<1>2. front \in Seq(S) /\ Len(front) = i - 1 /\ \A j \in 1 .. i - 1 : front[j] = q[j]
  BY <1>1
<1>3. /\ back \in Seq(S)
      /\ Len(back) = Len(q) - i
      /\ \A j \in 1 .. Len(q) - i : back[j] = q[i + j]
  BY <1>1
<1>4. RemoveAt(q, i) = front \o back
  BY DEF RemoveAt
<1> HIDE DEF front, back
<1>5. /\ Len(front \o back) = Len(q) - 1
      /\ \A j \in 1 .. Len(q) - 1 :
           (front \o back)[j] = IF j <= i - 1 THEN front[j] ELSE back[j - (i - 1)]
  <2>1. /\ Len(front \o back) = Len(front) + Len(back)
        /\ \A j \in 1 .. Len(front) + Len(back) :
             (front \o back)[j] = IF j <= Len(front) THEN front[j] ELSE back[j - Len(front)]
    BY <1>2, <1>3, ConcatProperties
  <2>2. Len(front) + Len(back) = Len(q) - 1
    BY <1>1, <1>2, <1>3
  <2> QED BY <1>2, <2>1, <2>2
<1>6. ASSUME NEW j \in 1 .. Len(q) - 1
      PROVE  (front \o back)[j] = IF j < i THEN q[j] ELSE q[j + 1]
  <2>1. CASE j < i
    BY <2>1, <1>1, <1>2, <1>5
  <2>2. CASE ~(j < i)
    <3>1. j - (i - 1) \in 1 .. Len(q) - i /\ i + (j - (i - 1)) = j + 1 /\ ~(j <= i - 1)
      BY <2>2, <1>1
    <3>2. (front \o back)[j] = back[j - (i - 1)]
      BY <1>5, <3>1
    <3> QED BY <1>3, <2>2, <3>1, <3>2
  <2> QED BY <2>1, <2>2
<1>7. front \o back \in Seq(S)
  BY <1>2, <1>3, ConcatProperties
<1>8. DOMAIN (front \o back) = 1 .. Len(q) - 1
  BY <1>5, <1>7, LenProperties
<1> QED BY <1>4, <1>5, <1>6, <1>7, <1>8

\* The rules a call has to type are among those that are named, each once.
LEMMA TodoOfRequest ==
  ASSUME NEW named \in Requests, NEW op, NEW todo \in SetToSeqs(Lacking(op, named))
  PROVE  /\ todo \in Seq(Rule)
         /\ ToSet(todo) \subseteq named
         /\ \A i, j \in DOMAIN todo : i # j => todo[i] # todo[j]
         /\ todo = <<>> <=> Lacking(op, named) = {}
<1> DEFINE L == Lacking(op, named)
           n == Cardinality(L)
<1>1. named \subseteq Rule
  BY PermissionsAssumption
<1>2. IsFiniteSet(named)
  BY PermissionsAssumption
<1>3. L \in SUBSET named
  BY DEF Lacking
<1>4. IsFiniteSet(L) /\ n \in Nat /\ (n = 0 <=> L = {})
  BY <1>2, <1>3, FS_Subset, FS_CardinalityType, FS_EmptySet
<1>5. todo \in [1 .. n -> L] /\ \A i, j \in 1 .. n : i # j => todo[i] # todo[j]
  BY DEF SetToSeqs
<1>6. todo \in Seq(L) /\ Len(todo) = n /\ DOMAIN todo = 1 .. n
  BY <1>4, <1>5
<1>7. todo \in Seq(Rule) /\ ToSet(todo) \subseteq named
  <2>1. L \subseteq Rule
    BY <1>1, <1>3
  <2> QED BY <1>3, <1>5, <1>6, <2>1 DEF ToSet
<1>8. todo = <<>> <=> n = 0
  BY <1>4, <1>6
<1> QED BY <1>4, <1>5, <1>6, <1>7, <1>8
-----------------------------------------------------------------------------
(***************************************************************************)
(* Types.                                                                  *)
(***************************************************************************)

\* Who is about to type has something to type.
Equipped ==
  /\ caller \in {"escape_swap", "await_idle", "type"} => Unsent # {}
  /\ caller = "await_busy" => Unsent # Turns
  /\ call.at \in {"await_add", "confirm"} => call.todo # <<>>

TypeInv == TypeOK /\ Equipped

\* A painted pane is one of the faces, with a list of rules.
Painted == [face : Faces, rules : Seq(Rule), cursor : Nat \ {0}]

\* The message to be typed is one of the messages, and the first of them.
LEMMA NextIsUnsent ==
  ASSUME TypeOK, Unsent # {}
  PROVE  NextTurn \in Unsent /\ \A u \in Unsent : NextTurn <= u
<1>1. Unsent \in SUBSET Nat
  BY PaneAssumption DEF Unsent, Turns
<1>2. \E t \in Unsent : \A u \in Unsent : t <= u
  BY <1>1, LeastOf
<1> QED BY <1>2 DEF NextTurn

\* The message that was typed last.
LEMMA JustTypedIsSent ==
  ASSUME TypeOK, Unsent # Turns
  PROVE  JustTyped \in Turns \ Unsent /\ \A u \in Turns \ Unsent : u <= JustTyped
<1>1. Turns \ Unsent \in SUBSET (1 .. MaxTurns) /\ Turns \ Unsent # {}
  BY DEF Unsent, Turns
<1>2. MaxTurns \in Nat
  BY PaneAssumption
<1>3. \E t \in Turns \ Unsent : \A u \in Turns \ Unsent : u <= t
  BY <1>1, <1>2, GreatestOf
<1> QED BY <1>3 DEF JustTyped

\* The messages that are not typed yet are the same if no status says otherwise.
LEMMA SameUnsent ==
  ASSUME \A t \in Turns : status'[t] = "unsent" <=> status[t] = "unsent"
  PROVE  Unsent' = Unsent
BY DEF Unsent

\* An Escape is a key that neither types a message nor forgets one.
LEMMA EscapeTypes ==
  ASSUME TypeInv, Escape
  PROVE  /\ screen' \in Editor \cup {"boot", "trust", "chat"}
         /\ status' \in [Turns -> {"unsent", "typed", "running", "asking", "done", "stopped", "lost"}]
         /\ UNCHANGED <<log, allow, cursor>>
         /\ Unsent' = Unsent
<1>1. /\ screen \in Editor \cup {"boot", "trust", "chat"}
      /\ status \in [Turns -> {"unsent", "typed", "running", "asking", "done", "stopped", "lost"}]
  BY DEF TypeInv, TypeOK, PaneTypeOK
<1>2. /\ status' \in [Turns -> {"unsent", "typed", "running", "asking", "done", "stopped", "lost"}]
      /\ \A t \in Turns : status'[t] = "unsent" <=> status[t] = "unsent"
  BY <1>1 DEF Escape
<1>3. screen' \in Editor \cup {"boot", "trust", "chat"} /\ UNCHANGED <<log, allow, cursor>>
  BY DEF Escape, Editor
<1> QED BY <1>2, <1>3, SameUnsent

\* The history of what has overlapped.
LEMMA MixedIsMixed ==
  ASSUME Mixing
  PROVE  /\ mixed' \in BOOLEAN
         /\ Together' => mixed'
         /\ ~mixed' => ~mixed \/ AtRest'
<1>1. (Together' \/ (mixed /\ ~AtRest')) \in BOOLEAN
  OBVIOUS
<1> QED BY <1>1, Zenon DEF Mixing

\* Deleting leaves a list.
LEMMA DeletionTypes ==
  ASSUME allow \in Seq(Rule), DeleteSelected
  PROVE  allow' \in Seq(Rule) /\ cursor' \in 1 .. Len(allow') + 1
BY RemoveAtEntries DEF DeleteSelected

\* Every turn action keeps the types.
LEMMA TurnTypes ==
  ASSUME TypeInv, Turn
  PROVE  TypeInv'
<1>0. /\ UNCHANGED <<call, recorded, calls>>
      /\ MaxTurns \in Nat \ {0} /\ Turns = 1 .. MaxTurns /\ Turns \subseteq 0 .. MaxTurns
  BY PaneAssumption DEF Turn, InTurn, permissions, Turns
<1>1. PaneTypeOK /\ TurnsTypeOK /\ Equipped
  BY DEF TypeInv, TypeOK
<1>2. mixed' \in BOOLEAN /\ PermissionsTypeOK'
  BY <1>0, MixedIsMixed DEF TypeInv, TypeOK, PermissionsTypeOK, Turn, InTurn
<1>3. PaneTypeOK' /\ TurnsTypeOK' /\ (caller' \in {"escape_swap", "await_idle", "type"} => Unsent' # {})
      /\ (caller' = "await_busy" => Unsent' # Turns)
      => TypeInv'
  BY <1>0, <1>1, <1>2 DEF TypeInv, TypeOK, Equipped
<1>4. ASSUME UNCHANGED pane PROVE PaneTypeOK' /\ Unsent' = Unsent
  BY <1>1, <1>4 DEF pane, PaneTypeOK, Unsent
<1>5. NotPolling \in [at : {"out", "judge", "approval", "release", "read"}, turn : 0 .. MaxTurns, face : Faces]
  BY <1>0 DEF NotPolling, Faces
<1>6. CASE Begin
  <2>1. /\ UNCHANGED <<pane, slot, poller, answer, delivered>>
        /\ Unsent # {} \/ caller' = "escape_stop"
    BY <1>6 DEF Begin, Interrupt, Displace, BeginDelivery, BeginStop, Forget, memory
  <2>2. /\ caller' \in {"escape_stop", "escape_swap", "await_idle"}
        /\ age' \in {age, "none"} /\ saw' \in {saw, FALSE}
    BY <1>6 DEF Begin, Interrupt, Displace, BeginDelivery, BeginStop, Forget, memory
  <2>3. TurnsTypeOK'
    BY <1>1, <2>1, <2>2 DEF TurnsTypeOK, CallerAt
  <2> QED BY <1>3, <1>4, <2>1, <2>2, <2>3
<1>7. CASE PressEscape
  <2>1. Escape /\ UNCHANGED <<shown, poller, delivered, age, saw, answer>> /\ slot' = 0
        /\ caller' = (IF caller = "escape_stop" THEN "out" ELSE "await_idle")
        /\ caller \in {"escape_stop", "escape_swap"}
    BY <1>7 DEF PressEscape, memory
  <2>2. PaneTypeOK' /\ Unsent' = Unsent
    BY <1>1, <2>1, EscapeTypes DEF PaneTypeOK
  <2>3. TurnsTypeOK'
    BY <1>0, <1>1, <2>1 DEF TurnsTypeOK, CallerAt
  <2> QED BY <1>1, <1>3, <2>1, <2>2, <2>3 DEF Equipped
<1>8. CASE ReadyToType \/ DeliveryRefused
  <2>1. UNCHANGED <<pane, slot, poller, delivered, age, saw, answer>> /\ caller = "await_idle"
        /\ caller' \in {"type", "out"}
    BY <1>8 DEF ReadyToType, AwaitIdle, DeliveryRefused, memory
  <2>2. TurnsTypeOK'
    BY <1>1, <2>1 DEF TurnsTypeOK, CallerAt
  <2> QED BY <1>1, <1>3, <1>4, <2>1, <2>2 DEF Equipped
<1>9. CASE TypeBody
  <2>1. NextTurn \in Turns
    BY <1>9, NextIsUnsent DEF TypeBody, TypeInv, Equipped, Unsent
  <2>2. Append(log, <<"echo", NextTurn>>) \in Seq({"echo", "answer"} \X Turns)
    BY <1>1, <2>1 DEF PaneTypeOK
  <2>3. /\ UNCHANGED <<shown, slot, poller, delivered, age, saw, answer>>
        /\ UNCHANGED <<screen, allow, cursor>> \/ SwallowedByEditor
        /\ log' = log \/ log' = Append(log, <<"echo", NextTurn>>)
        /\ \/ status' = [status EXCEPT ![NextTurn] = "typed"]
           \/ status' = [status EXCEPT ![NextTurn] = "lost"]
        /\ caller' = "await_busy"
    BY <1>9 DEF TypeBody, TypeMessage, memory
  <2>7. /\ screen' \in Editor \cup {"boot", "trust", "chat"}
        /\ allow' \in Seq(Rule) /\ cursor' \in 1 .. Len(allow') + 1
    BY <1>1, <2>3, DeletionTypes DEF PaneTypeOK, SwallowedByEditor, Editor
  <2>4. PaneTypeOK' /\ status'[NextTurn] # "unsent"
    BY <1>1, <2>1, <2>2, <2>3, <2>7 DEF PaneTypeOK
  <2>5. TurnsTypeOK'
    BY <1>1, <2>3 DEF TurnsTypeOK, CallerAt
  <2>6. Unsent' # Turns
    BY <2>1, <2>4 DEF Unsent
  <2> QED BY <1>3, <2>3, <2>4, <2>5, <2>6
<1>10. CASE \E seen \in BOOLEAN : AwaitBusy(seen)
  <2>1. PICK seen \in BOOLEAN : AwaitBusy(seen)
    BY <1>10
  <2>2. JustTyped \in Turns
    BY <1>1, <2>1, JustTypedIsSent DEF AwaitBusy, TypeInv, Equipped
  <2>3. UNCHANGED <<pane, poller, answer>> /\ delivered' = JustTyped /\ age' = "fresh" /\ saw' = seen
        /\ slot' = JustTyped /\ caller' = "out"
    BY <2>1 DEF AwaitBusy, SawNow
  <2>4. TurnsTypeOK'
    BY <1>0, <1>1, <2>2, <2>3 DEF TurnsTypeOK, CallerAt
  <2> QED BY <1>3, <1>4, <2>3, <2>4
<1>11. CASE PollCapture \/ SettleTime
  <2>1. UNCHANGED <<pane, slot, caller, delivered, saw>> /\ age' \in {age, "settled"}
        /\ answer' \in {answer, "none"}
        /\ (poller' = poller \/ poller' = [at |-> "judge", turn |-> slot, face |-> Capture])
    BY <1>11 DEF PollCapture, SettleTime, memory
  <2>2. [at |-> "judge", turn |-> slot, face |-> Capture]
          \in [at : {"out", "judge", "approval", "release", "read"}, turn : 0 .. MaxTurns, face : Faces]
    BY <1>1 DEF TurnsTypeOK, PaneTypeOK, Capture, Faces
  <2>3. TurnsTypeOK'
    BY <1>1, <2>1, <2>2 DEF TurnsTypeOK
  <2> QED BY <1>1, <1>3, <1>4, <2>1, <2>3 DEF Equipped
<1>12. CASE PollJudge
  <2>1. UNCHANGED <<pane, slot, caller, delivered, age, answer>> /\ saw' = (saw \/ poller.face = "busy")
    BY <1>12 DEF PollJudge
  <2>2. \/ poller' = [poller EXCEPT !.at = "approval", !.face = "idle"]
        \/ poller' = [poller EXCEPT !.at = "read", !.face = "idle"]
        \/ poller' = NotPolling
    BY <1>12 DEF PollJudge
  <2>3. saw' \in BOOLEAN
    BY <2>1
  <2>4. TurnsTypeOK'
    BY <1>1, <1>5, <2>1, <2>2, <2>3 DEF TurnsTypeOK, Faces
  <2> QED BY <1>1, <1>3, <1>4, <2>1, <2>4 DEF Equipped
<1>13. CASE ApprovalStop
  <2>1. Escape /\ UNCHANGED <<shown, slot, caller, answer, delivered>> /\ age' = "none" /\ saw' = FALSE
        /\ poller' = [poller EXCEPT !.at = "release"]
    BY <1>13 DEF ApprovalStop, Forget
  <2>2. PaneTypeOK' /\ Unsent' = Unsent
    BY <1>1, <2>1, EscapeTypes DEF PaneTypeOK
  <2>3. TurnsTypeOK'
    BY <1>1, <2>1 DEF TurnsTypeOK
  <2> QED BY <1>1, <1>3, <2>1, <2>2, <2>3 DEF Equipped
<1>14. CASE ApprovalReported \/ ReadResult
  <2>1. UNCHANGED <<pane, caller, delivered, age, saw>> /\ poller' = NotPolling /\ slot' \in {slot, 0}
        /\ (answer' = answer \/ answer' = Result(slot))
    BY <1>14 DEF ApprovalReported, ReadResult, memory
  <2>2. Result(slot) \in {"none", "own", "empty", "whole_pane", "another's"}
    BY DEF Result
  <2>3. TurnsTypeOK'
    BY <1>0, <1>1, <1>5, <2>1, <2>2 DEF TurnsTypeOK
  <2> QED BY <1>1, <1>3, <1>4, <2>1, <2>3 DEF Equipped
<1> QED
  BY <1>6, <1>7, <1>8, <1>9, <1>10, <1>11, <1>12, <1>13, <1>14 DEF Turn, Deliver, Poll

\* What the editor types and deletes is of the right type.
LEMMA KeyTypes ==
  ASSUME TypeInv
  PROVE  /\ \A r \in Rule : TypeRule(r) =>
              screen' \in Editor \cup {"boot", "trust", "chat"} /\ allow' \in Seq(Rule)
              /\ cursor' \in 1 .. Len(allow') + 1 /\ UNCHANGED <<status, log>>
         /\ DeleteKey =>
              allow' \in Seq(Rule) /\ cursor' \in 1 .. Len(allow') + 1
              /\ UNCHANGED <<screen, status, log>>
         /\ \A from, to \in Nat : Move(from, to) =>
              cursor' \in 1 .. Len(allow) + 1 /\ UNCHANGED <<screen, status, log, allow>>
<1> USE DEF TypeInv, TypeOK, PaneTypeOK
<1>1. ASSUME NEW r \in Rule, TypeRule(r)
      PROVE  screen' \in Editor \cup {"boot", "trust", "chat"} /\ allow' \in Seq(Rule)
             /\ cursor' \in 1 .. Len(allow') + 1 /\ UNCHANGED <<status, log>>
  <2>1. Append(allow, r) \in Seq(Rule) /\ Len(Append(allow, r)) = Len(allow) + 1
    OBVIOUS
  <2>2. allow' = allow \/ allow' = Append(allow, r)
    BY <1>1 DEF TypeRule
  <2>3. screen' \in {screen, "rules"} /\ UNCHANGED <<status, log, cursor>>
    BY <1>1 DEF TypeRule
  <2>4. Len(allow) \in Nat /\ Len(allow') \in {Len(allow), Len(allow) + 1}
    BY <2>1, <2>2
  <2>5. cursor' \in 1 .. Len(allow') + 1
    BY <2>3, <2>4
  <2> QED BY <2>1, <2>2, <2>3, <2>5 DEF Editor
<1>2. ASSUME DeleteKey
      PROVE  allow' \in Seq(Rule) /\ cursor' \in 1 .. Len(allow') + 1
             /\ UNCHANGED <<screen, status, log>>
  BY <1>2, DeletionTypes DEF DeleteKey
<1>3. ASSUME NEW from \in Nat, NEW to \in Nat, Move(from, to)
      PROVE  cursor' \in 1 .. Len(allow) + 1 /\ UNCHANGED <<screen, status, log, allow>>
  BY <1>3 DEF Move
<1> QED BY <1>1, <1>2, <1>3

\* The row that is looked for is on the list that is seen.
LEMMA RowIsSeen ==
  ASSUME TypeInv, NEW r, Contains(shown.rules, r)
  PROVE  Row(r) \in DOMAIN shown.rules /\ shown.rules[Row(r)] = r /\ Row(r) \in Nat
<1>1. shown.rules \in Seq(Rule)
  BY DEF TypeInv, TypeOK, PaneTypeOK
<1>2. \E i \in DOMAIN shown.rules : shown.rules[i] = r
  BY <1>1 DEF Contains
<1> QED BY <1>1, <1>2 DEF Row

\* A pane painted of a session that has the right types has them too.
LEMMA PaintedTypes ==
  ASSUME screen' \in Editor \cup {"boot", "trust", "chat"}, allow' \in Seq(Rule),
         cursor' \in 1 .. Len(allow') + 1
  PROVE  Pane' \in Painted
<1>1. Face' \in Faces
  BY DEF Face, Faces, Editor
<1>2. cursor' \in Nat \ {0} /\ <<>> \in Seq(Rule)
  OBVIOUS
<1> QED BY <1>1, <1>2 DEF Pane, Painted

\* The same for the pane of the initial state.
LEMMA PaintedAtFirst ==
  ASSUME screen \in {"boot", "chat"}, allow \in Seq(Rule), cursor = 1
  PROVE  Pane \in Painted
<1>1. Face \in Faces
  BY DEF Face, Faces, Editor
<1>2. <<>> \in Seq(Rule)
  OBVIOUS
<1> QED BY <1>1, <1>2 DEF Pane, Painted

\* Every permission action keeps the types.
LEMMA PermissionTypes ==
  ASSUME TypeInv, Permission
  PROVE  TypeInv'
<1> DEFINE Calls == [at : CallAt, op : {"add", "delete"}, named : SUBSET Rule, todo : Seq(Rule), tries : 0 .. 4]
<1>0. /\ UNCHANGED <<slot, caller, poller, delivered, age, saw, answer>>
      /\ MaxTurns \in Nat \ {0} /\ Turns = 1 .. MaxTurns
  BY PaneAssumption DEF Permission, turns, memory, Turns
<1>1. /\ PaneTypeOK /\ TurnsTypeOK /\ Equipped
      /\ call \in Calls /\ recorded \in SUBSET Rule /\ calls \in 0 .. MaxCalls
  BY DEF TypeInv, TypeOK, PermissionsTypeOK
<1>2. mixed' \in BOOLEAN /\ TurnsTypeOK'
  BY <1>0, <1>1, MixedIsMixed DEF TypeInv, TypeOK, TurnsTypeOK, Permission
<1>3. /\ PaneTypeOK' /\ Unsent' = Unsent
      /\ call' \in Calls /\ (call'.at \in {"await_add", "confirm"} => call'.todo # <<>>)
      /\ recorded' \in SUBSET Rule /\ calls' \in 0 .. MaxCalls
      => TypeInv'
  BY <1>0, <1>1, <1>2 DEF TypeInv, TypeOK, PermissionsTypeOK, Equipped
<1>4. ASSUME UNCHANGED pane PROVE PaneTypeOK' /\ Unsent' = Unsent
  BY <1>1, <1>4 DEF pane, PaneTypeOK, Unsent
<1>5. ASSUME NEW at \in CallAt, Goto(at)
      PROVE  call' \in Calls /\ call'.at = at /\ call'.todo = call.todo
  BY <1>1, <1>5 DEF Goto
<1>6. NoCall \in Calls /\ NoCall.at = "out"
  BY DEF NoCall, CallAt
<1>7. ASSUME call.todo # <<>>
      PROVE  Head(call.todo) \in Rule /\ Tail(call.todo) \in Seq(Rule)
             /\ [call EXCEPT !.at = "next", !.todo = Tail(@)] \in Calls
  <2>1. call.todo \in Seq(Rule)
    BY <1>1
  <2>2. Head(call.todo) \in Rule /\ Tail(call.todo) \in Seq(Rule)
    BY <1>7, <2>1
  <2>3. \A rest \in Seq(Rule) : [call EXCEPT !.at = "next", !.todo = rest] \in Calls
    BY <1>1 DEF CallAt
  <2>4. [call EXCEPT !.at = "next", !.todo = Tail(call.todo)] \in Calls
    <3> HIDE DEF Calls
    <3> QED BY <2>2, <2>3, Zenon
  <2> QED BY <2>2, <2>4
<1>8. "record" \in CallAt /\ {"await_scope", "await_rules", "next", "await_add", "confirm", "close",
                              "unwind", "verify", "open", "out"} \subseteq CallAt
  BY DEF CallAt
<1> HIDE DEF Calls
<1>9. CASE \E op \in {"add", "delete"}, named \in Requests : BeginCall(op, named)
  <2>1. PICK op \in {"add", "delete"}, named \in Requests : BeginCall(op, named)
    BY <1>9
  <2>2. PICK todo \in SetToSeqs(Lacking(op, named)) :
          call' = [at |-> IF todo = <<>> THEN "record" ELSE "open",
                   op |-> op, named |-> named, todo |-> todo, tries |-> 0]
    BY <2>1 DEF BeginCall
  <2>3. named \in SUBSET Rule /\ todo \in Seq(Rule)
    <3>1. named \in SUBSET Rule
      BY PermissionsAssumption
    <3>2. todo \in Seq(Rule)
      BY TodoOfRequest
    <3> QED BY <3>1, <3>2
  <2>4. call' \in Calls /\ call'.at \in {"record", "open"}
    BY <2>2, <2>3 DEF Calls, CallAt
  <2>5. UNCHANGED <<pane, recorded>> /\ calls' \in 0 .. MaxCalls
    BY <1>1, <2>1, PermissionsAssumption DEF BeginCall
  <2> QED BY <1>1, <1>3, <1>4, <2>4, <2>5
<1>10. CASE OpenView \/ TakeScope \/ PressAdd
  <2>1. /\ UNCHANGED <<recorded, calls, log, allow, cursor, shown>>
        /\ OpenView => Goto("await_scope") /\ TypeCommand
        /\ TakeScope => Goto("await_rules") /\ Key("scope", "rules")
        /\ PressAdd => Goto("await_add") /\ Key("rules", "add") /\ call.todo # <<>>
    BY <1>10 DEF OpenView, TakeScope, PressAdd, TypeCommand, Key
  <2>2. /\ screen' \in Editor \cup {"boot", "trust", "chat"}
        /\ status' \in [Turns -> {"unsent", "typed", "running", "asking", "done", "stopped", "lost"}]
        /\ \A t \in Turns : status'[t] = "unsent" <=> status[t] = "unsent"
    BY <1>1, <1>10, <2>1 DEF TypeCommand, Key, Editor, PaneTypeOK
  <2>3. PaneTypeOK' /\ Unsent' = Unsent
    BY <1>1, <2>1, <2>2, SameUnsent DEF PaneTypeOK
  <2>4. call' \in Calls /\ (call'.at \in {"await_add", "confirm"} => call'.todo # <<>>)
    BY <1>5, <1>8, <1>10, <2>1
  <2> QED BY <1>1, <1>3, <2>1, <2>3, <2>4
<1>11. CASE ViewOpened \/ AddDidNotOpen \/ RefuseToDelete \/ AllTyped
  <2>1. UNCHANGED <<pane, recorded, calls>> /\ \E at \in {"next", "unwind", "close"} : Goto(at)
    BY <1>11 DEF ViewOpened, AddDidNotOpen, RefuseToDelete, AllTyped
  <2>2. call' \in Calls /\ call'.at \in {"next", "unwind", "close"}
    BY <1>5, <1>8, <2>1
  <2> QED BY <1>1, <1>3, <1>4, <2>1, <2>2
<1>12. CASE ViewDidNotOpen \/ Verify \/ Record \/ ViewClosed
  <2>1. /\ UNCHANGED <<pane, calls>>
        /\ recorded' = recorded \/ recorded' = recorded \cup call.named \/ recorded' = recorded \ call.named
        /\ \/ call' = NoCall \/ call' = [call EXCEPT !.at = "record"] \/ call' = [call EXCEPT !.at = "verify"]
    BY <1>12 DEF ViewDidNotOpen, Verify, Record, ViewClosed
  <2>2. call' \in Calls /\ call'.at \in {"out", "record", "verify"}
    BY <1>1, <1>6, <1>8, <2>1 DEF Calls
  <2>3. recorded' \in SUBSET Rule
    BY <1>1, <2>1 DEF Calls
  <2> QED BY <1>1, <1>3, <1>4, <2>1, <2>2, <2>3
<1>13. CASE AddRule \/ DeleteRule
  <2>1. /\ UNCHANGED <<shown, recorded, calls>>
        /\ call.todo # <<>>
        /\ call' = [call EXCEPT !.at = "next", !.todo = Tail(@)]
        /\ TypeRule(Head(call.todo)) \/ DeleteKey
    BY <1>1, <1>13 DEF AddRule, DeleteRule, Equipped
  <2>2. /\ screen' \in Editor \cup {"boot", "trust", "chat"} /\ allow' \in Seq(Rule)
        /\ cursor' \in 1 .. Len(allow') + 1 /\ UNCHANGED <<status, log>>
    BY <1>1, <1>7, <2>1, KeyTypes DEF PaneTypeOK
  <2>3. PaneTypeOK' /\ Unsent' = Unsent
    BY <1>1, <2>1, <2>2, SameUnsent DEF PaneTypeOK
  <2>4. call' \in Calls /\ call'.at = "next"
    BY <1>1, <1>7, <2>1 DEF Calls
  <2> QED BY <1>1, <1>3, <2>1, <2>3, <2>4
<1>14. CASE SelectRule
  <2> DEFINE target == Row(Head(call.todo))
  <2>1. Goto("confirm") /\ UNCHANGED <<recorded, calls>> /\ call.todo # <<>>
    BY <1>14 DEF SelectRule
  <2>2. call' \in Calls /\ call'.todo # <<>>
    BY <1>5, <1>8, <2>1
  <2>3. target \in Nat /\ shown.cursor \in Nat
    BY <1>1, <1>14, RowIsSeen DEF SelectRule, PaneTypeOK
  <2>4. CASE Move(shown.cursor, target) /\ Settled
    <3>1. cursor' \in 1 .. Len(allow) + 1 /\ UNCHANGED <<screen, status, log, allow>>
      BY <2>3, <2>4, KeyTypes
    <3>2. shown' \in Painted
      BY <1>1, <2>4, <3>1, PaintedTypes DEF Settled, PaneTypeOK
    <3>3. PaneTypeOK' /\ Unsent' = Unsent
      BY <1>1, <3>1, <3>2, SameUnsent DEF PaneTypeOK, Painted
    <3> QED BY <1>1, <1>3, <2>1, <2>2, <3>3
  <2> QED BY <1>1, <1>3, <1>4, <1>14, <2>1, <2>2, <2>4 DEF SelectRule
<1>15. CASE NotListed
  <2>1. UNCHANGED <<pane, recorded, calls>> /\ call.at = "next" /\ call.todo # <<>>
        /\ call' = [call EXCEPT !.todo = Tail(@)]
    BY <1>15 DEF NotListed
  <2>2. call' \in Calls /\ call'.at = "next"
    BY <1>1, <1>7, <2>1 DEF Calls
  <2> QED BY <1>1, <1>3, <1>4, <2>1, <2>2
<1>16. CASE PressEscapeToClose
  <2>1. /\ screen' \in Editor \cup {"boot", "trust", "chat"}
        /\ status' \in [Turns -> {"unsent", "typed", "running", "asking", "done", "stopped", "lost"}]
        /\ UNCHANGED <<log, allow, cursor>>
        /\ Unsent' = Unsent
    BY <1>16, EscapeTypes DEF PressEscapeToClose
  <2>2. shown' \in Painted
    BY <1>1, <1>16, <2>1, PaintedTypes DEF PressEscapeToClose, Settled, PaneTypeOK
  <2>3. PaneTypeOK'
    BY <1>1, <2>1, <2>2 DEF PaneTypeOK, Painted
  <2>4. call' = [call EXCEPT !.tries = @ + 1] /\ call.tries < 4 /\ call.at \in {"close", "unwind"}
        /\ UNCHANGED <<recorded, calls>>
    BY <1>16 DEF PressEscapeToClose
  <2>5. call' \in Calls /\ call'.at \in {"close", "unwind"}
    BY <1>1, <2>4 DEF Calls
  <2> QED BY <1>1, <1>3, <2>1, <2>3, <2>4, <2>5
<1> QED
  BY <1>9, <1>10, <1>11, <1>12, <1>13, <1>14, <1>15, <1>16 DEF Permission, Change, Edit

\* So does whatever the session does by itself, and a restart.
LEMMA SessionTypes ==
  ASSUME TypeInv, Session \/ Restart
  PROVE  TypeInv'
<1>0. MaxTurns \in Nat \ {0} /\ Turns = 1 .. MaxTurns
  BY PaneAssumption DEF Turns
<1>1. PaneTypeOK /\ TurnsTypeOK /\ PermissionsTypeOK /\ Equipped
  BY DEF TypeInv, TypeOK
<1>2. CASE Session
  <2>1. /\ UNCHANGED <<slot, caller, poller, delivered, age, saw, answer, call, recorded, calls>>
        /\ mixed' \in BOOLEAN
    BY <1>2, MixedIsMixed DEF Session, InSession, turns, memory, permissions
  <2>2. PaneTypeOK' /\ Unsent' = Unsent => TypeInv'
    BY <1>1, <2>1 DEF TypeInv, TypeOK, TurnsTypeOK, PermissionsTypeOK, Equipped
  <2>3. CASE Paint
    <3>1. UNCHANGED <<screen, status, log, allow, cursor>> /\ shown' = Pane
      BY <2>3 DEF Paint
    <3>2. Pane' = Pane
      BY <3>1 DEF Pane, Face, Some
    <3>3. shown' \in Painted
      BY <1>1, <3>1, <3>2, PaintedTypes DEF PaneTypeOK
    <3>4. PaneTypeOK'
      BY <1>1, <3>1, <3>3 DEF PaneTypeOK, Painted
    <3> QED BY <2>2, <3>1, <3>4, SameUnsent
  <2>4. CASE Boot \/ ByHand
    <3>1. UNCHANGED <<status, log, allow, cursor, shown>> /\ screen' \in {"trust", "chat"}
      BY <2>4 DEF Boot, ByHand
    <3>2. PaneTypeOK'
      BY <1>1, <3>1 DEF PaneTypeOK
    <3> QED BY <2>2, <3>1, <3>2, SameUnsent
  <2>5. ASSUME NEW t \in Turns, StartTurn(t) \/ EndTurn(t) \/ AskApproval(t) PROVE TypeInv'
    <3>1. /\ UNCHANGED <<screen, allow, cursor, shown>>
          /\ \E w \in {"running", "done", "asking"} : status' = [status EXCEPT ![t] = w]
          /\ log' = log \/ log' = Append(log, <<"answer", t>>) \/ log' = <<<<"answer", t>>>>
          /\ status[t] # "unsent"
      BY <2>5 DEF StartTurn, EndTurn, AskApproval
    <3>2. log' \in Seq({"echo", "answer"} \X Turns)
      <4>1. <<"answer", t>> \in {"echo", "answer"} \X Turns
        OBVIOUS
      <4>2. log \in Seq({"echo", "answer"} \X Turns)
        BY <1>1 DEF PaneTypeOK
      <4> HIDE DEF Turns
      <4> DEFINE entry == <<"answer", t>>
                 Entries == {"echo", "answer"} \X Turns
      <4> HIDE DEF entry, Entries
      <4>3. /\ entry \in Entries /\ log \in Seq(Entries)
            /\ log' = log \/ log' = Append(log, entry) \/ log' = <<entry>>
        BY <3>1, <4>1, <4>2 DEF entry, Entries
      <4>4. Append(log, entry) \in Seq(Entries) /\ <<entry>> \in Seq(Entries)
        BY <4>3
      <4>5. log' \in Seq(Entries)
        BY <4>3, <4>4
      <4> QED BY <4>5 DEF Entries
    <3>3. PaneTypeOK'
      BY <1>1, <3>1, <3>2 DEF PaneTypeOK
    <3>4. \A u \in Turns : status'[u] = "unsent" <=> status[u] = "unsent"
      BY <1>1, <3>1 DEF PaneTypeOK
    <3> QED BY <2>2, <3>3, <3>4, SameUnsent
  <2> QED BY <1>2, <2>3, <2>4, <2>5 DEF Session, TurnProgress
<1>3. CASE Restart
  <2>1. UNCHANGED <<pane, recorded, calls>> /\ answer' = "none"
        /\ slot' = 0 /\ caller' = "out" /\ poller' = NotPolling /\ delivered' = 0 /\ age' = "none"
        /\ saw' = FALSE /\ call' = NoCall
    BY <1>3 DEF Restart
  <2>2. PaneTypeOK'
    BY <1>1, <2>1 DEF PaneTypeOK, pane
  <2>3. NotPolling \in [at : {"out", "judge", "approval", "release", "read"},
                       turn : 0 .. MaxTurns, face : Faces]
    BY <1>0 DEF NotPolling, Faces
  <2>4. TurnsTypeOK'
    <3>1. 0 \in 0 .. MaxTurns
      BY <1>0
    <3>2. caller' \in CallerAt /\ age' \in {"none", "fresh", "settled"}
      BY <2>1 DEF CallerAt
    <3>4. slot' \in 0 .. MaxTurns /\ delivered' \in 0 .. MaxTurns /\ saw' \in BOOLEAN
      BY <2>1, <3>1, Zenon
    <3> QED BY <2>1, <2>3, <3>2, <3>4 DEF TurnsTypeOK
  <2>5. PermissionsTypeOK' /\ call'.at = "out"
    BY <1>1, <2>1 DEF PermissionsTypeOK, NoCall, CallAt
  <2>6. mixed' \in BOOLEAN
    BY <1>3, MixedIsMixed DEF Restart
  <2> QED BY <2>1, <2>2, <2>4, <2>5, <2>6 DEF TypeInv, TypeOK, Equipped
<1> QED BY <1>2, <1>3

\* Every state that any interleaving of the threads, the session, a human at it and
\* a restart can reach has the declared types.
THEOREM AgyTypeCorrect == Spec => []TypeInv
<1>1. Init => TypeInv
  <2> SUFFICES ASSUME Init PROVE TypeInv
    OBVIOUS
  <2>0. MaxTurns \in Nat \ {0} /\ Turns = 1 .. MaxTurns /\ Grants \subseteq Seq(Rule)
    BY PaneAssumption DEF Turns
  <2>1. shown \in Painted
    BY <2>0, PaintedAtFirst DEF Init, PaneInit
  <2>2. recorded \in SUBSET Rule
    BY <2>0 DEF Init, PaneInit, PermissionsInit, ToSet
  <2>3. saw \in BOOLEAN /\ saw = FALSE
    BY Zenon DEF Init, TurnsInit
  <2>4. NotPolling \in [at : {"out", "judge", "approval", "release", "read"},
                       turn : 0 .. MaxTurns, face : Faces]
    BY <2>0 DEF NotPolling, Faces
  <2>5. NoCall \in [at : CallAt, op : {"add", "delete"}, named : SUBSET Rule, todo : Seq(Rule), tries : 0 .. 4]
    BY DEF NoCall, CallAt
  <2>6. PaneTypeOK
    BY <2>0, <2>1 DEF Init, PaneInit, PaneTypeOK, Painted
  <2>7. TurnsTypeOK
    BY <2>0, <2>3, <2>4 DEF Init, TurnsInit, TurnsTypeOK, CallerAt
  <2>8. PermissionsTypeOK
    BY <2>2, <2>5, PermissionsAssumption DEF Init, PermissionsInit, PermissionsTypeOK
  <2>10. mixed \in BOOLEAN
    BY Zenon DEF Init
  <2>9. Equipped
    BY DEF Init, TurnsInit, PermissionsInit, NoCall, Equipped
  <2> QED BY <2>6, <2>7, <2>8, <2>9, <2>10 DEF TypeInv, TypeOK
<1>2. TypeInv /\ [Next]_vars => TypeInv'
  <2>1. ASSUME TypeInv, UNCHANGED vars PROVE TypeInv'
    BY <2>1
    DEF vars, pane, turns, memory, permissions, TypeInv, TypeOK, PaneTypeOK, TurnsTypeOK,
        PermissionsTypeOK, Equipped, Unsent
  <2> QED BY <2>1, TurnTypes, PermissionTypes, SessionTypes DEF Next
<1> QED BY <1>1, <1>2, PTL DEF Spec
-----------------------------------------------------------------------------
(***************************************************************************)
(* The permissions editor.                                                 *)
(***************************************************************************)

\* A pane without the editor's list shows no rules.
ListedInTheList == shown.face # "rules" => shown.rules = <<>>

\* The list that is seen, if one is, is the list there is.
Accurate == shown.face = "rules" => shown.rules = allow /\ shown.cursor = cursor

\* Once a call has seen the scope selector, an idle pane is a session out of the
\* editor: only the command leads in, and it is not typed again.
IdleIsOut ==
  (call.at \notin {"out", "open", "await_scope"}) /\ shown.face = "idle" => screen = "chat"

\* What is about to be recorded is so.
RecordIsDue == call.at = "record" => Lacking(call.op, call.named) = {}

\* What is left to type was named, each rule once.
TodoIsNamed ==
  /\ ToSet(call.todo) \subseteq call.named
  /\ \A i, j \in DOMAIN call.todo : i # j => call.todo[i] # call.todo[j]
  /\ call.at = "await_add" => call.op = "add"
  /\ call.at = "confirm" => call.op = "delete"

\* A list that is seen is accurate until the first key of the change; between two
\* deletions it is accurate or still has its cursor on a rule that has gone; and
\* it is accurate again when the key is to be pressed.
ListIsKnown ==
  /\ call.at \in {"open", "await_scope", "await_rules", "confirm"} => Accurate
  /\ call.at = "next" /\ call.op = "delete" =>
       \/ Accurate
       \/ /\ shown.cursor \in DOMAIN shown.rules
          /\ shown.rules[shown.cursor] \notin ToSet(call.todo)

\* What a call relies on whoever else is at the session, and what it relies on with no
\* message typed into the session beside it.
PlaceIsKnown == ListedInTheList /\ IdleIsOut /\ EditorIsLeft /\ TodoIsNamed
RulesAreKnown == RecordIsDue /\ ListIsKnown

EditorInv == PlaceIsKnown /\ (~mixed => RulesAreKnown)

\* What a pane shows of the session, now and after a step.
LEMMA PaneShows ==
  ASSUME screen \in Editor \cup {"boot", "trust", "chat"}
  PROVE  /\ Pane.face = "idle" => screen = "chat"
         /\ Pane.face = "rules" => Pane.rules = allow /\ Pane.cursor = cursor
         /\ Pane.face # "rules" => Pane.rules = <<>>
<1>1. Face = "idle" => screen = "chat"
  BY DEF Face, Editor
<1>2. Pane = IF Face = "rules" THEN [face |-> Face, rules |-> allow, cursor |-> cursor]
                               ELSE [face |-> Face, rules |-> <<>>, cursor |-> 1]
  BY DEF Pane
<1>3. Pane.face = Face
  BY <1>2
<1> QED BY <1>1, <1>2, <1>3

\* The same after a step.
LEMMA PaneWillShow ==
  ASSUME screen' \in Editor \cup {"boot", "trust", "chat"}
  PROVE  /\ Pane'.face = "idle" => screen' = "chat"
         /\ Pane'.face = "rules" => Pane'.rules = allow' /\ Pane'.cursor = cursor'
         /\ Pane'.face # "rules" => Pane'.rules = <<>>
<1>1. Face' = "idle" => screen' = "chat"
  BY DEF Face, Editor
<1>2. Pane' = IF Face' = "rules" THEN [face |-> Face', rules |-> allow', cursor |-> cursor']
                                 ELSE [face |-> Face', rules |-> <<>>, cursor |-> 1]
  BY DEF Pane
<1>3. Pane'.face = Face'
  BY <1>2
<1> QED BY <1>1, <1>2, <1>3

\* A step after which the overlap is over leaves no call under way.
LEMMA RestIsOut ==
  ASSUME Mixing, mixed, ~mixed'
  PROVE  call'.at = "out"
BY MixedIsMixed DEF AtRest

\* What anybody but the call does to what the call looks at: the chat is not left, the
\* pane is painted or not, and the list stays, unless a message was typed into it.
Around ==
  /\ call' = call \/ call' = NoCall
  /\ screen = "chat" => screen' = "chat"
  /\ shown' = shown \/ shown' = Pane'
  /\ ~mixed' => call'.at = "out" \/ (~mixed /\ UNCHANGED <<allow, cursor>>)

\* The turns, the session, a human and a restart do no more.
LEMMA OthersAreAround ==
  ASSUME Turn \/ Session \/ Restart \/ UNCHANGED vars
  PROVE  Around
<1>1. CASE Turn
  <2>1. UNCHANGED call /\ Mixing
    BY <1>1 DEF Turn, InTurn, permissions
  <2>2. CASE Begin \/ ReadyToType \/ DeliveryRefused \/ (\E seen \in BOOLEAN : AwaitBusy(seen))
             \/ PollCapture \/ PollJudge \/ ApprovalReported \/ ReadResult \/ SettleTime
    <3>1. UNCHANGED pane
      BY <2>2
      DEF Begin, Interrupt, Displace, BeginDelivery, BeginStop, ReadyToType, DeliveryRefused,
          AwaitBusy, PollCapture, PollJudge, ApprovalReported, ReadResult, SettleTime
    <3> QED BY <2>1, <3>1, RestIsOut DEF Around, pane
  <2>3. CASE PressEscape \/ ApprovalStop
    BY <2>1, <2>3, RestIsOut DEF Around, PressEscape, ApprovalStop, Escape
  <2>4. CASE TypeBody
    <3>1. call'.at # "out" => mixed'
      BY <2>1, <2>4, MixedIsMixed DEF TypeBody, Together, NoTurn
    <3>2. (screen = "chat" => screen' = "chat") /\ UNCHANGED shown
      BY <2>4 DEF TypeBody, TypeMessage
    <3> QED BY <2>1, <3>1, <3>2 DEF Around
  <2> QED BY <1>1, <2>2, <2>3, <2>4 DEF Turn, Deliver, Poll
<1>2. CASE Session
  <2>1. UNCHANGED call /\ Mixing
    BY <1>2 DEF Session, InSession, permissions
  <2>2. CASE Paint
    BY <2>1, <2>2, RestIsOut DEF Around, Paint, Pane, Face, Some
  <2>3. CASE Boot \/ ByHand
    BY <2>1, <2>3, RestIsOut DEF Around, Boot, ByHand
  <2>4. CASE \E t \in Turns : StartTurn(t) \/ EndTurn(t) \/ AskApproval(t)
    BY <2>1, <2>4, RestIsOut DEF Around, StartTurn, EndTurn, AskApproval
  <2> QED BY <1>2, <2>2, <2>3, <2>4 DEF Session, TurnProgress
<1>3. CASE Restart
  BY <1>3 DEF Around, Restart, pane, NoCall
<1>4. CASE UNCHANGED vars
  BY <1>4 DEF Around, vars, pane, permissions
<1> QED BY <1>1, <1>2, <1>3, <1>4

\* None of that disturbs what the call relies on.
LEMMA AroundKeepsEditor ==
  ASSUME TypeInv, TypeInv', EditorInv, Around
  PROVE  EditorInv'
<1> USE DEF EditorInv, PlaceIsKnown, RulesAreKnown
<1>0. /\ Pane'.face = "idle" => screen' = "chat"
      /\ Pane'.face = "rules" => Pane'.rules = allow' /\ Pane'.cursor = cursor'
      /\ Pane'.face # "rules" => Pane'.rules = <<>>
  BY PaneWillShow DEF TypeInv, TypeOK, PaneTypeOK
<1>1. ListedInTheList'
  BY <1>0 DEF ListedInTheList, Around
<1>2. CASE call' = NoCall
  BY <1>1, <1>2 DEF IdleIsOut, EditorIsLeft, RecordIsDue, TodoIsNamed, ListIsKnown, NoCall, ToSet
<1>3. CASE call' = call
  <2>1. IdleIsOut' /\ EditorIsLeft' /\ TodoIsNamed'
    BY <1>0, <1>3 DEF IdleIsOut, EditorIsLeft, TodoIsNamed, Around
  <2>2. CASE call'.at = "out"
    BY <1>1, <2>1, <2>2 DEF RecordIsDue, ListIsKnown
  <2>3. CASE ~mixed /\ UNCHANGED <<allow, cursor>>
    <3>1. RecordIsDue'
      BY <1>3, <2>3 DEF RecordIsDue, Lacking
    <3>2. Accurate => Accurate'
      BY <1>0, <2>3 DEF Accurate, Around
    <3>3. ListIsKnown'
      <4>1. CASE shown' = shown
        BY <1>3, <2>3, <3>2, <4>1 DEF ListIsKnown
      <4>2. CASE shown' = Pane'
        BY <1>0, <1>3, <2>3, <4>2 DEF ListIsKnown, Accurate
      <4> QED BY <4>1, <4>2 DEF Around
    <3> QED BY <1>1, <2>1, <3>1, <3>3
  <2> QED BY <1>1, <2>1, <2>2, <2>3 DEF Around
<1> QED BY <1>2, <1>3 DEF Around

\* The head of a list of distinct rules is not among the rest.
LEMMA HeadIsNotInTail ==
  ASSUME NEW q \in Seq(Rule), q # <<>>
  PROVE  /\ Tail(q) \in Seq(Rule)
         /\ Head(q) = q[1] /\ Head(q) \in ToSet(q) /\ ToSet(Tail(q)) \subseteq ToSet(q)
         /\ (\A i, j \in DOMAIN q : i # j => q[i] # q[j]) =>
              /\ Head(q) \notin ToSet(Tail(q))
              /\ \A i, j \in DOMAIN Tail(q) : i # j => Tail(q)[i] # Tail(q)[j]
<1>1. /\ Len(q) \in Nat \ {0} /\ DOMAIN q = 1 .. Len(q) /\ Head(q) = q[1]
      /\ Tail(q) \in Seq(Rule) /\ Len(Tail(q)) = Len(q) - 1 /\ DOMAIN Tail(q) = 1 .. Len(q) - 1
  OBVIOUS
<1>2. \A i \in 1 .. Len(q) - 1 : Tail(q)[i] = q[i + 1] /\ i + 1 \in 1 .. Len(q) /\ i + 1 # 1
  BY <1>1
<1>3. \A i, j \in 1 .. Len(q) - 1 : i # j => i + 1 # j + 1
  BY <1>1
<1> QED BY <1>1, <1>2, <1>3 DEF ToSet

\* Each step of a call leaves the next one where it believes to be.
LEMMA PermissionKeepsPlace ==
  ASSUME TypeInv, TypeInv', PlaceIsKnown, Permission
  PROVE  PlaceIsKnown'
<1> USE DEF PlaceIsKnown, ListedInTheList, IdleIsOut, EditorIsLeft, TodoIsNamed
<1>0. call \in [at : CallAt, op : {"add", "delete"}, named : SUBSET Rule, todo : Seq(Rule), tries : 0 .. 4]
  BY DEF TypeInv, TypeOK, PermissionsTypeOK
<1>00. /\ Pane'.face = "idle" => screen' = "chat"
       /\ Pane'.face = "rules" => Pane'.rules = allow' /\ Pane'.cursor = cursor'
       /\ Pane'.face # "rules" => Pane'.rules = <<>>
  BY PaneWillShow DEF TypeInv, TypeOK, PaneTypeOK
<1>1. CASE Fresh /\ \E op \in {"add", "delete"}, named \in Requests : BeginCall(op, named)
  <2>0. PICK op \in {"add", "delete"}, named \in Requests : BeginCall(op, named)
    BY <1>1
  <2>1. PICK todo \in SetToSeqs(Lacking(op, named)) :
          /\ UNCHANGED pane
          /\ call' = [at |-> IF todo = <<>> THEN "record" ELSE "open",
                      op |-> op, named |-> named, todo |-> todo, tries |-> 0]
    BY <2>0 DEF BeginCall
  <2>2. /\ ToSet(todo) \subseteq named
        /\ \A i, j \in DOMAIN todo : i # j => todo[i] # todo[j]
        /\ todo = <<>> <=> Lacking(op, named) = {}
    BY TodoOfRequest
  <2>3. shown.face = "idle" => screen = "chat"
    BY <1>1, PaneShows DEF Fresh, TypeInv, TypeOK, PaneTypeOK
  <2> QED BY <2>1, <2>2, <2>3 DEF pane
<1>2. CASE OpenView
  BY <1>0, <1>2 DEF OpenView, TypeCommand, Goto
<1>3. CASE TakeScope
  BY <1>0, <1>3 DEF TakeScope, Key, Goto
<1>4. CASE ViewOpened
  BY <1>0, <1>4 DEF ViewOpened, Goto, pane
<1>5. CASE ViewDidNotOpen
  BY <1>5 DEF ViewDidNotOpen, NoCall, ToSet, pane
<1>6. CASE PressAdd
  BY <1>0, <1>6 DEF PressAdd, Key, Goto
<1>7. CASE AddRule
  <2>1. call.todo # <<>> /\ call.at = "await_add" /\ call.op = "add"
    BY <1>7 DEF AddRule, TypeInv, Equipped
  <2>2. call' = [call EXCEPT !.at = "next", !.todo = Tail(@)] /\ UNCHANGED shown
        /\ (screen = "chat" => screen' = "chat")
    BY <1>7 DEF AddRule, TypeRule
  <2> QED BY <1>0, <2>1, <2>2, HeadIsNotInTail
<1>8. CASE AddDidNotOpen \/ RefuseToDelete \/ AllTyped
  BY <1>0, <1>8 DEF AddDidNotOpen, RefuseToDelete, AllTyped, Goto, pane
<1>9. CASE SelectRule
  <2> DEFINE target == Row(Head(call.todo))
  <2>1. call' = [call EXCEPT !.at = "confirm"] /\ call.at = "next" /\ call.op = "delete" /\ call.todo # <<>>
    BY <1>9 DEF SelectRule, Goto
  <2>2. CASE UNCHANGED pane
    BY <1>0, <2>1, <2>2 DEF pane
  <2>3. CASE Move(shown.cursor, target) /\ Settled
    BY <1>0, <1>00, <2>1, <2>3 DEF Move, Settled
  <2> QED BY <1>9, <2>2, <2>3 DEF SelectRule
<1>10. CASE NotListed
  BY <1>0, <1>10, HeadIsNotInTail DEF NotListed, pane
<1>11. CASE DeleteRule
  <2>1. call.at = "confirm" /\ call.op = "delete" /\ call.todo # <<>> /\ UNCHANGED <<shown, screen>>
    BY <1>11 DEF DeleteRule, TypeInv, Equipped, DeleteKey
  <2>3. call' = [call EXCEPT !.at = "next", !.todo = Tail(@)]
    BY <1>11 DEF DeleteRule
  <2> QED BY <1>0, <2>1, <2>3, HeadIsNotInTail
<1>12. CASE PressEscapeToClose
  BY <1>0, <1>00, <1>12 DEF PressEscapeToClose, Escape, Settled
<1>13. CASE ViewClosed
  BY <1>0, <1>13 DEF ViewClosed, AtThePrompt, NoCall, ToSet, pane
<1>14. CASE Verify
  BY <1>0, <1>14 DEF Verify, Applied, NoCall, ToSet, Lacking, pane
<1>15. CASE Record
  BY <1>15 DEF Record, NoCall, ToSet, pane
<1> QED
  BY <1>1, <1>2, <1>3, <1>4, <1>5, <1>6, <1>7, <1>8, <1>9, <1>10, <1>11, <1>12, <1>13, <1>14, <1>15
  DEF Permission, Change, Edit

\* And with the list that it believes to see.
LEMMA PermissionKeepsRules ==
  ASSUME TypeInv, TypeInv', PlaceIsKnown, RulesAreKnown, Permission
  PROVE  RulesAreKnown'
<1> USE DEF PlaceIsKnown, RulesAreKnown, TodoIsNamed, RecordIsDue, ListIsKnown
<1>0. call \in [at : CallAt, op : {"add", "delete"}, named : SUBSET Rule, todo : Seq(Rule), tries : 0 .. 4]
  BY DEF TypeInv, TypeOK, PermissionsTypeOK
<1>00. /\ Pane'.face = "idle" => screen' = "chat"
       /\ Pane'.face = "rules" => Pane'.rules = allow' /\ Pane'.cursor = cursor'
       /\ Pane'.face # "rules" => Pane'.rules = <<>>
  BY PaneWillShow DEF TypeInv, TypeOK, PaneTypeOK
<1>1. CASE Fresh /\ \E op \in {"add", "delete"}, named \in Requests : BeginCall(op, named)
  <2>0. PICK op \in {"add", "delete"}, named \in Requests : BeginCall(op, named)
    BY <1>1
  <2>1. PICK todo \in SetToSeqs(Lacking(op, named)) :
          /\ UNCHANGED pane
          /\ call' = [at |-> IF todo = <<>> THEN "record" ELSE "open",
                      op |-> op, named |-> named, todo |-> todo, tries |-> 0]
    BY <2>0 DEF BeginCall
  <2>2. /\ ToSet(todo) \subseteq named
        /\ \A i, j \in DOMAIN todo : i # j => todo[i] # todo[j]
        /\ todo = <<>> <=> Lacking(op, named) = {}
    BY TodoOfRequest
  <2>3. Accurate /\ (shown.face = "idle" => screen = "chat")
    BY <1>1, PaneShows DEF Fresh, Accurate, TypeInv, TypeOK, PaneTypeOK
  <2> QED BY <2>1, <2>2, <2>3 DEF pane, Accurate, Lacking
<1>2. CASE OpenView
  BY <1>0, <1>2 DEF OpenView, TypeCommand, Goto, Accurate
<1>3. CASE TakeScope
  BY <1>0, <1>3 DEF TakeScope, Key, Goto, Accurate
<1>4. CASE ViewOpened
  BY <1>0, <1>4 DEF ViewOpened, Goto, Accurate, pane
<1>5. CASE ViewDidNotOpen
  BY <1>5 DEF ViewDidNotOpen, NoCall, ToSet, pane
<1>6. CASE PressAdd
  BY <1>0, <1>6 DEF PressAdd, Key, Goto
<1>7. CASE AddRule
  <2>1. call.todo # <<>> /\ call.at = "await_add" /\ call.op = "add"
    BY <1>7 DEF AddRule, TypeInv, Equipped
  <2>2. call' = [call EXCEPT !.at = "next", !.todo = Tail(@)] /\ UNCHANGED shown
        /\ (screen = "chat" => screen' = "chat")
    BY <1>7 DEF AddRule, TypeRule
  <2> QED BY <1>0, <2>1, <2>2, HeadIsNotInTail
<1>8. CASE AddDidNotOpen \/ RefuseToDelete \/ AllTyped
  BY <1>0, <1>8 DEF AddDidNotOpen, RefuseToDelete, AllTyped, Goto, pane
<1>9. CASE SelectRule
  <2> DEFINE target == Row(Head(call.todo))
  <2>1. call' = [call EXCEPT !.at = "confirm"] /\ call.at = "next" /\ call.op = "delete" /\ call.todo # <<>>
    BY <1>9 DEF SelectRule, Goto
  <2>2. CASE target = shown.cursor /\ UNCHANGED pane
    <3>1. shown.rules[shown.cursor] = Head(call.todo)
      BY <1>9, <2>2, RowIsSeen DEF SelectRule
    <3>2. Head(call.todo) \in ToSet(call.todo)
      BY <1>0, <2>1, HeadIsNotInTail
    <3>3. Accurate
      BY <2>1, <3>1, <3>2
    <3> QED BY <1>0, <2>1, <2>2, <3>3 DEF pane, Accurate
  <2>3. CASE Move(shown.cursor, target) /\ Settled
    BY <1>0, <1>00, <2>1, <2>3 DEF Move, Settled, Accurate
  <2> QED BY <1>9, <2>2, <2>3 DEF SelectRule
<1>10. CASE NotListed
  BY <1>0, <1>10, HeadIsNotInTail DEF NotListed, pane, Accurate
<1>11. CASE DeleteRule
  <2>1. call.at = "confirm" /\ call.op = "delete" /\ call.todo # <<>> /\ UNCHANGED <<shown, screen>>
    BY <1>11 DEF DeleteRule, TypeInv, Equipped, DeleteKey
  <2>2. shown.cursor \in DOMAIN shown.rules /\ shown.rules[shown.cursor] \notin ToSet(Tail(call.todo))
    BY <1>0, <1>11, <2>1, HeadIsNotInTail DEF DeleteRule, Confirmed
  <2>3. call' = [call EXCEPT !.at = "next", !.todo = Tail(@)]
    BY <1>11 DEF DeleteRule
  <2> QED BY <1>0, <2>1, <2>2, <2>3, HeadIsNotInTail
<1>12. CASE PressEscapeToClose
  BY <1>0, <1>00, <1>12 DEF PressEscapeToClose, Escape, Settled
<1>13. CASE ViewClosed
  BY <1>0, <1>13 DEF ViewClosed, AtThePrompt, NoCall, ToSet, pane
<1>14. CASE Verify
  BY <1>0, <1>14 DEF Verify, Applied, NoCall, ToSet, Lacking, pane
<1>15. CASE Record
  BY <1>15 DEF Record, NoCall, ToSet, pane
<1> QED
  BY <1>1, <1>2, <1>3, <1>4, <1>5, <1>6, <1>7, <1>8, <1>9, <1>10, <1>11, <1>12, <1>13, <1>14, <1>15
  DEF Permission, Change, Edit

\* Each step of a call leaves what the next one relies on.
LEMMA PermissionKeepsEditor ==
  ASSUME TypeInv, TypeInv', EditorInv, Permission
  PROVE  EditorInv'
<1>1. PlaceIsKnown'
  BY PermissionKeepsPlace DEF EditorInv
<1>2. CASE ~mixed
  BY <1>1, <1>2, PermissionKeepsRules DEF EditorInv
<1>3. CASE mixed
  <2>1. ~mixed' => call'.at = "out"
    BY <1>3, RestIsOut DEF Permission
  <2> QED BY <1>1, <2>1 DEF EditorInv, RulesAreKnown, RecordIsDue, ListIsKnown
<1> QED BY <1>1, <1>2, <1>3

\* What a permission call relies on, for any other threads at the session: where the
\* editor is and what it has still to do; and, with no message typed into the session
\* beside it, what of the list it has seen.
THEOREM EditorInvariant == Spec => []EditorInv
<1>1. Init => EditorInv
  <2> SUFFICES ASSUME Init PROVE EditorInv
    OBVIOUS
  <2>1. screen \in Editor \cup {"boot", "trust", "chat"}
    BY DEF Init, PaneInit
  <2> QED
    BY <2>1, PaneShows
    DEF Init, PaneInit, PermissionsInit, NoCall, EditorInv, PlaceIsKnown, RulesAreKnown,
        ListedInTheList, IdleIsOut, EditorIsLeft, RecordIsDue, TodoIsNamed, ListIsKnown, ToSet
<1>2. TypeInv /\ TypeInv' /\ EditorInv /\ [Next]_vars => EditorInv'
  BY PermissionKeepsEditor, OthersAreAround, AroundKeepsEditor DEF Next
<1> QED BY <1>1, <1>2, AgyTypeCorrect, PTL DEF Spec

\* A change that is taken to have been made has left the editor, however many screens
\* deep it was, however late the pane is painted and whoever types beside it.
THEOREM EditorLeft == Spec => []EditorIsLeft
<1>1. EditorInv => EditorIsLeft
  BY DEF EditorInv, PlaceIsKnown
<1> QED BY <1>1, EditorInvariant, PTL

\* Only the record of a call changes what is recorded, and it has been verified.
LEMMA RecordedAsVerified ==
  ASSUME TypeInv, EditorInv, ~mixed, [Next]_vars
  PROVE  /\ recorded' \ recorded \subseteq ToSet(allow)
         /\ (recorded \ recorded') \cap ToSet(allow) = {}
<1>1. ASSUME Turn \/ Session \/ Restart \/ UNCHANGED vars PROVE recorded' = recorded
  BY <1>1 DEF Turn, InTurn, Session, InSession, Restart, vars, permissions
<1>2. ASSUME Permission, ~Record PROVE recorded' = recorded
  BY <1>2
  DEF Permission, BeginCall, Change, Edit, OpenView, TakeScope, ViewOpened, ViewDidNotOpen, PressAdd,
      AddRule, AddDidNotOpen, SelectRule, NotListed, DeleteRule, RefuseToDelete, AllTyped,
      PressEscapeToClose, ViewClosed, Verify
<1>3. CASE Record
  <2>1. Lacking(call.op, call.named) = {} /\ call.op \in {"add", "delete"}
    BY <1>3 DEF Record, EditorInv, RulesAreKnown, RecordIsDue, TypeInv, TypeOK, PermissionsTypeOK
  <2>2. \A r \in call.named : r \in ToSet(allow) <=> call.op = "add"
    <3>1. allow \in Seq(Rule)
      BY DEF TypeInv, TypeOK, PaneTypeOK
    <3>2. \A r \in call.named : Contains(allow, r) <=> r \in ToSet(allow)
      BY <3>1 DEF Contains, ToSet
    <3>3. \A r \in call.named : ~(Contains(allow, r) <=> call.op = "delete")
      <4>1. ASSUME NEW r \in call.named, Contains(allow, r) <=> call.op = "delete" PROVE FALSE
        <5>1. Contains(allow, r) = (call.op = "delete")
          BY <4>1, Zenon DEF Contains
        <5> QED BY <2>1, <5>1 DEF Lacking
      <4> QED BY <4>1
    <3> QED BY <2>1, <3>2, <3>3
  <2>3. recorded' = IF call.op = "add" THEN recorded \cup call.named ELSE recorded \ call.named
    BY <1>3 DEF Record
  <2> QED BY <2>1, <2>2, <2>3
<1> QED BY <1>1, <1>2, <1>3 DEF Next

\* Paths are recorded only with the grant in place and forgotten only with it gone,
\* for any calls, failed ones and restarts between them, and with no message typed
\* between the check and the record.
THEOREM RecordsAreReal == Spec => RecordedIsReal
<1>1. TypeInv /\ EditorInv /\ [Next]_vars
        => [~mixed =>
            /\ recorded' \ recorded \subseteq ToSet(allow)
            /\ (recorded \ recorded') \cap ToSet(allow) = {}]_vars
  BY RecordedAsVerified
<1> QED BY <1>1, AgyTypeCorrect, EditorInvariant, PTL DEF Spec, RecordedIsReal

-----------------------------------------------------------------------------
(***************************************************************************)
(* The turns, when no permission change overlaps one.                      *)
(***************************************************************************)

Escaping == caller \in {"escape_stop", "escape_swap"}
Live(t) == status[t] \in {"typed", "running", "asking"}
Ended(t) == status[t] \in {"done", "stopped"}
Working == shown.face \in {"prompt", "busy"}

\* The last message that was typed.
Latest(t) == t \in Turns /\ status[t] # "unsent" /\ \A u \in Turns : u > t => status[u] = "unsent"

\* Messages are typed in their order, whatever becomes of them.
TypedInOrder == \A t, u \in Turns : t < u /\ status[u] # "unsent" => status[t] # "unsent"

\* Only the last may be live.
OneAtATime == \A t \in Turns : Live(t) => Latest(t)

\* No permission call is under way with a turn, which has the session to itself, at
\* the chat.
TurnsApart ==
  /\ slot # 0 \/ caller # "out" \/ poller.at # "out" => call.at = "out"
  /\ slot # 0 \/ caller \in {"type", "await_busy"} \/ poller.at # "out" => screen = "chat"

\* The slot is empty while a message is being typed and is not while one is stopped;
\* it holds the last message, which is remembered and was not swallowed.
SlotIsLatest ==
  /\ caller \in {"await_idle", "type", "await_busy"} => slot = 0
  /\ Escaping => slot # 0
  /\ slot # 0 => Latest(slot) /\ status[slot] # "lost" /\ delivered # 0
  /\ caller = "await_busy" => \A t \in Turns : Latest(t) => status[t] # "lost"

\* A message that has not started is awaited or in the slot, and the pane is still
\* that of the prompt it was typed at.
TypedIsHeld ==
  \A t \in Turns : status[t] = "typed" =>
    /\ caller = "await_busy" \/ slot = t
    /\ shown.face = "idle"

\* An idle pane, when it is waited for, is not an old one.
SafeToType ==
  /\ caller = "await_idle" /\ shown.face = "idle" => screen = "chat" /\ \A t \in Turns : ~Live(t)
  /\ caller = "type" => shown.face = "idle" /\ \A t \in Turns : ~Live(t)

\* A poll is of a message that was typed, and of the slot while that message is live.
\* One that waits to free the slot has not stopped it before its start.
PolledIsSent ==
  /\ poller.at # "out" => /\ poller.turn \in Turns
                          /\ status[poller.turn] \notin {"unsent", "lost"}
                          /\ Live(poller.turn) => slot = poller.turn
  /\ poller.at = "release" /\ caller = "out" => \A t \in Turns : status[t] # "typed"

\* While a live turn's pane shows it neither at work nor asking, the turn is too young
\* to be judged finished by it, and no footer is remembered: on the pane, and in the
\* hands of a poll.  A footer a poll has yet to report is not an older turn's, or this
\* turn has shown its own.
NotTrusted ==
  /\ slot # 0 /\ ~Escaping /\ ~Working /\ Live(slot) => age = "fresh" /\ ~saw
  /\ /\ poller.at = "judge" /\ poller.face \notin {"prompt", "busy"}
     /\ Live(poller.turn) /\ ~Escaping
     => age = "fresh" /\ ~saw
  /\ /\ poller.at = "judge" /\ slot # 0 /\ Live(slot)
     /\ poller.turn # slot \/ poller.face = "busy"
     => Working /\ status[slot] # "typed"

\* What follows the last echo of the transcript is the last message's answer, once it
\* is typed and until its slot is free.
AnswersFollowEcho ==
  slot # 0 \/ caller = "await_busy" => \A i \in DOMAIN log :
    log[i][1] = "answer" /\ (\A j \in DOMAIN log : j > i => log[j][1] # "echo") => Latest(log[i][2])

\* A turn judged finished has ended, or is being stopped.
JudgedHasEnded == poller.at = "read" => Ended(poller.turn) \/ Escaping

TurnsInv ==
  /\ OneAtATime /\ TurnsApart /\ SlotIsLatest /\ TypedIsHeld /\ SafeToType /\ PolledIsSent
  /\ NotTrusted /\ JudgedHasEnded /\ AnswersFollowEcho

\* The adapter's turns have all of this while no permission change overlaps them, and
\* again when the session has come to rest after one that did.
TurnsHold == TypedInOrder /\ (Together => mixed) /\ (~mixed => TurnsInv)

\* Permission calls begin between turns, and what their keys do to a turn that a
\* failed delivery or a restart has left behind is to stop it or to let it go on.
LEMMA PermissionKeepsTurns ==
  ASSUME ~Together', TypeInv, TurnsInv, Permission
  PROVE  TurnsInv'
<1> USE DEF TurnsInv
<1>1. slot = 0 /\ caller = "out" /\ poller.at = "out"
  <2>1. CASE \E op \in {"add", "delete"}, named \in Requests : BeginCall(op, named)
    <3>1. call'.at \in {"record", "open"}
      BY <2>1 DEF BeginCall
    <3> QED BY <3>1 DEF Permission, turns, Together, NoTurn
  <2>2. CASE Change
    <3>1. call.at # "out"
      BY <2>2
      DEF Change, Edit, OpenView, TakeScope, ViewOpened, ViewDidNotOpen, PressAdd, AddRule,
          AddDidNotOpen, SelectRule, NotListed, DeleteRule, RefuseToDelete, AllTyped,
          PressEscapeToClose, ViewClosed, Verify, Record
    <3> QED BY <3>1 DEF TurnsApart
  <2> QED BY <2>1, <2>2 DEF Permission
<1>2. UNCHANGED <<slot, caller, poller, delivered, age, saw, answer>>
  BY DEF Permission, turns, memory
<1>3. /\ UNCHANGED log
      /\ status' \in [Turns -> {"unsent", "typed", "running", "asking", "done", "stopped", "lost"}]
      /\ \A t \in Turns : \/ status'[t] = status[t]
                          \/ Live(t) /\ status'[t] \in {"running", "stopped"}
  <2> status \in [Turns -> {"unsent", "typed", "running", "asking", "done", "stopped", "lost"}]
    BY DEF TypeInv, TypeOK, PaneTypeOK
  <2>1. CASE OpenView
    BY <2>1 DEF OpenView, TypeCommand, Live
  <2>2. CASE PressEscapeToClose
    BY <2>2 DEF PressEscapeToClose, Escape, Live
  <2>3. ASSUME ~OpenView, ~PressEscapeToClose PROVE UNCHANGED <<status, log>>
    BY <2>3
    DEF Permission, BeginCall, Change, Edit, TakeScope, ViewOpened, ViewDidNotOpen, PressAdd, AddRule,
        AddDidNotOpen, SelectRule, NotListed, DeleteRule, RefuseToDelete, AllTyped, ViewClosed, Verify,
        Record, Key, Move, TypeRule, DeleteKey, pane
  <2> QED BY <2>1, <2>2, <2>3
<1>4. \A t \in Turns : status[t] # "typed" /\ status'[t] # "typed"
  <2>1. \A t \in Turns : t # 0
    BY PaneAssumption DEF Turns
  <2> QED BY <1>1, <1>3, <2>1 DEF TypedIsHeld
<1>5. OneAtATime'
  BY <1>3 DEF OneAtATime, Live, Latest
<1>6. AnswersFollowEcho'
  BY <1>1, <1>2 DEF AnswersFollowEcho
<1>7. TurnsApart' /\ SlotIsLatest' /\ TypedIsHeld' /\ SafeToType' /\ PolledIsSent' /\ NotTrusted'
  BY <1>1, <1>2, <1>4 DEF TurnsApart, SlotIsLatest, TypedIsHeld, SafeToType, PolledIsSent, NotTrusted, Escaping
<1>8. JudgedHasEnded'
  BY <1>1, <1>2 DEF JudgedHasEnded, Ended
<1> QED BY <1>5, <1>6, <1>7, <1>8

\* There is one last message.
LEMMA LatestIsOne ==
  ASSUME NEW t, NEW u, Latest(t), Latest(u)
  PROVE  t = u
<1>1. t \in Nat /\ u \in Nat
  BY PaneAssumption DEF Latest, Turns
<1>2. ~(t > u) /\ ~(u > t)
  BY DEF Latest
<1> QED BY <1>1, <1>2

\* What of the invariant only says what was typed and answered.
LEMMA SamePaneTurns ==
  ASSUME TurnsInv, UNCHANGED pane
  PROVE  /\ OneAtATime'
         /\ (slot' # 0 \/ caller' = "await_busy" => slot # 0 \/ caller = "await_busy") => AnswersFollowEcho'
BY DEF TurnsInv, OneAtATime, AnswersFollowEcho, Live, Latest, pane

\* An idle face is that of a session at the chat with nothing at work.
LEMMA IdleFace ==
  ASSUME TypeInv
  PROVE  /\ Pane.face = Face
         /\ Face = "idle" => screen = "chat" /\ \A t \in Turns : status[t] \notin {"running", "asking"}
         /\ screen = "chat" =>
              /\ (\E t \in Turns : status[t] \in {"running", "asking"}) => Face \in {"prompt", "busy"}
              /\ (\A t \in Turns : status[t] \notin {"running", "asking"}) => Face = "idle"
<1>1. Pane.face = Face
  <2>1. CASE Face = "rules"
    BY <2>1 DEF Pane
  <2>2. CASE Face # "rules"
    BY <2>2 DEF Pane
  <2> QED BY <2>1, <2>2
<1>2. screen \in Editor \cup {"boot", "trust", "chat"}
  BY DEF TypeInv, TypeOK, PaneTypeOK
<1>3. CASE screen = "chat"
  <2>1. Face = IF Some("asking") THEN "prompt" ELSE IF Some("running") THEN "busy" ELSE "idle"
    BY <1>3 DEF Face, Editor
  <2> QED BY <1>1, <1>3, <2>1 DEF Some
<1>4. CASE screen # "chat"
  BY <1>1, <1>2, <1>4 DEF Face, Editor
<1> QED BY <1>3, <1>4

\* The beginnings, the deliveries that type nothing, and the passing of time.
LEMMA BeginKeepsTurns ==
  ASSUME ~Together', TypeInv, TurnsInv, UNCHANGED permissions,
         Begin \/ ReadyToType \/ DeliveryRefused \/ SettleTime
  PROVE  TurnsInv'
<1> USE DEF TurnsInv
<1>0. UNCHANGED <<pane, call>> /\ UNCHANGED <<screen, status, log, shown>>
  BY DEF permissions, Begin, Interrupt, Displace, BeginDelivery, BeginStop, ReadyToType,
         DeliveryRefused, SettleTime, pane
<1>1. OneAtATime' /\ AnswersFollowEcho'
  <2>1. UNCHANGED slot /\ (caller' = "await_busy" => caller = "await_busy")
    BY DEF Begin, Interrupt, Displace, BeginDelivery, BeginStop, ReadyToType, DeliveryRefused,
           SettleTime, SlotIsLatest
  <2> QED BY <1>0, <2>1, SamePaneTurns
<1>2. CASE Begin
  <2>0. call.at = "out"
    BY <1>0, <1>2
    DEF Begin, Interrupt, Displace, BeginDelivery, BeginStop, Together, NoTurn
  <2>1. CASE Interrupt \/ Displace
    BY <1>0, <1>1, <2>0, <2>1
    DEF Interrupt, Displace, BeginStop, Forget, TurnsApart, SlotIsLatest, TypedIsHeld, SafeToType,
        PolledIsSent, NotTrusted, JudgedHasEnded, Ended, Escaping, Live, Latest, Working
  <2>2. CASE BeginDelivery
    <3>1. \A t \in Turns : status[t] # "typed"
      <4>1. \A t \in Turns : t # 0
        BY PaneAssumption DEF Turns
      <4> QED BY <2>2, <4>1 DEF BeginDelivery, TypedIsHeld
    <3>2. shown.face = "idle" => screen = "chat" /\ \A t \in Turns : ~Live(t)
      BY <2>2, <3>1, IdleFace DEF BeginDelivery, Fresh, Live
    <3> QED
      BY <1>0, <1>1, <2>0, <2>2, <3>1, <3>2
      DEF BeginDelivery, memory, TurnsApart, SlotIsLatest, TypedIsHeld, SafeToType,
          PolledIsSent, NotTrusted, JudgedHasEnded, Ended, Escaping, Live, Latest, Working
  <2> QED BY <1>2, <2>1, <2>2 DEF Begin
<1>3. CASE ReadyToType \/ DeliveryRefused
  BY <1>0, <1>1, <1>3
  DEF ReadyToType, AwaitIdle, DeliveryRefused, memory, TurnsApart, SlotIsLatest, TypedIsHeld, SafeToType,
      PolledIsSent, NotTrusted, JudgedHasEnded, Ended, Escaping, Live, Latest, Working
<1>4. CASE SettleTime
  <2>1. slot # 0 /\ Live(slot) => Working
    <3>1. \A t \in Turns : status[t] # "typed"
      BY <1>4 DEF SettleTime, Some
    <3>2. slot # 0 => slot \in Turns /\ screen = "chat"
      BY DEF SlotIsLatest, TurnsApart, Latest
    <3>3. shown.face = Face
      BY <1>4, IdleFace DEF SettleTime, Fresh
    <3> QED BY <3>1, <3>2, <3>3, IdleFace DEF Live, Working
  <2> QED
    BY <1>0, <1>1, <1>4, <2>1
    DEF SettleTime, TurnsApart, SlotIsLatest, TypedIsHeld, SafeToType,
        PolledIsSent, NotTrusted, JudgedHasEnded, Ended, Escaping, Live, Latest, Working
<1> QED BY <1>2, <1>3, <1>4

\* An Escape at the chat leaves no live message; at any other screen there is none of
\* this invariant's concern.
LEMMA EscapeStops ==
  ASSUME TypeInv, TurnsInv, Escape, screen = "chat"
  PROVE  /\ screen' = "chat" /\ log' = log
         /\ \A t \in Turns : ~Live(t)' /\ (Ended(t) => Ended(t)')
                             /\ (status'[t] = "unsent" <=> status[t] = "unsent")
                             /\ (Live(t) => Ended(t)')
                             /\ (status'[t] = "lost" <=> status[t] = "lost")
         /\ OneAtATime'
         /\ (slot' # 0 \/ caller' = "await_busy" => slot # 0 \/ caller = "await_busy") => AnswersFollowEcho'
<1>1. status \in [Turns -> {"unsent", "typed", "running", "asking", "done", "stopped", "lost"}]
  BY DEF TypeInv, TypeOK, PaneTypeOK
<1>2. /\ screen' = "chat" /\ log' = log
      /\ \A t \in Turns : status'[t] = IF status[t] \in {"typed", "running", "asking"}
                                       THEN "stopped" ELSE status[t]
  BY <1>1 DEF Escape
<1>3. \A t : Latest(t) => Latest(t)'
  BY <1>2 DEF Latest
<1>4. /\ OneAtATime'
      /\ (slot' # 0 \/ caller' = "await_busy" => slot # 0 \/ caller = "await_busy") => AnswersFollowEcho'
  BY <1>2, <1>3 DEF TurnsInv, OneAtATime, AnswersFollowEcho, Live
<1> QED BY <1>2, <1>4 DEF Live, Ended

\* The stop of stop_remote_execution, under the lock; and that of an approval, beside
\* it.
LEMMA StopKeepsTurns ==
  ASSUME TypeInv, TurnsInv, Turn, PressEscape \/ ApprovalStop
  PROVE  TurnsInv'
<1> USE DEF TurnsInv
<1>0. UNCHANGED call
  BY DEF Turn, InTurn, permissions
<1>1. screen = "chat" /\ Escape
  BY DEF PressEscape, ApprovalStop, TurnsApart, SlotIsLatest, Escaping
<1>2. /\ screen' = "chat" /\ log' = log
      /\ \A t \in Turns : ~Live(t)' /\ (Ended(t) => Ended(t)')
                          /\ (status'[t] = "unsent" <=> status[t] = "unsent")
                          /\ (Live(t) => Ended(t)')
                          /\ (status'[t] = "lost" <=> status[t] = "lost")
      /\ OneAtATime' /\ AnswersFollowEcho'
  <2>1. slot' # 0 \/ caller' = "await_busy" => slot # 0 \/ caller = "await_busy"
    BY DEF PressEscape, ApprovalStop
  <2> QED BY <1>1, <2>1, EscapeStops
<1>3. (\A t \in Turns : status'[t] # "typed") /\ \A t : Latest(t) => Latest(t)'
  BY <1>2 DEF Live, Latest
<1>4. UNCHANGED shown /\ (poller.at # "out" => poller.turn \in Turns)
  BY DEF PressEscape, ApprovalStop, PolledIsSent
<1>5. CASE PressEscape
  <2>1. /\ UNCHANGED <<poller, delivered, age, saw, answer>> /\ slot' = 0
        /\ caller' \in {"out", "await_idle"} /\ caller \in {"escape_stop", "escape_swap"}
    BY <1>5 DEF PressEscape, memory
  <2>2. TurnsApart' /\ SlotIsLatest' /\ TypedIsHeld' /\ SafeToType'
    BY <1>0, <1>2, <1>3, <2>1 DEF TurnsApart, SlotIsLatest, TypedIsHeld, SafeToType, Escaping
  <2>3. poller.at # "out" => poller.turn \in Turns /\ ~Live(poller.turn)'
                                /\ status'[poller.turn] \notin {"unsent", "lost"}
    BY <1>2, <2>1 DEF PolledIsSent
  <2>4. PolledIsSent' /\ NotTrusted'
    BY <1>3, <2>1, <2>3 DEF PolledIsSent, NotTrusted, Live
  <2>5. poller.at = "read" => Ended(poller.turn)'
    <3>1. poller.at = "read" => poller.turn \in Turns /\ status[poller.turn] \notin {"unsent", "lost"}
      BY DEF PolledIsSent
    <3>2. \A t \in Turns : status[t] \notin {"unsent", "lost"} => Live(t) \/ Ended(t)
      BY DEF TypeInv, TypeOK, PaneTypeOK, Live, Ended
    <3> QED BY <1>2, <2>1, <3>1, <3>2 DEF Ended
  <2>6. JudgedHasEnded'
    BY <2>1, <2>5 DEF JudgedHasEnded, Ended
  <2> QED BY <1>2, <2>2, <2>4, <2>6
<1>6. CASE ApprovalStop
  <2>1. UNCHANGED slot /\ (slot # 0 => ~Live(slot)')
    BY <1>2, <1>6 DEF ApprovalStop, SlotIsLatest, Latest, Live
  <2> QED
    BY <1>0, <1>2, <1>3, <1>4, <1>6, <2>1
    DEF ApprovalStop, Forget, TurnsApart, SlotIsLatest, TypedIsHeld, SafeToType, PolledIsSent, NotTrusted,
        JudgedHasEnded, Ended, Escaping, Latest
<1> QED BY <1>5, <1>6

\* The body, and the echo it leaves.
LEMMA TypeBodyKeepsTurns ==
  ASSUME TypeInv, TypedInOrder, TurnsInv, Turn, TypeBody
  PROVE  TurnsInv'
<1> USE DEF TurnsInv
<1>0. /\ UNCHANGED <<call, screen, shown, slot, poller, delivered, age, saw, answer>>
      /\ screen = "chat" /\ slot = 0 /\ shown.face = "idle" /\ caller = "type" /\ caller' = "await_busy"
      /\ \A t \in Turns : ~Live(t)
  BY DEF Turn, InTurn, permissions, TypeBody, TypeMessage, memory, TurnsApart, SlotIsLatest, SafeToType
<1>1. PICK n \in Turns : /\ n = NextTurn /\ status[n] = "unsent"
                         /\ \A u \in Turns : status[u] = "unsent" => n <= u
  BY NextIsUnsent DEF TypeInv, Equipped, TypeBody, Unsent
<1>2. /\ \A t \in Turns : status'[t] = IF t = n THEN "typed" ELSE status[t]
      /\ log' = Append(log, <<"echo", n>>)
  BY <1>0, <1>1 DEF TypeBody, TypeMessage, TypeInv, TypeOK, PaneTypeOK
<1>3. Turns \subseteq Nat
  BY PaneAssumption DEF Turns
<1>4. OneAtATime'
  <2>1. Latest(n)'
    BY <1>1, <1>2, <1>3 DEF TypedInOrder, Latest
  <2> QED BY <1>0, <1>1, <1>2, <2>1 DEF OneAtATime, Live
<1>5. AnswersFollowEcho'
  <2>1. log \in Seq({"echo", "answer"} \X Turns)
    BY DEF TypeInv, TypeOK, PaneTypeOK
  <2>2. /\ DOMAIN log' = 1 .. Len(log) + 1 /\ Len(log) \in Nat
        /\ log'[Len(log) + 1] = <<"echo", n>>
    BY <1>1, <1>2, <2>1
  <2>3. \A i \in DOMAIN log' : i # Len(log) + 1 => Len(log) + 1 > i
    BY <2>2
  <2> QED BY <2>2, <2>3 DEF AnswersFollowEcho
<1>6. TurnsApart' /\ SlotIsLatest' /\ TypedIsHeld' /\ SafeToType'
  <2>1. Latest(n)' /\ \A t : Latest(t)' => t = n
    <3>1. Latest(n)'
      BY <1>1, <1>2, <1>3 DEF TypedInOrder, Latest
    <3>2. status'[n] # "unsent" /\ \A t \in Turns : t > n => status'[t] = "unsent"
      BY <3>1 DEF Latest
    <3>3. ASSUME NEW t \in Turns, status'[t] # "unsent", \A u \in Turns : u > t => status'[u] = "unsent"
          PROVE  t = n
      <4>1. ~(t > n) /\ ~(n > t) /\ t \in Nat /\ n \in Nat
        BY <1>3, <3>2, <3>3
      <4> QED BY <4>1
    <3> QED BY <3>1, <3>3 DEF Latest
  <2> QED BY <1>0, <1>1, <1>2, <2>1 DEF TurnsApart, SlotIsLatest, TypedIsHeld, SafeToType, Escaping
<1>7. poller.at # "out" =>
        poller.turn \in Turns /\ poller.turn # n /\ status'[poller.turn] = status[poller.turn]
  BY <1>1, <1>2 DEF PolledIsSent
<1>8. PolledIsSent' /\ NotTrusted' /\ JudgedHasEnded'
  BY <1>0, <1>7 DEF PolledIsSent, NotTrusted, JudgedHasEnded, Ended, Escaping, Live
<1> QED BY <1>4, <1>5, <1>6, <1>8

\* The wait for the footer, and the slot's fill.
LEMMA AwaitBusyKeepsTurns ==
  ASSUME TypeInv, TurnsInv, Turn, NEW seen \in BOOLEAN, AwaitBusy(seen)
  PROVE  TurnsInv'
<1> USE DEF TurnsInv
<1> DEFINE n == JustTyped
<1>0. /\ UNCHANGED <<call, screen, status, log, shown, poller, answer>>
      /\ screen = "chat" /\ slot = 0 /\ caller = "await_busy" /\ caller' = "out" /\ slot' = n
      /\ delivered' = n /\ age' = "fresh" /\ saw' = seen /\ call.at = "out"
      /\ UNCHANGED pane
  BY DEF Turn, InTurn, permissions, AwaitBusy, SawNow, pane, TurnsApart, SlotIsLatest
<1>1. Latest(n) /\ n # 0
  <2>1. n \in Turns \ Unsent /\ \A u \in Turns \ Unsent : u <= n
    BY <1>0, JustTypedIsSent DEF TypeInv, Equipped
  <2>2. \A u \in Turns : u \in Nat \ {0}
    BY PaneAssumption DEF Turns
  <2> QED BY <2>1, <2>2 DEF Latest, Unsent
<1>2. OneAtATime' /\ AnswersFollowEcho'
  BY <1>0, SamePaneTurns
<1> HIDE DEF n
<1>3. \A t \in Turns : Live(t) => t = n
  <2>1. Turns \subseteq Nat
    BY PaneAssumption DEF Turns
  <2> QED BY <1>1, <2>1 DEF OneAtATime, Latest
<1>4. TurnsApart' /\ SlotIsLatest' /\ SafeToType'
  BY <1>0, <1>1 DEF TurnsApart, SlotIsLatest, SafeToType, Escaping, Latest
<1>5. TypedIsHeld'
  BY <1>0, <1>3 DEF TypedIsHeld, Live
<1>6. poller.at # "out" => poller.turn \in Turns /\ ~Live(poller.turn)
  BY <1>0, PaneAssumption DEF PolledIsSent, Turns
<1>7. PolledIsSent'
  <2>1. seen => \A t \in Turns : status[t] # "typed"
    BY DEF AwaitBusy, TypedIsHeld
  <2>2. ~seen /\ poller.at = "release" => \A t \in Turns : status[t] # "typed"
    BY DEF AwaitBusy, Some
  <2> QED BY <1>0, <1>6, <2>1, <2>2 DEF PolledIsSent, Live
<1>8. NotTrusted'
  <2>1. CASE seen
    <3>1. Working /\ status[n] # "typed"
      BY <1>1, <2>1 DEF AwaitBusy, Working, TypedIsHeld, Latest
    <3> QED BY <1>0, <1>6, <3>1 DEF NotTrusted, Escaping, Live, Working
  <2>2. CASE ~seen
    <3>1. poller.at # "judge"
      BY <2>2 DEF AwaitBusy
    <3> QED BY <1>0, <2>2, <3>1 DEF NotTrusted
  <2> QED BY <2>1, <2>2
<1>9. JudgedHasEnded'
  BY <1>0 DEF JudgedHasEnded, Ended, Escaping
<1> QED BY <1>2, <1>4, <1>5, <1>7, <1>8, <1>9

\* The capture of a poll, its judgement, and the report of an approval.
LEMMA PollKeepsTurns ==
  ASSUME TypeInv, TurnsInv, Turn, PollCapture \/ PollJudge \/ ApprovalReported
  PROVE  TurnsInv'
<1> USE DEF TurnsInv
<1>0. UNCHANGED <<pane, call, screen, status, log, shown, caller>>
  BY DEF Turn, InTurn, permissions, PollCapture, PollJudge, ApprovalReported, pane
<1>1. OneAtATime' /\ AnswersFollowEcho'
  <2>1. slot' # 0 => slot # 0
    BY DEF PollCapture, PollJudge, ApprovalReported
  <2> QED BY <1>0, <2>1, SamePaneTurns
<1>2. CASE PollCapture
  <2>1. UNCHANGED <<slot, delivered, age, saw>> /\ slot # 0 /\ Latest(slot) /\ call.at = "out"
        /\ status[slot] # "lost"
        /\ poller' = [at |-> "judge", turn |-> slot, face |-> Capture]
        /\ Capture = (IF shown.face \in {"prompt", "busy"} THEN shown.face ELSE "idle")
    BY <1>2 DEF PollCapture, Capture, memory, SlotIsLatest, TurnsApart
  <2>2. NotTrusted'
    <3>1. shown.face = "busy" /\ Live(slot) => Working /\ status[slot] # "typed"
      BY <2>1 DEF TypedIsHeld, Working, Latest
    <3> QED BY <1>0, <2>1, <3>1 DEF NotTrusted, Escaping, Live, Working
  <2>3. PolledIsSent'
    BY <1>0, <2>1 DEF PolledIsSent, Latest, Live
  <2> QED
    BY <1>0, <1>1, <2>1, <2>2, <2>3
    DEF TurnsApart, SlotIsLatest, TypedIsHeld, SafeToType, JudgedHasEnded, Ended, Escaping, Latest, Live
<1>3. CASE PollJudge
  <2>1. UNCHANGED <<slot, delivered, age>> /\ poller.at = "judge" /\ saw' = (saw \/ poller.face = "busy")
        /\ poller' = CASE poller.face = "prompt" -> [poller EXCEPT !.at = "approval", !.face = "idle"]
                       [] Finished -> [poller EXCEPT !.at = "read", !.face = "idle"]
                       [] OTHER -> NotPolling
    BY <1>3 DEF PollJudge
  <2>2. poller \in [at : {"out", "judge", "approval", "release", "read"}, turn : 0 .. MaxTurns, face : Faces]
    BY DEF TypeInv, TypeOK, TurnsTypeOK
  <2>3. poller'.at \in {"approval", "read", "out"} /\ (poller'.at # "out" => poller'.turn = poller.turn)
        /\ (poller'.at = "read" => Finished)
    BY <2>1, <2>2 DEF NotPolling, Finished
  <2>4. NotTrusted'
    BY <1>0, <2>1, <2>3 DEF NotTrusted, Escaping, Live, Working
  <2>5. JudgedHasEnded'
    <3>1. ASSUME Finished, ~Escaping PROVE Ended(poller.turn)
      <4>1. ~Live(poller.turn)
        BY <2>1, <3>1 DEF Finished, NotTrusted
      <4>2. poller.turn \in Turns /\ status[poller.turn] \notin {"unsent", "lost"}
        BY <2>1 DEF PolledIsSent
      <4> QED BY <4>1, <4>2 DEF Live, Ended, TypeInv, TypeOK, PaneTypeOK
    <3> QED BY <1>0, <2>3, <3>1 DEF JudgedHasEnded, Escaping, Ended
  <2>6. PolledIsSent' /\ TurnsApart'
    BY <1>0, <2>1, <2>3 DEF PolledIsSent, TurnsApart, Live
  <2> QED
    BY <1>0, <1>1, <2>1, <2>4, <2>5, <2>6
    DEF SlotIsLatest, TypedIsHeld, SafeToType, Escaping, Latest, Live
<1>4. CASE ApprovalReported
  <2>1. /\ UNCHANGED <<delivered, age, saw>> /\ caller = "out" /\ slot' = 0 /\ poller'.at = "out"
        /\ call.at = "out" /\ \A t \in Turns : status[t] # "typed"
    BY <1>4 DEF ApprovalReported, memory, NotPolling, TurnsApart, PolledIsSent
  <2> QED
    BY <1>0, <1>1, <2>1
    DEF TurnsApart, SlotIsLatest, TypedIsHeld, SafeToType, PolledIsSent, NotTrusted, JudgedHasEnded, Ended,
        Escaping
<1> QED BY <1>2, <1>3, <1>4

\* What is kept of the transcript is the last message's.
LEMMA ResultIsOwn ==
  ASSUME TypeInv, TurnsInv, slot # 0
  PROVE  Result(slot) \in {"own", "empty"}
<1> USE DEF TurnsInv
<1>1. delivered # 0 /\ Latest(slot)
  BY DEF SlotIsLatest
<1>2. log \in Seq({"echo", "answer"} \X Turns) /\ Len(log) \in Nat /\ DOMAIN log = 1 .. Len(log)
  BY DEF TypeInv, TypeOK, PaneTypeOK
<1> DEFINE kept == SubSeq(log, LastEcho + 1, Len(log))
<1>3. ASSUME Echoes # {}
      PROVE  \A i \in DOMAIN kept : kept[i] = <<"answer", slot>>
  <2>1. Echoes \in SUBSET (1 .. Len(log))
    BY <1>2 DEF Echoes
  <2>2. \E i \in Echoes : \A j \in Echoes : j <= i
    BY <1>2, <1>3, <2>1, GreatestOf
  <2>3. LastEcho \in Echoes /\ \A j \in Echoes : j <= LastEcho
    BY <2>2 DEF LastEcho
  <2> DEFINE e == LastEcho
  <2>4. e \in 1 .. Len(log) /\ \A j \in DOMAIN log : j > e => log[j][1] # "echo"
    BY <1>2, <2>1, <2>3 DEF Echoes
  <2> HIDE DEF e
  <2>5. /\ DOMAIN SubSeq(log, e + 1, Len(log)) = 1 .. Len(log) - e
        /\ \A i \in 1 .. Len(log) - e :
             SubSeq(log, e + 1, Len(log))[i] = log[e + i] /\ e + i \in DOMAIN log /\ e + i > e
    BY <1>2, <2>4
  <2>6. ASSUME NEW k \in DOMAIN log, k > e PROVE log[k] = <<"answer", slot>>
    <3>1. log[k] \in {"echo", "answer"} \X Turns
      BY <1>2
    <3>2. log[k][1] = "answer" /\ \A j \in DOMAIN log : j > k => log[j][1] # "echo"
      BY <1>2, <2>4, <2>6, <3>1
    <3>3. Latest(log[k][2])
      BY <2>6, <3>2 DEF AnswersFollowEcho
    <3>4. log[k][2] = slot
      BY <1>1, <3>3, LatestIsOne
    <3> QED BY <3>1, <3>2, <3>4
  <2> QED BY <2>5, <2>6 DEF e
<1> HIDE DEF kept
<1>4. CASE Echoes = {} \/ kept = <<>>
  BY <1>1, <1>4 DEF Result, kept
<1>5. CASE Echoes # {} /\ kept # <<>>
  <2>1. Result(slot) = IF \A i \in DOMAIN kept : kept[i] = <<"answer", slot>> THEN "own" ELSE "another's"
    BY <1>1, <1>5 DEF Result, kept
  <2> QED BY <1>3, <1>5, <2>1
<1> QED BY <1>4, <1>5

\* The result is read of a turn that has ended.
LEMMA ReadKeepsTurns ==
  ASSUME TypeInv, TurnsInv, Turn, ReadResult
  PROVE  TurnsInv'
<1> USE DEF TurnsInv
<1>0. /\ UNCHANGED <<pane, call, screen, status, log, shown, caller, delivered, age, saw>>
      /\ poller.at = "read" /\ poller'.at = "out" /\ call.at = "out"
  BY DEF Turn, InTurn, permissions, ReadResult, memory, pane, NotPolling, TurnsApart
<1>1. OneAtATime' /\ AnswersFollowEcho'
  <2>1. slot' # 0 => slot # 0
    BY DEF ReadResult
  <2> QED BY <1>0, <2>1, SamePaneTurns
<1>2. CASE slot = poller.turn /\ caller = "out"
  <2>1. slot' = 0
    BY <1>2 DEF ReadResult
  <2>2. Ended(slot)
    BY <1>0, <1>2 DEF JudgedHasEnded, Escaping, Ended
  <2>3. \A t \in Turns : status[t] # "typed"
    BY <1>2, <2>2 DEF TypedIsHeld, Ended
  <2> QED
    BY <1>0, <1>1, <1>2, <2>1, <2>3
    DEF TurnsApart, SlotIsLatest, TypedIsHeld, SafeToType, PolledIsSent, NotTrusted, JudgedHasEnded, Ended,
        Escaping
<1>3. CASE ~(slot = poller.turn /\ caller = "out")
  <2>1. UNCHANGED slot
    BY <1>3 DEF ReadResult
  <2> QED
    BY <1>0, <1>1, <2>1
    DEF TurnsApart, SlotIsLatest, TypedIsHeld, SafeToType, PolledIsSent, NotTrusted, JudgedHasEnded, Ended,
        Escaping, Live, Latest, Working
<1> QED BY <1>2, <1>3

\* A pane that is painted while a turn is live shows it.
LEMMA PaintKeepsTurns ==
  ASSUME TypeInv, TurnsInv, Session, Paint
  PROVE  TurnsInv'
<1> USE DEF TurnsInv
<1>0. /\ UNCHANGED <<call, screen, status, log, allow, cursor>>
      /\ UNCHANGED <<slot, caller, poller, delivered, age, saw, answer>>
      /\ shown' = Pane
  BY DEF Session, InSession, Paint, turns, memory, permissions
<1>1. OneAtATime' /\ AnswersFollowEcho' /\ TurnsApart' /\ SlotIsLatest' /\ PolledIsSent'
      /\ JudgedHasEnded'
  BY <1>0
  DEF OneAtATime, AnswersFollowEcho, TurnsApart, SlotIsLatest, PolledIsSent,
      JudgedHasEnded, Ended, Escaping, Live, Latest
<1>2. shown'.face = Face
  BY <1>0 DEF Pane
<1>3. \A t, u \in Turns : Live(t) /\ Live(u) => t = u
  BY LatestIsOne DEF OneAtATime
<1>4. ASSUME NEW t \in Turns, Live(t), screen = "chat"
      PROVE  IF status[t] = "typed" THEN Face = "idle" ELSE Face \in {"prompt", "busy"}
  <2>1. CASE status[t] = "typed"
    <3>1. \A u \in Turns : status[u] \notin {"running", "asking"}
      BY <1>3, <1>4, <2>1 DEF Live
    <3> QED BY <1>4, <2>1, <3>1, IdleFace
  <2>2. CASE status[t] # "typed"
    BY <1>4, <2>2, IdleFace DEF Live
  <2> QED BY <2>1, <2>2
<1>5. TypedIsHeld'
  <2>1. ASSUME NEW t \in Turns, status[t] = "typed" PROVE screen = "chat"
    BY <2>1, PaneAssumption DEF TypedIsHeld, TurnsApart, Turns
  <2> QED BY <1>0, <1>2, <1>4, <2>1 DEF TypedIsHeld, Live
<1>6. SafeToType'
  <2>1. caller = "await_idle" => \A t \in Turns : status[t] # "typed"
    BY PaneAssumption DEF TypedIsHeld, SlotIsLatest, Turns
  <2>2. Face = "idle" => screen = "chat" /\ \A t \in Turns : status[t] \notin {"running", "asking"}
    BY IdleFace
  <2>3. caller = "type" => Face = "idle"
    BY IdleFace DEF SafeToType, TurnsApart, Live
  <2> QED BY <1>0, <1>2, <2>1, <2>2, <2>3 DEF SafeToType, Live
<1>7. NotTrusted'
  <2>1. slot # 0 => slot \in Turns /\ screen = "chat"
    BY DEF SlotIsLatest, TurnsApart, Latest
  <2>2. slot # 0 /\ Live(slot) /\ status[slot] = "typed" => ~Working
    BY <2>1 DEF TypedIsHeld, Working
  <2> QED BY <1>0, <1>2, <1>4, <2>1, <2>2 DEF NotTrusted, Working, Escaping, Live
<1> QED BY <1>1, <1>5, <1>6, <1>7

\* What the session and a human do to the screen and to the turns.
LEMMA SessionKeepsTurns ==
  ASSUME TypeInv, TurnsInv, Session
  PROVE  TurnsInv'
<1> USE DEF TurnsInv
<1>0. UNCHANGED <<call, slot, caller, poller, delivered, age, saw, answer>>
  BY DEF Session, InSession, turns, memory, permissions
<1>1. CASE Boot \/ ByHand
  BY <1>0, <1>1
  DEF Boot, ByHand, Editor, OneAtATime, AnswersFollowEcho, TurnsApart, SlotIsLatest,
      TypedIsHeld, SafeToType, PolledIsSent, NotTrusted, JudgedHasEnded, Ended, Escaping, Live, Latest, Working
<1>2. ASSUME NEW t \in Turns, StartTurn(t) \/ EndTurn(t) \/ AskApproval(t)
      PROVE  TurnsInv'
  <2>1. /\ UNCHANGED <<screen, shown>>
        /\ \A u \in Turns : u # t => status'[u] = status[u]
        /\ \/ status[t] = "typed" /\ status'[t] = "running"
           \/ status[t] = "running" /\ status'[t] \in {"done", "asking"}
    BY <1>2 DEF StartTurn, EndTurn, AskApproval, TypeInv, TypeOK, PaneTypeOK
  <2>2. \A u : Latest(u) => Latest(u)'
    BY <2>1 DEF Latest
  <2>3. Latest(t)
    BY <2>1 DEF OneAtATime, Live
  <2>4. OneAtATime'
    BY <2>1, <2>2 DEF OneAtATime, Live
  <2>5. AnswersFollowEcho'
    <3>1. CASE log' = log
      BY <1>0, <2>2, <3>1 DEF AnswersFollowEcho
    <3>2. CASE log' = Append(log, <<"answer", t>>)
      <4>1. log \in Seq({"echo", "answer"} \X Turns)
        BY DEF TypeInv, TypeOK, PaneTypeOK
      <4>2. /\ DOMAIN log' = 1 .. Len(log) + 1 /\ DOMAIN log = 1 .. Len(log) /\ Len(log) \in Nat
            /\ log'[Len(log) + 1] = <<"answer", t>>
            /\ \A i \in 1 .. Len(log) : log'[i] = log[i]
        BY <3>2, <4>1
      <4>4. SUFFICES ASSUME slot # 0 \/ caller = "await_busy" PROVE AnswersFollowEcho'
        BY <1>0 DEF AnswersFollowEcho
      <4>3. ASSUME NEW i \in DOMAIN log', log'[i][1] = "answer",
                   \A j \in DOMAIN log' : j > i => log'[j][1] # "echo"
            PROVE  Latest(log'[i][2])
        <5>1. CASE i = Len(log) + 1
          BY <2>3, <4>2, <5>1
        <5>2. CASE i \in 1 .. Len(log)
          <6>1. log[i][1] = "answer" /\ \A j \in DOMAIN log : j > i => log[j][1] # "echo"
            BY <4>2, <4>3, <5>2
          <6> QED BY <4>2, <4>4, <5>2, <6>1 DEF AnswersFollowEcho
        <5> QED BY <4>2, <5>1, <5>2
      <4> QED BY <2>2, <4>3 DEF AnswersFollowEcho, Latest
    <3>3. CASE log' = <<<<"answer", t>>>>
      <4>1. DOMAIN log' = {1} /\ log'[1] = <<"answer", t>>
        BY <3>3
      <4> QED BY <2>2, <2>3, <4>1 DEF AnswersFollowEcho, Latest
    <3> QED BY <1>2, <3>1, <3>2, <3>3 DEF StartTurn, EndTurn, AskApproval
  <2>6. TurnsApart' /\ SlotIsLatest' /\ TypedIsHeld' /\ SafeToType' /\ PolledIsSent'
    BY <1>0, <2>1, <2>2
    DEF TurnsApart, SlotIsLatest, TypedIsHeld, SafeToType, PolledIsSent, Escaping, Live, Latest
  <2>7. NotTrusted'
    <3>1. \A u \in Turns : Live(u)' => Live(u)
      BY <2>1 DEF Live
    <3>2. (slot # 0 => slot \in Turns) /\ (poller.at = "judge" => poller.turn \in Turns)
      BY DEF SlotIsLatest, Latest, PolledIsSent
    <3>3. \A u \in Turns : status'[u] = "typed" => status[u] = "typed"
      BY <2>1
    <3> QED BY <1>0, <2>1, <3>1, <3>2, <3>3 DEF NotTrusted, Escaping, Working
  <2>8. JudgedHasEnded'
    BY <1>0, <2>1 DEF JudgedHasEnded, Ended, Escaping, PolledIsSent
  <2> QED BY <2>4, <2>5, <2>6, <2>7, <2>8
<1> QED BY <1>1, <1>2, PaintKeepsTurns DEF Session, TurnProgress

\* A step that types no message leaves open which are still to be typed.
LEMMA OrderIsKept ==
  ASSUME TypeInv, TypedInOrder, [Next]_vars
  PROVE  TypedInOrder'
<1>1. status \in [Turns -> {"unsent", "typed", "running", "asking", "done", "stopped", "lost"}]
  BY DEF TypeInv, TypeOK, PaneTypeOK
<1>2. ASSUME \A t \in Turns : status'[t] = "unsent" <=> status[t] = "unsent" PROVE TypedInOrder'
  BY <1>2 DEF TypedInOrder
<1>3. CASE Turn
  <2>1. CASE TypeBody
    <3>1. PICK n \in Turns : n = NextTurn /\ \A u \in Turns : status[u] = "unsent" => n <= u
      BY <2>1, NextIsUnsent DEF TypeInv, Equipped, TypeBody, Unsent
    <3>2. \A t \in Turns : status'[t] = "unsent" <=> t # n /\ status[t] = "unsent"
      BY <1>1, <2>1, <3>1 DEF TypeBody, TypeMessage
    <3>3. Turns \subseteq Nat
      BY PaneAssumption DEF Turns
    <3> QED BY <3>1, <3>2, <3>3 DEF TypedInOrder
  <2>2. CASE PressEscape \/ ApprovalStop
    BY <1>1, <1>2, <2>2 DEF PressEscape, ApprovalStop, Escape
  <2>3. ASSUME ~TypeBody, ~PressEscape, ~ApprovalStop PROVE UNCHANGED status
    BY <1>3, <2>3
    DEF Turn, Begin, Interrupt, Displace, BeginDelivery, BeginStop, Deliver, ReadyToType,
        DeliveryRefused, AwaitBusy, Poll, PollCapture, PollJudge, ApprovalReported, ReadResult,
        SettleTime, pane
  <2> QED BY <1>2, <2>1, <2>2, <2>3
<1>4. CASE Permission
  <2>1. CASE OpenView \/ PressEscapeToClose
    BY <1>1, <1>2, <2>1 DEF OpenView, TypeCommand, PressEscapeToClose, Escape
  <2>2. ASSUME ~OpenView, ~PressEscapeToClose PROVE UNCHANGED status
    BY <1>4, <2>2
    DEF Permission, BeginCall, Change, Edit, TakeScope, ViewOpened, ViewDidNotOpen, PressAdd, AddRule,
        AddDidNotOpen, SelectRule, NotListed, DeleteRule, RefuseToDelete, AllTyped, ViewClosed, Verify,
        Record, Key, Move, TypeRule, DeleteKey, pane
  <2> QED BY <1>2, <2>1, <2>2
<1>5. CASE Session
  <2>1. CASE Paint \/ Boot \/ ByHand
    BY <1>2, <2>1 DEF Paint, Boot, ByHand
  <2>2. CASE \E t \in Turns : StartTurn(t) \/ EndTurn(t) \/ AskApproval(t)
    BY <1>1, <1>2, <2>2 DEF StartTurn, EndTurn, AskApproval
  <2> QED BY <1>5, <2>1, <2>2 DEF Session, TurnProgress
<1>6. CASE Restart \/ UNCHANGED vars
  BY <1>2, <1>6 DEF Restart, vars, pane
<1> QED BY <1>3, <1>4, <1>5, <1>6 DEF Next

\* A session at rest has all that the turns rely on, whatever went before.
LEMMA RestHolds ==
  ASSUME AtRest'
  PROVE  TurnsInv'
<1>1. slot' = 0 /\ caller' = "out" /\ poller'.at = "out" /\ call'.at = "out" /\ \A t \in Turns : ~Live(t)'
  BY DEF AtRest, NoTurn, Live
<1> QED
  BY <1>1
  DEF TurnsInv, OneAtATime, TurnsApart, SlotIsLatest, TypedIsHeld, SafeToType, PolledIsSent, NotTrusted,
      JudgedHasEnded, Ended, AnswersFollowEcho, Escaping, Live

\* A process that starts again knows of no turn; none is waiting to start.
LEMMA RestartKeepsTurns ==
  ASSUME TypeInv, TurnsInv, Restart
  PROVE  TurnsInv'
<1> USE DEF TurnsInv
<1>1. /\ UNCHANGED <<pane, screen, status, log, shown>>
      /\ slot' = 0 /\ caller' = "out" /\ poller'.at = "out" /\ call'.at = "out"
      /\ \A t \in Turns : status[t] # "typed"
  BY DEF Restart, pane, NotPolling, NoCall, Some
<1>2. OneAtATime' /\ AnswersFollowEcho'
  BY <1>1, SamePaneTurns
<1> QED
  BY <1>1, <1>2
  DEF TurnsApart, SlotIsLatest, TypedIsHeld, SafeToType, PolledIsSent, NotTrusted, JudgedHasEnded,
      Ended, Escaping

\* What the adapter's turns rely on, for any number of messages, displacements, approvals
\* and restarts, and any permission calls: it holds while the two do not overlap, and
\* holds again once the session has come to rest after they did.
THEOREM TurnsInvariant == Spec => []TurnsHold
<1>1. Init => TurnsHold
  BY PaneAssumption
  DEF Init, PaneInit, TurnsInit, PermissionsInit, NoCall, NotPolling, TurnsHold, TypedInOrder, Together,
      NoTurn, TurnsInv, OneAtATime, TurnsApart, SlotIsLatest, TypedIsHeld, SafeToType, PolledIsSent,
      NotTrusted, JudgedHasEnded, Ended, AnswersFollowEcho, Escaping, Live, Latest
<1>2. TypeInv /\ TurnsHold /\ [Next]_vars => TurnsHold'
  <2> SUFFICES ASSUME TypeInv, TurnsHold, [Next]_vars PROVE TurnsHold'
    OBVIOUS
  <2>1. TypedInOrder /\ TypedInOrder'
    BY OrderIsKept DEF TurnsHold
  <2>2. CASE UNCHANGED vars
    BY <2>1, <2>2
    DEF vars, pane, turns, memory, permissions, TurnsHold, Together, NoTurn, TurnsInv, OneAtATime,
        TurnsApart, SlotIsLatest, TypedIsHeld, SafeToType, PolledIsSent, NotTrusted, JudgedHasEnded, Ended,
        AnswersFollowEcho, Escaping, Live, Latest, Working
  <2>3. CASE Next
    <3>1. Mixing
      BY <2>3 DEF Next, Turn, InTurn, Permission, Session, InSession, Restart
    <3>2. (Together' => mixed') /\ (~mixed' => ~Together' /\ (~mixed \/ AtRest'))
      BY <3>1, MixedIsMixed
    <3>3. ASSUME ~mixed', AtRest' PROVE TurnsInv'
      BY <3>3, RestHolds
    <3>4. ASSUME ~mixed', ~mixed PROVE TurnsInv'
      <4>0. TurnsInv /\ ~Together'
        BY <3>2, <3>4 DEF TurnsHold
      <4>1. CASE Turn
        BY <2>1, <4>0, <4>1, BeginKeepsTurns, StopKeepsTurns, TypeBodyKeepsTurns, AwaitBusyKeepsTurns,
           PollKeepsTurns, ReadKeepsTurns
        DEF Turn, InTurn, Deliver, Poll
      <4>2. CASE Permission
        BY <4>0, <4>2, PermissionKeepsTurns
      <4>3. CASE Session \/ Restart
        BY <4>0, <4>3, SessionKeepsTurns, RestartKeepsTurns
      <4> QED BY <2>3, <4>1, <4>2, <4>3 DEF Next
    <3> QED BY <2>1, <3>2, <3>3, <3>4 DEF TurnsHold
  <2> QED BY <2>2, <2>3
<1> QED BY <1>1, <1>2, AgyTypeCorrect, PTL DEF Spec

\* With no permission change made meanwhile, a body is typed at the chat prompt with
\* nothing live before it, whatever a stop, a refusal, an earlier permission change or a
\* restart has left on the screen.
THEOREM TypedAtPrompt == Spec => []TypedWhenApart
<1>1. TurnsHold => TypedWhenApart
  BY DEF TurnsHold, TurnsInv, TypedWhenApart, CanAcceptIt, SafeToType, TurnsApart, Some, Live
<1> QED BY <1>1, TurnsInvariant, PTL

\* A turn without a permission change beside it that is judged finished has ended or is
\* being stopped, however late the pane is painted and whatever older polls have still
\* to report.
THEOREM FinishedHaveEnded == Spec => []FinishedMeansEnded
<1>1. TurnsHold => FinishedMeansEnded
  BY DEF TurnsHold, TurnsInv, FinishedMeansEnded, JudgedHasEnded, Ended, Escaping
<1> QED BY <1>1, TurnsInvariant, PTL

\* A turn without a permission change beside it is answered with its own answer or with
\* nothing, also when the scrollback has lost its echo.
THEOREM OwnAnswers == Spec => AnswersAreOwn
<1>1. TypeInv /\ TurnsHold /\ [Next]_vars
        => [~mixed /\ answer' # answer => answer' \in {"none", "own", "empty"}]_vars
  <2> SUFFICES ASSUME TypeInv, TurnsHold, Next, ~mixed, answer' # answer
               PROVE  answer' \in {"none", "own", "empty"}
    BY DEF vars, turns
  <2>1. CASE ReadResult
    <3>1. answer' = Result(slot) /\ slot = poller.turn /\ poller.at = "read"
      BY <2>1 DEF ReadResult
    <3>2. slot # 0
      BY <3>1, PaneAssumption DEF TurnsHold, TurnsInv, PolledIsSent, Turns
    <3> QED BY <3>1, <3>2, ResultIsOwn DEF TurnsHold
  <2>2. CASE PollCapture \/ Restart
    BY <2>2 DEF PollCapture, Restart
  <2>3. ASSUME ~ReadResult, ~PollCapture, ~Restart PROVE FALSE
    BY <2>3
    DEF Next, Turn, Begin, Interrupt, Displace, BeginDelivery, BeginStop, Deliver, PressEscape,
        ReadyToType, DeliveryRefused, TypeBody, AwaitBusy, Poll, PollJudge, ApprovalStop,
        ApprovalReported, SettleTime, Permission, Session, InSession, turns
  <2> QED BY <2>1, <2>2, <2>3
<1> QED BY <1>1, AgyTypeCorrect, TurnsInvariant, PTL DEF Spec, AnswersAreOwn

\* With no message typed into the editor nobody but a call's keys takes a rule from the
\* list, and the key that does is pressed on the rule that was confirmed.
LEMMA OnlyConfirmedGo ==
  ASSUME TypeInv, EditorInv, TurnsHold, ~mixed, [Next]_vars, NEW r \in ToSet(allow) \ ToSet(allow')
  PROVE  call.op = "delete" /\ r \in call.named
<1>1. allow' # allow
  OBVIOUS
<1>2. Permission
  <2>1. ASSUME TypeBody PROVE FALSE
    <3>1. screen = "chat"
      BY <2>1 DEF TurnsHold, TurnsInv, TurnsApart, TypeBody
    <3> QED BY <1>1, <2>1, <3>1 DEF TypeBody, TypeMessage
  <2>2. ASSUME Turn, ~TypeBody PROVE FALSE
    BY <1>1, <2>2
    DEF Turn, Begin, Interrupt, Displace, BeginDelivery, BeginStop, Deliver, PressEscape, ReadyToType,
        DeliveryRefused, AwaitBusy, Poll, PollCapture, PollJudge, ApprovalStop, ApprovalReported,
        ReadResult, SettleTime, Escape, pane
  <2>3. ASSUME Session \/ Restart \/ UNCHANGED vars PROVE FALSE
    BY <1>1, <2>3
    DEF Session, Paint, Boot, ByHand, TurnProgress, StartTurn, EndTurn, AskApproval, Restart, vars, pane
  <2> QED BY <2>1, <2>2, <2>3 DEF Next
<1>3. allow \in Seq(Rule) /\ call.todo \in Seq(Rule)
  BY DEF TypeInv, TypeOK, PaneTypeOK, PermissionsTypeOK
<1>4. ASSUME AddRule PROVE FALSE
  <2>1. allow' = allow \/ allow' = Append(allow, Head(call.todo))
    BY <1>4 DEF AddRule, TypeRule
  <2>2. ToSet(allow) \subseteq ToSet(Append(allow, Head(call.todo)))
    BY <1>3 DEF ToSet
  <2> QED BY <1>1, <2>1, <2>2
<1>5. ASSUME DeleteRule PROVE call.op = "delete" /\ r \in call.named
  <2>1. call.op = "delete" /\ call.todo # <<>> /\ Accurate
    BY <1>5 DEF DeleteRule, TypeInv, Equipped, EditorInv, PlaceIsKnown, RulesAreKnown, TodoIsNamed,
        ListIsKnown
  <2>2. shown.face = "rules"
    BY <1>5 DEF DeleteRule, Confirmed, EditorInv, PlaceIsKnown, ListedInTheList
  <2>3. cursor \in DOMAIN allow /\ allow[cursor] = Head(call.todo)
    BY <1>5, <2>1, <2>2 DEF DeleteRule, Confirmed, Accurate
  <2>4. allow' = RemoveAt(allow, cursor)
    BY <1>1, <1>5 DEF DeleteRule, DeleteKey, DeleteSelected
  <2>5. PICK i \in 1 .. Len(allow) : allow[i] = r
    BY <1>3 DEF ToSet
  <2>6. ASSUME i # cursor PROVE FALSE
    <3>1. cursor \in 1 .. Len(allow) /\ Len(allow) \in Nat
      BY <1>3, <2>3
    <3>2. DOMAIN allow' = 1 .. Len(allow) - 1
      BY <1>3, <2>3, <2>4, RemoveAtEntries
    <3>3. CASE i < cursor
      <4>1. i \in 1 .. Len(allow) - 1 /\ allow'[i] = allow[i]
        BY <1>3, <2>3, <2>4, <3>1, <3>3, RemoveAtEntries
      <4> QED BY <2>5, <3>2, <4>1 DEF ToSet
    <3>4. CASE i > cursor
      <4>1. i - 1 \in 1 .. Len(allow) - 1 /\ ~(i - 1 < cursor) /\ (i - 1) + 1 = i
        BY <3>1, <3>4
      <4>2. allow'[i - 1] = allow[i]
        BY <1>3, <2>3, <2>4, <4>1, RemoveAtEntries
      <4> QED BY <2>5, <3>2, <4>1, <4>2 DEF ToSet
    <3> QED BY <2>6, <3>1, <3>3, <3>4
  <2>7. r = Head(call.todo)
    BY <2>3, <2>5, <2>6
  <2> QED BY <1>3, <2>1, <2>7, HeadIsNotInTail DEF EditorInv, PlaceIsKnown, TodoIsNamed
<1>6. AddRule \/ DeleteRule
  <2>1. ASSUME Permission, ~AddRule, ~DeleteRule PROVE allow' = allow
    BY <2>1
    DEF Permission, BeginCall, Change, Edit, OpenView, TakeScope, ViewOpened, ViewDidNotOpen, PressAdd,
        AddDidNotOpen, SelectRule, NotListed, RefuseToDelete, AllTyped, PressEscapeToClose, ViewClosed,
        Verify, Record, TypeCommand, Key, Move, Escape, pane
  <2> QED BY <1>1, <1>2, <2>1
<1> QED BY <1>4, <1>5, <1>6

\* A rule goes only while a call that names it is deleting, for any allowlist, any calls
\* and any turns before and between them: the key without a question falls on the row
\* that a capture after the last key has shown.
THEOREM NamedRulesGo == Spec => OnlyNamedRulesGo
<1>1. TypeInv /\ EditorInv /\ TurnsHold /\ [Next]_vars
        => [~mixed => \A r \in ToSet(allow) \ ToSet(allow') :
                        call.op = "delete" /\ r \in call.named]_vars
  BY OnlyConfirmedGo
<1> QED BY <1>1, AgyTypeCorrect, EditorInvariant, TurnsInvariant, PTL DEF Spec, OnlyNamedRulesGo
=============================================================================
