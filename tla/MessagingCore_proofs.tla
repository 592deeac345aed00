------------------------ MODULE MessagingCore_proofs ------------------------
(***************************************************************************)
(* Theorems about MessagingCore, for any number of partners, any traffic   *)
(* and any events.                                                         *)
(***************************************************************************)
EXTENDS MessagingCore, SequenceTheorems, FiniteSetTheorems, TLAPS

\* The send behind an advance is waiting for it, and for no other one.
Linked ==
  \A p \in Partner : adv[p] # Free /\ adv[p].by # p =>
    /\ call[adv[p].by].pc = "advancing"
    /\ call[adv[p].by].to = p

-----------------------------------------------------------------------------
(***************************************************************************)
(* Rows and queues.                                                        *)
(***************************************************************************)

\* The queue keeps its type when a row is removed.
LEMMA RemoveAtType ==
  ASSUME NEW q \in Seq(Row), NEW i \in DOMAIN q
  PROVE  RemoveAt(q, i) \in Seq(Row)
<1>1. i \in 1 .. Len(q) /\ Len(q) \in Nat
  OBVIOUS
<1>2. SubSeq(q, 1, i - 1) \in Seq(Row) /\ SubSeq(q, i + 1, Len(q)) \in Seq(Row)
  BY <1>1
<1> QED BY <1>2, ConcatProperties DEF RemoveAt

\* The same for a deletion by id.
LEMMA WithoutType ==
  ASSUME NEW q \in Seq(Row), NEW t
  PROVE  Without(q, t) \in Seq(Row)
<1>1. CASE \E i \in DOMAIN q : q[i].task = t
  <2> DEFINE i == CHOOSE i \in DOMAIN q : q[i].task = t
  <2>1. i \in DOMAIN q
    BY <1>1
  <2> QED BY <1>1, <2>1, RemoveAtType DEF Without
<1>2. CASE ~\E i \in DOMAIN q : q[i].task = t
  BY <1>2 DEF Without
<1> QED BY <1>1, <1>2

\* A row put at the end.
LEMMA AppendType ==
  ASSUME NEW q \in Seq(Row), NEW r \in Row
  PROVE  Append(q, r) \in Seq(Row)
OBVIOUS

\* An element of a queue is a row.
LEMMA ElementType ==
  ASSUME NEW q \in Seq(Row), NEW i \in DOMAIN q
  PROVE  q[i] \in Row
BY LenProperties, ElementOfSeq

\* What the code makes of a row is a row.
LEMMA RowTypes ==
  /\ \A w \in Row : PausedRow(w) \in Row /\ Summary(w) \in Row
  /\ \A t \in TaskId, c \in Partner, l \in Label : NewRow(t, c, l) \in Row
  /\ Nothing \notin Row
<1>1. \A w \in Row : PausedRow(w) \in Row /\ Summary(w) \in Row
  BY DEF PausedRow, Summary, Row, Label
<1>2. \A t \in TaskId, c \in Partner, l \in Label : NewRow(t, c, l) \in Row
  BY DEF NewRow, Row
<1>3. Nothing \notin Row
  BY DEF Nothing, Row, TaskId
<1> QED BY <1>1, <1>2, <1>3

\* A finished task owes a label or nothing.
LEMMA ReplyType ==
  ASSUME NEW w \in Row
  PROVE  ReplyTo(w) \in Label \cup {NoLabel}
BY DEF ReplyTo, Row, Label, ReplyBehavior, NoLabel

\* What is left of a call is a call.
LEMMA EndedType ==
  ASSUME NEW x \in Call
  PROVE  Ended(x) \in Call \cup {Idle}
BY DEF Ended, Call

\* So is what is left of it after its advance, or a refusal.
LEMMA AfterAdvanceType ==
  ASSUME TypeOK, NEW c \in Partner, call[c] # Idle
  PROVE  AfterAdvance(c) \in Call \cup {Idle} /\ Refused(c) \in Call \cup {Idle}
<1>1. call[c] \in Call
  BY DEF TypeOK
<1> DEFINE l == call[c].label
           x == [call[c] EXCEPT !.asked = @ \/ l \in RequestBehaviors, !.accepted = @ \cup {l}]
<1>2. x \in Call /\ [x EXCEPT !.pc = "between"] \in Call
  BY <1>1 DEF Call
<1>3. Ended(x) \in Call \cup {Idle}
  BY <1>2, EndedType
<1>4. [call[c] EXCEPT !.pc = "between"] \in Call
  BY <1>1 DEF Call
<1> QED BY <1>2, <1>3, <1>4 DEF AfterAdvance, Refused

\* The fields of an advance.
LEMMA AdvanceFields ==
  ASSUME TypeOK, NEW p \in Partner, adv[p] # Free
  PROVE  /\ adv[p] \in Advance
         /\ adv[p].head \in Row
         /\ adv[p].working \in Row \cup {Nothing}
         /\ adv[p].by \in Partner
<1>1. adv[p] \in Advance
  BY DEF TypeOK
<1> QED BY <1>1 DEF Advance

\* The fields of a call.
LEMMA CallFields ==
  ASSUME TypeOK, NEW c \in Partner, call[c] # Idle
  PROVE  /\ call[c] \in Call
         /\ call[c].to \in Partner
         /\ call[c].label \in Label
         /\ call[c].via \in Process
         /\ \A pc \in {"resolved", "admitted", "advancing", "between", "interrupting"} :
              [call[c] EXCEPT !.pc = pc] \in Call
<1>1. call[c] \in Call
  BY DEF TypeOK
<1> QED BY <1>1 DEF Call

\* The fields of a pass.
LEMMA PassFields ==
  ASSUME TypeOK, NEW p \in Partner, pass[p] # Idle
  PROVE  /\ pass[p].work \in Row
         /\ pass[p].work.caller \in Partner
         /\ pass[p].work.task \in Nat
         /\ pass[p].pc = "reporting" => pass[p].reply \in Label
         /\ pass[p].pc # "reporting" =>
              \A pc \in {"blocked", "finished", "ready", "answered"} :
                [pass[p] EXCEPT !.pc = pc] \in Pass
<1>1. pass[p] \in Pass
  BY DEF TypeOK
<1>2. pass[p].work \in Row
  BY <1>1 DEF Pass
<1>3. pass[p].work.caller \in Partner /\ pass[p].work.task \in Nat
  BY <1>2 DEF Row, TaskId
<1>4. pass[p].pc = "reporting" => pass[p].reply \in Label
  BY <1>1 DEF Pass
<1>5. ASSUME pass[p].pc # "reporting", NEW pc \in {"blocked", "finished", "ready", "answered"}
      PROVE  [pass[p] EXCEPT !.pc = pc] \in Pass
  BY <1>1, <1>5 DEF Pass
<1> QED BY <1>2, <1>3, <1>4, <1>5

\* A message is recorded under the next id.
LEMMA RecordType ==
  ASSUME TypeOK, NEW c \in Partner, NEW to \in SUBSET Partner, NEW l \in Label,
         NEW kind \in {"send", "answer", "error", "notice"}, NEW of \in Nat,
         Record(c, to, l, kind, of)
  PROVE  tasks' \in Seq(Message)
<1>1. [from |-> c, to |-> to, label |-> l, kind |-> kind, of |-> of] \in Message
  BY DEF Message
<1> QED BY <1>1 DEF Record, TypeOK

\* The next id is one.
LEMMA NextTaskType ==
  ASSUME TypeOK
  PROVE  NextTask \in TaskId
BY LenProperties DEF TypeOK, NextTask, TaskId

\* The names of the control points that stand for nothing in progress.
LEMMA ControlPoints ==
  ASSUME TypeOK, NEW p \in Partner
  PROVE  /\ adv[p] = Free <=> adv[p].pc = "free"
         /\ call[p] = Idle <=> call[p].pc = "idle"
         /\ pass[p] = Idle <=> pass[p].pc = "idle"
<1>1. /\ adv[p] \in Advance \cup {Free}
      /\ call[p] \in Call \cup {Idle}
      /\ pass[p] \in Pass \cup {Idle}
  BY DEF TypeOK
<1>2. adv[p] = Free <=> adv[p].pc = "free"
  BY <1>1 DEF Advance, Free
<1>3. call[p] = Idle <=> call[p].pc = "idle"
  BY <1>1 DEF Call, Idle
<1>4. pass[p] = Idle <=> pass[p].pc = "idle"
  BY <1>1 DEF Pass, Idle
<1> QED BY <1>2, <1>3, <1>4

-----------------------------------------------------------------------------
(***************************************************************************)
(* Type correctness, one lemma per part of the next-state relation.        *)
(***************************************************************************)

Typed == TypeOK /\ Linked

\* The steps of a send but for its advance.
LEMMA SendTypes ==
  ASSUME Typed, NEW c \in Partner,
         \/ \E p \in Partner, l \in Label :
              \/ \E k \in Process, b \in BOOLEAN : SendResolve(c, p, l, k, b)
              \/ NextItem(c, p, l)
         \/ BatchEnds(c)
         \/ SendAdmit(c) \/ SendInterrupt(c) \/ SendInterruptFails(c)
  PROVE  Typed'
<1>1. TypeOK /\ Linked
  BY DEF Typed
<1>2. call[c].pc # "advancing" /\ adv' = adv
  BY <1>1, ControlPoints
  DEF SendResolve, NextItem, BatchEnds, SendAdmit, SendInterrupt, SendInterruptFails, Idle
<1>3. ASSUME NEW x, call' = [call EXCEPT ![c] = x] PROVE Linked'
  BY <1>1, <1>2, <1>3 DEF Linked, TypeOK
<1>4. ASSUME NEW p \in Partner, NEW l \in Label, NEW k \in Process, NEW b \in BOOLEAN,
             SendResolve(c, p, l, k, b)
      PROVE  TypeOK' /\ Linked'
  <2> DEFINE x == [pc |-> "resolved", to |-> p, label |-> l, via |-> k,
                   batch |-> b, asked |-> FALSE, accepted |-> {}]
  <2>1. x \in Call
    BY DEF Call
  <2>2. call' = [call EXCEPT ![c] = x]
    BY <1>4 DEF SendResolve
  <2> QED BY <1>1, <1>3, <1>4, <2>1, <2>2 DEF SendResolve, TypeOK, database, history
<1>5. CASE SendAdmit(c)
  <2> DEFINE p == call[c].to
             l == call[c].label
             row == NewRow(NextTask, c, l)
             x == [call[c] EXCEPT !.pc = "admitted"]
  <2>1. call[c] # Idle
    BY <1>1, <1>5, ControlPoints DEF SendAdmit, Idle
  <2>2. p \in Partner /\ l \in Label /\ x \in Call
    BY <1>1, <2>1, CallFields
  <2>3. row \in Row
    BY <1>1, <2>2, NextTaskType, RowTypes
  <2>4. CASE call' = [call EXCEPT ![c] = Refused(c)] /\ UNCHANGED <<queue, tasks>>
    <3>1. call' \in [Partner -> Call \cup {Idle}]
      BY <1>1, <2>1, <2>4, AfterAdvanceType DEF TypeOK
    <3> QED BY <1>1, <1>3, <1>5, <2>4, <3>1 DEF SendAdmit, TypeOK, history, Typed
  <2>5. CASE /\ queue' = [queue EXCEPT ![p] = Append(@, row)]
             /\ Record(c, {p}, l, "send", 0)
             /\ call' = [call EXCEPT ![c] = x]
    <3>1. tasks' \in Seq(Message)
      BY <1>1, <2>2, <2>5, RecordType
    <3>2. queue' \in [Partner -> Seq(Row)]
      BY <1>1, <2>2, <2>3, <2>5, AppendType DEF TypeOK
    <3>3. call' \in [Partner -> Call \cup {Idle}]
      BY <1>1, <2>2, <2>5 DEF TypeOK
    <3>4. Linked'
      BY <1>3, <2>5
    <3> QED BY <1>1, <1>5, <3>1, <3>2, <3>3, <3>4 DEF SendAdmit, TypeOK, history, Typed
  <2> QED BY <1>5, <2>4, <2>5 DEF SendAdmit
<1>6. CASE SendInterrupt(c)
  <2> DEFINE k == call[c].via
             w == Working(k, c)
  <2>1. /\ interrupted' \in [Partner -> BOOLEAN]
        /\ call' \in [Partner -> Call \cup {Idle}]
        /\ Linked'
    BY <1>1, <1>3, <1>6 DEF SendInterrupt, TypeOK
  <2>2. CASE w = Nothing
    BY <1>1, <1>6, <2>1, <2>2 DEF SendInterrupt, TypeOK, history, Typed
  <2>3. CASE w # Nothing
    <3>1. w \in Row
      BY <1>1, <2>3 DEF Working, TypeOK
    <3>2. queue' \in [Partner -> Seq(Row)]
      <4>1. PausedRow(w) \in Row
        BY <3>1, RowTypes
      <4>2. queue' = [queue EXCEPT ![c] = Append(@, PausedRow(w))]
        BY <1>6, <2>3 DEF SendInterrupt
      <4> QED BY <1>1, <4>1, <4>2, AppendType DEF TypeOK
    <3>3. slot' \in [Partner -> Row \cup {Nothing}]
      BY <1>1, <1>6, <2>3 DEF SendInterrupt, TypeOK
    <3>4. remote' \in [Partner -> SUBSET TaskId]
      BY <1>1, <1>6, <2>3 DEF SendInterrupt, TypeOK, Stopped
    <3> QED BY <1>1, <1>6, <2>1, <3>2, <3>3, <3>4 DEF SendInterrupt, TypeOK, history, Typed
  <2> QED BY <2>2, <2>3
<1>7. CASE SendInterruptFails(c)
  BY <1>1, <1>3, <1>7 DEF SendInterruptFails, TypeOK, database, history, Typed
<1>8. ASSUME NEW p \in Partner, NEW l \in Label, NextItem(c, p, l)
      PROVE  TypeOK' /\ Linked'
  <2> DEFINE x == [call[c] EXCEPT !.pc = "resolved", !.to = p, !.label = l]
  <2>1. call[c] # Idle
    BY <1>1, <1>8, ControlPoints DEF NextItem, Idle
  <2>2. x \in Call /\ call' = [call EXCEPT ![c] = x]
    BY <1>1, <1>8, <2>1, CallFields DEF NextItem, Call, TypeOK
  <2>3. call' \in [Partner -> Call \cup {Idle}]
    BY <1>1, <2>2 DEF TypeOK
  <2>4. Linked'
    BY <1>3, <2>2
  <2>5. UNCHANGED <<database, slot, adv, pass, remote, tasks, history>>
    BY <1>8 DEF NextItem
  <2> HIDE DEF x
  <2> QED BY <1>1, <2>3, <2>4, <2>5 DEF TypeOK, database, history, Typed
<1>9. CASE BatchEnds(c)
  <2>1. call[c] # Idle
    BY <1>1, <1>9, ControlPoints DEF BatchEnds, Idle
  <2>2. PICK x \in Call \cup {Idle} : call' = [call EXCEPT ![c] = x]
    BY <1>1, <1>9, <2>1, CallFields, EndedType DEF BatchEnds, TypeOK
  <2> QED BY <1>1, <1>3, <1>9, <2>2 DEF BatchEnds, TypeOK, database, history, Typed
<1> QED BY <1>4, <1>5, <1>6, <1>7, <1>8, <1>9 DEF Typed

\* An advance up to its remote calls, whoever starts it.
LEMMA AdvanceStartTypes ==
  ASSUME TypeOK, NEW k \in Process, NEW p \in Partner, NEW by \in Partner,
         AdvanceDrops(k, p) \/ AdvanceReturns(k, p) \/ AdvanceNeedsRemote(k, p)
           \/ AdvanceBegins(k, p, by),
         call' \in [Partner -> Call \cup {Idle}]
  PROVE  TypeOK'
<1>1. CASE AdvanceDrops(k, p)
  <2>1. queue' \in [Partner -> Seq(Row)]
    BY <1>1, EmptySeq DEF AdvanceDrops, TypeOK
  <2>2. slot' \in [Partner -> Row \cup {Nothing}]
    BY <1>1 DEF AdvanceDrops, TypeOK
  <2>3. TasksOf(queue[p]) \subseteq TaskId
    <3>1. \A i \in DOMAIN queue[p] : queue[p][i] \in Row
      BY ElementType DEF TypeOK
    <3> QED BY <3>1 DEF TasksOf, Row
  <2>4. TaskIn(Working(k, p)) \subseteq TaskId
    <3>1. slot[p] \in Row \cup {Nothing}
      BY DEF TypeOK
    <3> QED BY <3>1 DEF TaskIn, Working, Row, Nothing
  <2>5. dropped' \in [Partner -> SUBSET TaskId]
    BY <1>1, <2>3, <2>4 DEF AdvanceDrops, TypeOK
  <2> QED BY <1>1, <2>1, <2>2, <2>5 DEF AdvanceDrops, TypeOK
<1>2. CASE AdvanceReturns(k, p)
  BY <1>2 DEF AdvanceReturns, TypeOK, database, history
<1>3. CASE AdvanceNeedsRemote(k, p)
  BY <1>3 DEF AdvanceNeedsRemote, ClearIfWaiting, TypeOK, history
<1>4. CASE AdvanceBegins(k, p, by)
  <2>1. interrupted' \in [Partner -> BOOLEAN]
    BY <1>4 DEF AdvanceBegins, ClearIfWaiting, TypeOK
  <2>2. PICK i \in DOMAIN queue[p] :
          adv' = [adv EXCEPT ![p] = [pc |-> "swapping", head |-> queue[p][i],
                                     working |-> slot[p], by |-> by,
                                     restarts |-> Waiting(k, p)]]
    BY <1>4 DEF AdvanceBegins
  <2>3. queue[p][i] \in Row /\ slot[p] \in Row \cup {Nothing}
    BY ElementType DEF TypeOK
  <2>4. Waiting(k, p) \in BOOLEAN
    BY DEF Waiting, TypeOK
  <2>5. [pc |-> "swapping", head |-> queue[p][i], working |-> slot[p], by |-> by,
         restarts |-> Waiting(k, p)] \in Advance
    BY <2>3, <2>4 DEF Advance
  <2>6. adv' \in [Partner -> Advance \cup {Free}]
    BY <2>2, <2>5 DEF TypeOK
  <2> QED BY <1>4, <2>1, <2>6 DEF AdvanceBegins, TypeOK, history
<1> QED BY <1>1, <1>2, <1>3, <1>4

\* The advance of a send.
LEMMA SendAdvanceTypes ==
  ASSUME Typed, NEW c \in Partner, SendAdvance(c)
  PROVE  Typed'
<1> DEFINE k == call[c].via
           p == call[c].to
<1>1. TypeOK /\ Linked
  BY DEF Typed
<1>2. call[c] # Idle /\ call[c].pc = "admitted"
  BY <1>1, ControlPoints DEF SendAdvance, Idle
<1>3. /\ k \in Process /\ p \in Partner
      /\ AfterAdvance(c) \in Call \cup {Idle} /\ Refused(c) \in Call \cup {Idle}
      /\ [call[c] EXCEPT !.pc = "advancing"] \in Call
  BY <1>1, <1>2, CallFields, AfterAdvanceType
<1>4. ASSUME NEW x \in Call \cup {Idle}, call' = [call EXCEPT ![c] = x], adv' = adv
      PROVE  Linked'
  BY <1>1, <1>2, <1>4 DEF Linked, TypeOK
<1>5. CASE AdvanceDrops(k, p) \/ AdvanceReturns(k, p) \/ AdvanceNeedsRemote(k, p)
  <2>1. adv' = adv
    BY <1>5 DEF AdvanceDrops, AdvanceReturns, AdvanceNeedsRemote
  <2>2. PICK x \in Call \cup {Idle} : call' = [call EXCEPT ![c] = x]
    BY <1>3, <1>5 DEF SendAdvance, AdvanceBegins, AdvanceDrops, AdvanceReturns,
       AdvanceNeedsRemote
  <2>3. call' \in [Partner -> Call \cup {Idle}]
    BY <1>1, <2>2 DEF TypeOK
  <2> QED BY <1>1, <1>3, <1>4, <1>5, <2>1, <2>2, <2>3, AdvanceStartTypes DEF Typed
<1>6. CASE AdvanceBegins(k, p, c) /\ call' = [call EXCEPT ![c].pc = "advancing"]
  <2>1. call' \in [Partner -> Call \cup {Idle}]
    BY <1>1, <1>3, <1>6 DEF TypeOK
  <2>2. /\ call'[c].pc = "advancing" /\ call'[c].to = p
        /\ \A b \in Partner \ {c} : call'[b] = call[b]
    BY <1>1, <1>2, <1>6, CallFields DEF TypeOK, Call
  <2>3. \A q \in Partner \ {p} : adv'[q] = adv[q]
    BY <1>1, <1>6 DEF AdvanceBegins, TypeOK
  <2>4. adv'[p].by = c
    BY <1>1, <1>3, <1>6 DEF AdvanceBegins, TypeOK
  <2>5. \A q \in Partner : adv[q] # Free => adv[q].by \in Partner
    BY <1>1, AdvanceFields
  <2>6. Linked'
    BY <1>1, <1>2, <2>2, <2>3, <2>4, <2>5 DEF Linked
  <2> QED BY <1>1, <1>3, <1>6, <2>1, <2>6, AdvanceStartTypes DEF Typed
<1> QED BY <1>5, <1>6 DEF SendAdvance

\* The rest of an advance.
LEMMA AdvanceTypes ==
  ASSUME Typed, NEW p \in Partner, Advances(p)
  PROVE  Typed'
<1> DEFINE a == adv[p]
<1>1. TypeOK /\ Linked
  BY DEF Typed
<1>2. a # Free
  <2>1. Swapping(p) \/ Delivering(p)
    BY DEF Advances, AdvanceStopFails, AdvanceSwaps, AdvanceDelivers, AdvanceRequeues
  <2> QED BY <1>1, <2>1, ControlPoints DEF Swapping, Delivering, Free
<1>3. a \in Advance /\ a.head \in Row /\ a.working \in Row \cup {Nothing} /\ a.by \in Partner
  BY <1>1, <1>2, AdvanceFields
<1>4. ASSUME NEW x \in Call \cup {Idle},
             call' = IF a.by = p THEN call ELSE [call EXCEPT ![a.by] = x],
             adv' = [adv EXCEPT ![p] = Free]
      PROVE  /\ call' \in [Partner -> Call \cup {Idle}]
             /\ adv' \in [Partner -> Advance \cup {Free}]
             /\ Linked'
  <2>1. \A q \in Partner \ {p} : adv'[q] = adv[q]
    BY <1>1, <1>4 DEF TypeOK
  <2>2. adv'[p] = Free
    BY <1>1, <1>4 DEF TypeOK
  <2>3. \A q \in Partner \ {p} : adv[q] # Free /\ adv[q].by # q =>
          /\ call[adv[q].by].pc = "advancing"
          /\ call[adv[q].by].to = q
          /\ adv[q].by \in Partner
    BY <1>1, AdvanceFields DEF Linked
  <2>4. a.by # p => call[a.by].to = p
    BY <1>1, <1>2 DEF Linked
  <2>5. \A b \in Partner : a.by = p \/ b # a.by => call'[b] = call[b]
    BY <1>1, <1>4 DEF TypeOK
  <2>6. Linked'
    BY <2>1, <2>2, <2>3, <2>4, <2>5 DEF Linked
  <2> QED BY <1>1, <1>3, <1>4, <2>6 DEF TypeOK
<1>9. a.by # p => AfterAdvance(a.by) \in Call \cup {Idle} /\ Refused(a.by) \in Call \cup {Idle}
  <2>1. a.by # p => call[a.by].pc = "advancing"
    BY <1>1, <1>2 DEF Linked
  <2>2. a.by # p => call[a.by] # Idle
    BY <2>1 DEF Idle
  <2> QED BY <1>1, <1>3, <2>2, AfterAdvanceType
<1>10. ASSUME call' = IF a.by = p THEN call ELSE [call EXCEPT ![a.by] = Refused(a.by)],
              adv' = [adv EXCEPT ![p] = Free]
       PROVE  /\ call' \in [Partner -> Call \cup {Idle}]
              /\ adv' \in [Partner -> Advance \cup {Free}]
              /\ Linked'
  <2>1. PICK x \in Call \cup {Idle} : a.by # p => x = Refused(a.by)
    BY <1>9
  <2>2. call' = IF a.by = p THEN call ELSE [call EXCEPT ![a.by] = x]
    BY <1>10, <2>1
  <2> QED BY <1>4, <1>10, <2>2
<1>5. CASE AdvanceStopFails(p)
  BY <1>1, <1>5, <1>10 DEF AdvanceStopFails, TypeOK, database, history, Typed
<1>6. CASE AdvanceSwaps(p)
  <2> DEFINE rest == Without(queue[p], a.head.task)
  <2>1. queue' = [queue EXCEPT ![p] = IF a.working = Nothing THEN rest
                                      ELSE Append(rest, PausedRow(a.working))]
    BY <1>6 DEF AdvanceSwaps
  <2>2. rest \in Seq(Row)
    BY <1>1, WithoutType DEF TypeOK
  <2>3. a.working # Nothing => PausedRow(a.working) \in Row
    BY <1>3, RowTypes
  <2>4. queue' \in [Partner -> Seq(Row)]
    BY <1>1, <2>1, <2>2, <2>3, AppendType DEF TypeOK
  <2>5. remote' \in [Partner -> SUBSET TaskId]
    BY <1>1, <1>6 DEF AdvanceSwaps, TypeOK, Stopped
  <2>6. slot' \in [Partner -> Row \cup {Nothing}]
    BY <1>1, <1>6 DEF AdvanceSwaps, TypeOK
  <2>7. [a EXCEPT !.pc = "delivering", !.working = Nothing, !.restarts = FALSE] \in Advance
    BY <1>3 DEF Advance
  <2>8. adv' = [adv EXCEPT ![p] = [a EXCEPT !.pc = "delivering", !.working = Nothing,
                                            !.restarts = FALSE]]
    BY <1>6, <1>1 DEF AdvanceSwaps, TypeOK
  <2>9. adv' \in [Partner -> Advance \cup {Free}]
    BY <1>1, <2>7, <2>8 DEF TypeOK
  <2>10. adv'[p].by = a.by /\ \A q \in Partner \ {p} : adv'[q] = adv[q]
    BY <1>1, <1>3, <2>8 DEF TypeOK, Advance
  <2>11. Linked'
    BY <1>1, <1>2, <1>6, <2>10 DEF Linked, AdvanceSwaps
  <2> QED BY <1>1, <1>6, <2>4, <2>5, <2>6, <2>9, <2>11 DEF AdvanceSwaps, TypeOK, history, Typed
<1>7. CASE AdvanceDelivers(p)
  <2>1. a.head.task \in TaskId
    BY <1>3 DEF Row
  <2>2. slot' \in [Partner -> Row \cup {Nothing}]
    BY <1>1, <1>3, <1>7 DEF AdvanceDelivers, TypeOK
  <2>3. remote' \in [Partner -> SUBSET TaskId] /\ started' \in [Partner -> SUBSET TaskId]
    BY <1>1, <1>7, <2>1 DEF AdvanceDelivers, TypeOK
  <2>4. done' \in [Partner -> SUBSET TaskId]
    BY <1>1, <1>7 DEF AdvanceDelivers, TypeOK
  <2>6. /\ call' \in [Partner -> Call \cup {Idle}]
        /\ adv' \in [Partner -> Advance \cup {Free}]
        /\ Linked'
    <3>1. CASE a.by = p
      BY <1>4, <1>7, <3>1 DEF AdvanceDelivers
    <3>2. CASE a.by # p
      BY <1>4, <1>7, <1>9, <3>2 DEF AdvanceDelivers
    <3> QED BY <3>1, <3>2
  <2> QED BY <1>1, <1>7, <2>2, <2>3, <2>4, <2>6 DEF AdvanceDelivers, TypeOK, database, Typed
<1>8. CASE AdvanceRequeues(p)
  <2>1. PausedRow(a.head) \in Row
    BY <1>3, RowTypes
  <2>2. queue' \in [Partner -> Seq(Row)]
    BY <1>1, <1>8, <2>1, AppendType DEF AdvanceRequeues, TypeOK
  <2> QED BY <1>1, <1>8, <1>10, <2>2 DEF AdvanceRequeues, TypeOK, history, Typed
<1> QED BY <1>5, <1>6, <1>7, <1>8 DEF Advances

\* A step that leaves the calls and the advances alone keeps them linked.
LEMMA LinkedStays ==
  ASSUME Linked, UNCHANGED <<adv, call>>
  PROVE  Linked'
BY DEF Linked

\* The slot is emptied and its task closed.
LEMMA ReleaseTypes ==
  ASSUME Typed, NEW p \in Partner, Release(p), pass' \in [Partner -> Pass \cup {Idle}]
  PROVE  Typed'
<1>1. TypeOK /\ Linked
  BY DEF Typed
<1>2. slot' \in [Partner -> Row \cup {Nothing}]
  BY <1>1 DEF Release, TypeOK
<1>3. TaskIn(slot[p]) \subseteq TaskId
  <2>1. slot[p] \in Row \cup {Nothing}
    BY <1>1 DEF TypeOK
  <2> QED BY <2>1 DEF TaskIn, Row, Nothing
<1>4. closed' \in [Partner -> SUBSET TaskId]
  BY <1>1, <1>3 DEF Release, TypeOK
<1> QED BY <1>1, <1>2, <1>4, LinkedStays DEF Release, TypeOK, database, Typed

\* What a pass leaves with.
LEMMA ReportingType ==
  ASSUME NEW w \in Row \cup {Nothing}, NEW l \in Label \cup {NoLabel}
  PROVE  Reporting(w, l) \in Pass \cup {Idle}
BY DEF Reporting, Pass

\* The steps of a drain pass.
LEMMA DrainTypes ==
  ASSUME Typed, NEW p \in Partner, Drain(p)
  PROVE  Typed'
<1>1. TypeOK /\ Linked
  BY DEF Typed
<1>2. slot[p] \in Row \cup {Nothing} /\ Owner[p] \in Process
  BY <1>1, CoreAssumption DEF TypeOK
<1>3. ASSUME NEW x \in Pass \cup {Idle}, pass' = [pass EXCEPT ![p] = x]
      PROVE  pass' \in [Partner -> Pass \cup {Idle}]
  BY <1>1, <1>3 DEF TypeOK
<1>4. ASSUME pass[p].pc # "idle"
      PROVE  /\ pass[p].work \in Row
             /\ pass[p].work.caller \in Partner
             /\ pass[p].work.task \in Nat
             /\ pass[p].pc = "reporting" => pass[p].reply \in Label
             /\ pass[p].pc # "reporting" =>
                  \A pc \in {"blocked", "finished", "ready", "answered"} :
                    [pass[p] EXCEPT !.pc = pc] \in Pass
  <2>1. pass[p] # Idle
    BY <1>4 DEF Idle
  <2> QED BY <1>1, <2>1, PassFields
<1>5. CASE DrainAdvance(p)
  <2>1. call' \in [Partner -> Call \cup {Idle}]
    BY <1>1, <1>5 DEF DrainAdvance, TypeOK
  <2>2. TypeOK'
    BY <1>1, <1>2, <1>5, <2>1, AdvanceStartTypes DEF DrainAdvance
  <2>3. \A q \in Partner \ {p} : adv'[q] = adv[q]
    BY <1>1, <1>5 DEF DrainAdvance, AdvanceDrops, AdvanceBegins, TypeOK
  <2>4. adv'[p] = adv[p] \/ adv'[p].by = p
    BY <1>1, <1>5 DEF DrainAdvance, AdvanceDrops, AdvanceBegins, TypeOK
  <2>5. Linked'
    BY <1>1, <1>5, <2>3, <2>4 DEF Linked, DrainAdvance
  <2> QED BY <2>2, <2>5 DEF Typed
<1>6. CASE Poll(p)
  <2>1. [pc |-> "polling", work |-> slot[p], reply |-> NoLabel] \in Pass
    BY <1>2, <1>6 DEF Poll, Pass
  <2> QED BY <1>1, <1>3, <1>6, <2>1, LinkedStays DEF Poll, TypeOK, database, history, Typed
<1>7. CASE PollAnswers(p)
  <2>1. PICK x \in Pass \cup {Idle} : pass' = [pass EXCEPT ![p] = x]
    BY <1>4, <1>7 DEF PollAnswers, InPass
  <2> QED BY <1>1, <1>3, <1>7, <2>1, LinkedStays DEF PollAnswers, TypeOK, database, history, Typed
<1>8. CASE PollMeetsApproval(p)
  <2>1. PICK x \in Pass \cup {Idle} : pass' = [pass EXCEPT ![p] = x]
    BY <1>4, <1>8 DEF PollMeetsApproval, InPass
  <2>2. remote' \in [Partner -> SUBSET TaskId]
    BY <1>1, <1>8 DEF PollMeetsApproval, TypeOK, Stopped
  <2> QED BY <1>1, <1>3, <1>8, <2>1, <2>2, LinkedStays
             DEF PollMeetsApproval, TypeOK, database, history, Typed
<1>9. CASE ReleaseBlocked(p)
  <2>1. Reporting(IF slot[p] = Nothing THEN pass[p].work ELSE slot[p], "ERROR")
          \in Pass \cup {Idle}
    BY <1>2, <1>4, <1>9, ReportingType DEF ReleaseBlocked, InPass, Label
  <2> QED BY <1>3, <1>9, <2>1, ReleaseTypes DEF ReleaseBlocked
<1>10. CASE CheckNoWork(p)
  <2>1. PICK x \in Pass \cup {Idle} : pass' = [pass EXCEPT ![p] = x]
    BY <1>4, <1>10 DEF CheckNoWork, InPass
  <2> QED BY <1>1, <1>3, <1>10, <2>1, LinkedStays DEF CheckNoWork, TypeOK, database, history, Typed
<1>11. CASE BeginSummary(p)
  <2>1. CASE slot[p] # Nothing /\ slot[p].label = "RESEARCH"
    <3>1. Summary(slot[p]) \in Row
      BY <1>2, <2>1, RowTypes
    <3>2. [pc |-> "summarising", work |-> Summary(slot[p]), reply |-> NoLabel] \in Pass
      BY <3>1 DEF Pass
    <3>3. slot' \in [Partner -> Row \cup {Nothing}]
      BY <1>1, <1>11, <2>1, <3>1 DEF BeginSummary, TypeOK
    <3>4. pass' \in [Partner -> Pass \cup {Idle}]
      BY <1>3, <1>11, <2>1, <3>2 DEF BeginSummary
    <3> QED BY <1>1, <1>11, <3>3, <3>4, LinkedStays DEF BeginSummary, TypeOK, database, history, Typed
  <2>2. CASE ~(slot[p] # Nothing /\ slot[p].label = "RESEARCH")
    <3>1. pass' \in [Partner -> Pass \cup {Idle}]
      BY <1>3, <1>4, <1>11, <2>2 DEF BeginSummary, InPass
    <3> QED BY <1>1, <1>11, <2>2, <3>1, LinkedStays DEF BeginSummary, TypeOK, database, history, Typed
  <2> QED BY <2>1, <2>2
<1>12. CASE SummaryRequested(p)
  <2>1. pass[p].work.task \in TaskId
    BY <1>4, <1>12 DEF SummaryRequested, InPass, Row
  <2>2. remote' \in [Partner -> SUBSET TaskId] /\ done' \in [Partner -> SUBSET TaskId]
    BY <1>1, <1>12, <2>1 DEF SummaryRequested, TypeOK
  <2> QED BY <1>1, <1>3, <1>12, <2>2, LinkedStays DEF SummaryRequested, TypeOK, database, Typed
<1>13. CASE SummaryRefused(p)
  <2>1. Reporting(slot[p], "ERROR") \in Pass \cup {Idle}
    BY <1>2, ReportingType DEF Label
  <2> QED BY <1>3, <1>13, <2>1, ReleaseTypes DEF SummaryRefused
<1>14. CASE Complete(p)
  <2>1. Reporting(ReleasedTask(p), ReplyTo(pass[p].work)) \in Pass \cup {Idle}
    BY <1>2, <1>4, <1>14, ReplyType, ReportingType DEF Complete, InPass, ReleasedTask
  <2> QED BY <1>3, <1>14, <2>1, ReleaseTypes DEF Complete
<1>15. CASE ReportBack(p)
  <2> DEFINE c == pass[p].work.caller
             l == pass[p].reply
  <2>1. c \in Partner /\ pass[p].work.task \in Nat /\ l \in Label
    BY <1>4, <1>15 DEF ReportBack, InPass
  <2>2. pass' \in [Partner -> Pass \cup {Idle}]
    BY <1>3, <1>15 DEF ReportBack
  <2>3. CASE UNCHANGED <<queue, tasks>>
    BY <1>1, <1>15, <2>2, <2>3, LinkedStays DEF ReportBack, TypeOK, history, Typed
  <2>4. CASE /\ queue' = [queue EXCEPT ![c] = Append(@, NewRow(NextTask, p, l))]
             /\ Record(p, {c}, l, IF l = "ERROR" THEN "error" ELSE "answer",
                       pass[p].work.task)
    <3>1. NewRow(NextTask, p, l) \in Row
      BY <1>1, <2>1, NextTaskType, RowTypes
    <3>2. queue' \in [Partner -> Seq(Row)]
      BY <1>1, <2>1, <2>4, <3>1, AppendType DEF TypeOK
    <3>3. tasks' \in Seq(Message)
      BY <1>1, <2>1, <2>4, RecordType
    <3> QED BY <1>1, <1>15, <2>2, <3>2, <3>3, LinkedStays DEF ReportBack, TypeOK, history, Typed
  <2> QED BY <1>15, <2>3, <2>4 DEF ReportBack
<1> QED BY <1>5, <1>6, <1>7, <1>8, <1>9, <1>10, <1>11, <1>12, <1>13, <1>14, <1>15 DEF Drain

\* The remote, the archive and the restart.
LEMMA EnvironmentTypes ==
  ASSUME Typed, NEW p \in Partner, NEW k \in Process,
         RemoteFinishes(p) \/ Archive(p, k) \/ Restart(p, k)
  PROVE  Typed'
<1>1. TypeOK /\ Linked
  BY DEF Typed
<1>2. CASE RemoteFinishes(p)
  <2>1. remote' \in [Partner -> SUBSET TaskId] /\ done' \in [Partner -> SUBSET TaskId]
    BY <1>1, <1>2 DEF RemoteFinishes, TypeOK
  <2> QED BY <1>1, <1>2, <2>1, LinkedStays DEF RemoteFinishes, TypeOK, database, Typed
<1>3. CASE Archive(p, k)
  <2> DEFINE told == {c \in WaitingCallers(k, p) \ {p} : ~archived[c]}
             row == NewRow(NextTask, p, "ERROR")
  <2>1. told \subseteq Partner
    <3>1. \A i \in DOMAIN queue[p] : queue[p][i] \in Row
      BY <1>1, ElementType DEF TypeOK
    <3>2. slot[p] \in Row \cup {Nothing}
      BY <1>1 DEF TypeOK
    <3> QED BY <3>1, <3>2 DEF WaitingCallers, Working, Row
  <2>2. row \in Row
    BY <1>1, NextTaskType, RowTypes DEF Label
  <2>3. queue' = [c \in Partner |-> IF c \in told THEN Append(queue[c], row) ELSE queue[c]]
    BY <1>3 DEF Archive
  <2>4. queue' \in [Partner -> Seq(Row)]
    BY <1>1, <2>2, <2>3, AppendType DEF TypeOK
  <2>5. tasks' \in Seq(Message)
    <3>1. CASE told = {}
      BY <1>1, <1>3, <3>1 DEF Archive, TypeOK
    <3>2. CASE told # {}
      BY <1>1, <1>3, <2>1, <3>2, RecordType DEF Archive, Label
    <3> QED BY <3>1, <3>2
  <2>6. slot' \in [Partner -> Row \cup {Nothing}] /\ archived' \in [Partner -> BOOLEAN]
    BY <1>1, <1>3 DEF Archive, TypeOK
  <2>7. TaskIn(Working(k, p)) \subseteq TaskId
    <3>1. slot[p] \in Row \cup {Nothing}
      BY <1>1 DEF TypeOK
    <3> QED BY <3>1 DEF TaskIn, Working, Row, Nothing
  <2>8. dropped' \in [Partner -> SUBSET TaskId]
    BY <1>1, <1>3, <2>7 DEF Archive, TypeOK
  <2> QED BY <1>1, <1>3, <2>4, <2>5, <2>6, <2>8, LinkedStays DEF Archive, TypeOK, Typed
<1>4. CASE Restart(p, k)
  BY <1>1, <1>4, LinkedStays DEF Restart, TypeOK, history, Typed
<1> QED BY <1>2, <1>3, <1>4

\* Every step keeps the types and the links.
LEMMA StepTypes == Typed /\ [Next]_vars => Typed'
<1> SUFFICES ASSUME Typed, [Next]_vars PROVE Typed'
  OBVIOUS
<1>1. CASE Send
  BY <1>1, SendTypes, SendAdvanceTypes DEF Send
<1>2. ASSUME NEW p \in Partner, Advances(p) \/ Drain(p)
      PROVE  Typed'
  BY <1>2, AdvanceTypes, DrainTypes
<1>3. ASSUME NEW p \in Partner, RemoteFinishes(p)
      PROVE  Typed'
  <2>1. Owner[p] \in Process
    BY CoreAssumption
  <2> QED BY <1>3, <2>1, EnvironmentTypes
<1>4. ASSUME NEW p \in Partner, NEW k \in Process, Archive(p, k) \/ Restart(p, k)
      PROVE  Typed'
  BY <1>4, EnvironmentTypes
<1>5. CASE UNCHANGED vars
  BY <1>5, LinkedStays DEF Typed, TypeOK, vars
<1> QED BY <1>1, <1>2, <1>3, <1>4, <1>5 DEF Next

\* The initial state.
LEMMA InitTypes == Init => Typed
BY EmptySeq DEF Init, Typed, TypeOK, Linked

\* Every state the processes, the remotes and the failures can reach between
\* them has the types its tables and its slots are declared with.
THEOREM CoreTypeCorrect == Spec => []TypeOK
<1>1. Typed => TypeOK
  BY DEF Typed
<1> QED BY <1>1, InitTypes, StepTypes, PTL DEF Spec

-----------------------------------------------------------------------------
(***************************************************************************)
(* Interruption, in a system of one process.                               *)
(***************************************************************************)

\* An agent that waits has an empty slot, and nobody is advancing its queue.
\* The second half is what makes the first inductive: an advance that is under
\* way holds the lock, which keeps the interruption out until its task is
\* delivered.
Still(p) == interrupted[p] => slot[p] = Nothing /\ adv[p] = Free

\* A slot that is emptied, or left alone, with its advance and its mark.
LEMMA StillStays ==
  ASSUME NEW p \in Partner, Still(p), slot'[p] \in {slot[p], Nothing},
         adv'[p] \in {adv[p], Free}, interrupted'[p] => interrupted[p]
  PROVE  Still(p)'
BY DEF Still

\* The start of an advance clears the mark of an agent that waits.
LEMMA StillAtAdvance ==
  ASSUME TypeOK, \A p \in Partner : Still(p), NEW k, Process = {k},
         NEW p \in Partner, NEW by,
         AdvanceDrops(k, p) \/ AdvanceReturns(k, p) \/ AdvanceNeedsRemote(k, p)
           \/ AdvanceBegins(k, p, by),
         NEW q \in Partner
  PROVE  Still(q)'
<1>1. Owner[p] = k
  BY CoreAssumption
<1>2. CASE AdvanceDrops(k, p)
  <2>1. slot'[q] \in {slot[q], Nothing}
    BY <1>2 DEF AdvanceDrops, TypeOK
  <2> QED BY <1>2, <2>1, StillStays DEF AdvanceDrops
<1>3. CASE AdvanceReturns(k, p)
  BY <1>3, StillStays DEF AdvanceReturns, database
<1>4. CASE AdvanceNeedsRemote(k, p)
  BY <1>1, <1>4 DEF AdvanceNeedsRemote
<1>5. CASE AdvanceBegins(k, p, by)
  <2>1. CASE q = p
    <3>1. interrupted'[p] <=> interrupted[p] /\ ~Waiting(k, p)
      BY <1>5 DEF AdvanceBegins, ClearIfWaiting, TypeOK
    <3>2. interrupted[p] => Waiting(k, p)
      BY <1>1 DEF Still, Waiting, Working
    <3> QED BY <2>1, <3>1, <3>2 DEF Still
  <2>2. CASE q # p
    <3>1. adv'[q] = adv[q] /\ interrupted'[q] = interrupted[q] /\ slot' = slot
      BY <1>5, <2>2 DEF AdvanceBegins, ClearIfWaiting, TypeOK
    <3> QED BY <3>1, StillStays
  <2> QED BY <2>1, <2>2
<1> QED BY <1>2, <1>3, <1>4, <1>5

\* The steps of a send.
LEMMA StillAtSend ==
  ASSUME TypeOK, \A p \in Partner : Still(p), NEW k, Process = {k}, Send,
         NEW q \in Partner
  PROVE  Still(q)'
<1>1. PICK c \in Partner :
        \/ \E p \in Partner, l \in Label :
             \/ \E i \in Process, b \in BOOLEAN : SendResolve(c, p, l, i, b)
             \/ NextItem(c, p, l)
        \/ SendAdmit(c) \/ SendAdvance(c) \/ SendInterrupt(c) \/ SendInterruptFails(c)
        \/ BatchEnds(c)
  BY DEF Send
<1>2. CASE \/ \E p \in Partner, l \in Label :
                \/ \E i \in Process, b \in BOOLEAN : SendResolve(c, p, l, i, b)
                \/ NextItem(c, p, l)
           \/ SendAdmit(c) \/ SendInterruptFails(c) \/ BatchEnds(c)
  <2>1. UNCHANGED <<slot, adv, interrupted>>
    BY <1>2 DEF SendResolve, NextItem, SendAdmit, SendInterruptFails, BatchEnds, database
  <2> QED BY <2>1, StillStays
<1>3. CASE SendAdvance(c)
  <2>1. call[c] # Idle
    BY <1>3, ControlPoints DEF SendAdvance, Idle
  <2>2. call[c].via = k /\ call[c].to \in Partner
    BY <2>1, CallFields
  <2> QED BY <1>3, <2>2, StillAtAdvance DEF SendAdvance
<1>4. CASE SendInterrupt(c)
  <2>1. call[c] # Idle
    BY <1>4, ControlPoints DEF SendInterrupt, Idle
  <2>2. call[c].via = k /\ Owner[c] = k
    BY <2>1, CallFields, CoreAssumption
  <2>3. adv[c] = Free /\ adv' = adv
    BY <1>4, <2>2 DEF SendInterrupt, LockFree
  <2>4. slot'[c] = Nothing
    BY <1>4, <2>2 DEF SendInterrupt, Working, TypeOK
  <2>5. q # c => slot'[q] = slot[q] /\ interrupted'[q] = interrupted[q]
    BY <1>4 DEF SendInterrupt, TypeOK
  <2>6. CASE q = c
    BY <2>3, <2>4, <2>6 DEF Still
  <2>7. CASE q # c
    BY <2>3, <2>5, <2>7, StillStays
  <2> QED BY <2>6, <2>7
<1> QED BY <1>1, <1>2, <1>3, <1>4

\* The rest of an advance: by then the agent is not marked.
LEMMA StillInAdvance ==
  ASSUME TypeOK, \A p \in Partner : Still(p), NEW p \in Partner, Advances(p),
         NEW q \in Partner
  PROVE  Still(q)'
<1>1. adv[p] # Free
  <2>1. adv[p].pc # "free"
    BY DEF Advances, AdvanceStopFails, AdvanceSwaps, AdvanceDelivers, AdvanceRequeues,
           Swapping, Delivering
  <2> QED BY <2>1 DEF Free
<1>2. ~interrupted[p] /\ interrupted' = interrupted
  BY <1>1 DEF Still, Advances, AdvanceStopFails, AdvanceSwaps, AdvanceDelivers,
              AdvanceRequeues, database
<1>3. q # p => slot'[q] = slot[q] /\ adv'[q] = adv[q]
  BY DEF Advances, AdvanceStopFails, AdvanceSwaps, AdvanceDelivers, AdvanceRequeues, TypeOK
<1>4. CASE q = p
  BY <1>2, <1>4 DEF Still
<1>5. CASE q # p
  BY <1>2, <1>3, <1>5, StillStays
<1> QED BY <1>4, <1>5

\* The steps of a drain pass.  The summary phase is the one that writes a slot,
\* and it writes one that is full.
LEMMA StillInDrain ==
  ASSUME TypeOK, \A p \in Partner : Still(p), NEW k, Process = {k},
         NEW p \in Partner, Drain(p), NEW q \in Partner
  PROVE  Still(q)'
<1>1. CASE DrainAdvance(p)
  <2>1. Owner[p] = k
    BY CoreAssumption
  <2> QED BY <1>1, <2>1, StillAtAdvance DEF DrainAdvance
<1>2. CASE BeginSummary(p)
  <2>1. UNCHANGED <<adv, interrupted>> /\ (q # p => slot'[q] = slot[q])
    BY <1>2 DEF BeginSummary, database, TypeOK
  <2>2. slot'[p] = slot[p] \/ slot[p] # Nothing
    BY <1>2 DEF BeginSummary
  <2>3. CASE q # p \/ slot'[p] = slot[p]
    BY <2>1, <2>3, StillStays
  <2>4. CASE q = p /\ slot[p] # Nothing
    BY <2>1, <2>4 DEF Still
  <2> QED BY <2>2, <2>3, <2>4
<1>3. CASE ReleaseBlocked(p) \/ SummaryRefused(p) \/ Complete(p)
  <2>1. Release(p)
    BY <1>3 DEF ReleaseBlocked, SummaryRefused, Complete
  <2>2. UNCHANGED <<adv, interrupted>> /\ slot'[q] \in {slot[q], Nothing}
    BY <2>1 DEF Release, database, TypeOK
  <2> QED BY <2>2, StillStays
<1>4. CASE \/ Poll(p) \/ PollAnswers(p) \/ PollMeetsApproval(p) \/ CheckNoWork(p)
           \/ SummaryRequested(p) \/ ReportBack(p)
  <2>1. UNCHANGED <<slot, adv, interrupted>>
    BY <1>4 DEF Poll, PollAnswers, PollMeetsApproval, CheckNoWork, SummaryRequested,
                ReportBack, database
  <2> QED BY <2>1, StillStays
<1> QED BY <1>1, <1>2, <1>3, <1>4 DEF Drain

\* Every step.
LEMMA StillStep ==
  ASSUME NEW k, Process = {k}
  PROVE  TypeOK /\ (\A p \in Partner : Still(p)) /\ [Next]_vars
           => (\A p \in Partner : Still(p))'
<1> SUFFICES ASSUME TypeOK, \A p \in Partner : Still(p), [Next]_vars, NEW q \in Partner
             PROVE  Still(q)'
  OBVIOUS
<1>1. CASE Send
  BY <1>1, StillAtSend
<1>2. ASSUME NEW p \in Partner, Advances(p) \/ Drain(p)
      PROVE  Still(q)'
  BY <1>2, StillInAdvance, StillInDrain
<1>3. ASSUME NEW p \in Partner, RemoteFinishes(p)
      PROVE  Still(q)'
  BY <1>3, StillStays DEF RemoteFinishes, database
<1>4. ASSUME NEW p \in Partner, NEW i \in Process, Archive(p, i) \/ Restart(p, i)
      PROVE  Still(q)'
  <2>1. adv' = adv /\ slot'[q] \in {slot[q], Nothing} /\ (interrupted'[q] => interrupted[q])
    <3>1. CASE Archive(p, i)
      <4>1. slot' = slot \/ slot' = [slot EXCEPT ![p] = Nothing]
        BY <3>1 DEF Archive
      <4>2. adv' = adv /\ interrupted' = interrupted
        BY <3>1 DEF Archive
      <4> QED BY <4>1, <4>2 DEF TypeOK
    <3>2. CASE Restart(p, i)
      <4>1. adv' = adv /\ slot' = slot /\ interrupted' = [interrupted EXCEPT ![p] = FALSE]
        BY <3>2 DEF Restart
      <4> QED BY <4>1 DEF TypeOK
    <3> QED BY <1>4, <3>1, <3>2
  <2> QED BY <2>1, StillStays
<1>5. CASE UNCHANGED vars
  BY <1>5, StillStays DEF vars
<1> QED BY <1>1, <1>2, <1>3, <1>4, <1>5 DEF Next

\* In a system of one process an agent that waits for an answer has nothing in
\* its slot and nothing on the way there, whatever is sent, displaced, refused,
\* stopped, archived or restarted meanwhile.
THEOREM InterruptedAreEmpty ==
  ASSUME NEW k, Process = {k}
  PROVE  Spec => []InterruptedHoldsNothing
<1>1. Init => \A p \in Partner : Still(p)
  BY DEF Init, Still
<1>2. TypeOK /\ (\A p \in Partner : Still(p)) /\ [Next]_vars
        => (\A p \in Partner : Still(p))'
  BY StillStep
<1>3. (\A p \in Partner : Still(p)) => InterruptedHoldsNothing
  BY DEF Still, InterruptedHoldsNothing, InFlight, Delivering, Free
<1> QED BY <1>1, <1>2, <1>3, CoreTypeCorrect, PTL DEF Spec

-----------------------------------------------------------------------------
(***************************************************************************)
(* What the operations do to the tasks of a queue.                         *)
(***************************************************************************)

\* No task has two rows.
Distinct(q) == \A i, j \in DOMAIN q : q[i].task = q[j].task => i = j

\* A queue with row i taken out: the rows behind it have moved up by one.
LEMMA RemoveAtRows ==
  ASSUME NEW S, NEW q \in Seq(S), NEW i \in DOMAIN q
  PROVE  /\ RemoveAt(q, i) \in Seq(S)
         /\ Len(RemoveAt(q, i)) = Len(q) - 1
         /\ DOMAIN RemoveAt(q, i) = 1 .. Len(q) - 1
         /\ \A j \in 1 .. Len(q) - 1 :
              RemoveAt(q, i)[j] = IF j < i THEN q[j] ELSE q[j + 1]
<1> DEFINE front == SubSeq(q, 1, i - 1)
           back == SubSeq(q, i + 1, Len(q))
<1>1. i \in 1 .. Len(q) /\ Len(q) \in Nat
  OBVIOUS
<1>2. front \in Seq(S) /\ Len(front) = i - 1 /\ \A j \in 1 .. i - 1 : front[j] = q[j]
  BY <1>1
<1>3. /\ back \in Seq(S)
      /\ Len(back) = Len(q) - i
      /\ \A j \in 1 .. Len(q) - i : back[j] = q[i + j]
  BY <1>1
<1>4. RemoveAt(q, i) = front \o back
  BY DEF RemoveAt
<1> HIDE DEF front, back
<1>5. /\ Len(front \o back) = Len(q) - 1
      /\ \A j \in 1 .. Len(q) - 1 :
           (front \o back)[j] = IF j <= i - 1 THEN front[j] ELSE back[j - (i - 1)]
  <2>1. /\ Len(front \o back) = Len(front) + Len(back)
        /\ \A j \in 1 .. Len(front) + Len(back) :
             (front \o back)[j] = IF j <= Len(front) THEN front[j] ELSE back[j - Len(front)]
    BY <1>2, <1>3, ConcatProperties
  <2>2. Len(front) + Len(back) = Len(q) - 1
    BY <1>1, <1>2, <1>3
  <2> QED BY <1>2, <2>1, <2>2
<1>6. ASSUME NEW j \in 1 .. Len(q) - 1
      PROVE  (front \o back)[j] = IF j < i THEN q[j] ELSE q[j + 1]
  <2>1. CASE j < i
    BY <2>1, <1>1, <1>2, <1>5
  <2>2. CASE ~(j < i)
    <3>1. j - (i - 1) \in 1 .. Len(q) - i /\ i + (j - (i - 1)) = j + 1 /\ ~(j <= i - 1)
      BY <2>2, <1>1
    <3>2. (front \o back)[j] = back[j - (i - 1)]
      BY <1>5, <3>1
    <3> QED BY <1>3, <2>2, <3>1, <3>2
  <2> QED BY <2>1, <2>2
<1>7. front \o back \in Seq(S)
  BY <1>2, <1>3, ConcatProperties
<1>8. DOMAIN (front \o back) = 1 .. Len(q) - 1
  BY <1>5, <1>7, LenProperties
<1> QED BY <1>4, <1>5, <1>6, <1>7, <1>8

\* A row at the end brings its task, and no second row of one.
LEMMA AppendTasks ==
  ASSUME NEW q \in Seq(Row), NEW r \in Row
  PROVE  /\ Range(Append(q, r)) = Range(q) \cup {r}
         /\ TasksOf(Append(q, r)) = TasksOf(q) \cup {r.task}
         /\ Distinct(q) /\ r.task \notin TasksOf(q) => Distinct(Append(q, r))
<1> DEFINE s == Append(q, r)
<1>1. /\ DOMAIN s = 1 .. Len(q) + 1 /\ Len(q) \in Nat /\ DOMAIN q = 1 .. Len(q)
      /\ \A i \in 1 .. Len(q) : s[i] = q[i]
      /\ s[Len(q) + 1] = r
  BY LenProperties, AppendProperties
<1> HIDE DEF s
<1>2. DOMAIN s = DOMAIN q \cup {Len(q) + 1} /\ Len(q) + 1 \notin DOMAIN q
  BY <1>1
<1>3. Range(s) = Range(q) \cup {r}
  BY <1>1, <1>2 DEF Range
<1>4. TasksOf(s) = TasksOf(q) \cup {r.task}
  BY <1>1, <1>2 DEF TasksOf
<1>5. ASSUME Distinct(q), r.task \notin TasksOf(q)
      PROVE  Distinct(s)
  BY <1>1, <1>2, <1>5 DEF Distinct, TasksOf
<1> QED BY <1>3, <1>4, <1>5 DEF s

\* A deletion by id takes the task's one row and no other.
LEMMA WithoutTasks ==
  ASSUME NEW q \in Seq(Row), Distinct(q), NEW t
  PROVE  /\ Distinct(Without(q, t))
         /\ Range(Without(q, t)) = {w \in Range(q) : w.task # t}
         /\ TasksOf(Without(q, t)) = TasksOf(q) \ {t}
<1>1. CASE ~\E i \in DOMAIN q : q[i].task = t
  BY <1>1 DEF Without, Range, TasksOf
<1>2. CASE \E i \in DOMAIN q : q[i].task = t
  <2> DEFINE i == CHOOSE i \in DOMAIN q : q[i].task = t
             s == RemoveAt(q, i)
             from(j) == IF j < i THEN j ELSE j + 1
  <2>1. i \in DOMAIN q /\ q[i].task = t /\ Without(q, t) = s
    BY <1>2 DEF Without
  <2>2. Len(q) \in Nat /\ DOMAIN q = 1 .. Len(q)
    BY LenProperties
  <2> HIDE DEF i
  <2>3. DOMAIN s = 1 .. Len(q) - 1 /\ \A j \in DOMAIN s : s[j] = q[from(j)]
    BY <2>1, RemoveAtRows
  <2> HIDE DEF s
  <2>4. \A j \in DOMAIN s : from(j) \in DOMAIN q \ {i}
    BY <2>1, <2>2, <2>3
  <2>5. \A j \in DOMAIN q \ {i} : \E k \in DOMAIN s : from(k) = j
    <3> SUFFICES ASSUME NEW j \in DOMAIN q \ {i} PROVE \E k \in DOMAIN s : from(k) = j
      OBVIOUS
    <3>1. CASE j < i
      BY <2>1, <2>2, <2>3, <3>1
    <3>2. CASE j > i
      <4>1. j - 1 \in DOMAIN s /\ from(j - 1) = j
        BY <2>1, <2>2, <2>3, <3>2
      <4> QED BY <4>1
    <3> QED BY <2>1, <2>2, <3>1, <3>2
  <2>6. \A j, k \in DOMAIN s : from(j) = from(k) => j = k
    BY <2>1, <2>2, <2>3
  <2> HIDE DEF from
  <2>7. \A j \in DOMAIN q \ {i} : q[j].task # t
    BY <2>1 DEF Distinct
  <2>8. Range(s) = {w \in Range(q) : w.task # t}
    BY <2>1, <2>3, <2>4, <2>5, <2>7 DEF Range
  <2>9. TasksOf(s) = TasksOf(q) \ {t}
    BY <2>1, <2>3, <2>4, <2>5, <2>7 DEF TasksOf
  <2>10. Distinct(s)
    BY <2>3, <2>4, <2>6 DEF Distinct
  <2> QED BY <2>1, <2>8, <2>9, <2>10
<1> QED BY <1>1, <1>2

-----------------------------------------------------------------------------
(***************************************************************************)
(* The motions of a task.  To the queue, the slot and the advance of one   *)
(* partner q, every step of the system is one of the following, whoever    *)
(* takes it; the invariants about where tasks are rest on these alone.     *)
(***************************************************************************)

\* What says where the tasks of q are.
PlaceOf(q) == <<queue[q], slot[q], adv[q]>>
EndsOf(q) == <<closed[q], dropped[q], archived[q]>>

\* No message for q joins the history.
Untold(q) == tasks' = tasks \/ \E m \in Message : q \notin m.to /\ tasks' = Append(tasks, m)

Rests(q) == Untold(q) /\ UNCHANGED <<PlaceOf(q), EndsOf(q)>>

\* A message for q: its row joins the queue, within its cap.
Arrives(q) ==
  \E m \in Message :
    /\ q \in m.to /\ tasks' = Append(tasks, m)
    /\ m.label \in Capped =>
         \E k \in Process : LockFree(k, q) /\ WithinCap(k, q, m.from, m.label)
    /\ queue'[q] = Append(queue[q], NewRow(NextTask, m.from, m.label))
    /\ UNCHANGED <<slot[q], adv[q], EndsOf(q)>>

\* An interruption: the slot goes back to the queue.
PutsBack(q) ==
  /\ adv[q] = Free /\ slot[q] # Nothing
  /\ queue'[q] = Append(queue[q], PausedRow(slot[q]))
  /\ slot'[q] = Nothing
  /\ UNCHANGED <<adv[q], EndsOf(q), tasks>>

\* The queue of an archived partner is deleted.
Drops(q) ==
  /\ archived[q]
  /\ queue'[q] = <<>> /\ slot'[q] \in {slot[q], Nothing}
  /\ UNCHANGED <<adv[q], closed[q], archived[q], tasks>>

\* An advance begins.
Begins(q) ==
  /\ adv[q] = Free
  /\ \E i \in DOMAIN queue[q] :
       /\ adv'[q].head = queue[q][i] /\ adv'[q].working = slot[q]
       /\ adv'[q].pc = "swapping"
  /\ UNCHANGED <<queue[q], slot[q], EndsOf(q), tasks>>

\* It lets go: what it would displace did not stop.
LetsGo(q) ==
  /\ Swapping(q)
  /\ adv'[q] = Free
  /\ UNCHANGED <<queue[q], slot[q], EndsOf(q), tasks>>

Swaps(q) ==
  /\ Swapping(q)
  /\ queue'[q] = LET rest == Without(queue[q], adv[q].head.task)
                 IN  IF adv[q].working = Nothing THEN rest
                     ELSE Append(rest, PausedRow(adv[q].working))
  /\ slot'[q] = Nothing
  /\ adv'[q].pc = "delivering" /\ adv'[q].working = Nothing /\ adv'[q].head = adv[q].head
  /\ UNCHANGED <<EndsOf(q), tasks>>

Delivers(q) ==
  /\ Delivering(q)
  /\ slot'[q] = adv[q].head /\ adv'[q] = Free
  /\ UNCHANGED <<queue[q], EndsOf(q), tasks>>

Requeues(q) ==
  /\ Delivering(q)
  /\ queue'[q] = Append(queue[q], PausedRow(adv[q].head)) /\ adv'[q] = Free
  /\ UNCHANGED <<slot[q], EndsOf(q), tasks>>

Releases(q) ==
  /\ adv[q] = Free
  /\ slot'[q] = Nothing /\ closed'[q] = closed[q] \cup TaskIn(slot[q])
  /\ UNCHANGED <<queue[q], adv[q], dropped[q], archived[q], tasks>>

Summarises(q) ==
  /\ adv[q] = Free /\ slot[q] # Nothing /\ slot[q].label = "RESEARCH"
  /\ slot'[q] = Summary(slot[q])
  /\ UNCHANGED <<queue[q], adv[q], EndsOf(q), tasks>>

\* q is archived, and its own process forgets what it was working on.
Ends(q) ==
  /\ archived'[q]
  /\ slot'[q] \in {slot[q], Nothing}
  /\ Untold(q)
  /\ UNCHANGED <<queue[q], adv[q], closed[q]>>

Moves(q) ==
  \/ Rests(q) \/ Arrives(q) \/ PutsBack(q) \/ Drops(q)
  \/ Begins(q) \/ LetsGo(q) \/ Swaps(q) \/ Delivers(q) \/ Requeues(q)
  \/ Releases(q) \/ Summarises(q) \/ Ends(q)

\* A pass reports with labels that ask for no reply.
Replying == \A p \in Partner : pass[p].pc = "reporting" => pass[p].reply \in RepliesNothing

\* Nothing that is a place of a task changes.
LEMMA NothingMoves ==
  ASSUME NEW q \in Partner, UNCHANGED <<queue, slot, adv, closed, dropped, archived, tasks>>
  PROVE  Moves(q)
<1>1. Untold(q) /\ UNCHANGED <<PlaceOf(q), EndsOf(q)>>
  BY DEF Untold, PlaceOf, EndsOf
<1> QED BY <1>1 DEF Rests, Moves

\* The start of an advance, whoever starts it.
LEMMA AdvanceStartMoves ==
  ASSUME TypeOK, NEW k \in Process, NEW p \in Partner, NEW by \in Partner,
         AdvanceDrops(k, p) \/ AdvanceReturns(k, p) \/ AdvanceNeedsRemote(k, p)
           \/ AdvanceBegins(k, p, by),
         NEW q \in Partner
  PROVE  Moves(q)
<1>1. CASE AdvanceDrops(k, p)
  <2>1. CASE q = p
    <3>1. Drops(q)
      BY <1>1, <2>1 DEF AdvanceDrops, Drops, TypeOK
    <3> QED BY <3>1 DEF Moves
  <2>2. CASE q # p
    <3>1. UNCHANGED <<PlaceOf(q), EndsOf(q)>> /\ Untold(q)
      BY <1>1, <2>2 DEF AdvanceDrops, PlaceOf, EndsOf, Untold, TypeOK
    <3> QED BY <3>1 DEF Moves, Rests
  <2> QED BY <2>1, <2>2
<1>2. CASE AdvanceReturns(k, p)
  BY <1>2, NothingMoves DEF AdvanceReturns, database, history
<1>3. CASE AdvanceNeedsRemote(k, p)
  BY <1>3, NothingMoves DEF AdvanceNeedsRemote, history
<1>4. CASE AdvanceBegins(k, p, by)
  <2>1. CASE q = p
    <3>1. adv[p] = Free
      BY <1>4 DEF AdvanceBegins, LockFree
    <3>2. PICK i \in DOMAIN queue[p] :
            adv' = [adv EXCEPT ![p] = [pc |-> "swapping", head |-> queue[p][i],
                                       working |-> slot[p], by |-> by,
                                       restarts |-> Waiting(k, p)]]
      BY <1>4 DEF AdvanceBegins
    <3>3. adv'[p].head = queue[p][i] /\ adv'[p].working = slot[p] /\ adv'[p].pc = "swapping"
      BY <3>2 DEF TypeOK
    <3>4. UNCHANGED <<queue[q], slot[q], EndsOf(q), tasks>>
      BY <1>4 DEF AdvanceBegins, EndsOf, history
    <3> QED BY <2>1, <3>1, <3>3, <3>4 DEF Begins, Moves
  <2>2. CASE q # p
    <3>1. UNCHANGED <<PlaceOf(q), EndsOf(q)>> /\ Untold(q)
      BY <1>4, <2>2 DEF AdvanceBegins, PlaceOf, EndsOf, Untold, history, TypeOK
    <3> QED BY <3>1 DEF Moves, Rests
  <2> QED BY <2>1, <2>2
<1> QED BY <1>1, <1>2, <1>3, <1>4

\* The steps of a send.
LEMMA SendMoves ==
  ASSUME TypeOK, Send, NEW q \in Partner
  PROVE  Moves(q)
<1>1. PICK c \in Partner :
        \/ \E p \in Partner, l \in Label :
             \/ \E i \in Process, b \in BOOLEAN : SendResolve(c, p, l, i, b)
             \/ NextItem(c, p, l)
        \/ BatchEnds(c) \/ SendAdmit(c) \/ SendAdvance(c) \/ SendInterrupt(c)
        \/ SendInterruptFails(c)
  BY DEF Send
<1>2. CASE \/ \E p \in Partner, l \in Label :
                \/ \E i \in Process, b \in BOOLEAN : SendResolve(c, p, l, i, b)
                \/ NextItem(c, p, l)
           \/ BatchEnds(c) \/ SendInterruptFails(c)
  BY <1>2, NothingMoves DEF SendResolve, NextItem, BatchEnds, SendInterruptFails, database,
     history
<1>3. CASE SendAdmit(c)
  <2> DEFINE p == call[c].to
             l == call[c].label
             k == call[c].via
             m == [from |-> c, to |-> {p}, label |-> l, kind |-> "send", of |-> 0]
  <2>1. call[c] # Idle
    BY <1>3, ControlPoints DEF SendAdmit, Idle
  <2>2. p \in Partner /\ l \in Label /\ k \in Process
    BY <2>1, CallFields
  <2>3. UNCHANGED <<slot, adv, closed, dropped, archived>>
    BY <1>3 DEF SendAdmit, history
  <2>4. CASE UNCHANGED <<queue, tasks>>
    BY <2>3, <2>4, NothingMoves
  <2>5. CASE /\ WithinCap(k, p, c, l)
             /\ queue' = [queue EXCEPT ![p] = Append(@, NewRow(NextTask, c, l))]
             /\ Record(c, {p}, l, "send", 0)
    <3>1. m \in Message /\ tasks' = Append(tasks, m)
      BY <2>2, <2>5 DEF Message, Record
    <3>2. CASE q = p
      <4>1. queue'[q] = Append(queue[q], NewRow(NextTask, m.from, m.label))
        BY <2>2, <2>5, <3>2 DEF TypeOK
      <4>2. LockFree(k, p) /\ WithinCap(k, q, m.from, m.label) /\ q \in m.to
        BY <1>3, <2>5, <3>2 DEF SendAdmit
      <4> QED BY <2>2, <2>3, <3>1, <3>2, <4>1, <4>2 DEF Arrives, Moves, EndsOf
    <3>3. CASE q # p
      <4>1. queue'[q] = queue[q] /\ q \notin m.to
        BY <2>5, <3>3 DEF TypeOK
      <4> QED BY <2>3, <3>1, <4>1 DEF Rests, Moves, PlaceOf, EndsOf, Untold
    <3> QED BY <3>2, <3>3
  <2> QED BY <1>3, <2>4, <2>5 DEF SendAdmit
<1>4. CASE SendAdvance(c)
  <2>1. call[c] # Idle
    BY <1>4, ControlPoints DEF SendAdvance, Idle
  <2>2. call[c].to \in Partner /\ call[c].via \in Process
    BY <2>1, CallFields
  <2> QED BY <1>4, <2>2, AdvanceStartMoves DEF SendAdvance
<1>5. CASE SendInterrupt(c)
  <2> DEFINE k == call[c].via
             w == Working(k, c)
  <2>1. UNCHANGED <<adv, closed, dropped, archived, tasks>>
    BY <1>5 DEF SendInterrupt, history
  <2>2. CASE w = Nothing
    BY <1>5, <2>1, <2>2, NothingMoves DEF SendInterrupt
  <2>3. CASE w # Nothing
    <3>1. Owner[c] = k /\ w = slot[c] /\ adv[c] = Free
      BY <1>5, <2>3 DEF SendInterrupt, Working, LockFree
    <3>2. /\ queue' = [queue EXCEPT ![c] = Append(@, PausedRow(slot[c]))]
          /\ slot' = [slot EXCEPT ![c] = Nothing]
      BY <1>5, <2>3, <3>1 DEF SendInterrupt
    <3>3. CASE q = c
      BY <2>1, <2>3, <3>1, <3>2, <3>3 DEF PutsBack, Moves, EndsOf, TypeOK
    <3>4. CASE q # c
      BY <2>1, <3>2, <3>4 DEF Rests, Moves, Untold, PlaceOf, EndsOf, TypeOK
    <3> QED BY <3>3, <3>4
  <2> QED BY <2>2, <2>3
<1> QED BY <1>1, <1>2, <1>3, <1>4, <1>5

\* The rest of an advance.
LEMMA AdvanceMoves ==
  ASSUME TypeOK, NEW p \in Partner, Advances(p), NEW q \in Partner
  PROVE  Moves(q)
<1>1. CASE q # p
  <2>1. UNCHANGED <<PlaceOf(q), EndsOf(q)>> /\ Untold(q)
    BY <1>1 DEF Advances, AdvanceStopFails, AdvanceSwaps, AdvanceDelivers, AdvanceRequeues,
       PlaceOf, EndsOf, Untold, database, history, TypeOK
  <2> QED BY <2>1 DEF Moves, Rests
<1>2. CASE q = p /\ AdvanceStopFails(p)
  BY <1>2 DEF AdvanceStopFails, Moves, LetsGo, EndsOf, database, history, TypeOK
<1>3. CASE q = p /\ AdvanceSwaps(p)
  <2>1. adv[p] # Free
    BY <1>3, ControlPoints DEF AdvanceSwaps, Swapping, Free
  <2>2. adv[p] \in Advance
    BY <2>1, AdvanceFields
  <2>3. adv'[p] = [adv[p] EXCEPT !.pc = "delivering", !.working = Nothing, !.restarts = FALSE]
    BY <1>3 DEF AdvanceSwaps, TypeOK
  <2>4. adv'[p].pc = "delivering" /\ adv'[p].working = Nothing /\ adv'[p].head = adv[p].head
    BY <2>2, <2>3 DEF Advance
  <2>5. /\ Swapping(p) /\ slot'[p] = Nothing
        /\ UNCHANGED <<EndsOf(p), tasks>>
    BY <1>3 DEF AdvanceSwaps, EndsOf, history, TypeOK
  <2>6. queue'[p] = LET rest == Without(queue[p], adv[p].head.task)
                    IN  IF adv[p].working = Nothing THEN rest
                        ELSE Append(rest, PausedRow(adv[p].working))
    BY <1>3 DEF AdvanceSwaps, TypeOK
  <2> QED BY <1>3, <2>4, <2>5, <2>6 DEF Swaps, Moves
<1>4. CASE q = p /\ AdvanceDelivers(p)
  BY <1>4 DEF AdvanceDelivers, Moves, Delivers, EndsOf, database, TypeOK
<1>5. CASE q = p /\ AdvanceRequeues(p)
  BY <1>5 DEF AdvanceRequeues, Moves, Requeues, EndsOf, history, TypeOK
<1> QED BY <1>1, <1>2, <1>3, <1>4, <1>5 DEF Advances

\* What owes nothing has no cap.
LEMMA RepliesUncapped == \A l \in RepliesNothing : l \in Label /\ l \notin Capped
<1>1. ReplyBehavior["QUERY"] # NoLabel /\ ReplyBehavior["RESEARCH"] # NoLabel
  BY DEF ReplyBehavior, NoLabel
<1> QED BY <1>1 DEF RepliesNothing, Capped

\* The steps of a drain pass.
LEMMA DrainMoves ==
  ASSUME TypeOK, Replying, NEW p \in Partner, Drain(p), NEW q \in Partner
  PROVE  Moves(q)
<1>1. Owner[p] \in Process
  BY CoreAssumption
<1>2. CASE DrainAdvance(p)
  BY <1>1, <1>2, AdvanceStartMoves DEF DrainAdvance
<1>3. CASE Poll(p) \/ PollAnswers(p) \/ PollMeetsApproval(p) \/ CheckNoWork(p)
             \/ SummaryRequested(p)
  BY <1>3, NothingMoves DEF Poll, PollAnswers, PollMeetsApproval, CheckNoWork,
     SummaryRequested, database, history
<1>4. CASE BeginSummary(p)
  <2>1. UNCHANGED <<queue, adv, closed, dropped, archived, tasks>> /\ adv[p] = Free
    BY <1>4 DEF BeginSummary, database, history, LockFree
  <2>2. CASE slot[p] # Nothing /\ slot[p].label = "RESEARCH"
    <3>1. slot' = [slot EXCEPT ![p] = Summary(@)]
      BY <1>4, <2>2 DEF BeginSummary
    <3> QED BY <2>1, <2>2, <3>1 DEF Rests, Summarises, Moves, Untold, PlaceOf, EndsOf, TypeOK
  <2>3. CASE ~(slot[p] # Nothing /\ slot[p].label = "RESEARCH")
    BY <1>4, <2>1, <2>3, NothingMoves DEF BeginSummary
  <2> QED BY <2>2, <2>3
<1>5. CASE ReleaseBlocked(p) \/ SummaryRefused(p) \/ Complete(p)
  <2>1. Release(p)
    BY <1>5 DEF ReleaseBlocked, SummaryRefused, Complete
  <2> QED BY <2>1 DEF Release, LockFree, Rests, Releases, Moves, Untold, PlaceOf, EndsOf,
          database, TypeOK
<1>6. CASE ReportBack(p)
  <2> DEFINE c == pass[p].work.caller
             l == pass[p].reply
             m == [from |-> p, to |-> {c}, label |-> l,
                   kind |-> IF l = "ERROR" THEN "error" ELSE "answer", of |-> pass[p].work.task]
  <2>1. pass[p] # Idle
    BY <1>6 DEF ReportBack, InPass, Idle
  <2>2. c \in Partner /\ l \in Label /\ pass[p].work.task \in Nat /\ l \notin Capped
    <3>1. l \in RepliesNothing
      BY <1>6 DEF Replying, ReportBack, InPass
    <3> QED BY <1>6, <2>1, <3>1, PassFields, RepliesUncapped DEF ReportBack, InPass
  <2>3. UNCHANGED <<slot, adv, closed, dropped, archived>>
    BY <1>6 DEF ReportBack, history
  <2>4. CASE UNCHANGED <<queue, tasks>>
    BY <2>3, <2>4, NothingMoves
  <2>5. CASE /\ queue' = [queue EXCEPT ![c] = Append(@, NewRow(NextTask, p, l))]
             /\ Record(p, {c}, l, IF l = "ERROR" THEN "error" ELSE "answer",
                       pass[p].work.task)
    <3>1. m \in Message /\ tasks' = Append(tasks, m)
      BY <2>2, <2>5 DEF Message, Record
    <3>2. CASE q = c
      <4>1. queue'[q] = Append(queue[q], NewRow(NextTask, m.from, m.label))
        BY <2>2, <2>5, <3>2 DEF TypeOK
      <4> QED BY <2>2, <2>3, <3>1, <3>2, <4>1 DEF Arrives, Moves, EndsOf
    <3>3. CASE q # c
      <4>1. queue'[q] = queue[q] /\ q \notin m.to
        BY <2>5, <3>3 DEF TypeOK
      <4> QED BY <2>3, <3>1, <4>1 DEF Rests, Moves, PlaceOf, EndsOf, Untold
    <3> QED BY <3>2, <3>3
  <2> QED BY <1>6, <2>4, <2>5 DEF ReportBack
<1> QED BY <1>2, <1>3, <1>4, <1>5, <1>6 DEF Drain

\* The archive tells others than the partner itself.
LEMMA ArchiveMoves ==
  ASSUME TypeOK, NEW p \in Partner, NEW k \in Process, Archive(p, k), NEW q \in Partner
  PROVE  Moves(q)
<1> DEFINE told == {c \in WaitingCallers(k, p) \ {p} : ~archived[c]}
           m == [from |-> p, to |-> told, label |-> "ERROR", kind |-> "notice", of |-> 0]
<1>1. told \subseteq Partner
  <2>1. \A i \in DOMAIN queue[p] : queue[p][i] \in Row
    BY ElementType DEF TypeOK
  <2>2. slot[p] \in Row \cup {Nothing}
    BY DEF TypeOK
  <2> QED BY <2>1, <2>2 DEF WaitingCallers, Working, Row
<1>2. m \in Message /\ "ERROR" \notin Capped
  BY <1>1 DEF Message, Label, Capped
<1>3. (told = {} => tasks' = tasks) /\ (told # {} => tasks' = Append(tasks, m))
  BY DEF Archive, Record
<1>4. queue' = [c \in Partner |-> IF c \in told THEN Append(queue[c], NewRow(NextTask, p, "ERROR"))
                                  ELSE queue[c]]
  BY DEF Archive
<1>5. UNCHANGED <<adv, closed>> /\ p \notin told
  BY DEF Archive
<1>6. CASE q = p
  <2>1. archived'[q] /\ slot'[q] \in {slot[q], Nothing}
    BY <1>6 DEF Archive, TypeOK
  <2>2. Untold(q)
    BY <1>2, <1>3, <1>5, <1>6 DEF Untold
  <2> QED BY <1>4, <1>5, <1>6, <2>1, <2>2 DEF Ends, Moves
<1>7. CASE q # p
  <2>1. UNCHANGED <<slot[q], adv[q], EndsOf(q)>>
    BY <1>7 DEF Archive, EndsOf, TypeOK
  <2>2. CASE q \in told
    BY <1>2, <1>3, <1>4, <2>1, <2>2 DEF Arrives, Moves
  <2>3. CASE q \notin told
    BY <1>2, <1>3, <1>4, <2>1, <2>3 DEF Rests, Moves, Untold, PlaceOf
  <2> QED BY <2>2, <2>3
<1> QED BY <1>6, <1>7

\* Every step.
LEMMA StepMoves ==
  ASSUME TypeOK, Replying, [Next]_vars, NEW q \in Partner
  PROVE  Moves(q)
<1>1. CASE Send
  BY <1>1, SendMoves
<1>2. ASSUME NEW p \in Partner, Advances(p) \/ Drain(p)
      PROVE  Moves(q)
  BY <1>2, AdvanceMoves, DrainMoves
<1>3. ASSUME NEW p \in Partner, RemoteFinishes(p)
      PROVE  Moves(q)
  BY <1>3, NothingMoves DEF RemoteFinishes, database
<1>4. ASSUME NEW p \in Partner, NEW k \in Process, Archive(p, k) \/ Restart(p, k)
      PROVE  Moves(q)
  BY <1>4, ArchiveMoves, NothingMoves DEF Restart, history
<1>5. CASE UNCHANGED vars
  BY <1>5, NothingMoves DEF vars
<1> QED BY <1>1, <1>2, <1>3, <1>4, <1>5 DEF Next

-----------------------------------------------------------------------------
(***************************************************************************)
(* Where the tasks of a partner are, what their marks say, and what its    *)
(* history has of them.                                                    *)
(***************************************************************************)

\* The rows of p, the task in its slot and those its advance has read.
Burden(p) ==
  Range(queue[p]) \cup ({slot[p]} \ {Nothing})
    \cup (IF adv[p] = Free THEN {} ELSE {adv[p].head, adv[p].working} \ {Nothing})

\* No task is in two places.  A swap still has its head in the queue, as it
\* was read, and puts back the task it found in the slot if that was forgotten
\* since; a delivery has emptied the slot.
Apart(p) ==
  /\ Distinct(queue[p])
  /\ slot[p].task \notin TasksOf(queue[p])
  /\ Delivering(p) =>
       /\ slot[p] = Nothing /\ adv[p].working = Nothing
       /\ adv[p].head.task \notin TasksOf(queue[p])
  /\ Swapping(p) =>
       /\ slot[p] \in {adv[p].working, Nothing}
       /\ adv[p].working.task \notin TasksOf(queue[p]) \cup {adv[p].head.task}
       /\ \A i \in DOMAIN queue[p] :
            queue[p][i].task = adv[p].head.task => queue[p][i] = adv[p].head

\* Nothing of it is over.
Over(p) == \A w \in Burden(p) : w.task \notin closed[p]

\* Nothing of a live partner is missing.
AllHere(p) ==
  ~archived[p] =>
    /\ dropped[p] = {}
    /\ Swapping(p) => slot[p] = adv[p].working /\ adv[p].head \in Range(queue[p])
    /\ AdmittedTo(p)
         = TasksOf(queue[p]) \cup TaskIn(slot[p]) \cup TaskIn(InFlight(p)) \cup closed[p]

\* The marks are those of research asked for its report, or there are none.
Marked(w) ==
  LET l == tasks[w.task].label
  IN  \/ w.origin = NoLabel /\ ~w.summary /\ w.label = l
      \/ w.origin = l /\ l = "RESEARCH" /\ w.summary /\ w.label = "TRUTHFUL_REPORT"

\* w is a message for p as it was recorded.
Genuine(p, w) ==
  /\ w.task \in AdmittedTo(p)
  /\ w.caller = tasks[w.task].from
  /\ Marked(w)

AllGenuine(p) ==
  /\ \A w \in Burden(p) : Genuine(p, w)
  /\ closed[p] \subseteq AdmittedTo(p)

Located(p) == Apart(p) /\ Over(p) /\ AllHere(p) /\ AllGenuine(p)

\* A message joins the history under the next id.
LEMMA Grown ==
  ASSUME TypeOK, NEW m \in Message, tasks' = Append(tasks, m)
  PROVE  /\ DOMAIN tasks' = DOMAIN tasks \cup {NextTask} /\ NextTask \notin DOMAIN tasks
         /\ tasks'[NextTask] = m
         /\ \A n \in DOMAIN tasks : tasks'[n] = tasks[n]
BY LenProperties, AppendProperties DEF TypeOK, NextTask

\* What that does to the messages for one partner.
LEMMA AdmittedGrows ==
  ASSUME TypeOK, NEW m \in Message, tasks' = Append(tasks, m), NEW q \in Partner
  PROVE  AdmittedTo(q)' = AdmittedTo(q) \cup (IF q \in m.to THEN {NextTask} ELSE {})
BY Grown DEF AdmittedTo

\* The history of one partner, at every step.
LEMMA AdmittedStep ==
  ASSUME TypeOK, NEW q \in Partner, Moves(q)
  PROVE  /\ AdmittedTo(q) \subseteq AdmittedTo(q)'
         /\ \A n \in AdmittedTo(q) : tasks'[n] = tasks[n]
         /\ Untold(q) => AdmittedTo(q)' = AdmittedTo(q)
<1>1. tasks' = tasks \/ \E m \in Message : tasks' = Append(tasks, m)
  BY DEF Moves, Rests, Arrives, PutsBack, Drops, Begins, LetsGo, Swaps, Delivers, Requeues,
     Releases, Summarises, Ends, Untold
<1>2. CASE tasks' = tasks
  BY <1>2 DEF AdmittedTo
<1>3. CASE \E m \in Message : tasks' = Append(tasks, m)
  <2>1. AdmittedTo(q) \subseteq AdmittedTo(q)' /\ \A n \in AdmittedTo(q) : tasks'[n] = tasks[n]
    BY <1>3, Grown, AdmittedGrows DEF AdmittedTo
  <2>2. ASSUME Untold(q) PROVE AdmittedTo(q)' = AdmittedTo(q)
    BY <1>2, <2>2, AdmittedGrows DEF Untold
  <2> QED BY <2>1, <2>2
<1> QED BY <1>1, <1>2, <1>3

\* What an advance leaves a row of: the fields it reads.
LEMMA BurdenRows ==
  ASSUME TypeOK, NEW p \in Partner
  PROVE  /\ Burden(p) \subseteq Row
         /\ queue[p] \in Seq(Row)
         /\ Range(queue[p]) \subseteq Row
         /\ TasksOf(queue[p]) = {w.task : w \in Range(queue[p])}
         /\ slot[p] \in Row \cup {Nothing}
         /\ \A w \in Row : w.task \in TaskId /\ w.task # 0 /\ w # Nothing
         /\ Nothing.task = 0
<1>1. \A i \in DOMAIN queue[p] : queue[p][i] \in Row
  BY ElementType DEF TypeOK
<1>2. Range(queue[p]) \subseteq Row
  BY <1>1 DEF Range
<1>3. slot[p] \in Row \cup {Nothing} /\ queue[p] \in Seq(Row)
  BY DEF TypeOK
<1>4. adv[p] # Free => {adv[p].head, adv[p].working} \subseteq Row \cup {Nothing}
  BY AdvanceFields
<1>5. Burden(p) \subseteq Row
  BY <1>2, <1>3, <1>4 DEF Burden
<1>6. \A w \in Row : w.task \in TaskId /\ w.task # 0 /\ w # Nothing
  BY RowTypes DEF Row, TaskId
<1>7. Nothing.task = 0
  BY DEF Nothing
<1>8. TasksOf(queue[p]) = {w.task : w \in Range(queue[p])}
  BY DEF TasksOf, Range
<1> QED BY <1>2, <1>3, <1>5, <1>6, <1>7, <1>8

\* A task put back is the same task.
LEMMA PausedTask ==
  \A w \in Row : /\ PausedRow(w) \in Row /\ PausedRow(w).task = w.task
                 /\ PausedRow(w).caller = w.caller /\ PausedRow(w).label = w.label
                 /\ PausedRow(w).origin = w.origin /\ PausedRow(w).summary = w.summary
BY DEF PausedRow, Row

\* So is one asked for its report.
LEMMA SummaryTask ==
  \A w \in Row : /\ Summary(w) \in Row /\ Summary(w).task = w.task
                 /\ Summary(w).caller = w.caller /\ Summary(w).label = "TRUTHFUL_REPORT"
                 /\ Summary(w).origin = "RESEARCH" /\ Summary(w).summary = TRUE
BY DEF Summary, Row, Label

\* The row of a message.
LEMMA NewTask ==
  ASSUME TypeOK, NEW c \in Partner, NEW l \in Label
  PROVE  LET r == NewRow(NextTask, c, l)
         IN  /\ r \in Row /\ r.task = NextTask /\ r.caller = c /\ r.label = l
             /\ r.origin = NoLabel /\ r.summary = FALSE
BY NextTaskType, RowTypes DEF NewRow

\* How a task of q's got where it is: it was there, unmoved, paused or asked for
\* its report, or it has just arrived.
LEMMA BurdenStep ==
  ASSUME TypeOK, TypeOK', NEW q \in Partner, Moves(q), Distinct(queue[q]),
         NEW w \in Burden(q)'
  PROVE  \/ w \in Burden(q)
         \/ \E v \in Burden(q) : w = PausedRow(v)
         \/ slot[q] \in Burden(q) /\ slot[q].label = "RESEARCH" /\ w = Summary(slot[q])
         \/ \E m \in Message : /\ q \in m.to /\ tasks' = Append(tasks, m)
                               /\ w = NewRow(NextTask, m.from, m.label)
<1> DEFINE rows == Range(queue[q])
<1>1. /\ queue[q] \in Seq(Row) /\ slot[q] \in Row \cup {Nothing}
      /\ rows \subseteq Burden(q) /\ (slot[q] # Nothing => slot[q] \in Burden(q))
  BY BurdenRows DEF Burden
<1>2. (Swapping(q) \/ Delivering(q)) =>
        /\ adv[q] # Free /\ adv[q].head \in Burden(q) /\ adv[q].head \in Row
        /\ adv[q].working # Nothing => adv[q].working \in Burden(q) /\ adv[q].working \in Row
  BY ControlPoints, AdvanceFields, BurdenRows DEF Swapping, Delivering, Burden, Free
<1>3. /\ \/ w \in Range(queue'[q]) \cup {slot'[q]}
         \/ adv'[q] # Free /\ w \in {adv'[q].head, adv'[q].working}
      /\ w # Nothing
  <2>1. w # Nothing
    <3>1. /\ \A i \in DOMAIN queue'[q] : queue'[q][i] \in Row
          /\ adv'[q] # Free => adv'[q].head \in Row
      BY ElementType DEF TypeOK, Advance
    <3> QED BY <3>1, RowTypes DEF Burden, Range
  <2> QED BY <2>1 DEF Burden
<1>4. CASE Rests(q) \/ LetsGo(q) \/ Drops(q) \/ Ends(q) \/ Releases(q)
  <2>1. /\ queue'[q] = queue[q] \/ queue'[q] = <<>>
        /\ slot'[q] \in {slot[q], Nothing}
        /\ adv'[q] \in {adv[q], Free}
    BY <1>4 DEF Rests, LetsGo, Drops, Ends, Releases, PlaceOf
  <2>2. w \in Burden(q)
    BY <2>1 DEF Burden, Range
  <2> QED BY <2>2
<1>5. CASE Arrives(q)
  <2>1. PICK m \in Message :
          /\ q \in m.to /\ tasks' = Append(tasks, m)
          /\ queue'[q] = Append(queue[q], NewRow(NextTask, m.from, m.label))
          /\ UNCHANGED <<slot[q], adv[q]>>
    BY <1>5 DEF Arrives
  <2>2. NewRow(NextTask, m.from, m.label) \in Row
    BY NewTask DEF Message
  <2>3. Range(queue'[q]) = rows \cup {NewRow(NextTask, m.from, m.label)}
    BY <1>1, <2>1, <2>2, AppendTasks
  <2>4. w \in Burden(q) \/ w = NewRow(NextTask, m.from, m.label)
    BY <2>1, <2>3 DEF Burden
  <2> QED BY <2>1, <2>4
<1>6. CASE PutsBack(q)
  <2>1. Range(queue'[q]) = rows \cup {PausedRow(slot[q])}
    BY <1>1, <1>6, AppendTasks, PausedTask DEF PutsBack
  <2>2. slot'[q] = Nothing /\ adv'[q] = Free /\ slot[q] # Nothing
    BY <1>6 DEF PutsBack
  <2> QED BY <1>1, <1>3, <2>1, <2>2
<1>7. CASE Begins(q)
  <2>1. /\ queue'[q] = queue[q] /\ slot'[q] = slot[q] /\ adv'[q].working = slot[q]
        /\ adv'[q].head \in rows
    BY <1>7 DEF Begins, Range
  <2> QED BY <1>1, <1>3, <2>1
<1>8. CASE Swaps(q)
  <2> DEFINE rest == Without(queue[q], adv[q].head.task)
  <2>1. rest \in Seq(Row) /\ Range(rest) \subseteq rows
    BY <1>1, WithoutTasks, WithoutType
  <2>2. Range(queue'[q]) \subseteq rows
          \cup (IF adv[q].working = Nothing THEN {} ELSE {PausedRow(adv[q].working)})
    <3>1. CASE adv[q].working = Nothing
      BY <1>8, <2>1, <3>1 DEF Swaps
    <3>2. CASE adv[q].working # Nothing
      <4>1. queue'[q] = Append(rest, PausedRow(adv[q].working)) /\ PausedRow(adv[q].working) \in Row
        BY <1>2, <1>8, <3>2, PausedTask DEF Swaps
      <4> QED BY <2>1, <3>2, <4>1, AppendTasks
    <3> QED BY <3>1, <3>2
  <2>3. /\ slot'[q] = Nothing /\ adv'[q].head = adv[q].head /\ adv'[q].working = Nothing
        /\ adv[q].head \in Burden(q)
        /\ adv[q].working # Nothing => adv[q].working \in Burden(q)
    BY <1>2, <1>8 DEF Swaps
  <2> QED BY <1>1, <1>3, <2>2, <2>3
<1>9. CASE Delivers(q)
  <2>1. /\ queue'[q] = queue[q] /\ slot'[q] = adv[q].head /\ adv'[q] = Free
        /\ adv[q].head \in Burden(q)
    BY <1>2, <1>9 DEF Delivers
  <2> QED BY <1>1, <1>3, <2>1
<1>10. CASE Requeues(q)
  <2>1. /\ Range(queue'[q]) = rows \cup {PausedRow(adv[q].head)}
        /\ slot'[q] = slot[q] /\ adv'[q] = Free
    BY <1>1, <1>2, <1>10, AppendTasks, PausedTask DEF Requeues
  <2>2. adv[q].head \in Burden(q)
    BY <1>2, <1>10 DEF Requeues
  <2> QED BY <1>1, <1>3, <2>1, <2>2
<1>11. CASE Summarises(q)
  <2>1. /\ queue'[q] = queue[q] /\ slot'[q] = Summary(slot[q]) /\ adv'[q] = Free
        /\ slot[q] # Nothing /\ slot[q].label = "RESEARCH"
    BY <1>11 DEF Summarises
  <2> QED BY <1>1, <1>3, <2>1
<1> QED BY <1>4, <1>5, <1>6, <1>7, <1>8, <1>9, <1>10, <1>11 DEF Moves

\* A row that was recorded stays as it was recorded, paused or not, and asked
\* for its report when it is research; a new one is as its message was.
LEMMA GenuineStep ==
  ASSUME TypeOK, TypeOK', NEW q \in Partner, Moves(q), Distinct(queue[q]), AllGenuine(q),
         NEW w \in Burden(q)'
  PROVE  Genuine(q, w)'
<1>1. \A v \in Burden(q) : v \in Row /\ Genuine(q, v)
  BY BurdenRows DEF AllGenuine
<1>2. ASSUME NEW v \in Row, Genuine(q, v), NEW u,
             \/ /\ u.task = v.task /\ u.caller = v.caller /\ u.label = v.label
                /\ u.origin = v.origin /\ u.summary = v.summary
             \/ v.label = "RESEARCH" /\ u = Summary(v)
      PROVE  Genuine(q, u)'
  <2>1. /\ v.task \in AdmittedTo(q)' /\ tasks'[v.task] = tasks[v.task]
        /\ v.caller = tasks'[v.task].from
    BY <1>2, AdmittedStep DEF Genuine
  <2>2. CASE /\ u.task = v.task /\ u.caller = v.caller /\ u.label = v.label
             /\ u.origin = v.origin /\ u.summary = v.summary
    BY <1>2, <2>1, <2>2 DEF Genuine, Marked
  <2>3. CASE v.label = "RESEARCH" /\ u = Summary(v)
    <3>1. tasks'[v.task].label = "RESEARCH"
      BY <1>2, <2>1, <2>3 DEF Genuine, Marked
    <3>2. u.task = v.task /\ u.caller = v.caller /\ u.label = "TRUTHFUL_REPORT"
            /\ u.origin = "RESEARCH" /\ u.summary = TRUE
      BY <2>3, SummaryTask
    <3> QED BY <2>1, <3>1, <3>2 DEF Genuine, Marked
  <2> QED BY <1>2, <2>2, <2>3
<1>3. CASE w \in Burden(q)
  BY <1>1, <1>2, <1>3
<1>4. CASE \E v \in Burden(q) : w = PausedRow(v)
  <2>1. PICK v \in Burden(q) : w = PausedRow(v)
    BY <1>4
  <2> QED BY <1>1, <1>2, <2>1, PausedTask
<1>5. CASE slot[q] \in Burden(q) /\ slot[q].label = "RESEARCH" /\ w = Summary(slot[q])
  BY <1>1, <1>2, <1>5
<1>6. CASE \E m \in Message : /\ q \in m.to /\ tasks' = Append(tasks, m)
                              /\ w = NewRow(NextTask, m.from, m.label)
  <2>1. PICK m \in Message : /\ q \in m.to /\ tasks' = Append(tasks, m)
                             /\ w = NewRow(NextTask, m.from, m.label)
    BY <1>6
  <2>2. m.from \in Partner /\ m.label \in Label
    BY DEF Message
  <2>3. /\ w.task = NextTask /\ w.caller = m.from /\ w.label = m.label
        /\ w.origin = NoLabel /\ w.summary = FALSE
    BY <2>1, <2>2, NewTask
  <2>4. NextTask \in AdmittedTo(q)' /\ tasks'[NextTask] = m
    BY <2>1, Grown, AdmittedGrows
  <2> QED BY <2>3, <2>4 DEF Genuine, Marked
<1> QED BY <1>3, <1>4, <1>5, <1>6, BurdenStep

\* The places of a queue and a slot, read without the advance.
LEMMA Places0 ==
  ASSUME TypeOK, NEW q \in Partner
  PROVE  /\ Distinct(<<>>) /\ TasksOf(<<>>) = {}
         /\ 0 \notin TasksOf(queue[q])
         /\ (Swapping(q) \/ Delivering(q)) =>
              /\ adv[q] # Free /\ adv[q].head \in Row /\ adv[q].working \in Row \cup {Nothing}
         /\ ~(Swapping(q) /\ Delivering(q))
         /\ adv[q] = Free => ~Swapping(q) /\ ~Delivering(q)
<1>1. 0 \notin TasksOf(queue[q])
  BY BurdenRows DEF Burden
<1>2. (Swapping(q) \/ Delivering(q)) =>
        /\ adv[q] # Free /\ adv[q].head \in Row /\ adv[q].working \in Row \cup {Nothing}
  BY ControlPoints, AdvanceFields DEF Swapping, Delivering
<1> QED BY <1>1, <1>2 DEF Distinct, TasksOf, Swapping, Delivering, Free

\* No motion puts a task in a second place.
LEMMA ApartStep ==
  ASSUME TypeOK, TypeOK', NEW q \in Partner, Moves(q), Apart(q), AllGenuine(q)
  PROVE  Apart(q)'
<1>1. /\ queue[q] \in Seq(Row) /\ slot[q] \in Row \cup {Nothing}
      /\ \A w \in Row : w.task # 0 /\ w # Nothing
      /\ Nothing.task = 0
  BY BurdenRows
<1>2. Distinct(queue[q]) /\ slot[q].task \notin TasksOf(queue[q])
  BY DEF Apart
<1>3. ASSUME queue'[q] \in {queue[q], <<>>}, slot'[q] \in {slot[q], Nothing},
             adv'[q] \in {adv[q], Free}
      PROVE  Apart(q)'
  <2>1. Distinct(queue'[q]) /\ TasksOf(queue'[q]) \subseteq TasksOf(queue[q])
    BY <1>2, <1>3, Places0
  <2>2. slot'[q].task \notin TasksOf(queue'[q])
    BY <1>1, <1>2, <1>3, <2>1, Places0
  <2>3. CASE adv'[q] = Free
    BY <2>1, <2>2, <2>3 DEF Apart, Swapping, Delivering, Free
  <2>4. CASE adv'[q] = adv[q]
    <3>1. Delivering(q)' <=> Delivering(q)
      BY <2>4 DEF Delivering
    <3>2. Swapping(q)' <=> Swapping(q)
      BY <2>4 DEF Swapping
    <3>3. ASSUME Delivering(q)
          PROVE  /\ slot'[q] = Nothing /\ adv'[q].working = Nothing
                 /\ adv'[q].head.task \notin TasksOf(queue'[q])
      BY <1>3, <2>1, <2>4, <3>3 DEF Apart
    <3>4. ASSUME Swapping(q)
          PROVE  /\ slot'[q] \in {adv'[q].working, Nothing}
                 /\ adv'[q].working.task \notin TasksOf(queue'[q]) \cup {adv'[q].head.task}
                 /\ \A i \in DOMAIN queue'[q] :
                      queue'[q][i].task = adv'[q].head.task => queue'[q][i] = adv'[q].head
      BY <1>3, <2>1, <2>4, <3>4 DEF Apart
    <3> QED BY <2>1, <2>2, <3>1, <3>2, <3>3, <3>4 DEF Apart
  <2> QED BY <1>3, <2>3, <2>4
<1>4. CASE Rests(q) \/ LetsGo(q) \/ Drops(q) \/ Ends(q) \/ Releases(q)
  BY <1>3, <1>4 DEF Rests, LetsGo, Drops, Ends, Releases, PlaceOf
<1>5. CASE Arrives(q)
  <2>1. PICK m \in Message :
          /\ q \in m.to /\ tasks' = Append(tasks, m)
          /\ queue'[q] = Append(queue[q], NewRow(NextTask, m.from, m.label))
          /\ UNCHANGED <<slot[q], adv[q]>>
    BY <1>5 DEF Arrives
  <2> DEFINE r == NewRow(NextTask, m.from, m.label)
  <2>2. r \in Row /\ r.task = NextTask
    BY NewTask DEF Message
  <2>3. \A w \in Burden(q) : w.task # NextTask
    BY <2>1, Grown DEF AllGenuine, Genuine, AdmittedTo
  <2>4. NextTask \notin TasksOf(queue[q]) /\ NextTask # slot[q].task
    BY <1>1, <2>2, <2>3, BurdenRows DEF Burden
  <2>5. /\ Distinct(queue'[q]) /\ TasksOf(queue'[q]) = TasksOf(queue[q]) \cup {NextTask}
        /\ Range(queue'[q]) = Range(queue[q]) \cup {r}
    BY <1>1, <1>2, <2>1, <2>2, <2>4, AppendTasks
  <2>6. slot'[q].task \notin TasksOf(queue'[q])
    BY <1>2, <2>1, <2>4, <2>5
  <2>7. (Delivering(q)' <=> Delivering(q)) /\ (Swapping(q)' <=> Swapping(q))
    BY <2>1 DEF Delivering, Swapping
  <2>8. ASSUME Delivering(q) \/ Swapping(q)
        PROVE  adv[q].head.task # NextTask /\ adv[q].working.task # NextTask
    <3>1. adv[q].head \in Burden(q) /\ adv[q].working \in Burden(q) \cup {Nothing}
      BY <1>1, <2>8, Places0 DEF Burden
    <3> QED BY <1>1, <2>2, <2>3, <3>1
  <2>9. ASSUME Delivering(q)
        PROVE  /\ slot'[q] = Nothing /\ adv'[q].working = Nothing
               /\ adv'[q].head.task \notin TasksOf(queue'[q])
    BY <2>1, <2>5, <2>8, <2>9 DEF Apart
  <2>10. ASSUME Swapping(q)
         PROVE  /\ slot'[q] \in {adv'[q].working, Nothing}
                /\ adv'[q].working.task \notin TasksOf(queue'[q]) \cup {adv'[q].head.task}
                /\ \A i \in DOMAIN queue'[q] :
                     queue'[q][i].task = adv'[q].head.task => queue'[q][i] = adv'[q].head
    <3>1. \A w \in Range(queue[q]) : w.task = adv[q].head.task => w = adv[q].head
      BY <2>10 DEF Apart, Range
    <3>2. \A i \in DOMAIN queue'[q] : queue'[q][i] \in Range(queue[q]) \cup {r}
      BY <2>5 DEF Range
    <3> QED BY <2>1, <2>2, <2>5, <2>8, <2>10, <3>1, <3>2 DEF Apart
  <2> QED BY <2>5, <2>6, <2>7, <2>9, <2>10 DEF Apart
<1>6. CASE PutsBack(q)
  <2>1. slot'[q] = Nothing /\ adv'[q] = Free /\ slot[q] # Nothing
    BY <1>6 DEF PutsBack
  <2>2. Distinct(queue'[q]) /\ TasksOf(queue'[q]) = TasksOf(queue[q]) \cup {slot[q].task}
    BY <1>1, <1>2, <1>6, <2>1, AppendTasks, PausedTask DEF PutsBack
  <2>3. 0 \notin TasksOf(queue'[q])
    BY <1>1, <2>1, <2>2, Places0
  <2> QED BY <1>1, <2>1, <2>2, <2>3 DEF Apart, Swapping, Delivering, Free
<1>7. CASE Begins(q)
  <2>1. PICK i \in DOMAIN queue[q] :
          /\ adv'[q].head = queue[q][i] /\ adv'[q].working = slot[q] /\ Swapping(q)'
    BY <1>7 DEF Begins, Swapping
  <2>2. queue'[q] = queue[q] /\ slot'[q] = slot[q] /\ ~Delivering(q)'
    BY <1>7, <2>1 DEF Begins, Swapping, Delivering
  <2>3. queue[q][i].task \in TasksOf(queue[q])
    BY DEF TasksOf
  <2>4. \A j \in DOMAIN queue[q] : queue[q][j].task = queue[q][i].task => queue[q][j] = queue[q][i]
    BY <1>2 DEF Distinct
  <2>5. \A j \in DOMAIN queue'[q] :
          queue'[q][j].task = adv'[q].head.task => queue'[q][j] = adv'[q].head
    BY <2>1, <2>2, <2>4
  <2>6. adv'[q].working.task \notin TasksOf(queue'[q]) \cup {adv'[q].head.task}
    BY <1>2, <2>1, <2>2, <2>3
  <2> QED BY <1>2, <2>1, <2>2, <2>5, <2>6 DEF Apart
<1>8. CASE Swaps(q)
  <2> DEFINE rest == Without(queue[q], adv[q].head.task)
  <2>1. Swapping(q) /\ adv[q].head \in Row /\ adv[q].working \in Row \cup {Nothing}
    BY <1>8, Places0 DEF Swaps
  <2>2. /\ rest \in Seq(Row) /\ Distinct(rest)
        /\ TasksOf(rest) = TasksOf(queue[q]) \ {adv[q].head.task}
    BY <1>1, <1>2, WithoutTasks, WithoutType
  <2>3. adv[q].working.task \notin TasksOf(queue[q]) \cup {adv[q].head.task}
    BY <2>1 DEF Apart
  <2>4. /\ Distinct(queue'[q])
        /\ TasksOf(queue'[q]) = TasksOf(rest)
             \cup (IF adv[q].working = Nothing THEN {} ELSE {adv[q].working.task})
    <3>1. CASE adv[q].working = Nothing
      BY <1>8, <2>2, <3>1 DEF Swaps
    <3>2. CASE adv[q].working # Nothing
      <4>1. queue'[q] = Append(rest, PausedRow(adv[q].working))
        BY <1>8, <3>2 DEF Swaps
      <4>2. /\ PausedRow(adv[q].working) \in Row
            /\ PausedRow(adv[q].working).task = adv[q].working.task
        BY <2>1, <3>2, PausedTask
      <4> QED BY <2>2, <2>3, <3>2, <4>1, <4>2, AppendTasks
    <3> QED BY <3>1, <3>2
  <2>5. adv'[q].head.task \notin TasksOf(queue'[q]) /\ 0 \notin TasksOf(queue'[q])
    <3>1. adv'[q].head = adv[q].head
      BY <1>8 DEF Swaps
    <3> QED BY <1>1, <2>1, <2>2, <2>3, <2>4, <3>1, Places0
  <2>6. slot'[q] = Nothing /\ adv'[q].working = Nothing /\ Delivering(q)' /\ ~Swapping(q)'
    BY <1>8 DEF Swaps, Delivering, Swapping
  <2> QED BY <1>1, <2>4, <2>5, <2>6 DEF Apart
<1>9. CASE Delivers(q)
  <2>1. queue'[q] = queue[q] /\ slot'[q] = adv[q].head /\ adv'[q] = Free /\ Delivering(q)
    BY <1>9 DEF Delivers
  <2>2. slot'[q].task \notin TasksOf(queue'[q])
    BY <2>1 DEF Apart
  <2> QED BY <1>2, <2>1, <2>2 DEF Apart, Swapping, Delivering, Free
<1>10. CASE Requeues(q)
  <2>1. Delivering(q) /\ slot'[q] = Nothing /\ adv'[q] = Free /\ adv[q].head \in Row
    BY <1>10, Places0 DEF Requeues, Apart
  <2>2. adv[q].head.task \notin TasksOf(queue[q])
    BY <2>1 DEF Apart
  <2>3. /\ Distinct(queue'[q])
        /\ TasksOf(queue'[q]) = TasksOf(queue[q]) \cup {adv[q].head.task}
    BY <1>1, <1>2, <1>10, <2>1, <2>2, AppendTasks, PausedTask DEF Requeues
  <2>4. 0 \notin TasksOf(queue'[q])
    BY <1>1, <2>1, <2>3, Places0
  <2> QED BY <1>1, <2>1, <2>3, <2>4 DEF Apart, Swapping, Delivering, Free
<1>11. CASE Summarises(q)
  <2>1. /\ queue'[q] = queue[q] /\ slot'[q] = Summary(slot[q]) /\ adv'[q] = Free
        /\ slot[q] # Nothing
    BY <1>11 DEF Summarises
  <2>2. slot'[q].task = slot[q].task
    BY <1>1, <2>1, SummaryTask
  <2> QED BY <1>2, <2>1, <2>2 DEF Apart, Swapping, Delivering, Free
<1> QED BY <1>4, <1>5, <1>6, <1>7, <1>8, <1>9, <1>10, <1>11 DEF Moves

\* No motion brings back what is over: a release ends the task of the slot, which
\* is nowhere else, and what arrives is new.
LEMMA OverStep ==
  ASSUME TypeOK, TypeOK', NEW q \in Partner, Moves(q), Apart(q), AllGenuine(q), Over(q)
  PROVE  Over(q)' /\ closed'[q] \subseteq AdmittedTo(q)'
<1>1. slot[q] \in Row \cup {Nothing} /\ \A w \in Row : w.task # 0 /\ w # Nothing
  BY BurdenRows
<1>2. AdmittedTo(q) \subseteq AdmittedTo(q)'
  BY AdmittedStep
<1>3. CASE Releases(q)
  <2>1. Burden(q)' \subseteq Range(queue[q])
    BY <1>3 DEF Releases, Burden
  <2>2. \A w \in Range(queue[q]) : w \in Burden(q) /\ w.task # slot[q].task
    BY DEF Burden, Apart, TasksOf, Range
  <2>3. slot[q] # Nothing => slot[q].task \in AdmittedTo(q)
    BY DEF AllGenuine, Genuine, Burden
  <2>4. closed'[q] = closed[q] \cup TaskIn(slot[q])
    BY <1>3 DEF Releases
  <2>5. TaskIn(slot[q]) \subseteq AdmittedTo(q)
    BY <2>3 DEF TaskIn, Nothing
  <2> QED BY <1>2, <2>1, <2>2, <2>4, <2>5 DEF Over, AllGenuine, TaskIn
<1>4. CASE ~Releases(q)
  <2>1. closed'[q] = closed[q]
    BY <1>4 DEF Moves, Rests, Arrives, PutsBack, Drops, Begins, LetsGo, Swaps, Delivers,
       Requeues, Summarises, Ends, EndsOf
  <2>2. ASSUME NEW w \in Burden(q)' PROVE w.task \notin closed[q]
    <3>1. CASE w \in Burden(q)
      BY <3>1 DEF Over
    <3>2. CASE \E v \in Burden(q) : w = PausedRow(v)
      BY <3>2, BurdenRows, PausedTask DEF Over
    <3>3. CASE slot[q] \in Burden(q) /\ w = Summary(slot[q])
      BY <3>3, BurdenRows, SummaryTask DEF Over
    <3>4. CASE \E m \in Message : /\ q \in m.to /\ tasks' = Append(tasks, m)
                                  /\ w = NewRow(NextTask, m.from, m.label)
      <4>1. PICK m \in Message : /\ q \in m.to /\ tasks' = Append(tasks, m)
                                 /\ w = NewRow(NextTask, m.from, m.label)
        BY <3>4
      <4>2. NextTask \notin DOMAIN tasks
        BY <4>1, Grown
      <4>3. w.task = NextTask
        BY <4>1 DEF NewRow
      <4> QED BY <4>2, <4>3 DEF AllGenuine, AdmittedTo
    <3> QED BY <3>1, <3>2, <3>3, <3>4, BurdenStep DEF Apart
  <2> QED BY <1>2, <2>1, <2>2 DEF Over, AllGenuine
<1> QED BY <1>3, <1>4

\* Every motion of a live partner takes a task from one place to another: none
\* is lost on the way.
LEMMA AllHereStep ==
  ASSUME TypeOK, TypeOK', NEW q \in Partner, Moves(q), Apart(q), AllGenuine(q), AllHere(q)
  PROVE  AllHere(q)'
<1> SUFFICES ASSUME ~archived'[q]
             PROVE  /\ dropped'[q] = {}
                    /\ Swapping(q)' =>
                         slot'[q] = adv'[q].working /\ adv'[q].head \in Range(queue'[q])
                    /\ AdmittedTo(q)' = TasksOf(queue'[q]) \cup TaskIn(slot'[q])
                                          \cup TaskIn(InFlight(q)') \cup closed'[q]
  BY DEF AllHere
<1>1. /\ queue[q] \in Seq(Row) /\ slot[q] \in Row \cup {Nothing}
      /\ \A w \in Row : w.task # 0 /\ w # Nothing /\ TaskIn(w) = {w.task}
      /\ TaskIn(Nothing) = {}
  BY BurdenRows DEF TaskIn, Nothing
<1>2. ~archived[q]
  BY DEF Moves, Rests, Arrives, PutsBack, Drops, Begins, LetsGo, Swaps, Delivers, Requeues,
     Releases, Summarises, Ends, EndsOf
<1>3. /\ dropped[q] = {}
      /\ Swapping(q) => slot[q] = adv[q].working /\ adv[q].head \in Range(queue[q])
      /\ AdmittedTo(q)
           = TasksOf(queue[q]) \cup TaskIn(slot[q]) \cup TaskIn(InFlight(q)) \cup closed[q]
  BY <1>2 DEF AllHere
<1>4. dropped'[q] = {}
  BY <1>2, <1>3 DEF Moves, Rests, Arrives, PutsBack, Drops, Begins, LetsGo, Swaps, Delivers,
     Requeues, Releases, Summarises, Ends, EndsOf
<1>5. ~Drops(q) /\ ~Ends(q)
  BY <1>2 DEF Drops, Ends
<1>6. adv[q] = Free => TaskIn(InFlight(q)) = {}
  BY <1>1, Places0 DEF InFlight
<1>7. adv'[q] = Free => TaskIn(InFlight(q)') = {} /\ ~Swapping(q)'
  BY <1>1 DEF InFlight, Delivering, Swapping, Free
<1>8. adv'[q] = adv[q] => InFlight(q)' = InFlight(q) /\ (Swapping(q)' <=> Swapping(q))
  BY DEF InFlight, Delivering, Swapping
<1>9. tasks' = tasks => AdmittedTo(q)' = AdmittedTo(q)
  BY DEF AdmittedTo
<1>10. CASE Rests(q)
  <2>1. UNCHANGED <<queue[q], slot[q], adv[q], closed[q]>> /\ AdmittedTo(q)' = AdmittedTo(q)
    BY <1>10, AdmittedStep DEF Rests, PlaceOf, EndsOf
  <2> QED BY <1>3, <1>4, <1>8, <2>1
<1>11. CASE Arrives(q)
  <2>1. PICK m \in Message :
          /\ q \in m.to /\ tasks' = Append(tasks, m)
          /\ queue'[q] = Append(queue[q], NewRow(NextTask, m.from, m.label))
          /\ UNCHANGED <<slot[q], adv[q], closed[q]>>
    BY <1>11 DEF Arrives, EndsOf
  <2> DEFINE r == NewRow(NextTask, m.from, m.label)
  <2>2. r \in Row /\ r.task = NextTask
    BY NewTask DEF Message
  <2>3. /\ TasksOf(queue'[q]) = TasksOf(queue[q]) \cup {NextTask}
        /\ Range(queue'[q]) = Range(queue[q]) \cup {r}
    BY <1>1, <2>1, <2>2, AppendTasks
  <2>4. AdmittedTo(q)' = AdmittedTo(q) \cup {NextTask}
    BY <2>1, AdmittedGrows
  <2> HIDE DEF r
  <2> QED BY <1>3, <1>4, <1>8, <2>1, <2>3, <2>4
<1>12. CASE PutsBack(q)
  <2>1. slot'[q] = Nothing /\ adv'[q] = Free /\ adv[q] = Free /\ slot[q] # Nothing
          /\ closed'[q] = closed[q] /\ tasks' = tasks
    BY <1>12 DEF PutsBack, EndsOf
  <2>2. TasksOf(queue'[q]) = TasksOf(queue[q]) \cup {slot[q].task}
    BY <1>1, <1>12, <2>1, AppendTasks, PausedTask DEF PutsBack
  <2> QED BY <1>1, <1>3, <1>4, <1>6, <1>7, <1>9, <2>1, <2>2
<1>13. CASE Begins(q)
  <2>1. /\ adv'[q].head \in Range(queue[q]) /\ adv'[q].working = slot[q]
        /\ adv[q] = Free /\ Swapping(q)' /\ ~Delivering(q)'
        /\ UNCHANGED <<queue[q], slot[q], closed[q], tasks>>
    BY <1>13 DEF Begins, Range, Swapping, Delivering, EndsOf
  <2>2. TaskIn(InFlight(q)') = {}
    BY <1>1, <2>1 DEF InFlight
  <2> QED BY <1>3, <1>4, <1>6, <1>9, <2>1, <2>2
<1>14. CASE LetsGo(q)
  <2>1. adv'[q] = Free /\ Swapping(q) /\ UNCHANGED <<queue[q], slot[q], closed[q], tasks>>
    BY <1>14 DEF LetsGo, EndsOf
  <2>2. TaskIn(InFlight(q)) = {}
    BY <1>1, <2>1, Places0 DEF InFlight
  <2> QED BY <1>3, <1>4, <1>7, <1>9, <2>1, <2>2
<1>15. CASE Swaps(q)
  <2> DEFINE rest == Without(queue[q], adv[q].head.task)
  <2>1. /\ Swapping(q) /\ adv[q].head \in Row /\ slot[q] = adv[q].working
        /\ adv[q].head.task \in TasksOf(queue[q])
    <3>1. Swapping(q) /\ slot[q] = adv[q].working /\ adv[q].head \in Range(queue[q])
      BY <1>3, <1>15 DEF Swaps
    <3>2. adv[q].head.task \in TasksOf(queue[q])
      BY <3>1, BurdenRows
    <3> QED BY <3>1, <3>2, Places0
  <2>2. rest \in Seq(Row) /\ TasksOf(rest) = TasksOf(queue[q]) \ {adv[q].head.task}
    BY <1>1, WithoutTasks, WithoutType DEF Apart
  <2>3. TasksOf(queue'[q]) = TasksOf(rest) \cup TaskIn(slot[q])
    <3>1. CASE slot[q] = Nothing
      BY <1>1, <1>15, <2>1, <3>1 DEF Swaps
    <3>2. CASE slot[q] # Nothing
      <4>1. queue'[q] = Append(rest, PausedRow(slot[q]))
        BY <1>15, <2>1, <3>2 DEF Swaps
      <4>2. PausedRow(slot[q]) \in Row /\ PausedRow(slot[q]).task = slot[q].task
        BY <1>1, <3>2, PausedTask
      <4> QED BY <1>1, <2>2, <3>2, <4>1, <4>2, AppendTasks
    <3> QED BY <3>1, <3>2
  <2>4. /\ slot'[q] = Nothing /\ ~Swapping(q)' /\ InFlight(q)' = adv[q].head
        /\ closed'[q] = closed[q] /\ tasks' = tasks
    BY <1>15 DEF Swaps, Swapping, InFlight, Delivering, EndsOf
  <2>5. TaskIn(InFlight(q)) = {} /\ TaskIn(InFlight(q)') = {adv[q].head.task}
    BY <1>1, <2>1, <2>4, Places0 DEF InFlight
  <2> HIDE DEF rest
  <2> QED BY <1>1, <1>3, <1>4, <1>9, <2>1, <2>2, <2>3, <2>4, <2>5
<1>16. CASE Delivers(q)
  <2>1. /\ slot'[q] = adv[q].head /\ adv'[q] = Free /\ InFlight(q) = adv[q].head
        /\ slot[q] = Nothing /\ UNCHANGED <<queue[q], closed[q], tasks>>
    BY <1>16 DEF Delivers, InFlight, Apart, EndsOf
  <2> QED BY <1>1, <1>3, <1>4, <1>7, <1>9, <2>1
<1>17. CASE Requeues(q)
  <2>1. /\ adv'[q] = Free /\ InFlight(q) = adv[q].head /\ adv[q].head \in Row
        /\ UNCHANGED <<slot[q], closed[q], tasks>>
    BY <1>17, Places0 DEF Requeues, InFlight, EndsOf
  <2>2. TasksOf(queue'[q]) = TasksOf(queue[q]) \cup {adv[q].head.task}
    BY <1>1, <1>17, <2>1, AppendTasks, PausedTask DEF Requeues
  <2> QED BY <1>1, <1>3, <1>4, <1>7, <1>9, <2>1, <2>2
<1>18. CASE Releases(q)
  <2>1. /\ slot'[q] = Nothing /\ closed'[q] = closed[q] \cup TaskIn(slot[q])
        /\ adv[q] = Free /\ adv'[q] = Free /\ UNCHANGED <<queue[q], tasks>>
    BY <1>18 DEF Releases
  <2> QED BY <1>1, <1>3, <1>4, <1>6, <1>7, <1>9, <2>1
<1>19. CASE Summarises(q)
  <2>1. /\ slot'[q] = Summary(slot[q]) /\ slot[q] # Nothing
        /\ adv[q] = Free /\ adv'[q] = Free /\ UNCHANGED <<queue[q], closed[q], tasks>>
    BY <1>19 DEF Summarises, EndsOf
  <2>2. TaskIn(slot'[q]) = TaskIn(slot[q])
    BY <1>1, <2>1, SummaryTask
  <2> QED BY <1>3, <1>4, <1>6, <1>7, <1>9, <2>1, <2>2
<1> QED BY <1>5, <1>10, <1>11, <1>12, <1>13, <1>14, <1>15, <1>16, <1>17, <1>18, <1>19 DEF Moves

\* Together.
LEMMA LocatedStep ==
  ASSUME TypeOK, TypeOK', NEW q \in Partner, Moves(q), Located(q)
  PROVE  Located(q)'
<1>1. Apart(q) /\ Over(q) /\ AllHere(q) /\ AllGenuine(q) /\ Distinct(queue[q])
  BY DEF Located, Apart
<1>2. Apart(q)' /\ AllHere(q)'
  BY <1>1, ApartStep, AllHereStep
<1>3. Over(q)' /\ closed'[q] \subseteq AdmittedTo(q)'
  BY <1>1, OverStep
<1>4. \A w \in Burden(q)' : Genuine(q, w)'
  BY <1>1, GenuineStep
<1> QED BY <1>2, <1>3, <1>4 DEF Located, AllGenuine

-----------------------------------------------------------------------------
(***************************************************************************)
(* The same for a pass: what it carries, where it takes it from, and what   *)
(* it tells.                                                               *)
(***************************************************************************)

\* It goes on with the task it has.
Carries(p) ==
  /\ pass[p] # Idle /\ pass'[p] # Idle
  /\ pass'[p].work = pass[p].work /\ pass'[p].pc # "reporting"

\* It takes the task of the slot.
Takes(p) ==
  /\ slot'[p] # Nothing /\ pass'[p].work = slot'[p]
  /\ pass'[p] # Idle /\ pass'[p].pc # "reporting"

\* It has released the slot and reports, on the task released there as an
\* answer or an error, or on the task it polled as an error.
Reports(p) ==
  /\ Releases(p)
  /\ pass[p] # Idle /\ pass'[p].pc = "reporting"
  /\ pass'[p].reply \in RepliesNothing
  /\ \/ pass'[p].work = slot[p] /\ slot[p] # Nothing
     \/ pass'[p].work = pass[p].work /\ pass'[p].reply = "ERROR"

PassMoves(p) == pass'[p] \in {pass[p], Idle} \/ Carries(p) \/ Takes(p) \/ Reports(p)

\* The message a pass reports with.
Answer(m) ==
  LET p == m.from
  IN  /\ m.kind = "answer"
      /\ pass[p].pc = "reporting" /\ pass[p].reply # "ERROR"
      /\ m.to = {pass[p].work.caller} /\ ~archived[pass[p].work.caller]
      /\ m.of = pass[p].work.task
      /\ pass' = [pass EXCEPT ![p] = Idle]
      /\ UNCHANGED <<closed, archived>>

\* What a step adds to the history.
Tells(m) ==
  /\ tasks' = Append(tasks, m)
  /\ \/ m.kind \in {"send", "error"} /\ \E p \in Partner : m.to = {p}
     \/ m.kind = "notice" /\ archived'[m.from]
     \/ Answer(m)

\* An answer owes nothing to its own receiver.
LEMMA RepliesEnd ==
  /\ RepliesNothing = {"TRUTHFUL_REPORT", "MESSAGE_RESPONSE", "ERROR"}
  /\ \A w \in Row : ReplyTo(w) \in {"TRUTHFUL_REPORT", "MESSAGE_RESPONSE", NoLabel}
<1>1. RepliesNothing = {"TRUTHFUL_REPORT", "MESSAGE_RESPONSE", "ERROR"}
  BY DEF RepliesNothing, Label, ReplyBehavior, NoLabel
<1>2. \A w \in Row : ReplyTo(w) \in {"TRUTHFUL_REPORT", "MESSAGE_RESPONSE", NoLabel}
  BY DEF ReplyTo, Row, Label, ReplyBehavior, NoLabel
<1> QED BY <1>1, <1>2

\* A pass ends, or reports.
LEMMA ReportingCases ==
  ASSUME NEW w, NEW l
  PROVE  \/ Reporting(w, l) = Idle
         \/ /\ Reporting(w, l) = [pc |-> "reporting", work |-> w, reply |-> l]
            /\ w # Nothing /\ l # NoLabel
BY DEF Reporting

\* A pass is moved by its own thread.
LEMMA DrainOfOthers ==
  ASSUME TypeOK, NEW p \in Partner, Drain(p), NEW q \in Partner \ {p}
  PROVE  pass'[q] = pass[q]
BY DEF Drain, DrainAdvance, AdvanceDrops, AdvanceBegins, Poll, PollAnswers,
   PollMeetsApproval, ReleaseBlocked, CheckNoWork, BeginSummary, SummaryRequested,
   SummaryRefused, Complete, ReportBack, TypeOK

\* The steps of p's own pass.
LEMMA DrainPass ==
  ASSUME TypeOK, NEW p \in Partner, Drain(p), NEW q \in Partner
  PROVE  PassMoves(q)
<1>1. CASE q # p
  <2>1. pass'[q] = pass[q]
    BY <1>1, DrainOfOthers
  <2> QED BY <2>1 DEF PassMoves
<1>2. CASE DrainAdvance(p)
  BY <1>2 DEF DrainAdvance, AdvanceDrops, AdvanceBegins, PassMoves
<1>3. CASE q = p /\ Poll(p)
  <2>1. pass'[p] = [pc |-> "polling", work |-> slot[p], reply |-> NoLabel]
    BY <1>3 DEF Poll, TypeOK
  <2>2. slot' = slot /\ slot[p] # Nothing
    BY <1>3 DEF Poll
  <2>3. pass'[p] # Idle /\ pass'[p].pc # "reporting" /\ pass'[p].work = slot[p]
    BY <2>1 DEF Idle
  <2> QED BY <1>3, <2>2, <2>3 DEF PassMoves, Takes
<1>4. ASSUME pass[p] # Idle, NEW pc \in {"blocked", "finished", "ready", "answered"},
             pass'[p] = [pass[p] EXCEPT !.pc = pc]
      PROVE  Carries(p)
  <2>1. pass[p] \in Pass
    BY <1>4 DEF TypeOK
  <2>2. pass'[p].pc = pc /\ pass'[p].work = pass[p].work
    BY <1>4, <2>1 DEF Pass
  <2> QED BY <1>4, <2>2 DEF Carries, Idle
<1>5. CASE q = p /\ (PollAnswers(p) \/ PollMeetsApproval(p) \/ CheckNoWork(p))
  <2>1. pass[p] # Idle
    BY <1>5 DEF PollAnswers, PollMeetsApproval, CheckNoWork, InPass, Idle
  <2>2. \/ pass'[p] = Idle
        \/ \E pc \in {"blocked", "finished", "ready", "answered"} :
             pass'[p] = [pass[p] EXCEPT !.pc = pc]
    BY <1>5 DEF PollAnswers, PollMeetsApproval, CheckNoWork, TypeOK
  <2> QED BY <1>4, <1>5, <2>1, <2>2 DEF PassMoves
<1>6. CASE q = p /\ BeginSummary(p)
  <2>1. pass[p] # Idle
    BY <1>6 DEF BeginSummary, InPass, Idle
  <2>2. CASE slot[p] # Nothing /\ slot[p].label = "RESEARCH"
    <3>1. /\ slot' = [slot EXCEPT ![p] = Summary(@)]
          /\ pass' = [pass EXCEPT ![p] = [pc |-> "summarising", work |-> Summary(slot[p]),
                                          reply |-> NoLabel]]
      BY <1>6, <2>2 DEF BeginSummary
    <3>2. slot'[p] = Summary(slot[p]) /\ Summary(slot[p]) # Nothing
      BY <2>2, <3>1, RowTypes DEF TypeOK
    <3>3. pass'[p].pc = "summarising" /\ pass'[p].work = Summary(slot[p])
      BY <3>1 DEF TypeOK
    <3> QED BY <1>6, <3>2, <3>3 DEF PassMoves, Takes, Idle
  <2>3. CASE ~(slot[p] # Nothing /\ slot[p].label = "RESEARCH")
    <3>1. pass'[p] = [pass[p] EXCEPT !.pc = "answered"]
      BY <1>6, <2>3 DEF BeginSummary, TypeOK
    <3> QED BY <1>4, <1>6, <2>1, <3>1 DEF PassMoves
  <2> QED BY <2>2, <2>3
<1>7. CASE q = p /\ (SummaryRequested(p) \/ ReportBack(p))
  BY <1>7 DEF SummaryRequested, ReportBack, PassMoves, TypeOK
<1>8. CASE q = p /\ (ReleaseBlocked(p) \/ SummaryRefused(p) \/ Complete(p))
  <2>1. pass[p] # Idle /\ Release(p)
    BY <1>8 DEF ReleaseBlocked, SummaryRefused, Complete, InPass, Idle
  <2>2. Releases(p)
    BY <2>1 DEF Release, LockFree, Releases, database, TypeOK
  <2>3. "ERROR" \in RepliesNothing /\ (ReplyTo(pass[p].work) # NoLabel =>
                                         ReplyTo(pass[p].work) \in RepliesNothing)
    BY <2>1, PassFields, RepliesEnd
  <2>4. PICK w, l :
          /\ pass'[p] = Reporting(w, l)
          /\ l = NoLabel \/ l \in RepliesNothing
          /\ w = slot[p] \/ (w = pass[p].work /\ l = "ERROR")
    <3>1. CASE ReleaseBlocked(p)
      <4>1. pass'[p] = Reporting(IF slot[p] = Nothing THEN pass[p].work ELSE slot[p], "ERROR")
        BY <3>1 DEF ReleaseBlocked, TypeOK
      <4> QED BY <2>3, <4>1
    <3>2. CASE SummaryRefused(p)
      <4>1. pass'[p] = Reporting(slot[p], "ERROR")
        BY <3>2 DEF SummaryRefused, TypeOK
      <4> QED BY <2>3, <4>1
    <3>3. CASE Complete(p)
      <4>1. pass'[p] = Reporting(slot[p], ReplyTo(pass[p].work))
        BY <3>3 DEF Complete, ReleasedTask, TypeOK
      <4> QED BY <2>3, <4>1
    <3> QED BY <1>8, <3>1, <3>2, <3>3
  <2>5. CASE pass'[p] = Idle
    BY <1>8, <2>5 DEF PassMoves
  <2>6. CASE /\ pass'[p] = [pc |-> "reporting", work |-> w, reply |-> l]
             /\ w # Nothing /\ l # NoLabel
    <3>1. pass'[p].pc = "reporting" /\ pass'[p].work = w /\ pass'[p].reply = l
      BY <2>6
    <3> QED BY <1>8, <2>1, <2>2, <2>4, <2>6, <3>1 DEF PassMoves, Reports
  <2> QED BY <2>4, <2>5, <2>6, ReportingCases
<1> QED BY <1>1, <1>2, <1>3, <1>5, <1>6, <1>7, <1>8 DEF Drain

\* A send leaves the passes alone, and tells what it admits.
LEMMA SendKeeps ==
  ASSUME Send
  PROVE  UNCHANGED <<pass, closed, archived>> /\ (tasks' = tasks \/ \E c \in Partner : SendAdmit(c))
<1>1. PICK c \in Partner :
        \/ \E p \in Partner, l \in Label :
             \/ \E k \in Process, b \in BOOLEAN : SendResolve(c, p, l, k, b)
             \/ NextItem(c, p, l)
        \/ BatchEnds(c) \/ SendAdmit(c) \/ SendAdvance(c) \/ SendInterrupt(c)
        \/ SendInterruptFails(c)
  BY DEF Send
<1>2. CASE \E p \in Partner, l \in Label :
             \/ \E k \in Process, b \in BOOLEAN : SendResolve(c, p, l, k, b)
             \/ NextItem(c, p, l)
  BY <1>2 DEF SendResolve, NextItem, history, database
<1>3. CASE BatchEnds(c) \/ SendInterruptFails(c)
  BY <1>3 DEF BatchEnds, SendInterruptFails, history, database
<1>4. CASE SendAdmit(c)
  BY <1>4 DEF SendAdmit, history
<1>5. CASE SendInterrupt(c)
  BY <1>5 DEF SendInterrupt, history
<1>6. CASE SendAdvance(c)
  <2>1. PICK k, p : \/ AdvanceDrops(k, p) \/ AdvanceReturns(k, p) \/ AdvanceNeedsRemote(k, p)
                    \/ AdvanceBegins(k, p, c)
    BY <1>6 DEF SendAdvance
  <2> QED BY <2>1 DEF AdvanceDrops, AdvanceReturns, AdvanceNeedsRemote, AdvanceBegins,
       history, database
<1> QED BY <1>1, <1>2, <1>3, <1>4, <1>5, <1>6

\* The rest of an advance leaves the passes and the history alone.
LEMMA AdvanceKeeps ==
  ASSUME NEW p \in Partner, Advances(p)
  PROVE  UNCHANGED <<pass, closed, archived, tasks>>
<1>1. CASE AdvanceStopFails(p)
  BY <1>1 DEF AdvanceStopFails, history, database
<1>2. CASE AdvanceSwaps(p)
  BY <1>2 DEF AdvanceSwaps, history
<1>3. CASE AdvanceDelivers(p)
  BY <1>3 DEF AdvanceDelivers, database
<1>4. CASE AdvanceRequeues(p)
  BY <1>4 DEF AdvanceRequeues, history
<1> QED BY <1>1, <1>2, <1>3, <1>4 DEF Advances

\* Every step.
LEMMA StepPass ==
  ASSUME TypeOK, [Next]_vars, NEW q \in Partner
  PROVE  PassMoves(q)
<1>1. CASE Send
  BY <1>1, SendKeeps DEF PassMoves
<1>2. ASSUME NEW p \in Partner, Advances(p) \/ Drain(p)
      PROVE  PassMoves(q)
  <2>1. CASE Advances(p)
    BY <2>1, AdvanceKeeps DEF PassMoves
  <2> QED BY <1>2, <2>1, DrainPass
<1>3. ASSUME NEW p \in Partner, RemoteFinishes(p)
      PROVE  PassMoves(q)
  BY <1>3 DEF RemoteFinishes, PassMoves
<1>4. ASSUME NEW p \in Partner, NEW k \in Process, Archive(p, k) \/ Restart(p, k)
      PROVE  PassMoves(q)
  BY <1>4 DEF Archive, Restart, PassMoves
<1>5. CASE UNCHANGED vars
  BY <1>5 DEF vars, PassMoves
<1> QED BY <1>1, <1>2, <1>3, <1>4, <1>5 DEF Next

\* What every step tells, and that nothing an archive or a release ended comes
\* back.
LEMMA StepTells ==
  ASSUME TypeOK, [Next]_vars
  PROVE  /\ tasks' = tasks \/ \E m \in Message : Tells(m)
         /\ \A p \in Partner : closed[p] \subseteq closed'[p] /\ (archived[p] => archived'[p])
<1> DEFINE Kept == \A p \in Partner :
             closed[p] \subseteq closed'[p] /\ (archived[p] => archived'[p])
<1>1. CASE Send
  <2>1. Kept
    BY <1>1, SendKeeps
  <2>2. CASE \E c \in Partner : SendAdmit(c)
    <3>1. PICK c \in Partner : SendAdmit(c)
      BY <2>2
    <3> DEFINE p == call[c].to
               l == call[c].label
               m == [from |-> c, to |-> {p}, label |-> l, kind |-> "send", of |-> 0]
    <3>2. call[c] # Idle
      BY <3>1, ControlPoints DEF SendAdmit, Idle
    <3>3. p \in Partner /\ l \in Label
      BY <3>2, CallFields
    <3>4. m \in Message /\ m.kind = "send" /\ m.to = {p}
      BY <3>3 DEF Message
    <3>5. tasks' = tasks \/ tasks' = Append(tasks, m)
      BY <3>1 DEF SendAdmit, Record
    <3> HIDE DEF m
    <3> QED BY <2>1, <3>3, <3>4, <3>5 DEF Tells
  <2>3. CASE ~\E c \in Partner : SendAdmit(c)
    BY <1>1, <2>1, <2>3, SendKeeps
  <2> QED BY <2>2, <2>3
<1>2. ASSUME NEW p \in Partner, Advances(p)
      PROVE  tasks' = tasks /\ Kept
  BY <1>2, AdvanceKeeps
<1>3. ASSUME NEW p \in Partner, Drain(p), ~ReportBack(p)
      PROVE  tasks' = tasks /\ Kept
  <2>1. CASE ReleaseBlocked(p) \/ SummaryRefused(p) \/ Complete(p)
    <3>1. Release(p)
      BY <2>1 DEF ReleaseBlocked, SummaryRefused, Complete
    <3> QED BY <3>1 DEF Release, database, TypeOK
  <2>2. CASE \/ DrainAdvance(p) \/ Poll(p) \/ PollAnswers(p) \/ PollMeetsApproval(p)
             \/ CheckNoWork(p) \/ BeginSummary(p) \/ SummaryRequested(p)
    BY <2>2 DEF DrainAdvance, AdvanceDrops, AdvanceBegins, Poll, PollAnswers,
       PollMeetsApproval, CheckNoWork, BeginSummary, SummaryRequested, history, database
  <2> QED BY <1>3, <2>1, <2>2 DEF Drain
<1>4. ASSUME NEW p \in Partner, ReportBack(p)
      PROVE  (tasks' = tasks \/ \E m \in Message : Tells(m)) /\ Kept
  <2> DEFINE c == pass[p].work.caller
             l == pass[p].reply
             kind == IF l = "ERROR" THEN "error" ELSE "answer"
             m == [from |-> p, to |-> {c}, label |-> l, kind |-> kind, of |-> pass[p].work.task]
  <2>1. Kept /\ UNCHANGED <<closed, archived>> /\ InPass(p, "reporting")
    BY <1>4 DEF ReportBack, history
  <2>2. pass[p] # Idle
    BY <2>1 DEF InPass, Idle
  <2>3. c \in Partner /\ l \in Label /\ pass[p].work.task \in Nat
    BY <2>1, <2>2, PassFields DEF InPass
  <2>4. /\ m \in Message /\ m.from = p /\ m.to = {c} /\ m.kind = kind
        /\ m.of = pass[p].work.task
    BY <2>3 DEF Message
  <2>5. tasks' = tasks \/ (~archived[c] /\ tasks' = Append(tasks, m))
    BY <1>4 DEF ReportBack, Record
  <2>6. pass' = [pass EXCEPT ![p] = Idle]
    BY <1>4 DEF ReportBack
  <2> HIDE DEF m
  <2>7. CASE l = "ERROR"
    BY <2>1, <2>3, <2>4, <2>5, <2>7 DEF Tells
  <2>8. CASE l # "ERROR" /\ ~archived[c] /\ tasks' = Append(tasks, m)
    <3>1. Answer(m)
      BY <2>1, <2>4, <2>6, <2>8 DEF Answer, InPass
    <3> QED BY <2>1, <2>4, <2>8, <3>1 DEF Tells
  <2> QED BY <2>1, <2>5, <2>7, <2>8
<1>5. ASSUME NEW p \in Partner, RemoteFinishes(p)
      PROVE  tasks' = tasks /\ Kept
  BY <1>5 DEF RemoteFinishes, database
<1>6. ASSUME NEW p \in Partner, NEW k \in Process, Archive(p, k)
      PROVE  (tasks' = tasks \/ \E m \in Message : Tells(m)) /\ Kept
  <2> DEFINE told == {c \in WaitingCallers(k, p) \ {p} : ~archived[c]}
             m == [from |-> p, to |-> told, label |-> "ERROR", kind |-> "notice", of |-> 0]
  <2>1. archived'[p] /\ Kept
    BY <1>6 DEF Archive, TypeOK
  <2>2. told \subseteq Partner
    <3>1. \A i \in DOMAIN queue[p] : queue[p][i] \in Row
      BY ElementType DEF TypeOK
    <3>2. slot[p] \in Row \cup {Nothing}
      BY DEF TypeOK
    <3> QED BY <3>1, <3>2 DEF WaitingCallers, Working, Row
  <2>3. m \in Message /\ m.from = p /\ m.kind = "notice"
    BY <2>2 DEF Message, Label
  <2>4. tasks' = tasks \/ tasks' = Append(tasks, m)
    BY <1>6 DEF Archive, Record
  <2> HIDE DEF m
  <2> QED BY <2>1, <2>3, <2>4 DEF Tells
<1>7. ASSUME NEW p \in Partner, NEW k \in Process, Restart(p, k)
      PROVE  tasks' = tasks /\ Kept
  BY <1>7 DEF Restart, history
<1>8. CASE UNCHANGED vars
  BY <1>8 DEF vars
<1> QED BY <1>1, <1>2, <1>3, <1>4, <1>5, <1>6, <1>7, <1>8 DEF Next

\* A pass carries a message of its partner, as it was recorded.
PassGenuine(p) == pass[p] # Idle => Genuine(p, pass[p].work)

\* A notice of what an archive dropped comes from the archived partner; every
\* other message is for one partner.
Told ==
  \A n \in DOMAIN tasks :
    /\ tasks[n].kind = "notice" => archived[tasks[n].from]
    /\ tasks[n].kind # "notice" => \E p \in Partner : tasks[n].to = {p}

\* An answer is for a message that is over, to the one who sent it, and there is
\* no other.
AnswerOf(n) ==
  LET of == tasks[n].of
  IN  /\ of \in closed[tasks[n].from]
      /\ of \in AdmittedTo(tasks[n].from) /\ tasks[of].kind # "notice"
      /\ tasks[n].to = {tasks[of].from}
      /\ \A m \in Answers : tasks[m].of = of => m = n

\* A pass about to answer has released its task and has not answered it yet.
AboutToAnswer(p) ==
  pass[p].pc = "reporting" /\ pass[p].reply # "ERROR" =>
    LET of == pass[p].work.task
    IN  of \in closed[p] /\ (tasks[of].kind # "notice" => \A m \in Answers : tasks[m].of # of)

Answering == (\A n \in Answers : AnswerOf(n)) /\ (\A p \in Partner : AboutToAnswer(p))

\* Everything together is inductive.
CoreInv ==
  /\ TypeOK /\ Replying
  /\ \A p \in Partner : Located(p) /\ PassGenuine(p)
  /\ Told /\ Answering

\* A pass reports with labels that ask for no reply, from the first to the last.
LEMMA ReplyingStep ==
  ASSUME Replying, \A p \in Partner : PassMoves(p)
  PROVE  Replying'
<1> SUFFICES ASSUME NEW p \in Partner, pass'[p].pc = "reporting"
             PROVE  pass'[p].reply \in RepliesNothing
  BY DEF Replying
<1>1. PassMoves(p)
  OBVIOUS
<1> QED BY <1>1 DEF PassMoves, Carries, Takes, Reports, Replying, Idle

\* What is genuine stays so.
LEMMA GenuineStays ==
  ASSUME TypeOK, NEW q \in Partner, Moves(q), NEW w, Genuine(q, w)
  PROVE  Genuine(q, w)'
<1>1. w.task \in AdmittedTo(q)' /\ tasks'[w.task] = tasks[w.task]
  BY AdmittedStep DEF Genuine
<1> QED BY <1>1 DEF Genuine, Marked

\* What a pass carries stays genuine: it was, or it comes from the slot.
LEMMA PassGenuineStep ==
  ASSUME TypeOK, TypeOK', NEW q \in Partner, Moves(q), PassMoves(q), Located(q), PassGenuine(q)
  PROVE  PassGenuine(q)'
<1> SUFFICES ASSUME pass'[q] # Idle
             PROVE  Genuine(q, pass[q].work)'
  BY DEF PassGenuine
<1>1. PICK w : w = pass'[q].work
  OBVIOUS
<1>2. (\A v \in Burden(q)' : Genuine(q, v)') /\ (\A v \in Burden(q) : Genuine(q, v))
  BY LocatedStep DEF Located, AllGenuine
<1>3. Genuine(q, w)'
  <2>1. CASE pass'[q] = pass[q] \/ Carries(q)
    <3>1. pass[q] # Idle /\ w = pass[q].work
      BY <1>1, <2>1 DEF Carries
    <3>2. Genuine(q, w)
      BY <3>1 DEF PassGenuine
    <3> QED BY <3>2, GenuineStays
  <2>2. CASE Takes(q)
    <3>1. w \in Burden(q)'
      BY <1>1, <2>2 DEF Takes, Burden
    <3> QED BY <1>2, <3>1
  <2>3. CASE Reports(q)
    <3>1. pass[q] # Idle /\ (w = pass[q].work \/ (w = slot[q] /\ slot[q] # Nothing))
      BY <1>1, <2>3 DEF Reports
    <3>2. Genuine(q, pass[q].work) /\ (slot[q] # Nothing => Genuine(q, slot[q]))
      BY <1>2, <3>1 DEF PassGenuine, Burden
    <3>3. Genuine(q, w)
      BY <3>1, <3>2
    <3> QED BY <3>3, GenuineStays
  <2> QED BY <2>1, <2>2, <2>3 DEF PassMoves
<1> QED BY <1>1, <1>3 DEF Genuine, Marked

\* An element of the history is a message.
LEMMA MessageType ==
  ASSUME TypeOK, NEW n \in DOMAIN tasks
  PROVE  tasks[n] \in Message /\ tasks[n].from \in Partner
<1>1. tasks \in Seq(Message)
  BY DEF TypeOK
<1>2. tasks[n] \in Message
  BY <1>1, LenProperties, ElementOfSeq
<1> QED BY <1>2 DEF Message

\* The history, when a message joins it.
LEMMA ToldStep ==
  ASSUME TypeOK, Told, \A p \in Partner : archived[p] => archived'[p],
         tasks' = tasks \/ \E m \in Message : Tells(m)
  PROVE  Told'
<1>1. \A n \in DOMAIN tasks : tasks[n] \in Message /\ tasks[n].from \in Partner
  BY MessageType
<1>2. CASE tasks' = tasks
  BY <1>1, <1>2 DEF Told
<1>3. CASE \E m \in Message : Tells(m)
  <2>1. PICK m \in Message : Tells(m)
    BY <1>3
  <2>2. tasks' = Append(tasks, m)
    BY <2>1 DEF Tells
  <2>3. /\ DOMAIN tasks' = DOMAIN tasks \cup {NextTask}
        /\ tasks'[NextTask] = m
        /\ \A n \in DOMAIN tasks : tasks'[n] = tasks[n]
    BY <2>2, Grown
  <2>4. /\ m.kind = "notice" => archived'[m.from]
        /\ m.kind # "notice" => \E p \in Partner : m.to = {p}
    <3>1. CASE Answer(m)
      <4>1. m.to = {pass[m.from].work.caller} /\ m.kind = "answer" /\ pass[m.from].pc = "reporting"
        BY <3>1 DEF Answer
      <4>2. m.from \in Partner /\ pass[m.from] # Idle
        BY <4>1 DEF Message, Idle
      <4>3. pass[m.from].work.caller \in Partner
        BY <4>2, PassFields
      <4> QED BY <4>1, <4>3
    <3>2. CASE m.kind \in {"send", "error"} /\ \E p \in Partner : m.to = {p}
      BY <3>2
    <3>3. CASE m.kind = "notice" /\ archived'[m.from]
      BY <3>3
    <3> QED BY <2>1, <3>1, <3>2, <3>3 DEF Tells
  <2> QED BY <1>1, <2>3, <2>4 DEF Told
<1> QED BY <1>2, <1>3

\* A message that is not a notice is for one partner.
LEMMA OneReceiver ==
  ASSUME Told, NEW p, NEW q, NEW n \in AdmittedTo(p), n \in AdmittedTo(q), tasks[n].kind # "notice"
  PROVE  p = q
BY DEF Told, AdmittedTo

\* No step answers twice: what a pass reports on has just left the slot, and what
\* is in the slot is not over, so not answered; and the report, once told, ends
\* the pass.
LEMMA AnsweringStep ==
  ASSUME CoreInv, \A p \in Partner : Moves(p) /\ PassMoves(p),
         \A p \in Partner : closed[p] \subseteq closed'[p] /\ (archived[p] => archived'[p]),
         tasks' = tasks \/ \E m \in Message : Tells(m)
  PROVE  Answering'
<1>1. TypeOK /\ Told /\ Answering /\ \A p \in Partner : Located(p) /\ PassGenuine(p)
  BY DEF CoreInv
<1>2. \A n \in DOMAIN tasks : tasks[n] \in Message /\ tasks[n].from \in Partner
  BY <1>1, MessageType
<1>3. \A n \in Answers : n \in DOMAIN tasks /\ tasks[n].of \in DOMAIN tasks /\ AnswerOf(n)
  BY <1>1 DEF Answering, AnswerOf, Answers, AdmittedTo
<1>4. \A p \in Partner : AboutToAnswer(p)
  BY <1>1 DEF Answering
<1>5. CASE tasks' = tasks
  <2>1. Answers' = Answers
    BY <1>5 DEF Answers
  <2>2. ASSUME NEW n \in Answers'
        PROVE  AnswerOf(n)'
    BY <1>2, <1>3, <1>5, <2>1, <2>2 DEF AnswerOf, AdmittedTo
  <2>3. ASSUME NEW p \in Partner
        PROVE  AboutToAnswer(p)'
    <3>1. CASE pass'[p] = pass[p]
      BY <1>4, <1>5, <2>1, <3>1 DEF AboutToAnswer
    <3>2. CASE pass'[p] = Idle \/ Carries(p) \/ Takes(p)
      BY <3>2 DEF AboutToAnswer, Carries, Takes, Idle
    <3>3. CASE Reports(p)
      <4>1. CASE pass'[p].reply = "ERROR"
        BY <4>1 DEF AboutToAnswer
      <4>2. CASE pass'[p].reply # "ERROR"
        <5> DEFINE of == slot[p].task
        <5>1. pass'[p].work = slot[p] /\ slot[p] # Nothing /\ Releases(p)
          BY <3>3, <4>2 DEF Reports
        <5>2. slot[p] \in Burden(p) /\ slot[p] \in Row
          BY <1>1, <5>1 DEF Burden, TypeOK
        <5>3. of \in AdmittedTo(p) /\ of \notin closed[p]
          BY <1>1, <5>2 DEF Located, AllGenuine, Genuine, Over
        <5>4. of \in closed'[p]
          BY <5>1, <5>2, <1>1, BurdenRows DEF Releases, TaskIn
        <5>5. ASSUME NEW m \in Answers, tasks[m].of = of PROVE FALSE
          <6>1. /\ of \in closed[tasks[m].from] /\ of \in AdmittedTo(tasks[m].from)
                /\ tasks[of].kind # "notice" /\ tasks[m].from \in Partner
            BY <1>2, <1>3, <5>5 DEF AnswerOf
          <6>2. tasks[m].from = p
            BY <1>1, <5>3, <6>1, OneReceiver
          <6> QED BY <5>3, <6>1, <6>2
        <5> QED BY <1>5, <2>1, <5>1, <5>4, <5>5 DEF AboutToAnswer
      <4> QED BY <4>1, <4>2
    <3> QED BY <3>1, <3>2, <3>3 DEF PassMoves
  <2> QED BY <2>2, <2>3 DEF Answering
<1>6. ASSUME NEW m \in Message, Tells(m)
      PROVE  Answering'
  <2>0. PICK new : new = NextTask
    OBVIOUS
  <2>1. /\ tasks' = Append(tasks, m) /\ tasks' # tasks
        /\ DOMAIN tasks' = DOMAIN tasks \cup {new} /\ new \notin DOMAIN tasks
        /\ tasks'[new] = m
        /\ \A n \in DOMAIN tasks : tasks'[n] = tasks[n]
    BY <1>1, <1>6, <2>0, Grown DEF Tells
  <2>2. \A p \in Partner : AdmittedTo(p) \subseteq AdmittedTo(p)'
    BY <1>1, AdmittedStep
  <2>3. Answers' = IF m.kind = "answer" THEN Answers \cup {new} ELSE Answers
    BY <2>1 DEF Answers
  <2>4. ASSUME NEW p \in Partner
        PROVE  \/ pass'[p] = pass[p]
               \/ pass'[p].pc # "reporting"
    <3>1. ~Reports(p)
      BY <2>1 DEF Reports, Releases
    <3> QED BY <3>1 DEF PassMoves, Carries, Takes, Idle
  <2>5. \A p \in Partner : pass[p].pc = "reporting" =>
          /\ pass[p].work.task \in AdmittedTo(p)
          /\ pass[p].work.caller = tasks[pass[p].work.task].from
    BY <1>1 DEF PassGenuine, Genuine, Idle
  <2>6. \A p \in Partner : AdmittedTo(p) \subseteq DOMAIN tasks
    BY DEF AdmittedTo
  <2>7. CASE m.kind # "answer"
    <3>1. Answers' = Answers
      BY <2>3, <2>7
    <3>2. ASSUME NEW n \in Answers PROVE AnswerOf(n)'
      <4>1. tasks[n].from \in Partner /\ tasks'[n] = tasks[n] /\ n \in DOMAIN tasks
        BY <1>2, <1>3, <2>1
      <4>2. /\ tasks[n].of \in closed[tasks[n].from] /\ tasks[n].of \in AdmittedTo(tasks[n].from)
            /\ tasks[tasks[n].of].kind # "notice" /\ tasks[n].to = {tasks[tasks[n].of].from}
            /\ \A i \in Answers : tasks[i].of = tasks[n].of => i = n
            /\ tasks[n].of \in DOMAIN tasks
        BY <1>3 DEF AnswerOf
      <4>3. \A i \in Answers : tasks'[i] = tasks[i]
        BY <1>3, <2>1
      <4>4. tasks'[tasks[n].of] = tasks[tasks[n].of]
        BY <2>1, <4>2
      <4> QED BY <2>2, <3>1, <4>1, <4>2, <4>3, <4>4 DEF AnswerOf
    <3>3. ASSUME NEW p \in Partner PROVE AboutToAnswer(p)'
      <4>1. CASE pass'[p].pc # "reporting"
        BY <4>1 DEF AboutToAnswer
      <4>2. CASE pass'[p] = pass[p] /\ pass[p].pc = "reporting"
        <5>1. tasks'[pass[p].work.task] = tasks[pass[p].work.task]
          BY <2>1, <2>5, <2>6, <4>2
        <5>2. \A i \in Answers : tasks'[i] = tasks[i]
          BY <1>3, <2>1
        <5> QED BY <1>4, <3>1, <4>2, <5>1, <5>2 DEF AboutToAnswer
      <4> QED BY <2>4, <4>1, <4>2
    <3> QED BY <3>1, <3>2, <3>3 DEF Answering
  <2>8. CASE m.kind = "answer"
    <3>0. PICK p, of : p = m.from /\ of = m.of
      OBVIOUS
    <3>1. /\ pass[p].pc = "reporting" /\ pass[p].reply # "ERROR"
          /\ m.to = {pass[p].work.caller} /\ ~archived[pass[p].work.caller]
          /\ of = pass[p].work.task /\ pass' = [pass EXCEPT ![p] = Idle]
      BY <1>6, <2>8, <3>0 DEF Tells, Answer
    <3>2. p \in Partner
      BY <3>0 DEF Message
    <3>3. of \in AdmittedTo(p) /\ of \in DOMAIN tasks /\ m.to = {tasks[of].from}
      BY <2>5, <2>6, <3>1, <3>2
    <3>4. tasks[of].kind # "notice"
      BY <1>1, <2>5, <3>1, <3>2, <3>3 DEF Told
    <3>5. of \in closed[p] /\ \A i \in Answers : tasks[i].of # of
      BY <1>4, <3>1, <3>2, <3>4 DEF AboutToAnswer
    <3>6. /\ Answers' = Answers \cup {new} /\ new \notin Answers
          /\ \A i \in Answers : tasks'[i] = tasks[i]
      BY <1>3, <2>1, <2>3, <2>8
    <3>7. AnswerOf(new)'
      <4>1. tasks'[new].from = p /\ tasks'[new].of = of /\ tasks'[new].to = m.to
        BY <2>1, <3>0
      <4>2. tasks'[of] = tasks[of] /\ of \in closed'[p] /\ of \in AdmittedTo(p)'
        BY <2>1, <2>2, <3>2, <3>3, <3>5
      <4>3. \A i \in Answers' : tasks'[i].of = of => i = new
        BY <3>5, <3>6
      <4> QED BY <3>3, <3>4, <4>1, <4>2, <4>3 DEF AnswerOf
    <3>8. ASSUME NEW n \in Answers PROVE AnswerOf(n)'
      <4>1. tasks[n].from \in Partner /\ tasks'[n] = tasks[n] /\ n \in DOMAIN tasks
        BY <1>2, <1>3, <2>1
      <4>2. /\ tasks[n].of \in closed[tasks[n].from] /\ tasks[n].of \in AdmittedTo(tasks[n].from)
            /\ tasks[tasks[n].of].kind # "notice" /\ tasks[n].to = {tasks[tasks[n].of].from}
            /\ \A i \in Answers : tasks[i].of = tasks[n].of => i = n
            /\ tasks[n].of \in DOMAIN tasks
        BY <1>3 DEF AnswerOf
      <4>3. tasks'[tasks[n].of] = tasks[tasks[n].of]
        BY <2>1, <4>2
      <4>4. tasks'[new].of = of
        BY <2>1, <3>0
      <4>5. \A i \in Answers' : tasks'[i].of = tasks[n].of => i = n
        BY <3>5, <3>6, <4>2, <4>4
      <4> QED BY <2>2, <4>1, <4>2, <4>3, <4>5 DEF AnswerOf
    <3>9. ASSUME NEW q \in Partner PROVE AboutToAnswer(q)'
      <4>1. CASE q = p
        <5>1. pass'[q] = Idle
          BY <1>1, <3>1, <3>2, <4>1 DEF TypeOK
        <5> QED BY <5>1 DEF AboutToAnswer, Idle
      <4>2. CASE q # p /\ pass[q].pc = "reporting" /\ pass[q].reply # "ERROR"
        <5> DEFINE o == pass[q].work.task
        <5>1. pass'[q] = pass[q]
          BY <1>1, <3>1, <4>2 DEF TypeOK
        <5>2. o \in AdmittedTo(q) /\ tasks'[o] = tasks[o] /\ o \in closed'[q]
          BY <1>4, <2>1, <2>5, <2>6, <4>2 DEF AboutToAnswer
        <5>3. ASSUME tasks[o].kind # "notice" PROVE \A i \in Answers' : tasks'[i].of # o
          <6>1. o # of
            BY <1>1, <3>2, <3>3, <4>2, <5>2, <5>3, OneReceiver
          <6>2. tasks'[new].of = of
            BY <2>1, <3>0
          <6> QED BY <1>4, <3>6, <4>2, <5>3, <6>1, <6>2 DEF AboutToAnswer
        <5> QED BY <5>1, <5>2, <5>3 DEF AboutToAnswer
      <4>3. CASE q # p /\ ~(pass[q].pc = "reporting" /\ pass[q].reply # "ERROR")
        <5>1. pass'[q] = pass[q]
          BY <1>1, <3>1, <4>3 DEF TypeOK
        <5> QED BY <4>3, <5>1 DEF AboutToAnswer
      <4> QED BY <4>1, <4>2, <4>3
    <3> QED BY <3>6, <3>7, <3>8, <3>9 DEF Answering
  <2> QED BY <2>7, <2>8
<1> QED BY <1>5, <1>6

\* The initial state.
LEMMA InitCore == Init => CoreInv
<1> SUFFICES ASSUME Init PROVE CoreInv
  OBVIOUS
<1>1. TypeOK
  BY InitTypes DEF Typed
<1>2. Replying /\ \A p \in Partner : PassGenuine(p) /\ AboutToAnswer(p)
  BY DEF Init, Replying, PassGenuine, AboutToAnswer, Idle
<1>3. /\ tasks = <<>> /\ DOMAIN tasks = {}
      /\ \A p \in Partner : /\ queue[p] = <<>> /\ slot[p] = Nothing /\ adv[p] = Free
                            /\ closed[p] = {} /\ dropped[p] = {}
  BY DEF Init
<1>4. Told /\ \A n \in Answers : AnswerOf(n)
  BY <1>3 DEF Told, Answers
<1>5. ASSUME NEW p \in Partner PROVE Located(p)
  <2>1. Distinct(queue[p]) /\ TasksOf(queue[p]) = {} /\ Range(queue[p]) = {}
    BY <1>3 DEF Distinct, TasksOf, Range
  <2>2. AdmittedTo(p) = {} /\ Burden(p) = {}
    BY <1>3, <2>1 DEF AdmittedTo, Burden
  <2>3. InFlight(p) = Nothing /\ TaskIn(Nothing) = {} /\ ~Swapping(p) /\ ~Delivering(p)
    BY <1>3 DEF InFlight, Delivering, Swapping, Free, TaskIn, Nothing
  <2> QED BY <1>3, <2>1, <2>2, <2>3 DEF Located, Apart, Over, AllHere, AllGenuine
<1> QED BY <1>1, <1>2, <1>4, <1>5 DEF CoreInv, Answering

\* Every step.
LEMMA CoreStep == CoreInv /\ TypeOK' /\ [Next]_vars => CoreInv'
<1> SUFFICES ASSUME CoreInv, TypeOK', [Next]_vars PROVE CoreInv'
  OBVIOUS
<1>1. TypeOK /\ Replying /\ Told /\ \A p \in Partner : Located(p) /\ PassGenuine(p)
  BY DEF CoreInv
<1>2. \A p \in Partner : Moves(p) /\ PassMoves(p)
  BY <1>1, StepMoves, StepPass
<1>3. /\ tasks' = tasks \/ \E m \in Message : Tells(m)
      /\ \A p \in Partner : closed[p] \subseteq closed'[p] /\ (archived[p] => archived'[p])
  BY <1>1, StepTells
<1>4. \A p \in Partner : Located(p)' /\ PassGenuine(p)'
  BY <1>1, <1>2, LocatedStep, PassGenuineStep
<1>5. Replying' /\ Told' /\ Answering'
  BY <1>1, <1>2, <1>3, ReplyingStep, ToldStep, AnsweringStep
<1> QED BY <1>4, <1>5 DEF CoreInv

\* The invariant behind the theorems that follow.
THEOREM CoreInvariant == Spec => []CoreInv
BY InitCore, CoreStep, CoreTypeCorrect, PTL DEF Spec

\* Whatever is sent, displaced, refused, stopped, interrupted or released, by
\* however many processes and in whatever order, each message admitted for a live
\* partner is in one place: its row, the slot, a delivery, or over.
THEOREM OneTaskOnePlace == Spec => []OnePlace
<1>1. CoreInv => OnePlace
  <2> SUFFICES ASSUME CoreInv, NEW p \in Partner, ~archived[p], NEW n \in AdmittedTo(p)
               PROVE  Places(p, n) = 1
    BY DEF OnePlace
  <2> DEFINE at == {i \in DOMAIN queue[p] : queue[p][i].task = n}
             place(b) == IF b THEN 1 ELSE 0
  <2>1. TypeOK /\ Apart(p) /\ Over(p) /\ AllHere(p)
    BY DEF CoreInv, Located
  <2>2. /\ \A w \in Row : w.task # 0 /\ TaskIn(w) = {w.task} /\ w # Nothing
        /\ Nothing.task = 0 /\ TaskIn(Nothing) = {} /\ slot[p] \in Row \cup {Nothing}
        /\ queue[p] \in Seq(Row)
        /\ InFlight(p) \in Row \cup {Nothing}
    BY <2>1, BurdenRows, Places0 DEF TaskIn, Nothing, InFlight
  <2>3. n # 0
    <3>1. DOMAIN tasks = 1 .. Len(tasks) /\ Len(tasks) \in Nat
      BY <2>1, LenProperties DEF TypeOK
    <3> QED BY <3>1 DEF AdmittedTo
  <2>4. Cardinality(at) = place(n \in TasksOf(queue[p]))
    <3>1. CASE n \notin TasksOf(queue[p])
      <4>1. at = {}
        BY <3>1 DEF TasksOf
      <4> QED BY <3>1, <4>1, FS_EmptySet
    <3>2. CASE n \in TasksOf(queue[p])
      <4>1. PICK i \in DOMAIN queue[p] : queue[p][i].task = n
        BY <3>2 DEF TasksOf
      <4>2. at = {i}
        BY <2>1, <4>1 DEF Apart, Distinct
      <4> QED BY <3>2, <4>2, FS_Singleton
    <3> QED BY <3>1, <3>2
  <2>5. /\ slot[p].task = n <=> n \in TaskIn(slot[p])
        /\ InFlight(p).task = n <=> n \in TaskIn(InFlight(p))
        /\ n \in closed[p] \cup dropped[p] <=> n \in closed[p]
    BY <2>1, <2>2, <2>3 DEF AllHere
  <2>6. Places(p, n) = place(n \in TasksOf(queue[p])) + place(n \in TaskIn(slot[p]))
                         + place(n \in TaskIn(InFlight(p))) + place(n \in closed[p])
    <3>1. Places(p, n) = Cardinality(at) + place(slot[p].task = n)
                           + place(InFlight(p).task = n) + place(n \in closed[p] \cup dropped[p])
      BY DEF Places
    <3> QED BY <2>4, <2>5, <3>1
  <2>7. \/ n \in TasksOf(queue[p]) \/ n \in TaskIn(slot[p]) \/ n \in TaskIn(InFlight(p))
        \/ n \in closed[p]
    BY <2>1 DEF AllHere
  <2>8. /\ n \in TasksOf(queue[p]) =>
             n \notin TaskIn(slot[p]) \cup TaskIn(InFlight(p)) \cup closed[p]
        /\ n \in TaskIn(slot[p]) => n \notin TaskIn(InFlight(p)) \cup closed[p]
        /\ n \in TaskIn(InFlight(p)) => n \notin closed[p]
    <3>1. /\ n \in TasksOf(queue[p]) => \E w \in Burden(p) : w.task = n
          /\ n \in TaskIn(slot[p]) => slot[p] \in Burden(p) /\ slot[p].task = n
      BY <2>1, <2>2, BurdenRows DEF Burden
    <3>2. n \in TaskIn(InFlight(p)) =>
            /\ InFlight(p) \in Burden(p) /\ InFlight(p).task = n /\ slot[p] = Nothing
            /\ n \notin TasksOf(queue[p])
      BY <2>1, <2>2, Places0 DEF Burden, InFlight, Apart
    <3>3. n \in TasksOf(queue[p]) => n \notin TaskIn(slot[p])
      BY <2>1, <2>2 DEF Apart, TaskIn
    <3>4. n \in TaskIn(slot[p]) => n \notin TaskIn(InFlight(p))
      BY <2>2, <3>2
    <3> QED BY <2>1, <3>1, <3>2, <3>3, <3>4 DEF Over
  <2> HIDE DEF place, at
  <2>9. place(TRUE) = 1 /\ place(FALSE) = 0
    BY DEF place
  <2> QED BY <2>6, <2>7, <2>8, <2>9 DEF place
<1> QED BY <1>1, CoreInvariant, PTL

\* Through every displacement, interruption and refusal, a task counts under the
\* label it was admitted with, and is marked exactly when it is research asked
\* for its report.
THEOREM MarkersKept == Spec => []SummaryMarkers
<1>1. CoreInv => SummaryMarkers
  <2> SUFFICES ASSUME CoreInv, NEW p \in Partner, NEW w \in Held(p)
               PROVE  /\ CountedLabel(w) = tasks[w.task].label
                      /\ w.summary <=> w.label # tasks[w.task].label
    BY DEF SummaryMarkers
  <2>1. TypeOK /\ Located(p)
    BY DEF CoreInv
  <2>2. w \in Burden(p)
    BY <2>1, Places0, BurdenRows DEF Held, Burden, InFlight
  <2>3. w \in Row /\ Marked(w)
    BY <2>1, <2>2, BurdenRows DEF Located, AllGenuine, Genuine
  <2>4. w.label \in Label /\ NoLabel # "RESEARCH" /\ w.summary \in BOOLEAN
    BY <2>3 DEF Row, NoLabel
  <2> QED BY <2>3, <2>4 DEF Marked, CountedLabel
<1> QED BY <1>1, CoreInvariant, PTL

\* No message is answered twice, and an answer goes from the one partner it was
\* sent to back to the one who sent it, whatever a pass found in the slot that it
\* had not polled, and however many callers an archive has told.
THEOREM AnswersAreUnique == Spec => []AnsweredOnce
<1>1. CoreInv => AnsweredOnce
  BY DEF CoreInv, Answering, AnswerOf, AnsweredOnce, AdmittedTo
<1> QED BY <1>1, CoreInvariant, PTL

\* A pass that has its answer has one step left.
LEMMA AnsweredCompletes ==
  ASSUME TypeOK, [Next]_vars, NEW p \in Partner, InPass(p, "answered"), pass'[p] # pass[p]
  PROVE  Complete(p)
<1>1. ~Send /\ ~\E q \in Partner : Advances(q)
  BY SendKeeps, AdvanceKeeps
<1>2. \A q \in Partner : ~RemoteFinishes(q) /\ \A k \in Process :
        ~Archive(q, k) /\ ~Restart(q, k)
  BY DEF RemoteFinishes, Archive, Restart
<1>3. PICK q \in Partner : Drain(q)
  <2>1. ~(UNCHANGED vars)
    BY DEF vars
  <2> QED BY <1>1, <1>2, <2>1 DEF Next
<1>4. \A pc \in {"idle", "polling", "blocked", "finished", "ready", "summarising", "reporting"} :
        ~InPass(p, pc)
  BY DEF InPass
<1>5. pass[p] # Idle
  BY DEF InPass, Idle
<1>6. CASE q = p
  BY <1>3, <1>4, <1>5, <1>6 DEF Drain, DrainAdvance, Poll, PollAnswers, PollMeetsApproval,
     ReleaseBlocked, CheckNoWork, BeginSummary, SummaryRequested, SummaryRefused, ReportBack
<1>7. CASE q # p
  <2>1. pass'[p] = pass[p]
    BY <1>3, <1>7, DrainOfOthers
  <2> QED BY <2>1
<1> QED BY <1>6, <1>7

\* A pass that closes the task it polled answers it only if the label it was
\* admitted under asks for a reply: its marks say so, whatever it was relabelled
\* to since.
THEOREM AnswersAreOwed == Spec => OnlyOwedAnswers
<1> DEFINE Owed == \A p \in Partner :
             InPass(p, "answered") /\ pass'[p].pc = "reporting" /\ slot[p].task = pass[p].work.task
               => ReplyBehavior[tasks[slot[p].task].label] # NoLabel
<1>1. CoreInv /\ [Next]_vars => Owed
  <2> SUFFICES ASSUME CoreInv, [Next]_vars, NEW p \in Partner, InPass(p, "answered"),
                      pass'[p].pc = "reporting", slot[p].task = pass[p].work.task
               PROVE  ReplyBehavior[tasks[slot[p].task].label] # NoLabel
    OBVIOUS
  <2> DEFINE w == pass[p].work
  <2>1. TypeOK /\ pass[p] # Idle /\ pass[p].pc = "answered"
    BY DEF CoreInv, InPass, Idle
  <2>2. w \in Row /\ Marked(w)
    BY <2>1, PassFields DEF CoreInv, PassGenuine, Genuine
  <2>3. Complete(p)
    <3>1. pass'[p] # pass[p]
      BY <2>1
    <3> QED BY <2>1, <3>1, AnsweredCompletes
  <2>4. ReplyTo(w) # NoLabel
    <3>1. pass'[p] = Reporting(slot[p], ReplyTo(w))
      BY <2>1, <2>3 DEF Complete, ReleasedTask, TypeOK
    <3> QED BY <3>1 DEF Reporting, Idle
  <2>5. CASE w.summary
    BY <2>2, <2>5 DEF Marked, ReplyBehavior, NoLabel
  <2>6. CASE ~w.summary
    BY <2>2, <2>4, <2>6 DEF Marked, ReplyTo
  <2> QED BY <2>5, <2>6
<1>2. CoreInv /\ [Next]_vars => [Owed]_vars
  BY <1>1
<1> QED BY <1>2, CoreInvariant, PTL DEF Spec, OnlyOwedAnswers

-----------------------------------------------------------------------------
(***************************************************************************)
(* A call, from the resolution of its target to the interruption of its     *)
(* sender.                                                                 *)
(***************************************************************************)

\* What a call remembers: a request was accepted exactly when it is to
\* interrupt its sender, and a send that is no batch has nothing to remember
\* until it is about to.
Remembers(x) ==
  /\ x.asked <=> x.accepted \cap RequestBehaviors # {}
  /\ ~x.batch /\ x.pc # "interrupting" => x.accepted = {}

Remembering(c) == call[c] # Idle => Remembers(call[c])

\* To the call of one agent every step is one of these.
CallMoves(c) ==
  \/ call'[c] = call[c]
  \/ call[c] = Idle /\ call'[c].accepted = {} /\ ~call'[c].asked
  \/ /\ call[c] # Idle /\ call[c].pc # "interrupting"
     /\ \/ /\ call'[c] \in Call /\ call'[c].pc # "interrupting"
           /\ UNCHANGED <<call[c].batch, call[c].asked, call[c].accepted>>
        \/ call'[c] \in {Refused(c), AfterAdvance(c), Ended(call[c])}
  \/ call[c].pc = "interrupting" /\ call'[c] = Idle /\ (interrupted'[c] \/ GoesOn(c))

\* The mark of an agent is set by its own send, as it returns.
MarkMoves(c) == interrupted'[c] /\ ~interrupted[c] => call'[c] = Idle

\* The start of an advance clears marks.
LEMMA AdvanceStartMarks ==
  ASSUME TypeOK, NEW k, NEW p \in Partner, NEW by,
         AdvanceDrops(k, p) \/ AdvanceReturns(k, p) \/ AdvanceNeedsRemote(k, p)
           \/ AdvanceBegins(k, p, by),
         NEW c \in Partner
  PROVE  interrupted'[c] => interrupted[c]
<1>1. UNCHANGED interrupted \/ ClearIfWaiting(k, p)
  BY DEF AdvanceDrops, AdvanceReturns, AdvanceNeedsRemote, AdvanceBegins, database
<1> QED BY <1>1 DEF ClearIfWaiting, TypeOK

\* A call whose program counter is set elsewhere than to the interruption.
LEMMA CallGoesOn ==
  ASSUME TypeOK, NEW c \in Partner, call[c] # Idle, call[c].pc # "interrupting",
         NEW pc \in {"resolved", "admitted", "advancing", "between"},
         call' = [call EXCEPT ![c].pc = pc]
  PROVE  CallMoves(c)
<1>1. call[c] \in Call /\ call'[c] = [call[c] EXCEPT !.pc = pc]
  BY DEF TypeOK
<1>2. call'[c] \in Call /\ call'[c].pc = pc
        /\ UNCHANGED <<call[c].batch, call[c].asked, call[c].accepted>>
  BY <1>1 DEF Call
<1> QED BY <1>2 DEF CallMoves

\* The steps of a send.
LEMMA SendCalls ==
  ASSUME TypeOK, Send, NEW c \in Partner
  PROVE  CallMoves(c) /\ MarkMoves(c)
<1>1. PICK d \in Partner :
        \/ \E p \in Partner, l \in Label :
             \/ \E k \in Process, b \in BOOLEAN : SendResolve(d, p, l, k, b)
             \/ NextItem(d, p, l)
        \/ BatchEnds(d) \/ SendAdmit(d) \/ SendAdvance(d) \/ SendInterrupt(d)
        \/ SendInterruptFails(d)
  BY DEF Send
<1>2. CASE \E p \in Partner, l \in Label, k \in Process, b \in BOOLEAN : SendResolve(d, p, l, k, b)
  <2>1. PICK p \in Partner, l \in Label, k \in Process, b \in BOOLEAN : SendResolve(d, p, l, k, b)
    BY <1>2
  <2>2. /\ call[d] = Idle /\ interrupted' = interrupted
        /\ call' = [call EXCEPT ![d] = [pc |-> "resolved", to |-> p, label |-> l, via |-> k,
                                        batch |-> b, asked |-> FALSE, accepted |-> {}]]
    BY <2>1 DEF SendResolve, database
  <2> QED BY <2>2 DEF CallMoves, MarkMoves, TypeOK
<1>3. CASE \E p \in Partner, l \in Label : NextItem(d, p, l)
  <2>1. PICK p \in Partner, l \in Label : NextItem(d, p, l)
    BY <1>3
  <2>2. /\ call[d].pc = "between" /\ interrupted' = interrupted
        /\ call' = [call EXCEPT ![d].pc = "resolved", ![d].to = p, ![d].label = l]
    BY <2>1 DEF NextItem, database
  <2>3. call[d] # Idle /\ call[d] \in Call
    BY <2>2 DEF Idle, TypeOK
  <2>4. CASE c = d
    <3>1. call'[c] = [call[c] EXCEPT !.pc = "resolved", !.to = p, !.label = l]
      BY <2>2, <2>4 DEF TypeOK
    <3>2. /\ call'[c] \in Call /\ call'[c].pc = "resolved"
          /\ UNCHANGED <<call[c].batch, call[c].asked, call[c].accepted>>
      BY <2>3, <2>4, <3>1 DEF Call
    <3> QED BY <2>2, <2>3, <2>4, <3>2 DEF CallMoves, MarkMoves
  <2>5. CASE c # d
    BY <2>2, <2>5 DEF CallMoves, MarkMoves, TypeOK
  <2> QED BY <2>4, <2>5
<1>4. CASE BatchEnds(d)
  <2>1. /\ call[d].pc = "between" /\ interrupted' = interrupted
        /\ call' = [call EXCEPT ![d] = Ended(call[d])]
    BY <1>4 DEF BatchEnds, database
  <2> QED BY <2>1 DEF CallMoves, MarkMoves, Idle, TypeOK
<1>5. CASE SendAdmit(d)
  <2>1. call[d].pc = "resolved" /\ interrupted' = interrupted
    BY <1>5 DEF SendAdmit
  <2>2. call[d] # Idle
    BY <2>1 DEF Idle
  <2>3. \/ call' = [call EXCEPT ![d].pc = "admitted"]
        \/ call' = [call EXCEPT ![d] = Refused(d)]
    BY <1>5 DEF SendAdmit
  <2>4. CASE c = d
    BY <2>1, <2>2, <2>3, <2>4, CallGoesOn DEF CallMoves, MarkMoves, TypeOK
  <2>5. CASE c # d
    BY <2>1, <2>3, <2>5 DEF CallMoves, MarkMoves, TypeOK
  <2> QED BY <2>4, <2>5
<1>6. CASE SendAdvance(d)
  <2>1. call[d].pc = "admitted"
    BY <1>6 DEF SendAdvance
  <2>2. call[d] # Idle
    BY <2>1 DEF Idle
  <2>3. call[d].to \in Partner
    BY <2>2, CallFields
  <2>4. MarkMoves(c)
    BY <1>6, <2>3, AdvanceStartMarks DEF SendAdvance, MarkMoves
  <2>5. \/ call' = [call EXCEPT ![d].pc = "advancing"]
        \/ call' = [call EXCEPT ![d] = Refused(d)]
        \/ call' = [call EXCEPT ![d] = AfterAdvance(d)]
    BY <1>6 DEF SendAdvance
  <2>6. CASE c = d
    BY <2>1, <2>2, <2>4, <2>5, <2>6, CallGoesOn DEF CallMoves, TypeOK
  <2>7. CASE c # d
    BY <2>4, <2>5, <2>7 DEF CallMoves, TypeOK
  <2> QED BY <2>6, <2>7
<1>7. CASE SendInterrupt(d)
  BY <1>7 DEF SendInterrupt, CallMoves, MarkMoves, TypeOK
<1>8. CASE SendInterruptFails(d)
  <2>1. slot[d] # Nothing /\ slot'[d] = slot[d]
    BY <1>8 DEF SendInterruptFails, Working
  <2>2. /\ call[d].pc = "interrupting" /\ call' = [call EXCEPT ![d] = Idle]
        /\ interrupted' = interrupted
    BY <1>8 DEF SendInterruptFails, database
  <2> QED BY <2>1, <2>2 DEF CallMoves, MarkMoves, GoesOn, TypeOK
<1> QED BY <1>1, <1>2, <1>3, <1>4, <1>5, <1>6, <1>7, <1>8

\* The rest of an advance moves the call that waits for it.
LEMMA AdvanceCalls ==
  ASSUME TypeOK, Linked, NEW p \in Partner, Advances(p), NEW c \in Partner
  PROVE  CallMoves(c) /\ MarkMoves(c)
<1> DEFINE d == adv[p].by
<1>1. interrupted' = interrupted
  BY DEF Advances, AdvanceStopFails, AdvanceSwaps, AdvanceDelivers, AdvanceRequeues, database
<1>2. \/ call' = call
      \/ d # p /\ call' = [call EXCEPT ![d] = Refused(d)]
      \/ d # p /\ call' = [call EXCEPT ![d] = AfterAdvance(d)]
  BY DEF Advances, AdvanceStopFails, AdvanceSwaps, AdvanceDelivers, AdvanceRequeues
<1>3. adv[p] # Free
  BY DEF Advances, AdvanceStopFails, AdvanceSwaps, AdvanceDelivers, AdvanceRequeues, Swapping,
         Delivering, Free
<1>4. d \in Partner /\ (d # p => call[d].pc = "advancing" /\ call[d] # Idle)
  BY <1>3, AdvanceFields DEF Linked, Idle
<1> HIDE DEF d
<1>5. CASE c = d
  BY <1>1, <1>2, <1>4, <1>5 DEF CallMoves, MarkMoves, TypeOK
<1>6. CASE c # d
  BY <1>1, <1>2, <1>6 DEF CallMoves, MarkMoves, TypeOK
<1> QED BY <1>5, <1>6

\* A drain pass touches no call.
LEMMA DrainCalls ==
  ASSUME TypeOK, NEW p \in Partner, Drain(p), NEW c \in Partner
  PROVE  call' = call /\ (interrupted'[c] => interrupted[c])
<1>1. CASE DrainAdvance(p)
  BY <1>1, AdvanceStartMarks DEF DrainAdvance
<1>2. CASE ReleaseBlocked(p) \/ SummaryRefused(p) \/ Complete(p)
  <2>1. Release(p)
    BY <1>2 DEF ReleaseBlocked, SummaryRefused, Complete
  <2> QED BY <2>1 DEF Release, database
<1>3. CASE \/ Poll(p) \/ PollAnswers(p) \/ PollMeetsApproval(p) \/ CheckNoWork(p)
           \/ BeginSummary(p) \/ SummaryRequested(p) \/ ReportBack(p)
  BY <1>3 DEF Poll, PollAnswers, PollMeetsApproval, CheckNoWork, BeginSummary,
     SummaryRequested, ReportBack, database
<1> QED BY <1>1, <1>2, <1>3 DEF Drain

\* Every step.
LEMMA StepCalls ==
  ASSUME Typed, [Next]_vars, NEW c \in Partner
  PROVE  CallMoves(c) /\ MarkMoves(c)
<1>1. TypeOK /\ Linked
  BY DEF Typed
<1>2. CASE Send
  BY <1>1, <1>2, SendCalls
<1>3. ASSUME NEW p \in Partner, Advances(p) \/ Drain(p)
      PROVE  CallMoves(c) /\ MarkMoves(c)
  <2>1. CASE Advances(p)
    BY <1>1, <2>1, AdvanceCalls
  <2>2. CASE Drain(p)
    BY <1>1, <2>2, DrainCalls DEF CallMoves, MarkMoves
  <2> QED BY <1>3, <2>1, <2>2
<1>4. ASSUME NEW p \in Partner, RemoteFinishes(p)
      PROVE  CallMoves(c) /\ MarkMoves(c)
  BY <1>4 DEF RemoteFinishes, database, CallMoves, MarkMoves
<1>5. ASSUME NEW p \in Partner, NEW k \in Process, Archive(p, k) \/ Restart(p, k)
      PROVE  CallMoves(c) /\ MarkMoves(c)
  <2>1. call' = call /\ (interrupted'[c] => interrupted[c])
    BY <1>1, <1>5 DEF Archive, Restart, TypeOK
  <2> QED BY <2>1 DEF CallMoves, MarkMoves
<1>6. CASE UNCHANGED vars
  BY <1>6 DEF vars, CallMoves, MarkMoves
<1> QED BY <1>2, <1>3, <1>4, <1>5, <1>6 DEF Next

\* A call keeps to what it remembers, and one that has had a request accepted
\* returns by way of the interruption.
LEMMA RememberingStep ==
  ASSUME TypeOK, NEW c \in Partner, Remembering(c), CallMoves(c)
  PROVE  /\ Remembering(c)'
         /\ call[c] # Idle /\ call'[c] = Idle /\ call[c].accepted \cap RequestBehaviors # {}
              => interrupted'[c] \/ GoesOn(c)
<1>1. call[c] # Idle => call[c] \in Call /\ call[c].pc # "idle"
  BY ControlPoints DEF TypeOK
<1>2. \A x \in Call : x.asked \in BOOLEAN /\ x.batch \in BOOLEAN /\ x # Idle
  BY DEF Call, Idle
<1>3. CASE call'[c] = call[c]
  BY <1>3 DEF Remembering
<1>4. CASE call[c] = Idle /\ call'[c].accepted = {} /\ ~call'[c].asked
  BY <1>4 DEF Remembering, Remembers
<1>5. CASE /\ call[c] # Idle /\ call[c].pc # "interrupting"
           /\ call'[c] \in Call /\ call'[c].pc # "interrupting"
           /\ UNCHANGED <<call[c].batch, call[c].asked, call[c].accepted>>
  BY <1>2, <1>5 DEF Remembering, Remembers
<1>6. CASE call[c] # Idle /\ call[c].pc # "interrupting" /\ call'[c] = Refused(c)
  <2>1. Remembers(call[c]) /\ call[c] \in Call
    BY <1>1, <1>6 DEF Remembering
  <2>2. CASE call[c].batch
    <3>1. call'[c] = [call[c] EXCEPT !.pc = "between"]
      BY <1>6, <2>2 DEF Refused
    <3>2. /\ call'[c] \in Call /\ call'[c].batch /\ call'[c].asked = call[c].asked
          /\ call'[c].accepted = call[c].accepted
      BY <2>1, <2>2, <3>1 DEF Call
    <3> QED BY <1>2, <2>1, <3>2 DEF Remembering, Remembers
  <2>3. CASE ~call[c].batch
    <3>1. call'[c] = Idle /\ call[c].accepted = {}
      BY <1>6, <2>1, <2>3 DEF Refused, Remembers
    <3> QED BY <3>1 DEF Remembering
  <2> QED BY <2>2, <2>3
<1>7. ASSUME NEW x \in Call, call'[c] = Ended(x), x.asked <=> x.accepted \cap RequestBehaviors # {}
      PROVE  Remembering(c)' /\ (call'[c] = Idle => x.accepted \cap RequestBehaviors = {})
  <2>1. CASE x.asked
    <3>1. call'[c] = [x EXCEPT !.pc = "interrupting"]
      BY <1>7, <2>1 DEF Ended
    <3>2. /\ call'[c] \in Call /\ call'[c].pc = "interrupting"
          /\ call'[c].asked = x.asked /\ call'[c].accepted = x.accepted
      BY <3>1 DEF Call
    <3> QED BY <1>2, <1>7, <3>2 DEF Remembering, Remembers
  <2>2. CASE ~x.asked
    BY <1>7, <2>2 DEF Ended, Remembering
  <2> QED BY <2>1, <2>2
<1>8. CASE call[c] # Idle /\ call[c].pc # "interrupting" /\ call'[c] = Ended(call[c])
  BY <1>1, <1>7, <1>8 DEF Remembering, Remembers
<1>9. CASE call[c] # Idle /\ call[c].pc # "interrupting" /\ call'[c] = AfterAdvance(c)
  <2> DEFINE l == call[c].label
             x == [call[c] EXCEPT !.asked = @ \/ l \in RequestBehaviors, !.accepted = @ \cup {l}]
  <2>1. call[c] \in Call /\ Remembers(call[c]) /\ l \in Label
    BY <1>1, <1>9, CallFields DEF Remembering
  <2>2. /\ x \in Call /\ x.batch = call[c].batch
        /\ x.asked = (call[c].asked \/ l \in RequestBehaviors)
        /\ x.accepted = call[c].accepted \cup {l}
    BY <2>1 DEF Call
  <2>3. x.asked <=> x.accepted \cap RequestBehaviors # {}
    BY <2>1, <2>2 DEF Remembers
  <2> HIDE DEF x
  <2>4. CASE call[c].batch
    <3>1. call'[c] = [x EXCEPT !.pc = "between"]
      BY <1>9, <2>2, <2>4 DEF AfterAdvance, x
    <3>2. /\ call'[c] \in Call /\ call'[c].batch
          /\ call'[c].asked = x.asked /\ call'[c].accepted = x.accepted
      BY <2>2, <2>4, <3>1 DEF Call
    <3> QED BY <1>2, <2>3, <3>2 DEF Remembering, Remembers
  <2>5. CASE ~call[c].batch
    <3>1. call'[c] = Ended(x)
      BY <1>9, <2>2, <2>5 DEF AfterAdvance, x
    <3> QED BY <1>7, <2>2, <2>3, <3>1
  <2> QED BY <2>4, <2>5
<1>10. CASE call[c].pc = "interrupting" /\ call'[c] = Idle /\ (interrupted'[c] \/ GoesOn(c))
  BY <1>10 DEF Remembering
<1> QED BY <1>3, <1>4, <1>5, <1>6, <1>8, <1>9, <1>10 DEF CallMoves

\* A batch stops its sender once, when it returns, and does so if any request of
\* it was accepted, whatever was refused or failed before, after or between; the
\* one way out is a remote that does not stop, whose task then stays.
THEOREM BatchStops == Spec => BatchStopsSender
<1> DEFINE Stops == \A c \in Partner :
             /\ interrupted'[c] /\ ~interrupted[c] => call'[c] = Idle
             /\ call[c] # Idle /\ call'[c] = Idle /\ call[c].accepted \cap RequestBehaviors # {}
                  => interrupted'[c] \/ GoesOn(c)
           Remembered == \A c \in Partner : Remembering(c)
<1>1. Init => Remembered
  BY DEF Init, Remembering
<1>2. Typed /\ Remembered /\ [Next]_vars => Remembered' /\ Stops
  <2> SUFFICES ASSUME Typed, Remembered, [Next]_vars, NEW c \in Partner
               PROVE  /\ Remembering(c)'
                      /\ interrupted'[c] /\ ~interrupted[c] => call'[c] = Idle
                      /\ call[c] # Idle /\ call'[c] = Idle
                           /\ call[c].accepted \cap RequestBehaviors # {}
                           => interrupted'[c] \/ GoesOn(c)
    OBVIOUS
  <2>1. TypeOK /\ CallMoves(c) /\ MarkMoves(c)
    BY StepCalls DEF Typed
  <2> QED BY <2>1, RememberingStep DEF MarkMoves
<1> HIDE DEF Remembered
<1>3. Typed /\ Remembered /\ [Next]_vars => [Stops]_vars
  BY <1>2
<1>4. Spec => []Typed
  BY InitTypes, StepTypes, PTL DEF Spec
<1> QED BY <1>1, <1>2, <1>3, <1>4, PTL DEF Spec, BatchStopsSender

-----------------------------------------------------------------------------
(***************************************************************************)
(* The caps and the notices of an archive, in a system of one process.  A   *)
(* second process sees neither the lock nor the slot.                      *)
(***************************************************************************)

\* The tasks c has p carry under label l, wherever they are.
Load(p, c, l) ==
  {n \in {w.task : w \in Burden(p)} : tasks[n].from = c /\ tasks[n].label = l}

\* No load is over its cap, the task between queue and slot included: it is
\* what CapHolds says of the held, and stays true while a swap has a task
\* both in hand and in the queue.
LoadCap(p) ==
  \A c \in Partner, l \in Capped : Cardinality(Load(p, c, l)) <= MaxOutstanding[l]

\* A load is a finite set of messages.
LEMMA LoadFinite ==
  ASSUME CoreInv, NEW p \in Partner, NEW c, NEW l
  PROVE  /\ IsFiniteSet(Load(p, c, l)) /\ Cardinality(Load(p, c, l)) \in Nat
         /\ Load(p, c, l) \subseteq AdmittedTo(p)
<1>1. DOMAIN tasks = 1 .. Len(tasks) /\ Len(tasks) \in Nat
  BY LenProperties DEF CoreInv, TypeOK
<1>2. IsFiniteSet(DOMAIN tasks)
  BY <1>1, FS_Interval
<1>3. Load(p, c, l) \subseteq AdmittedTo(p)
  BY DEF CoreInv, Located, AllGenuine, Genuine, Load
<1>4. AdmittedTo(p) \subseteq DOMAIN tasks
  BY DEF AdmittedTo
<1> QED BY <1>2, <1>3, <1>4, FS_Subset, FS_CardinalityType

\* A row counts under the label of its message.
LEMMA Counted ==
  ASSUME CoreInv, NEW p \in Partner, NEW w \in Burden(p)
  PROVE  w \in Row /\ w.caller = tasks[w.task].from /\ CountedLabel(w) = tasks[w.task].label
<1>1. w \in Row /\ w.caller = tasks[w.task].from /\ Marked(w)
  BY BurdenRows DEF CoreInv, Located, AllGenuine, Genuine
<1>2. NoLabel # "RESEARCH"
  BY DEF NoLabel
<1> QED BY <1>1, <1>2 DEF Marked, CountedLabel

\* The caps are natural numbers.
LEMMA CapTypes == \A l \in Capped : l \in Label /\ MaxOutstanding[l] \in Nat
BY DEF Capped, Label, MaxOutstanding

\* One more element.
LEMMA OneMore ==
  ASSUME NEW S, IsFiniteSet(S), NEW x
  PROVE  /\ IsFiniteSet(S \cup {x})
         /\ Cardinality(S \cup {x}) \in Nat
         /\ Cardinality(S \cup {x}) <= Cardinality(S) + 1
<1>1. IsFiniteSet(S \cup {x}) /\ Cardinality(S) \in Nat
  BY FS_AddElement, FS_CardinalityType
<1>2. Cardinality(S \cup {x}) \in Nat
  BY <1>1, FS_CardinalityType
<1>3. Cardinality(S \cup {x}) = IF x \in S THEN Cardinality(S) ELSE Cardinality(S) + 1
  BY FS_AddElement
<1> QED BY <1>1, <1>2, <1>3

\* What the admission counts is the load, and it leaves room for one more.
LEMMA RoomForOne ==
  ASSUME CoreInv, NEW k, Process = {k}, NEW p \in Partner, NEW c, NEW l \in Capped,
         LockFree(k, p), WithinCap(k, p, c, l)
  PROVE  Cardinality(Load(p, c, l)) < MaxOutstanding[l]
<1> DEFINE S == Queued(p, c, l)
           f == [i \in S |-> queue[p][i].task]
           T == {queue[p][i].task : i \in S}
           w == slot[p]
<1>1. /\ TypeOK /\ Owner[p] = k /\ adv[p] = Free
      /\ DOMAIN queue[p] = 1 .. Len(queue[p]) /\ Len(queue[p]) \in Nat
  BY CoreAssumption, LenProperties DEF CoreInv, TypeOK, LockFree
<1>2. IsFiniteSet(S) /\ Cardinality(S) \in Nat
  <2>1. IsFiniteSet(DOMAIN queue[p])
    BY <1>1, FS_Interval
  <2>2. S \subseteq DOMAIN queue[p]
    BY DEF Queued
  <2> QED BY <2>1, <2>2, FS_Subset, FS_CardinalityType
<1>3. IsFiniteSet(T) /\ Cardinality(T) \in Nat /\ Cardinality(T) <= Cardinality(S)
  <2>1. f \in Surjection(S, T)
    BY DEF Surjection
  <2> QED BY <1>2, <2>1, FS_Surjection, FS_CardinalityType
<1>4. Cardinality(S) + Outstanding(k, p, c, l) < MaxOutstanding[l]
  BY DEF WithinCap
<1>5. Burden(p) = Range(queue[p]) \cup ({w} \ {Nothing})
  BY <1>1 DEF Burden
<1>6. \A v \in Range(queue[p]) :
        tasks[v.task].from = c /\ tasks[v.task].label = l => v.task \in T
  <2> SUFFICES ASSUME NEW i \in DOMAIN queue[p], tasks[queue[p][i].task].from = c,
                      tasks[queue[p][i].task].label = l
               PROVE  queue[p][i].task \in T
    BY DEF Range
  <2>1. queue[p][i] \in Burden(p)
    BY <1>5 DEF Range
  <2>2. i \in S
    BY <2>1, Counted DEF Queued
  <2> QED BY <2>2
<1>7. CASE w # Nothing /\ w.caller = c /\ CountedLabel(w) = l
  <2>1. Outstanding(k, p, c, l) = 1
    BY <1>1, <1>7 DEF Outstanding, Working, CountedLabel
  <2>2. Load(p, c, l) \subseteq T \cup {w.task}
    BY <1>5, <1>6 DEF Load
  <2>3. /\ IsFiniteSet(T \cup {w.task})
        /\ Cardinality(T \cup {w.task}) <= Cardinality(T) + 1
        /\ Cardinality(T \cup {w.task}) \in Nat
    BY <1>3, OneMore
  <2>4. Cardinality(Load(p, c, l)) <= Cardinality(T \cup {w.task})
    BY <2>2, <2>3, FS_Subset
  <2> QED BY <1>2, <1>3, <1>4, <2>1, <2>3, <2>4, LoadFinite, CapTypes
<1>8. CASE ~(w # Nothing /\ w.caller = c /\ CountedLabel(w) = l)
  <2>1. Load(p, c, l) \subseteq T
    BY <1>5, <1>6, <1>8, Counted DEF Load
  <2>2. Cardinality(Load(p, c, l)) <= Cardinality(T)
    BY <1>3, <2>1, FS_Subset
  <2>3. Outstanding(k, p, c, l) \in Nat
    BY DEF Outstanding
  <2> QED BY <1>2, <1>3, <1>4, <2>2, <2>3, LoadFinite, CapTypes
<1> QED BY <1>7, <1>8

\* A load grows by one when a message is admitted, and no other motion adds to it.
LEMMA LoadStep ==
  ASSUME CoreInv, TypeOK', NEW k, Process = {k}, NEW q \in Partner, Moves(q), LoadCap(q)
  PROVE  LoadCap(q)'
<1> SUFFICES ASSUME NEW c \in Partner, NEW l \in Capped
             PROVE  Cardinality(Load(q, c, l)') <= MaxOutstanding[l]
  BY DEF LoadCap
<1>1. TypeOK /\ Distinct(queue[q])
  BY DEF CoreInv, Located, Apart
<1>2. /\ IsFiniteSet(Load(q, c, l)) /\ Cardinality(Load(q, c, l)) \in Nat
      /\ Cardinality(Load(q, c, l)) <= MaxOutstanding[l] /\ MaxOutstanding[l] \in Nat
  BY LoadFinite, CapTypes DEF LoadCap
<1>3. \A w \in Burden(q) : w \in Row /\ w.task \in AdmittedTo(q) /\ tasks'[w.task] = tasks[w.task]
  BY <1>1, AdmittedStep, BurdenRows DEF CoreInv, Located, AllGenuine, Genuine
<1>4. CASE \A m \in Message : ~(q \in m.to /\ tasks' = Append(tasks, m))
  <2>1. \A w \in Burden(q)' : \E v \in Burden(q) : v.task = w.task
    <3> SUFFICES ASSUME NEW w \in Burden(q)' PROVE \E v \in Burden(q) : v.task = w.task
      OBVIOUS
    <3>1. \/ w \in Burden(q)
          \/ \E v \in Burden(q) : w = PausedRow(v)
          \/ slot[q] \in Burden(q) /\ w = Summary(slot[q])
      BY <1>1, <1>4, BurdenStep
    <3> QED BY <1>3, <3>1, PausedTask, SummaryTask
  <2>2. Load(q, c, l)' \subseteq Load(q, c, l)
    BY <1>3, <2>1 DEF Load
  <2>3. Cardinality(Load(q, c, l)') <= Cardinality(Load(q, c, l))
    BY <1>2, <2>2, FS_Subset
  <2>4. Cardinality(Load(q, c, l)') \in Nat
    BY <1>2, <2>2, FS_Subset, FS_CardinalityType
  <2> QED BY <1>2, <2>3, <2>4
<1>5. CASE \E m \in Message : q \in m.to /\ tasks' = Append(tasks, m)
  <2>1. PICK m \in Message : q \in m.to /\ tasks' = Append(tasks, m)
    BY <1>5
  <2>2. tasks'[NextTask] = m /\ NextTask \notin AdmittedTo(q) /\ NextTask \in AdmittedTo(q)'
    BY <1>1, <2>1, Grown, AdmittedGrows DEF AdmittedTo
  <2>3. Arrives(q) /\ (l = m.label /\ c = m.from => LockFree(k, q) /\ WithinCap(k, q, c, l))
    <3>1. ~Untold(q)
      BY <1>1, <2>2, AdmittedStep
    <3>2. tasks' # tasks
      BY <3>1 DEF Untold
    <3>3. Arrives(q)
      BY <3>1, <3>2 DEF Moves, Rests, PutsBack, Drops, Begins, LetsGo, Swaps, Delivers,
         Requeues, Releases, Summarises, Ends
    <3>4. PICK n \in Message :
            /\ tasks' = Append(tasks, n)
            /\ n.label \in Capped =>
                 \E i \in Process : LockFree(i, q) /\ WithinCap(i, q, n.from, n.label)
      BY <3>3 DEF Arrives
    <3>5. n = m
      BY <1>1, <2>2, <3>4, Grown
    <3> QED BY <3>3, <3>4, <3>5
  <2>4. Load(q, c, l)' \subseteq Load(q, c, l) \cup {NextTask}
    <3>1. \A w \in Burden(q)' : (\E v \in Burden(q) : v.task = w.task) \/ w.task = NextTask
      <4> SUFFICES ASSUME NEW w \in Burden(q)'
                   PROVE  (\E v \in Burden(q) : v.task = w.task) \/ w.task = NextTask
        OBVIOUS
      <4>1. \/ w \in Burden(q)
            \/ \E v \in Burden(q) : w = PausedRow(v)
            \/ slot[q] \in Burden(q) /\ w = Summary(slot[q])
            \/ \E n \in Message : w = NewRow(NextTask, n.from, n.label)
        BY <1>1, BurdenStep
      <4> QED BY <1>3, <4>1, PausedTask, SummaryTask DEF NewRow
    <3> QED BY <1>3, <3>1 DEF Load
  <2>5. CASE c = m.from /\ l = m.label
    <3>1. Cardinality(Load(q, c, l)) < MaxOutstanding[l]
      BY <2>3, <2>5, RoomForOne
    <3>2. /\ IsFiniteSet(Load(q, c, l) \cup {NextTask})
          /\ Cardinality(Load(q, c, l) \cup {NextTask}) <= Cardinality(Load(q, c, l)) + 1
          /\ Cardinality(Load(q, c, l) \cup {NextTask}) \in Nat
      BY <1>2, OneMore
    <3>3. /\ Cardinality(Load(q, c, l)') <= Cardinality(Load(q, c, l) \cup {NextTask})
          /\ Cardinality(Load(q, c, l)') \in Nat
      BY <2>4, <3>2, FS_Subset, FS_CardinalityType
    <3> QED BY <1>2, <3>1, <3>2, <3>3
  <2>6. CASE ~(c = m.from /\ l = m.label)
    <3>1. Load(q, c, l)' \subseteq Load(q, c, l)
      BY <2>2, <2>4, <2>6 DEF Load
    <3>2. /\ Cardinality(Load(q, c, l)') <= Cardinality(Load(q, c, l))
          /\ Cardinality(Load(q, c, l)') \in Nat
      BY <1>2, <3>1, FS_Subset, FS_CardinalityType
    <3> QED BY <1>2, <3>2
  <2> QED BY <2>5, <2>6
<1> QED BY <1>4, <1>5

\* In a system of one process no caller has more of a capped label outstanding
\* with a partner than the cap allows: queued, on the way to the remote, in the
\* slot, displaced, put back or being summarised.
THEOREM CapsHold ==
  ASSUME NEW k, Process = {k}
  PROVE  Spec => []CapHolds
<1> DEFINE Capping == \A p \in Partner : LoadCap(p)
<1>1. Init => Capping
  <2> SUFFICES ASSUME Init, NEW p \in Partner, NEW c \in Partner, NEW l \in Capped
               PROVE  Cardinality(Load(p, c, l)) <= MaxOutstanding[l]
    BY DEF LoadCap
  <2>1. Load(p, c, l) = {}
    BY DEF Init, Load, Burden, Range
  <2> QED BY <2>1, FS_EmptySet, CapTypes
<1>2. CoreInv /\ TypeOK' /\ Capping /\ [Next]_vars => Capping'
  <2> SUFFICES ASSUME CoreInv, TypeOK', Capping, [Next]_vars, NEW q \in Partner
               PROVE  LoadCap(q)'
    OBVIOUS
  <2>1. Moves(q)
    BY StepMoves DEF CoreInv
  <2> QED BY <2>1, LoadStep
<1>3. CoreInv /\ Capping => CapHolds
  <2> SUFFICES ASSUME CoreInv, Capping, NEW p \in Partner, NEW c \in Partner, NEW l \in Capped
               PROVE  Cardinality({w \in Held(p) : w.caller = c /\ CountedLabel(w) = l})
                        <= MaxOutstanding[l]
    BY DEF CapHolds
  <2> DEFINE S == {w \in Held(p) : w.caller = c /\ CountedLabel(w) = l}
             f == [w \in S |-> w.task]
  <2>1. TypeOK /\ Apart(p) /\ LoadCap(p)
    BY DEF CoreInv, Located
  <2>2. S \subseteq Burden(p)
    BY <2>1, Places0, BurdenRows DEF Held, Burden, InFlight
  <2>3. f \in [S -> Load(p, c, l)]
    BY <2>2, Counted DEF Load
  <2>4. \A v, w \in Held(p) : v.task = w.task => v = w
    <3>1. \A v, w \in Range(queue[p]) : v.task = w.task => v = w
      BY <2>1 DEF Apart, Distinct, Range
    <3>2. \A v \in Range(queue[p]) : v.task \in TasksOf(queue[p])
      BY DEF Range, TasksOf
    <3>3. slot[p].task \notin TasksOf(queue[p])
      BY <2>1 DEF Apart
    <3>4. InFlight(p) # Nothing =>
            slot[p] = Nothing /\ InFlight(p).task \notin TasksOf(queue[p])
      BY <2>1 DEF InFlight, Apart
    <3> QED BY <3>1, <3>2, <3>3, <3>4 DEF Held
  <2>5. f \in Injection(S, Load(p, c, l))
    BY <2>3, <2>4 DEF Injection, IsInjective
  <2>6. IsFiniteSet(S) /\ Cardinality(S) <= Cardinality(Load(p, c, l))
    BY <2>5, LoadFinite, FS_Injection
  <2> QED BY <2>1, <2>6, LoadFinite, FS_CardinalityType, CapTypes DEF LoadCap
<1> HIDE DEF Capping
<1> QED BY <1>1, <1>2, <1>3, CoreInvariant, CoreTypeCorrect, PTL DEF Spec

\* A partner is archived by an archive of it.
LEMMA ArchivedByArchive ==
  ASSUME TypeOK, [Next]_vars, NEW p \in Partner, ~archived[p], archived'[p]
  PROVE  \E k \in Process : Archive(p, k)
<1>1. ~Send /\ ~\E q \in Partner : Advances(q)
  BY SendKeeps, AdvanceKeeps
<1>2. ASSUME NEW q \in Partner, Drain(q) \/ RemoteFinishes(q) PROVE FALSE
  <2>1. CASE ReleaseBlocked(q) \/ SummaryRefused(q) \/ Complete(q)
    <3>1. Release(q)
      BY <2>1 DEF ReleaseBlocked, SummaryRefused, Complete
    <3> QED BY <3>1 DEF Release, database
  <2>2. CASE \/ DrainAdvance(q) \/ Poll(q) \/ PollAnswers(q) \/ PollMeetsApproval(q)
             \/ CheckNoWork(q) \/ BeginSummary(q) \/ SummaryRequested(q) \/ ReportBack(q)
             \/ RemoteFinishes(q)
    BY <2>2 DEF DrainAdvance, AdvanceDrops, AdvanceBegins, Poll, PollAnswers,
       PollMeetsApproval, CheckNoWork, BeginSummary, SummaryRequested, ReportBack,
       RemoteFinishes, database
  <2> QED BY <1>2, <2>1, <2>2 DEF Drain
<1>3. ASSUME NEW q \in Partner, NEW k \in Process, Restart(q, k) PROVE FALSE
  BY <1>3 DEF Restart
<1>4. ~UNCHANGED vars
  BY DEF vars
<1>5. PICK q \in Partner, k \in Process : Archive(q, k)
  BY <1>1, <1>2, <1>3, <1>4 DEF Next
<1>6. q = p
  BY <1>5 DEF Archive, TypeOK
<1> QED BY <1>5, <1>6

\* In a system of one process an archive tells every live caller it leaves without
\* its work, of the queue and of the slot, by an [ERROR] that is new to it.
THEOREM ArchiveTells ==
  ASSUME NEW k, Process = {k}
  PROVE  Spec => ArchiveTellsCallers
<1> DEFINE Telling == \A p \in Partner : ~archived[p] /\ archived'[p] =>
             \A w \in Range(queue[p]) \cup ({slot[p]} \ {Nothing}) :
               w.caller = p \/ archived[w.caller]
                 \/ \E row \in Range(queue'[w.caller]) \ Range(queue[w.caller]) :
                      row.caller = p /\ row.label = "ERROR"
<1>1. CoreInv /\ [Next]_vars => Telling
  <2> SUFFICES ASSUME CoreInv, [Next]_vars, NEW p \in Partner, ~archived[p], archived'[p],
                      NEW w \in Range(queue[p]) \cup ({slot[p]} \ {Nothing}),
                      w.caller # p, ~archived[w.caller]
               PROVE  \E row \in Range(queue'[w.caller]) \ Range(queue[w.caller]) :
                        row.caller = p /\ row.label = "ERROR"
    OBVIOUS
  <2> DEFINE c == w.caller
             row == NewRow(NextTask, p, "ERROR")
  <2>1. TypeOK /\ Archive(p, k) /\ Owner[p] = k
    BY ArchivedByArchive, CoreAssumption DEF CoreInv
  <2>2. c \in Partner
    BY <2>1, BurdenRows DEF Burden, Row
  <2>3. c \in WaitingCallers(k, p)
    BY <2>1 DEF WaitingCallers, Working, Range
  <2>4. queue'[c] = Append(queue[c], row)
    BY <2>1, <2>2, <2>3 DEF Archive
  <2>5. row \in Row /\ row.task = NextTask /\ row.caller = p /\ row.label = "ERROR"
    BY <2>1, NewTask DEF Label
  <2>6. Range(queue'[c]) = Range(queue[c]) \cup {row}
    BY <2>1, <2>2, <2>4, <2>5, AppendTasks DEF TypeOK
  <2>7. row \notin Range(queue[c])
    <3>1. \A v \in Range(queue[c]) : v.task \in DOMAIN tasks
      BY <2>2 DEF CoreInv, Located, AllGenuine, Genuine, Burden, AdmittedTo
    <3>2. NextTask \notin DOMAIN tasks
      BY <2>1, LenProperties DEF TypeOK, NextTask
    <3> QED BY <2>5, <3>1, <3>2
  <2> QED BY <2>5, <2>6, <2>7
<1>2. CoreInv /\ [Next]_vars => [Telling]_vars
  BY <1>1
<1> QED BY <1>2, CoreInvariant, PTL DEF Spec, ArchiveTellsCallers
=============================================================================
