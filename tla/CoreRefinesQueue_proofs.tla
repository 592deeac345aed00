----------------------- MODULE CoreRefinesQueue_proofs -----------------------
(***************************************************************************)
(* In a system of one process that archives nobody, MessagingCore          *)
(* implements AgentQueue, for any number of partners and whatever they     *)
(* send each other.                                                        *)
(*                                                                         *)
(* Two processes do not: each has a slot lock of its own.  Nor does one    *)
(* that archives: archive_sessions adds its [ERROR] rows without the lock, *)
(* and one that arrives between an advance's choice and its swap outranks  *)
(* the row that is swapped in.                                             *)
(***************************************************************************)
EXTENDS CoreRefinesQueue, MessagingCore_proofs

-----------------------------------------------------------------------------
(***************************************************************************)
(* What a step does to the subject.  Every step is one of the following,   *)
(* whoever takes it.                                                       *)
(***************************************************************************)

Sits ==
  UNCHANGED <<queue[Subject], slot[Subject], adv[Subject], interrupted[Subject]>>

\* A message arrives, while nobody is advancing the queue.
Receives ==
  /\ adv[Subject] = Free
  /\ \E t \in TaskId, c \in Partner, l \in Label :
       queue'[Subject] = Append(queue[Subject], NewRow(t, c, l))
  /\ UNCHANGED <<slot[Subject], adv[Subject], interrupted[Subject]>>

\* It is interrupted.
Stops ==
  /\ adv[Subject] = Free
  /\ queue'[Subject] = IF slot[Subject] = Nothing THEN queue[Subject]
                       ELSE Append(queue[Subject], PausedRow(slot[Subject]))
  /\ slot'[Subject] = Nothing
  /\ interrupted'[Subject]
  /\ UNCHANGED adv[Subject]

\* Its permissions were corrected.
Restarts ==
  /\ adv[Subject] = Free
  /\ interrupted[Subject] /\ interrupted'[Subject] = FALSE
  /\ UNCHANGED <<queue[Subject], slot[Subject], adv[Subject]>>

\* An advance has chosen its row.
Chooses ==
  /\ adv[Subject] = Free
  /\ \E i \in DOMAIN queue[Subject] :
       /\ Promotable(Owner[Subject], Subject, i)
       /\ adv'[Subject].pc = "swapping"
       /\ adv'[Subject].head = queue[Subject][i]
       /\ adv'[Subject].working = slot[Subject]
       /\ adv'[Subject].restarts = Waiting(Owner[Subject], Subject)
  /\ interrupted'[Subject] = (interrupted[Subject] /\ ~Waiting(Owner[Subject], Subject))
  /\ UNCHANGED <<queue[Subject], slot[Subject]>>

\* It gives up, as what it would displace did not stop.
GivesUp ==
  /\ Swapping(Subject) /\ adv[Subject].working # Nothing
  /\ adv'[Subject] = Free
  /\ UNCHANGED <<queue[Subject], slot[Subject], interrupted[Subject]>>

\* The motions that leave the mark alone.
KeepsMark ==
  /\ \/ Swaps(Subject) \/ Delivers(Subject) \/ Requeues(Subject)
     \/ Releases(Subject) \/ Summarises(Subject)
  /\ UNCHANGED interrupted[Subject]

SubjectMoves ==
  Sits \/ Receives \/ Stops \/ Restarts \/ Chooses \/ GivesUp \/ KeepsMark

\* Nobody is archived.
NoneArchived == \A q \in Partner : ~archived[q]

\* A step that touches nothing the subject has.
LEMMA OthersSit ==
  ASSUME UNCHANGED <<queue, slot, adv, interrupted>>
  PROVE  SubjectMoves
BY DEF Sits, SubjectMoves

\* The start of an advance, whoever starts it.
LEMMA AdvanceStartOfSubject ==
  ASSUME TypeOK, NoneArchived, NEW k, Process = {k}, NEW q \in Partner, NEW by \in Partner,
         AdvanceDrops(k, q) \/ AdvanceReturns(k, q) \/ AdvanceNeedsRemote(k, q)
           \/ AdvanceBegins(k, q, by)
  PROVE  SubjectMoves
<1>1. Owner[q] = k /\ ~archived[q]
  BY CoreAssumption DEF NoneArchived
<1>2. CASE AdvanceReturns(k, q)
  BY <1>2, OthersSit DEF AdvanceReturns, database
<1>3. CASE AdvanceBegins(k, q, by)
  <2>1. UNCHANGED <<queue, slot>>
    BY <1>3 DEF AdvanceBegins
  <2>2. CASE q = Subject
    <3>1. PICK i \in DOMAIN queue[q] :
            /\ Promotable(k, q, i)
            /\ adv' = [adv EXCEPT ![q] = [pc |-> "swapping", head |-> queue[q][i],
                                          working |-> slot[q], by |-> by,
                                          restarts |-> Waiting(k, q)]]
      BY <1>3 DEF AdvanceBegins
    <3>2. adv'[q] = [pc |-> "swapping", head |-> queue[q][i], working |-> slot[q],
                     by |-> by, restarts |-> Waiting(k, q)]
      BY <3>1 DEF TypeOK
    <3>3. interrupted'[q] = (interrupted[q] /\ ~Waiting(k, q))
      BY <1>3 DEF AdvanceBegins, ClearIfWaiting, TypeOK
    <3>4. adv[q] = Free
      BY <1>1, <1>3 DEF AdvanceBegins, LockFree
    <3>5. Chooses
      BY <1>1, <2>1, <2>2, <3>1, <3>2, <3>3, <3>4 DEF Chooses
    <3> QED BY <3>5 DEF SubjectMoves
  <2>3. CASE q # Subject
    <3>1. adv'[Subject] = adv[Subject] /\ interrupted'[Subject] = interrupted[Subject]
      BY <1>3, <2>3, SubjectAssumption DEF AdvanceBegins, ClearIfWaiting, TypeOK
    <3> QED BY <2>1, <3>1 DEF Sits, SubjectMoves
  <2> QED BY <2>2, <2>3
<1> QED BY <1>1, <1>2, <1>3 DEF AdvanceDrops, AdvanceNeedsRemote

\* The steps of a send.
LEMMA SendOfSubject ==
  ASSUME TypeOK, NoneArchived, NEW k, Process = {k}, Send
  PROVE  SubjectMoves
<1>1. PICK c \in Partner :
        \/ \E q \in Partner, l \in Label :
             \/ \E i \in Process, b \in BOOLEAN : SendResolve(c, q, l, i, b)
             \/ NextItem(c, q, l)
        \/ SendAdmit(c) \/ SendAdvance(c) \/ SendInterrupt(c) \/ SendInterruptFails(c)
        \/ BatchEnds(c)
  BY DEF Send
<1>2. CASE \/ \E q \in Partner, l \in Label :
                \/ \E i \in Process, b \in BOOLEAN : SendResolve(c, q, l, i, b)
                \/ NextItem(c, q, l)
           \/ SendInterruptFails(c) \/ BatchEnds(c)
  BY <1>2, OthersSit DEF SendResolve, NextItem, SendInterruptFails, BatchEnds, database
<1> DEFINE t == call[c].to
           l == call[c].label
<1>3. CASE SendAdmit(c)
  <2>1. call[c] # Idle
    BY <1>3, ControlPoints DEF SendAdmit, Idle
  <2>2. t \in Partner /\ l \in Label /\ call[c].via = k /\ Owner[t] = k
    BY <2>1, CallFields, CoreAssumption
  <2>3. adv[t] = Free
    BY <1>3, <2>2 DEF SendAdmit, LockFree
  <2>4. UNCHANGED <<slot, adv, interrupted>>
    BY <1>3 DEF SendAdmit
  <2>5. CASE queue' = queue
    BY <2>4, <2>5, OthersSit
  <2>6. CASE queue' = [queue EXCEPT ![t] = Append(@, NewRow(NextTask, c, l))]
    <3>1. CASE t = Subject
      <4>1. queue'[Subject] = Append(queue[Subject], NewRow(NextTask, c, l))
        BY <2>6, <3>1, SubjectAssumption DEF TypeOK
      <4>2. Receives
        BY <2>2, <2>3, <2>4, <3>1, <4>1, NextTaskType DEF Receives
      <4> QED BY <4>2 DEF SubjectMoves
    <3>2. CASE t # Subject
      BY <2>4, <2>6, <3>2, SubjectAssumption DEF TypeOK, Sits, SubjectMoves
    <3> QED BY <3>1, <3>2
  <2> QED BY <1>3, <2>5, <2>6 DEF SendAdmit
<1>4. CASE SendAdvance(c)
  <2>1. call[c] # Idle
    BY <1>4, ControlPoints DEF SendAdvance, Idle
  <2>2. call[c].via = k /\ t \in Partner
    BY <2>1, CallFields
  <2> QED BY <1>4, <2>2, AdvanceStartOfSubject DEF SendAdvance
<1>5. CASE SendInterrupt(c)
  <2>1. call[c] # Idle
    BY <1>5, ControlPoints DEF SendInterrupt, Idle
  <2>2. call[c].via = k /\ Owner[c] = k
    BY <2>1, CallFields, CoreAssumption
  <2>3. adv[c] = Free /\ adv' = adv /\ interrupted' = [interrupted EXCEPT ![c] = TRUE]
    BY <1>5, <2>2 DEF SendInterrupt, LockFree
  <2>4. IF slot[c] = Nothing
          THEN queue' = queue /\ slot' = slot
          ELSE /\ queue' = [queue EXCEPT ![c] = Append(@, PausedRow(slot[c]))]
               /\ slot' = [slot EXCEPT ![c] = Nothing]
    BY <1>5, <2>2 DEF SendInterrupt, Working
  <2>5. CASE c = Subject
    <3>1. interrupted'[Subject] /\ slot'[Subject] = Nothing
      BY <2>3, <2>4, <2>5 DEF TypeOK
    <3>2. queue'[Subject] = IF slot[Subject] = Nothing THEN queue[Subject]
                            ELSE Append(queue[Subject], PausedRow(slot[Subject]))
      BY <2>4, <2>5 DEF TypeOK
    <3>3. Stops
      BY <2>3, <2>5, <3>1, <3>2 DEF Stops
    <3> QED BY <3>3 DEF SubjectMoves
  <2>6. CASE c # Subject
    <3>1. UNCHANGED <<queue[Subject], slot[Subject]>>
      BY <2>4, <2>6, SubjectAssumption DEF TypeOK
    <3>2. UNCHANGED <<adv[Subject], interrupted[Subject]>>
      BY <2>3, <2>6, SubjectAssumption DEF TypeOK
    <3> QED BY <3>1, <3>2 DEF Sits, SubjectMoves
  <2> QED BY <2>5, <2>6
<1> QED BY <1>1, <1>2, <1>3, <1>4, <1>5

\* The rest of an advance.
LEMMA AdvanceOfSubject ==
  ASSUME TypeOK, Replying, NEW q \in Partner, Advances(q), [Next]_vars
  PROVE  SubjectMoves
<1>1. interrupted' = interrupted
  BY DEF Advances, AdvanceStopFails, AdvanceSwaps, AdvanceDelivers, AdvanceRequeues, database
<1>2. CASE q # Subject
  <2>1. UNCHANGED <<queue[Subject], slot[Subject], adv[Subject]>>
    BY <1>2, SubjectAssumption
    DEF Advances, AdvanceStopFails, AdvanceSwaps, AdvanceDelivers, AdvanceRequeues,
        database, TypeOK
  <2> QED BY <1>1, <2>1 DEF Sits, SubjectMoves
<1>3. CASE q = Subject /\ AdvanceStopFails(q)
  <2>1. GivesUp
    BY <1>3 DEF AdvanceStopFails, GivesUp, database, TypeOK
  <2> QED BY <2>1 DEF SubjectMoves
<1>4. CASE q = Subject /\ AdvanceSwaps(q)
  <2>1. adv[q] # Free /\ adv[q] \in Advance
    <3>1. adv[q] # Free
      BY <1>4 DEF AdvanceSwaps, Swapping, Free
    <3> QED BY <3>1, AdvanceFields
  <2>2. /\ adv'[q].pc = "delivering" /\ adv'[q].working = Nothing
        /\ adv'[q].head = adv[q].head
    BY <1>4, <2>1 DEF AdvanceSwaps, Advance, TypeOK
  <2>3. Swaps(q)
    BY <1>4, <2>2 DEF AdvanceSwaps, Swaps, EndsOf, TypeOK, history
  <2> QED BY <1>1, <1>4, <2>3 DEF KeepsMark, SubjectMoves
<1>5. CASE q = Subject /\ AdvanceDelivers(q)
  <2>1. Delivers(q)
    BY <1>5 DEF AdvanceDelivers, Delivers, EndsOf, TypeOK, database
  <2> QED BY <1>1, <1>5, <2>1 DEF KeepsMark, SubjectMoves
<1>6. CASE q = Subject /\ AdvanceRequeues(q)
  <2>1. Requeues(q)
    BY <1>6 DEF AdvanceRequeues, Requeues, EndsOf, TypeOK, history
  <2> QED BY <1>1, <1>6, <2>1 DEF KeepsMark, SubjectMoves
<1> QED BY <1>2, <1>3, <1>4, <1>5, <1>6 DEF Advances

\* The steps of a drain pass.
LEMMA DrainOfSubject ==
  ASSUME TypeOK, NoneArchived, NEW k, Process = {k}, NEW q \in Partner, Drain(q)
  PROVE  SubjectMoves
<1>1. Owner[q] = k
  BY CoreAssumption
<1>2. CASE DrainAdvance(q)
  BY <1>1, <1>2, AdvanceStartOfSubject DEF DrainAdvance
<1>3. CASE BeginSummary(q)
  <2>1. UNCHANGED <<queue, adv, interrupted>> /\ adv[q] = Free
    BY <1>1, <1>3 DEF BeginSummary, LockFree, database
  <2>2. CASE slot' = slot
    BY <2>1, <2>2, OthersSit
  <2>3. CASE /\ slot[q] # Nothing /\ slot[q].label = "RESEARCH"
             /\ slot' = [slot EXCEPT ![q] = Summary(@)]
    <3>1. CASE q = Subject
      <4>1. Summarises(Subject)
        BY <1>3, <2>1, <2>3, <3>1 DEF BeginSummary, Summarises, EndsOf, database, history, TypeOK
      <4> QED BY <2>1, <4>1 DEF KeepsMark, SubjectMoves
    <3>2. CASE q # Subject
      BY <2>1, <2>3, <3>2, SubjectAssumption DEF TypeOK, Sits, SubjectMoves
    <3> QED BY <3>1, <3>2
  <2> QED BY <1>3, <2>2, <2>3 DEF BeginSummary
<1>4. CASE ReleaseBlocked(q) \/ SummaryRefused(q) \/ Complete(q)
  <2>1. Release(q)
    BY <1>4 DEF ReleaseBlocked, SummaryRefused, Complete
  <2>2. UNCHANGED <<queue, adv, interrupted, archived, dropped, tasks>> /\ adv[q] = Free
    BY <1>1, <2>1 DEF Release, LockFree, database
  <2>3. CASE q = Subject
    <3>1. Releases(Subject)
      BY <2>1, <2>2, <2>3 DEF Release, Releases, TypeOK
    <3> QED BY <2>2, <3>1 DEF KeepsMark, SubjectMoves
  <2>4. CASE q # Subject
    BY <2>1, <2>2, <2>4, SubjectAssumption DEF Release, TypeOK, Sits, SubjectMoves
  <2> QED BY <2>3, <2>4
<1>5. CASE ReportBack(q)
  <2> DEFINE c == pass[q].work.caller
             l == pass[q].reply
  <2>1. pass[q] # Idle /\ pass[q].pc = "reporting"
    BY <1>5, ControlPoints DEF ReportBack, InPass, Idle
  <2>2. c \in Partner /\ l \in Label /\ Owner[c] = k
    BY <2>1, PassFields, CoreAssumption
  <2>3. UNCHANGED <<slot, adv, interrupted>> /\ adv[c] = Free
    BY <1>1, <1>5, <2>2 DEF ReportBack, LockFree
  <2>4. CASE queue' = queue
    BY <2>3, <2>4, OthersSit
  <2>5. CASE queue' = [queue EXCEPT ![c] = Append(@, NewRow(NextTask, q, l))]
    <3>1. CASE c = Subject
      <4>1. queue'[Subject] = Append(queue[Subject], NewRow(NextTask, q, l))
        BY <2>5, <3>1, SubjectAssumption DEF TypeOK
      <4>2. Receives
        BY <2>2, <2>3, <3>1, <4>1, NextTaskType DEF Receives
      <4> QED BY <4>2 DEF SubjectMoves
    <3>2. CASE c # Subject
      BY <2>3, <2>5, <3>2, SubjectAssumption DEF TypeOK, Sits, SubjectMoves
    <3> QED BY <3>1, <3>2
  <2> QED BY <1>5, <2>4, <2>5 DEF ReportBack
<1>6. CASE \/ Poll(q) \/ PollAnswers(q) \/ PollMeetsApproval(q) \/ CheckNoWork(q)
           \/ SummaryRequested(q)
  BY <1>6, OthersSit DEF Poll, PollAnswers, PollMeetsApproval, CheckNoWork, SummaryRequested,
     database
<1> QED BY <1>2, <1>3, <1>4, <1>5, <1>6 DEF Drain

\* Every step.
LEMMA StepOfSubject ==
  ASSUME TypeOK, Replying, NoneArchived, NEW k, Process = {k}, "archive" \notin Events,
         [Next]_vars
  PROVE  SubjectMoves /\ NoneArchived'
<1>1. NoneArchived'
  <2>1. archived' = archived
    <3>1. ASSUME Send PROVE archived' = archived
      <4>1. PICK c \in Partner :
              \/ \E q \in Partner, l \in Label :
                   \/ \E i \in Process, b \in BOOLEAN : SendResolve(c, q, l, i, b)
                   \/ NextItem(c, q, l)
              \/ SendAdmit(c) \/ SendAdvance(c) \/ SendInterrupt(c) \/ SendInterruptFails(c)
              \/ BatchEnds(c)
        BY <3>1 DEF Send
      <4>2. SendAdvance(c) => archived' = archived
        BY DEF SendAdvance, AdvanceDrops, AdvanceReturns, AdvanceNeedsRemote, AdvanceBegins,
           database
      <4> QED BY <4>1, <4>2 DEF SendResolve, NextItem, SendAdmit, SendInterrupt,
                SendInterruptFails, BatchEnds, database
    <3>2. ASSUME NEW q \in Partner, Advances(q) PROVE archived' = archived
      BY <3>2 DEF Advances, AdvanceStopFails, AdvanceSwaps, AdvanceDelivers,
         AdvanceRequeues, database
    <3>3. ASSUME NEW q \in Partner, Drain(q) PROVE archived' = archived
      BY <3>3 DEF Drain, DrainAdvance, Poll, PollAnswers, PollMeetsApproval,
         ReleaseBlocked, CheckNoWork, BeginSummary, SummaryRequested, SummaryRefused,
         Complete, ReportBack, Release, AdvanceDrops, AdvanceBegins, database
    <3>4. ASSUME NEW q \in Partner, RemoteFinishes(q) PROVE archived' = archived
      BY <3>4 DEF RemoteFinishes, database
    <3>5. ASSUME NEW q \in Partner, NEW i \in Process, Archive(q, i) \/ Restart(q, i)
          PROVE  archived' = archived
      BY <3>5 DEF Archive, Restart
    <3>6. CASE UNCHANGED vars
      BY <3>6 DEF vars
    <3> QED BY <3>1, <3>2, <3>3, <3>4, <3>5, <3>6, SubjectAssumption DEF Next
  <2> QED BY <2>1 DEF NoneArchived
<1>2. CASE Send
  BY <1>1, <1>2, SendOfSubject
<1>3. ASSUME NEW q \in Partner, Advances(q) \/ Drain(q) PROVE SubjectMoves
  BY <1>3, AdvanceOfSubject, DrainOfSubject
<1>4. ASSUME NEW q \in Partner, RemoteFinishes(q) PROVE SubjectMoves
  BY <1>4, OthersSit DEF RemoteFinishes, database
<1>5. ASSUME NEW q \in Partner, NEW i \in Process, Archive(q, i) \/ Restart(q, i)
      PROVE  SubjectMoves
  <2>1. Restart(q, i) /\ i = k /\ Owner[q] = k
    BY <1>5, CoreAssumption DEF Archive
  <2>2. /\ interrupted[q] /\ adv[q] = Free
        /\ interrupted' = [interrupted EXCEPT ![q] = FALSE]
        /\ UNCHANGED <<queue, slot, adv>>
    BY <2>1 DEF Restart, LockFree
  <2>3. CASE q = Subject
    <3>1. Restarts
      BY <2>2, <2>3 DEF Restarts, TypeOK
    <3> QED BY <3>1 DEF SubjectMoves
  <2>4. CASE q # Subject
    BY <2>2, <2>4, SubjectAssumption DEF TypeOK, Sits, SubjectMoves
  <2> QED BY <2>3, <2>4
<1>6. CASE UNCHANGED vars
  BY <1>1, <1>6, OthersSit DEF vars
<1> QED BY <1>1, <1>2, <1>3, <1>4, <1>5, <1>6 DEF Next

-----------------------------------------------------------------------------
(***************************************************************************)
(* A choice stands until the swap.                                         *)
(***************************************************************************)

\* Nobody else touches the queue while an advance holds the lock: the row it has
\* chosen is still the one to take, and the task it found is still in the slot.
Poised ==
  LET a == adv[Subject]
      q == queue[Subject]
  IN  Swapping(Subject) =>
        /\ ~interrupted[Subject]
        /\ slot[Subject] = a.working
        /\ a.restarts => a.working = Nothing
        /\ \E i \in DOMAIN q :
             /\ q[i] = a.head
             /\ IF a.restarts THEN IsFreshResponse(q, i) ELSE IsHead(q, i)
             /\ a.working # Nothing => Outranks(q[i].label, a.working.label)

\* Only a choice makes an advance that has chosen.
LEMMA PoisedStep ==
  ASSUME TypeOK, Still(Subject), Poised, SubjectMoves
  PROVE  Poised'
<1>1. Subject \in Partner
  BY SubjectAssumption
<1>2. CASE Sits
  BY <1>2 DEF Sits, Poised, Swapping
<1>3. CASE Receives \/ Stops \/ Restarts \/ GivesUp
  <2>1. adv'[Subject] = Free
    BY <1>3 DEF Receives, Stops, Restarts, GivesUp
  <2> QED BY <2>1 DEF Poised, Swapping, Free
<1>4. CASE KeepsMark
  <2>1. adv'[Subject] = Free \/ adv'[Subject].pc = "delivering"
    BY <1>4 DEF KeepsMark, Swaps, Delivers, Requeues, Releases, Summarises
  <2> QED BY <2>1 DEF Poised, Swapping, Free
<1>5. CASE Chooses
  <2> DEFINE own == Owner[Subject]
             q == queue[Subject]
  <2>1. Working(own, Subject) = slot[Subject]
    BY DEF Working
  <2>2. PICK i \in DOMAIN q :
          /\ Promotable(own, Subject, i)
          /\ adv'[Subject].head = q[i]
          /\ adv'[Subject].working = slot[Subject]
          /\ adv'[Subject].restarts = Waiting(own, Subject)
    BY <1>5 DEF Chooses
  <2>3. queue'[Subject] = q /\ slot'[Subject] = slot[Subject]
    BY <1>5 DEF Chooses
  <2>4. Waiting(own, Subject) => slot[Subject] = Nothing
    BY <2>1 DEF Waiting
  <2>5. ~interrupted'[Subject]
    BY <1>5, <2>1 DEF Chooses, Still, Waiting
  <2>6. /\ IF Waiting(own, Subject) THEN IsFreshResponse(q, i) ELSE IsHead(q, i)
        /\ slot[Subject] # Nothing => Outranks(q[i].label, slot[Subject].label)
    BY <2>1, <2>2 DEF Promotable
  <2> QED BY <2>2, <2>3, <2>4, <2>5, <2>6 DEF Poised
<1> QED BY <1>2, <1>3, <1>4, <1>5 DEF SubjectMoves

-----------------------------------------------------------------------------
(***************************************************************************)
(* The queue as the abstract one has it.                                   *)
(***************************************************************************)

LabelledOf(q) == [i \in DOMAIN q |-> Labelled(q[i])]

\* It has the rows' columns.
LEMMA LabelledType ==
  ASSUME NEW q \in Seq(Row)
  PROVE  /\ LabelledOf(q) \in Seq(Agent!Row)
         /\ Len(LabelledOf(q)) = Len(q)
         /\ DOMAIN LabelledOf(q) = DOMAIN q
<1>1. Len(q) \in Nat /\ DOMAIN q = 1 .. Len(q)
  BY LenProperties
<1>2. \A i \in DOMAIN q : Labelled(q[i]) \in Agent!Row
  <2>1. \A i \in DOMAIN q : q[i] \in Row
    BY ElementType
  <2> QED BY <2>1 DEF Row, Labelled, Agent!Row, Agent!Label, Label
<1> QED BY <1>1, <1>2 DEF LabelledOf

\* A row at the end is a row at the end.
LEMMA LabelledAppend ==
  ASSUME NEW q \in Seq(Row), NEW r \in Row
  PROVE  LabelledOf(Append(q, r)) = Append(LabelledOf(q), Labelled(r))
<1> DEFINE lq == LabelledOf(q)
           la == LabelledOf(Append(q, r))
           al == Append(lq, Labelled(r))
<1>1. /\ Len(q) \in Nat /\ DOMAIN q = 1 .. Len(q)
      /\ Append(q, r) \in Seq(Row)
      /\ Len(Append(q, r)) = Len(q) + 1
      /\ DOMAIN Append(q, r) = 1 .. Len(q) + 1
      /\ \A i \in 1 .. Len(q) : Append(q, r)[i] = q[i]
      /\ Append(q, r)[Len(q) + 1] = r
  BY LenProperties, AppendProperties
<1>2. /\ lq \in Seq(Agent!Row) /\ Len(lq) = Len(q)
      /\ la \in Seq(Agent!Row) /\ Len(la) = Len(q) + 1
  BY <1>1, LabelledType
<1>3. /\ \A i \in 1 .. Len(q) : lq[i] = Labelled(q[i])
      /\ \A i \in 1 .. Len(q) + 1 : la[i] = Labelled(Append(q, r)[i])
  BY <1>1 DEF LabelledOf
<1>4. Labelled(r) \in Agent!Row
  BY DEF Row, Labelled, Agent!Row, Agent!Label, Label
<1> HIDE DEF lq, la
<1>5. /\ al \in Seq(Agent!Row) /\ Len(al) = Len(q) + 1
      /\ \A i \in 1 .. Len(q) : al[i] = lq[i]
      /\ al[Len(q) + 1] = Labelled(r)
  BY <1>2, <1>4, LenProperties, AppendProperties
<1> HIDE DEF al
<1>6. ASSUME NEW i \in 1 .. Len(la)
      PROVE  la[i] = al[i]
  <2>1. CASE i \in 1 .. Len(q)
    BY <1>1, <1>3, <1>5, <2>1
  <2>2. CASE i = Len(q) + 1
    BY <1>1, <1>3, <1>5, <2>2
  <2> QED BY <1>1, <1>2, <2>1, <2>2
<1>7. la = al
  BY <1>2, <1>5, <1>6, SeqEqual
<1> QED BY <1>7 DEF la, al, lq

\* So is a row taken out.
LEMMA LabelledRemove ==
  ASSUME NEW q \in Seq(Row), NEW k \in DOMAIN q
  PROVE  LabelledOf(RemoveAt(q, k)) = RemoveAt(LabelledOf(q), k)
<1> DEFINE lq == LabelledOf(q)
           lr == LabelledOf(RemoveAt(q, k))
           rl == RemoveAt(lq, k)
<1>1. Len(q) \in Nat /\ DOMAIN q = 1 .. Len(q) /\ k \in 1 .. Len(q)
  BY LenProperties
<1>2. /\ RemoveAt(q, k) \in Seq(Row)
      /\ Len(RemoveAt(q, k)) = Len(q) - 1
      /\ DOMAIN RemoveAt(q, k) = 1 .. Len(q) - 1
      /\ \A j \in 1 .. Len(q) - 1 : RemoveAt(q, k)[j] = IF j < k THEN q[j] ELSE q[j + 1]
  BY RemoveAtRows
<1>4. /\ lq \in Seq(Agent!Row) /\ Len(lq) = Len(q) /\ DOMAIN lq = 1 .. Len(q)
      /\ lr \in Seq(Agent!Row) /\ Len(lr) = Len(q) - 1
  BY <1>1, <1>2, LabelledType
<1>5. /\ \A j \in 1 .. Len(q) : lq[j] = Labelled(q[j])
      /\ \A j \in 1 .. Len(q) - 1 : lr[j] = Labelled(RemoveAt(q, k)[j])
  BY <1>1, <1>2 DEF LabelledOf
<1> HIDE DEF lq, lr
<1>6. /\ rl \in Seq(Agent!Row)
      /\ Len(rl) = Len(q) - 1
      /\ \A j \in 1 .. Len(q) - 1 : rl[j] = IF j < k THEN lq[j] ELSE lq[j + 1]
  <2>1. lq \in Seq(Agent!Row) /\ k \in DOMAIN lq /\ Len(lq) = Len(q)
    BY <1>1, <1>4
  <2>2. /\ RemoveAt(lq, k) \in Seq(Agent!Row)
        /\ Len(RemoveAt(lq, k)) = Len(lq) - 1
        /\ \A j \in 1 .. Len(lq) - 1 : RemoveAt(lq, k)[j] = IF j < k THEN lq[j] ELSE lq[j + 1]
    BY <2>1, RemoveAtRows
  <2> QED BY <2>1, <2>2
<1> HIDE DEF rl
<1>7. ASSUME NEW j \in 1 .. Len(lr)
      PROVE  lr[j] = rl[j]
  <2>1. j \in 1 .. Len(q) - 1 /\ j \in 1 .. Len(q) /\ j + 1 \in 1 .. Len(q)
    BY <1>1, <1>4
  <2> QED BY <1>2, <1>5, <1>6, <2>1
<1>8. lr = rl
  BY <1>4, <1>6, <1>7, SeqEqual
<1> QED BY <1>8 DEF lr, rl, lq

\* Which row is next does not depend on whose it is: the order looks at labels
\* and pause marks only.
LEMMA LabelledHead ==
  ASSUME NEW q \in Seq(Row), NEW i \in DOMAIN q
  PROVE  IsHead(q, i) => Agent!IsHead(LabelledOf(q), i)
<1> DEFINE lq == LabelledOf(q)
<1>1. /\ DOMAIN lq = DOMAIN q
      /\ \A j \in DOMAIN q : lq[j].label = q[j].label /\ lq[j].paused = q[j].paused
  BY DEF LabelledOf, Labelled
<1> HIDE DEF lq
<1>2. LabelsIn(q) = Agent!LabelsIn(lq)
  BY <1>1 DEF LabelsIn, Agent!LabelsIn
<1>3. FreshRows(q) = Agent!FreshRows(lq) /\ \A l : RowsOf(q, l) = Agent!RowsOf(lq, l)
  BY <1>1 DEF RowsOf, Agent!RowsOf, FreshRows, Agent!FreshRows
<1>4. \A S, T : EarlierThan(S, T) <=> Agent!EarlierThan(S, T)
  BY DEF EarlierThan, Agent!EarlierThan
<1>5. ASSUME NEW l, NEW m
      PROVE  LabelBefore(q, l, m) <=> Agent!LabelBefore(lq, l, m)
  <2> DEFINE fresh(k) == RowsOf(q, k) \cap FreshRows(q)
             lfresh(k) == Agent!RowsOf(lq, k) \cap Agent!FreshRows(lq)
  <2>1. fresh(l) = lfresh(l) /\ fresh(m) = lfresh(m)
    BY <1>3
  <2>2. /\ EarlierThan(fresh(l), fresh(m)) <=> Agent!EarlierThan(lfresh(l), lfresh(m))
        /\ EarlierThan(RowsOf(q, l), RowsOf(q, m))
             <=> Agent!EarlierThan(Agent!RowsOf(lq, l), Agent!RowsOf(lq, m))
    <3> HIDE DEF fresh, lfresh
    <3> QED BY <1>3, <1>4, <2>1
  <2> QED BY <2>1, <2>2 DEF LabelBefore, Agent!LabelBefore
<1>6. \A l : IsHeadLabel(q, l) <=> Agent!IsHeadLabel(lq, l)
  BY <1>2, <1>5 DEF IsHeadLabel, Agent!IsHeadLabel
<1>7. \A j, k \in DOMAIN q : RowBefore(q, j, k) <=> Agent!RowBefore(lq, j, k)
  BY <1>1 DEF RowBefore, Agent!RowBefore
<1>8. \A l : RowsOf(q, l) \subseteq DOMAIN q
  BY DEF RowsOf
<1> QED BY <1>1, <1>3, <1>6, <1>7, <1>8 DEF IsHead, Agent!IsHead, lq

\* The same of the answer an interrupted agent takes.
LEMMA LabelledResponse ==
  ASSUME NEW q \in Seq(Row), NEW i \in DOMAIN q
  PROVE  IsFreshResponse(q, i) <=> Agent!IsFreshResponse(LabelledOf(q), i)
<1> DEFINE lq == LabelledOf(q)
<1>1. /\ DOMAIN lq = DOMAIN q
      /\ \A j \in DOMAIN q : lq[j].label = q[j].label /\ lq[j].paused = q[j].paused
  BY DEF LabelledOf, Labelled
<1> HIDE DEF lq
<1>2. RepliesNothing = Agent!RepliesNothing
  BY DEF RepliesNothing, Agent!RepliesNothing, ReplyBehavior, Agent!ReplyBehavior,
         Label, Agent!Label, NoLabel, Agent!NoLabel
<1>3. FreshResponses(q) = Agent!FreshResponses(lq)
  BY <1>1, <1>2 DEF FreshResponses, Agent!FreshResponses, FreshRows, Agent!FreshRows
<1>4. FreshResponses(q) \subseteq DOMAIN q
  BY DEF FreshResponses, FreshRows
<1>5. \A j, k \in DOMAIN q :
        q[j].label = q[k].label <=> Priority[q[j].label] = Priority[q[k].label]
  <2>1. \A j \in DOMAIN q : q[j] \in Row
    BY ElementType
  <2> QED BY <2>1 DEF Row, Label, Priority
<1> QED BY <1>1, <1>3, <1>4, <1>5 DEF IsFreshResponse, Agent!IsFreshResponse, Outranks,
           Agent!Outranks, lq

-----------------------------------------------------------------------------
(***************************************************************************)
(* The refinement, one lemma per motion.                                   *)
(***************************************************************************)

AgentVars == <<LabelledRows, SlotLabel, StillInterrupted>>

\* What the slot of an agent nobody is delivering to is given over to.
LEMMA LabelInSlot ==
  ASSUME TypeOK, ~Delivering(Subject)
  PROVE  /\ slot[Subject] = Nothing => SlotLabel = Agent!NoLabel
         /\ slot[Subject] # Nothing =>
              /\ SlotLabel = slot[Subject].label
              /\ SlotLabel # Agent!NoLabel
              /\ slot[Subject] \in Row
<1>1. slot[Subject] \in Row \cup {Nothing}
  BY SubjectAssumption DEF TypeOK
<1> QED BY <1>1 DEF SlotLabel, Row, Label, NoLabel, Agent!NoLabel

\* The label of a row, as the abstract queue knows labels.
LEMMA AgentLabels ==
  /\ Agent!Label = Label /\ Agent!NoLabel = NoLabel /\ NoLabel \notin Label
  /\ \A w \in Row : Labelled(PausedRow(w)) = Agent!Paused(w.label)
BY DEF Agent!Label, Label, Agent!NoLabel, NoLabel, PausedRow, Labelled, Agent!Paused, Row

\* What does not reach the subject, and what its advance does before and after
\* its swap, is nothing to the abstract queue.
LEMMA StutterRefines ==
  ASSUME TypeOK, Apart(Subject), Still(Subject),
         Sits \/ Chooses \/ (GivesUp /\ Poised) \/ (KeepsMark /\ Delivers(Subject))
  PROVE  UNCHANGED AgentVars
<1>1. CASE Sits
  BY <1>1 DEF Sits, AgentVars, LabelledRows, SlotLabel, StillInterrupted, Delivering, Swapping
<1>2. CASE Chooses
  <2>1. adv[Subject].pc = "free" /\ adv'[Subject].pc = "swapping"
    BY <1>2 DEF Chooses, Free
  <2>2. UNCHANGED <<LabelledRows, SlotLabel>>
    BY <1>2, <2>1 DEF Chooses, LabelledRows, SlotLabel, Delivering
  <2>3. Waiting(Owner[Subject], Subject) => interrupted[Subject]
    BY DEF Waiting
  <2>4. StillInterrupted' = StillInterrupted
    BY <1>2, <2>1, <2>3 DEF Chooses, StillInterrupted, Swapping
  <2> QED BY <2>2, <2>4 DEF AgentVars
<1>3. CASE GivesUp /\ Poised
  <2>1. adv[Subject].pc = "swapping" /\ adv'[Subject].pc = "free"
    BY <1>3 DEF GivesUp, Swapping, Free
  <2>2. UNCHANGED <<LabelledRows, SlotLabel>>
    BY <1>3, <2>1 DEF GivesUp, LabelledRows, SlotLabel, Delivering
  <2>3. ~adv[Subject].restarts
    BY <1>3 DEF GivesUp, Poised
  <2>4. StillInterrupted' = StillInterrupted
    BY <1>3, <2>1, <2>3 DEF GivesUp, StillInterrupted, Swapping
  <2> QED BY <2>2, <2>4 DEF AgentVars
<1>4. CASE KeepsMark /\ Delivers(Subject)
  <2>1. adv[Subject].pc = "delivering" /\ adv'[Subject].pc = "free"
    BY <1>4 DEF Delivers, Delivering, Free
  <2>2. adv[Subject].head \in Row
    <3>1. adv[Subject] # Free
      BY <2>1 DEF Free
    <3> QED BY <3>1, AdvanceFields, SubjectAssumption
  <2>3. slot'[Subject] = adv[Subject].head /\ slot'[Subject] # Nothing
    BY <1>4, <2>2, RowTypes DEF Delivers
  <2>4. UNCHANGED <<LabelledRows, SlotLabel>>
    BY <1>4, <2>1, <2>3 DEF Delivers, LabelledRows, SlotLabel, Delivering
  <2>5. StillInterrupted' = StillInterrupted
    BY <1>4, <2>1 DEF KeepsMark, StillInterrupted, Swapping
  <2> QED BY <2>4, <2>5 DEF AgentVars
<1> QED BY <1>1, <1>2, <1>3, <1>4

\* An arrival is a Push.
LEMMA ReceivesRefines ==
  ASSUME TypeOK, Receives
  PROVE  Agent!Next
<1>1. PICK t \in TaskId, c \in Partner, l \in Label :
        queue'[Subject] = Append(queue[Subject], NewRow(t, c, l))
  BY DEF Receives
<1>2. queue[Subject] \in Seq(Row) /\ NewRow(t, c, l) \in Row
  BY SubjectAssumption, RowTypes DEF TypeOK
<1>3. LabelledRows' = Append(LabelledRows, Agent!Fresh(l))
  <2>1. Labelled(NewRow(t, c, l)) = Agent!Fresh(l)
    BY DEF Labelled, NewRow, Agent!Fresh
  <2>2. LabelledRows = LabelledOf(queue[Subject]) /\ LabelledRows' = LabelledOf(queue'[Subject])
    BY DEF LabelledRows, LabelledOf
  <2> QED BY <1>1, <1>2, <2>1, <2>2, LabelledAppend
<1>4. SlotLabel' = SlotLabel /\ StillInterrupted' = StillInterrupted
  BY DEF Receives, SlotLabel, StillInterrupted, Delivering, Swapping
<1>5. Len(LabelledRows) + 1 \in Nat
  BY <1>2, LabelledType, LenProperties DEF LabelledRows, LabelledOf
<1>6. Agent!Push(l) /\ l \in Agent!Label
  BY <1>3, <1>4, <1>5, AgentLabels DEF Agent!Push
<1> QED BY <1>6 DEF Agent!Next

\* An interruption is an Interrupt, and a correction a Restart.
LEMMA StopsRefines ==
  ASSUME TypeOK, Stops \/ Restarts
  PROVE  Agent!Next
<1>1. adv[Subject].pc = "free" /\ adv'[Subject].pc = "free"
  BY DEF Stops, Restarts, Free
<1>2. ~Delivering(Subject) /\ ~Swapping(Subject)
  BY <1>1 DEF Delivering, Swapping
<1>3. CASE Stops
  <2>1. SlotLabel' = Agent!NoLabel
    BY <1>1, <1>3 DEF Stops, SlotLabel, Delivering, NoLabel, Agent!NoLabel
  <2>2. StillInterrupted' = TRUE
    BY <1>1, <1>3, SubjectAssumption DEF Stops, StillInterrupted, Swapping, TypeOK
  <2>3. LabelledRows' = IF SlotLabel = Agent!NoLabel THEN LabelledRows
                        ELSE Agent!PutBack(LabelledRows, SlotLabel)
    <3>1. CASE slot[Subject] = Nothing
      BY <1>2, <1>3, <3>1, LabelInSlot DEF Stops, LabelledRows
    <3>2. CASE slot[Subject] # Nothing
      <4>1. /\ slot[Subject] \in Row /\ SlotLabel # Agent!NoLabel
            /\ SlotLabel = slot[Subject].label
        BY <1>2, <3>2, LabelInSlot
      <4>2. PausedRow(slot[Subject]) \in Row /\ queue[Subject] \in Seq(Row)
        BY <4>1, RowTypes, SubjectAssumption DEF TypeOK
      <4>3. LabelledOf(queue'[Subject])
              = Append(LabelledOf(queue[Subject]), Labelled(PausedRow(slot[Subject])))
        BY <1>3, <3>2, <4>2, LabelledAppend DEF Stops
      <4> QED BY <4>1, <4>3, AgentLabels DEF LabelledRows, LabelledOf, Agent!PutBack
    <3> QED BY <3>1, <3>2
  <2>4. Agent!Interrupt
    BY <2>1, <2>2, <2>3 DEF Agent!Interrupt
  <2> QED BY <2>4 DEF Agent!Next
<1>4. CASE Restarts
  <2>1. UNCHANGED <<LabelledRows, SlotLabel>>
    BY <1>1, <1>4 DEF Restarts, LabelledRows, SlotLabel, Delivering
  <2>2. StillInterrupted /\ StillInterrupted' = FALSE
    BY <1>1, <1>4 DEF Restarts, StillInterrupted, Swapping
  <2>3. Agent!Restart
    BY <2>1, <2>2 DEF Agent!Restart
  <2> QED BY <2>3 DEF Agent!Next
<1> QED BY <1>3, <1>4

\* A delivery that fails, a turn that ends and the request for a report.
LEMMA EndsRefine ==
  ASSUME TypeOK, Apart(Subject), KeepsMark,
         Requeues(Subject) \/ Releases(Subject) \/ Summarises(Subject)
  PROVE  Agent!Next \/ UNCHANGED AgentVars
<1>1. CASE Requeues(Subject)
  <2>1. adv[Subject].pc = "delivering" /\ adv'[Subject].pc = "free"
    BY <1>1 DEF Requeues, Delivering, Free
  <2>2. adv[Subject].head \in Row
    <3>1. adv[Subject] # Free
      BY <2>1 DEF Free
    <3> QED BY <3>1, AdvanceFields, SubjectAssumption
  <2>3. SlotLabel = adv[Subject].head.label /\ SlotLabel # Agent!NoLabel
    BY <2>1, <2>2, AgentLabels DEF SlotLabel, Delivering, Row
  <2>4. slot'[Subject] = Nothing
    BY <1>1, <2>1 DEF Requeues, Apart, Delivering
  <2>5. SlotLabel' = Agent!NoLabel
    BY <2>1, <2>4, AgentLabels DEF SlotLabel, Delivering
  <2>6. LabelledRows' = Agent!PutBack(LabelledRows, SlotLabel)
    <3>1. PausedRow(adv[Subject].head) \in Row /\ queue[Subject] \in Seq(Row)
      BY <2>2, RowTypes, SubjectAssumption DEF TypeOK
    <3>2. LabelledOf(queue'[Subject])
            = Append(LabelledOf(queue[Subject]), Labelled(PausedRow(adv[Subject].head)))
      BY <1>1, <3>1, LabelledAppend DEF Requeues
    <3> QED BY <2>2, <2>3, <3>2, AgentLabels DEF LabelledRows, LabelledOf, Agent!PutBack
  <2>7. StillInterrupted' = StillInterrupted
    BY <2>1 DEF KeepsMark, StillInterrupted, Swapping
  <2>8. Agent!DeliveryFails
    BY <2>3, <2>5, <2>6, <2>7 DEF Agent!DeliveryFails
  <2> QED BY <2>8 DEF Agent!Next
<1>2. CASE Releases(Subject)
  <2>1. adv[Subject].pc = "free" /\ adv'[Subject].pc = "free"
    BY <1>2 DEF Releases, Free
  <2>2. ~Delivering(Subject)
    BY <2>1 DEF Delivering
  <2>3. SlotLabel' = Agent!NoLabel
    BY <1>2, <2>1, AgentLabels DEF Releases, SlotLabel, Delivering
  <2>4. UNCHANGED <<LabelledRows, StillInterrupted>>
    BY <1>2, <2>1 DEF Releases, KeepsMark, LabelledRows, StillInterrupted, Swapping
  <2>5. CASE slot[Subject] = Nothing
    BY <2>2, <2>3, <2>4, <2>5, LabelInSlot DEF AgentVars
  <2>6. CASE slot[Subject] # Nothing
    <3>1. SlotLabel # Agent!NoLabel
      BY <2>2, <2>6, LabelInSlot
    <3>2. Agent!Finish
      BY <2>3, <2>4, <3>1 DEF Agent!Finish
    <3> QED BY <3>2 DEF Agent!Next
  <2> QED BY <2>5, <2>6
<1>3. CASE Summarises(Subject)
  <2>1. adv[Subject].pc = "free" /\ adv'[Subject].pc = "free"
    BY <1>3 DEF Summarises, Free
  <2>2. SlotLabel = "RESEARCH" /\ slot[Subject] \in Row
    BY <1>3, <2>1, LabelInSlot DEF Summarises, Delivering
  <2>3. slot'[Subject] = Summary(slot[Subject]) /\ Summary(slot[Subject]) \in Row
    BY <1>3, <2>2, RowTypes DEF Summarises
  <2>4. slot'[Subject].label = "TRUTHFUL_REPORT"
    BY <2>2, <2>3 DEF Summary, Row
  <2>5. SlotLabel' = "TRUTHFUL_REPORT"
    BY <2>1, <2>3, <2>4, RowTypes DEF SlotLabel, Delivering
  <2>6. UNCHANGED <<LabelledRows, StillInterrupted>>
    BY <1>3, <2>1 DEF Summarises, KeepsMark, LabelledRows, StillInterrupted, Swapping
  <2>7. Agent!BeginSummary
    BY <2>2, <2>5, <2>6 DEF Agent!BeginSummary
  <2> QED BY <2>7 DEF Agent!Next
<1> QED BY <1>1, <1>2, <1>3

\* The deletion by id takes the row that was chosen.
LEMMA WithoutIsRemove ==
  ASSUME NEW q \in Seq(Row), Distinct(q), NEW i \in DOMAIN q
  PROVE  Without(q, q[i].task) = RemoveAt(q, i)
<1> DEFINE j == CHOOSE j \in DOMAIN q : q[j].task = q[i].task
<1>1. j \in DOMAIN q /\ q[j].task = q[i].task
  OBVIOUS
<1> HIDE DEF j
<1>2. j = i
  BY <1>1 DEF Distinct
<1> QED BY <1>2 DEF Without, j

\* A swap is an Advance: of the row that the choice found, which is still the one
\* to take, with the task it found in the slot put back.
LEMMA SwapRefines ==
  ASSUME TypeOK, Apart(Subject), Still(Subject), Poised, KeepsMark, Swaps(Subject)
  PROVE  Agent!Next
<1> DEFINE a == adv[Subject]
           q == queue[Subject]
<1>1. Swapping(Subject) /\ ~Delivering(Subject) /\ a # Free
  BY DEF Swaps, Swapping, Delivering, Free
<1>2. PICK i \in DOMAIN q :
        /\ q[i] = a.head
        /\ IF a.restarts THEN IsFreshResponse(q, i) ELSE IsHead(q, i)
        /\ a.working # Nothing => Outranks(q[i].label, a.working.label)
  BY <1>1 DEF Poised
<1>3. ~interrupted[Subject] /\ slot[Subject] = a.working /\ (a.restarts => a.working = Nothing)
  BY <1>1 DEF Poised
<1>4. /\ a.head \in Row /\ a.working \in Row \cup {Nothing}
      /\ q \in Seq(Row) /\ Distinct(q)
  BY <1>1, AdvanceFields, SubjectAssumption DEF TypeOK, Apart
<1>5. /\ LabelledRows = LabelledOf(q) /\ DOMAIN LabelledRows = DOMAIN q
      /\ LabelledRows[i].label = q[i].label
  BY DEF LabelledRows, LabelledOf, Labelled
<1>6. a.restarts \in BOOLEAN
  <2>1. a \in Advance
    BY <1>1, AdvanceFields, SubjectAssumption
  <2> QED BY <2>1 DEF Advance
<1>7. StillInterrupted = a.restarts
  BY <1>1, <1>3, <1>6, SubjectAssumption DEF StillInterrupted, TypeOK
<1>8. /\ a.working = Nothing => SlotLabel = Agent!NoLabel
      /\ a.working # Nothing => SlotLabel = a.working.label /\ SlotLabel # Agent!NoLabel
  BY <1>1, <1>3, LabelInSlot
<1>9. Agent!Promotable(i)
  <2>1. IF a.restarts THEN Agent!IsFreshResponse(LabelledRows, i)
                      ELSE Agent!IsHead(LabelledRows, i)
    BY <1>2, <1>4, <1>5, LabelledHead, LabelledResponse
  <2>2. a.restarts => SlotLabel = Agent!NoLabel
    BY <1>3, <1>8
  <2>3. Agent!Candidate(i)
    BY <1>7, <2>1, <2>2 DEF Agent!Candidate
  <2>4. SlotLabel # Agent!NoLabel => Agent!Outranks(LabelledRows[i].label, SlotLabel)
    BY <1>2, <1>5, <1>8 DEF Outranks, Agent!Outranks
  <2> QED BY <1>5, <2>3, <2>4 DEF Agent!Promotable
<1>10. adv'[Subject].pc = "delivering" /\ adv'[Subject].head = a.head
  BY DEF Swaps
<1>11. SlotLabel' = LabelledRows[i].label
  BY <1>2, <1>5, <1>10 DEF SlotLabel, Delivering
<1>12. StillInterrupted' = (StillInterrupted /\ SlotLabel # Agent!NoLabel)
  <2>1. ~StillInterrupted'
    BY <1>3, <1>10 DEF KeepsMark, StillInterrupted, Swapping
  <2>2. ~(StillInterrupted /\ SlotLabel # Agent!NoLabel)
    BY <1>3, <1>7, <1>8
  <2>3. StillInterrupted' \in BOOLEAN
    BY DEF StillInterrupted
  <2> QED BY <2>1, <2>2, <2>3
<1>13. LabelledRows' = LET rest == RemoveAt(LabelledRows, i)
                       IN  IF SlotLabel = Agent!NoLabel THEN rest
                           ELSE Agent!PutBack(rest, SlotLabel)
  <2> DEFINE rest == RemoveAt(q, i)
  <2>1. Without(q, a.head.task) = rest
    BY <1>2, <1>4, WithoutIsRemove
  <2>2. rest \in Seq(Row) /\ LabelledOf(rest) = RemoveAt(LabelledRows, i)
    BY <1>4, <1>5, RemoveAtType, LabelledRemove
  <2>3. queue'[Subject] = IF a.working = Nothing THEN rest
                          ELSE Append(rest, PausedRow(a.working))
    BY <2>1 DEF Swaps
  <2>4. LabelledRows' = LabelledOf(queue'[Subject])
    BY DEF LabelledRows, LabelledOf
  <2> HIDE DEF rest
  <2>5. CASE a.working = Nothing
    BY <1>8, <2>2, <2>3, <2>4, <2>5
  <2>6. CASE a.working # Nothing
    <3>1. a.working \in Row /\ PausedRow(a.working) \in Row
      BY <1>4, <2>6, RowTypes
    <3>2. LabelledOf(queue'[Subject]) = Append(LabelledOf(rest), Labelled(PausedRow(a.working)))
      BY <2>2, <2>3, <2>6, <3>1, LabelledAppend
    <3>3. Labelled(PausedRow(a.working)) = Agent!Paused(SlotLabel)
      BY <1>8, <2>6, <3>1, AgentLabels
    <3> QED BY <1>8, <2>2, <2>4, <2>6, <3>2, <3>3 DEF Agent!PutBack
  <2> QED BY <2>5, <2>6
<1>14. Agent!Advance(i)
  <2>1. Agent!RemoveAt(LabelledRows, i) = RemoveAt(LabelledRows, i)
    BY DEF RemoveAt, Agent!RemoveAt
  <2> QED BY <1>9, <1>11, <1>12, <1>13, <2>1 DEF Agent!Advance
<1> QED BY <1>5, <1>14 DEF Agent!Next

\* Every motion is a step of the abstract queue, or none.
LEMMA MovesRefine ==
  ASSUME TypeOK, Apart(Subject), Still(Subject), Poised, SubjectMoves
  PROVE  Agent!Next \/ UNCHANGED AgentVars
<1>1. CASE Sits \/ Chooses \/ GivesUp \/ (KeepsMark /\ Delivers(Subject))
  BY <1>1, StutterRefines
<1>2. CASE Receives
  BY <1>2, ReceivesRefines
<1>3. CASE Stops \/ Restarts
  BY <1>3, StopsRefines
<1>4. CASE KeepsMark /\ Swaps(Subject)
  BY <1>4, SwapRefines
<1>5. CASE KeepsMark /\ (Requeues(Subject) \/ Releases(Subject) \/ Summarises(Subject))
  BY <1>5, EndsRefine
<1> QED BY <1>1, <1>2, <1>3, <1>4, <1>5 DEF SubjectMoves, KeepsMark

\* In one process the split operations of an agent, interleaved with those of all
\* others and with refusals, failed deliveries, approvals and restarts, are the
\* atomic operations of its queue.
THEOREM CoreImplementsQueue ==
  ASSUME NEW k, Process = {k}, "archive" \notin Events
  PROVE  Spec => SubjectIsAQueue
<1>1. Init => NoneArchived /\ (\A q \in Partner : Still(q)) /\ Poised /\ Agent!Init
  <2> SUFFICES ASSUME Init
               PROVE  NoneArchived /\ (\A q \in Partner : Still(q)) /\ Poised /\ Agent!Init
    OBVIOUS
  <2>1. NoneArchived /\ \A q \in Partner : Still(q)
    BY DEF Init, NoneArchived, Still
  <2>2. /\ queue[Subject] = <<>> /\ slot[Subject] = Nothing /\ interrupted[Subject] = FALSE
        /\ adv[Subject].pc = "free"
    BY SubjectAssumption DEF Init, Free
  <2>3. Poised
    BY <2>2 DEF Poised, Swapping
  <2>4. LabelledRows = <<>>
    BY <2>2 DEF LabelledRows
  <2>5. SlotLabel = Agent!NoLabel /\ StillInterrupted = FALSE
    BY <2>2, AgentLabels DEF SlotLabel, StillInterrupted, Delivering, Swapping
  <2> QED BY <2>1, <2>3, <2>4, <2>5 DEF Agent!Init
<1>2. CoreInv => TypeOK /\ Replying /\ Apart(Subject)
  BY SubjectAssumption DEF CoreInv, Located
<1>3. TypeOK /\ (\A q \in Partner : Still(q)) /\ [Next]_vars
        => (\A q \in Partner : Still(q))'
  BY StillStep
<1>4. /\ CoreInv /\ NoneArchived /\ (\A q \in Partner : Still(q)) /\ Poised /\ [Next]_vars
      => NoneArchived' /\ Poised' /\ [Agent!Next]_(Agent!vars)
  <2> SUFFICES ASSUME CoreInv, NoneArchived, \A q \in Partner : Still(q), Poised, [Next]_vars
               PROVE  NoneArchived' /\ Poised' /\ [Agent!Next]_(Agent!vars)
    OBVIOUS
  <2>1. TypeOK /\ Replying /\ Apart(Subject) /\ Still(Subject)
    BY <1>2, SubjectAssumption
  <2>2. SubjectMoves /\ NoneArchived'
    BY <2>1, StepOfSubject
  <2>3. Poised'
    BY <2>1, <2>2, PoisedStep
  <2>4. Agent!Next \/ UNCHANGED AgentVars
    BY <2>1, <2>2, MovesRefine
  <2> QED BY <2>2, <2>3, <2>4 DEF AgentVars, Agent!vars
<1> QED BY <1>1, <1>2, <1>3, <1>4, CoreInvariant, PTL DEF Spec, SubjectIsAQueue, Agent!Spec

-----------------------------------------------------------------------------
(***************************************************************************)
(* What is so of AgentQueue is so of the agents of the running system.     *)
(***************************************************************************)

\* The theorems about AgentQueue, as they read for the subject's queue.
Facts ==
  INSTANCE AgentQueue_proofs
    WITH Rank <- Priority, Interruptible <- TRUE, Lengths <- Nat,
         queue <- LabelledRows,
         slot <- SlotLabel,
         interrupted <- StillInterrupted

\* The ranks of the label table are ranks.
LEMMA PriorityRanks == Priority \in [Facts!Label -> Nat]
BY DEF Priority, Facts!Label

\* The order of the rows is written once, and instantiated twice.
LEMMA SameOrder ==
  /\ \A q, i : Agent!IsHead(q, i) <=> Facts!IsHead(q, i)
  /\ \A q, i : Agent!IsFreshResponse(q, i) <=> Facts!IsFreshResponse(q, i)
  /\ \A l, m : Agent!Outranks(l, m) <=> Facts!Outranks(l, m)
  /\ \A i : Agent!Promotable(i) <=> Facts!Promotable(i)
BY DEF Agent!IsHead, Facts!IsHead, Agent!IsHeadLabel, Facts!IsHeadLabel, Agent!LabelBefore,
       Facts!LabelBefore, Agent!RowBefore, Facts!RowBefore, Agent!EarlierThan, Facts!EarlierThan,
       Agent!RowsOf, Facts!RowsOf, Agent!FreshRows, Facts!FreshRows, Agent!LabelsIn, Facts!LabelsIn,
       Agent!IsFreshResponse, Facts!IsFreshResponse, Agent!FreshResponses, Facts!FreshResponses,
       Agent!RepliesNothing, Facts!RepliesNothing, Agent!ReplyBehavior, Facts!ReplyBehavior,
       Agent!Label, Facts!Label, Agent!NoLabel, Facts!NoLabel, Agent!Outranks, Facts!Outranks,
       Agent!Candidate, Facts!Candidate, Agent!Promotable, Facts!Promotable

\* So are the operations.
LEMMA SameOperations ==
  /\ Agent!Init => Facts!Init
  /\ [Agent!Next]_(Agent!vars) => [Facts!Next]_(Facts!vars)
<1>1. Agent!Init => Facts!Init
  BY DEF Agent!Init, Facts!Init, Agent!NoLabel, Facts!NoLabel
<1>2. \A i : Agent!Advance(i) => Facts!Advance(i)
  BY SameOrder DEF Agent!Advance, Facts!Advance, Agent!RemoveAt, Facts!RemoveAt, Agent!PutBack,
     Facts!PutBack, Agent!Paused, Facts!Paused, Agent!NoLabel, Facts!NoLabel
<1>3. Agent!Next => Facts!Next
  BY <1>2
  DEF Agent!Next, Facts!Next, Agent!Push, Facts!Push, Agent!DeliveryFails, Facts!DeliveryFails,
      Agent!Finish, Facts!Finish, Agent!BeginSummary, Facts!BeginSummary, Agent!Interrupt,
      Facts!Interrupt, Agent!Restart, Facts!Restart, Agent!PutBack, Facts!PutBack, Agent!Fresh,
      Facts!Fresh, Agent!Paused, Facts!Paused, Agent!NoLabel, Facts!NoLabel, Agent!Label, Facts!Label
<1> QED BY <1>1, <1>3 DEF Agent!vars, Facts!vars

\* Of each label that is work the subject has at most one row that was started.
OneToResume ==
  \A l \in Label \ RepliesNothing : \A i, j \in DOMAIN queue[Subject] :
    /\ queue[Subject][i].label = l /\ queue[Subject][i].paused
    /\ queue[Subject][j].label = l /\ queue[Subject][j].paused
    => i = j

\* "Resume your previous [RESEARCH]" means one task also where sends, passes,
\* interruptions and failed deliveries cross: the abstract queue's theorem, carried
\* over by the refinement.
THEOREM ResumeNamesOne ==
  ASSUME NEW k, Process = {k}, "archive" \notin Events
  PROVE  Spec => []OneToResume
<1>1. Facts!Spec => []Facts!OnePausedWorkRow
  BY PriorityRanks, Facts!OnePausedWork, PTL
<1>2. Facts!OnePausedWorkRow => OneToResume
  BY DEF Facts!OnePausedWorkRow, Facts!AtMostOnePaused, Facts!PausedRows, Facts!Label, Label,
     Facts!RepliesNothing, RepliesNothing, Facts!ReplyBehavior, ReplyBehavior, Facts!NoLabel, NoLabel,
     OneToResume, LabelledRows, Labelled
<1> QED BY <1>1, <1>2, SameOperations, CoreImplementsQueue, PTL DEF SubjectIsAQueue, Agent!Spec, Facts!Spec

\* An answer in the queue of the subject, while it waits and nobody advances it, can
\* be taken in the process that serves it.
AnswerCanBeTaken ==
  interrupted[Subject] /\ slot[Subject] = Nothing /\ FreshResponses(queue[Subject]) # {}
    => \E i \in DOMAIN queue[Subject] : Promotable(Owner[Subject], Subject, i)

\* An interrupted agent whose answer has arrived can be restarted by it, in any
\* number of processes and whatever is archived.
THEOREM ArrivedAnswersAreTaken == Spec => []AnswerCanBeTaken
<1>1. TypeOK => AnswerCanBeTaken
  <2> SUFFICES ASSUME TypeOK, interrupted[Subject], slot[Subject] = Nothing,
                      FreshResponses(queue[Subject]) # {}
               PROVE  \E i \in DOMAIN queue[Subject] : Promotable(Owner[Subject], Subject, i)
    BY DEF AnswerCanBeTaken
  <2> DEFINE q == queue[Subject]
             lq == LabelledOf(q)
  <2>1. q \in Seq(Row)
    BY SubjectAssumption DEF TypeOK
  <2>2. lq \in Seq(Facts!Row) /\ DOMAIN lq = DOMAIN q
    BY <2>1, LabelledType DEF Agent!Row, Facts!Row, Agent!Label, Facts!Label
  <2>3. Facts!FreshResponses(lq) # {}
    <3>1. PICK i \in FreshResponses(q) : TRUE
      OBVIOUS
    <3>2. i \in DOMAIN q /\ lq[i].label = q[i].label /\ lq[i].paused = q[i].paused
      BY <3>1 DEF FreshResponses, FreshRows, LabelledOf, Labelled
    <3>3. i \in Facts!FreshResponses(lq)
      BY <2>2, <3>1, <3>2
      DEF FreshResponses, FreshRows, Facts!FreshResponses, Facts!FreshRows, RepliesNothing,
          Facts!RepliesNothing, ReplyBehavior, Facts!ReplyBehavior, Label, Facts!Label, NoLabel,
          Facts!NoLabel
    <3> QED BY <3>3
  <2> HIDE DEF lq
  <2>4. PICK i \in DOMAIN lq : Facts!IsFreshResponse(lq, i)
    BY <2>2, <2>3, PriorityRanks, Facts!SomeFreshResponse
  <2>5. IsFreshResponse(q, i)
    BY <2>1, <2>2, <2>4, SameOrder, LabelledResponse DEF lq
  <2> QED BY <2>2, <2>4, <2>5 DEF Promotable, Working, Waiting
<1> QED BY <1>1, CoreTypeCorrect, PTL
=============================================================================
