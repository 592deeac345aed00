---------------------------- MODULE NoWork_proofs ----------------------------
(***************************************************************************)
(* Theorems about NoWork, for any agents, handshakes and circles of them,  *)
(* any messages, and whatever is sent, answered and reported while the     *)
(* walk goes on.                                                           *)
(***************************************************************************)
EXTENDS NoWork, SequenceTheorems, TLAPS

\* What a call has read, and found to be nothing.
ReadBefore(at) ==
  CASE at = "queued" -> {}
    [] at = "sent" -> {"queued"}
    [] at = "interrupted" -> {"queued", "sent"}
    [] OTHER -> Reasons

\* What a call knows of its agent: not that it has no work left, as work may come
\* back behind a read, but that none has lasted since the walk began.  It stays so,
\* as handshakes, summaries and the set _seen only get more.
Knows(f) ==
  /\ f.agent \in seen
  /\ f.todo \subseteq dependents[f.agent]
  /\ lasting[f.agent] \cap ReadBefore(f.at) = {}
  /\ f.at = "loop" => before.dependents[f.agent] \ (summarized \cup f.todo) \subseteq seen

OnStack == {stack[i].agent : i \in DOMAIN stack}

\* An agent the walk is through with.
Through(a) == lasting[a] = {} /\ before.dependents[a] \ summarized \subseteq seen

\* An agent in _seen is under a call that has not returned, or is one the walk is
\* through with.
Sound ==
  /\ \A i \in DOMAIN stack : Knows(stack[i])
  /\ \A a \in seen \ OnStack : Through(a)
  /\ stack # <<>> => verdict = "none"

\* The root is asked first, and whoever else is asked is under it by handshakes
\* that lead past nobody who had a report when the walk began.
UnderRoot ==
  /\ stack # <<>> \/ verdict = "yes" => Root \in seen
  /\ stack # <<>> =>
       /\ Agent \ summarized \subseteq before.open
       /\ \A S \in SUBSET Agent :
            Root \in S /\ Settled(S, {}, [a \in Agent |-> dependents[a] \cap before.open])
              => seen \subseteq S

\* The history is about what there is: no handshake is taken back, and what has
\* lasted is there.
History ==
  \A a \in Agent : before.dependents[a] \subseteq dependents[a] /\ lasting[a] \subseteq Unfinished(a)

WalkInv == TypeOK /\ AskedOnce /\ Sound /\ UnderRoot /\ History

-----------------------------------------------------------------------------
(***************************************************************************)
(* What the walk does to its stack.                                        *)
(***************************************************************************)

\* The innermost call becomes f, the others stay where they are.
LEMMA TopReplaced ==
  ASSUME NEW S, NEW s \in Seq(S), s # <<>>, NEW f \in S
  PROVE  /\ <<f>> \o Tail(s) \in Seq(S)
         /\ DOMAIN (<<f>> \o Tail(s)) = DOMAIN s
         /\ (<<f>> \o Tail(s))[1] = f
         /\ \A j \in DOMAIN s : j # 1 => (<<f>> \o Tail(s))[j] = s[j]
<1> DEFINE t == Tail(s)
           h == <<f>>
           u == h \o t
<1>1. t \in Seq(S) /\ Len(t) = Len(s) - 1 /\ \A j \in 1 .. Len(t) : t[j] = s[j + 1]
  BY HeadTailProperties
<1>2. h \in Seq(S) /\ Len(h) = 1 /\ h[1] = f
  OBVIOUS
<1>3. Len(s) \in Nat \ {0} /\ DOMAIN s = 1 .. Len(s)
  BY EmptySeq, LenProperties
<1> HIDE DEF t, h
<1>4. /\ u \in Seq(S)
      /\ Len(u) = Len(h) + Len(t)
      /\ \A j \in 1 .. Len(h) + Len(t) : u[j] = IF j <= Len(h) THEN h[j] ELSE t[j - Len(h)]
  <2>1. /\ h \o t \in Seq(S)
        /\ Len(h \o t) = Len(h) + Len(t)
        /\ \A j \in 1 .. Len(h) + Len(t) :
             (h \o t)[j] = IF j <= Len(h) THEN h[j] ELSE t[j - Len(h)]
    <3>1. h \in Seq(S) /\ t \in Seq(S)
      BY <1>1, <1>2
    <3> HIDE DEF u
    <3> QED BY <3>1, ConcatProperties
  <2> QED BY <2>1 DEF u
<1> HIDE DEF u
<1>5. Len(u) = Len(s) /\ DOMAIN u = DOMAIN s
  BY <1>1, <1>2, <1>3, <1>4, LenProperties
<1>6. u[1] = f
  BY <1>1, <1>2, <1>3, <1>4
<1>7. ASSUME NEW j \in DOMAIN s, j # 1 PROVE u[j] = s[j]
  <2>1. j \in 1 .. 1 + Len(t) /\ ~(j <= 1) /\ j - 1 \in 1 .. Len(t) /\ (j - 1) + 1 = j
    BY <1>1, <1>3, <1>7
  <2>2. u[j] = t[j - 1]
    BY <1>2, <1>4, <2>1
  <2>3. t[j - 1] = s[(j - 1) + 1]
    BY <1>1, <2>1
  <2> QED BY <2>1, <2>2, <2>3
<1> QED BY <1>4, <1>5, <1>6, <1>7 DEF u, t, h

\* A call made below the top: the top becomes f and g is innermost.
LEMMA TopPushed ==
  ASSUME NEW S, NEW s \in Seq(S), s # <<>>, NEW f \in S, NEW g \in S
  PROVE  /\ <<g, f>> \o Tail(s) \in Seq(S)
         /\ DOMAIN (<<g, f>> \o Tail(s)) = 1 .. Len(s) + 1
         /\ (<<g, f>> \o Tail(s))[1] = g
         /\ (<<g, f>> \o Tail(s))[2] = f
         /\ \A j \in 3 .. Len(s) + 1 : (<<g, f>> \o Tail(s))[j] = s[j - 1]
<1> DEFINE t == Tail(s)
           h == <<g, f>>
           u == h \o t
<1>1. t \in Seq(S) /\ Len(t) = Len(s) - 1 /\ \A j \in 1 .. Len(t) : t[j] = s[j + 1]
  BY HeadTailProperties
<1>2. h \in Seq(S) /\ Len(h) = 2 /\ h[1] = g /\ h[2] = f
  OBVIOUS
<1>3. Len(s) \in Nat \ {0}
  BY EmptySeq, LenProperties
<1> HIDE DEF t, h
<1>4. /\ u \in Seq(S)
      /\ Len(u) = Len(h) + Len(t)
      /\ \A j \in 1 .. Len(h) + Len(t) : u[j] = IF j <= Len(h) THEN h[j] ELSE t[j - Len(h)]
  <2>1. /\ h \o t \in Seq(S)
        /\ Len(h \o t) = Len(h) + Len(t)
        /\ \A j \in 1 .. Len(h) + Len(t) :
             (h \o t)[j] = IF j <= Len(h) THEN h[j] ELSE t[j - Len(h)]
    <3>1. h \in Seq(S) /\ t \in Seq(S)
      BY <1>1, <1>2
    <3> HIDE DEF u
    <3> QED BY <3>1, ConcatProperties
  <2> QED BY <2>1 DEF u
<1> HIDE DEF u
<1>5. DOMAIN u = 1 .. Len(s) + 1
  BY <1>1, <1>2, <1>3, <1>4, LenProperties
<1>6. u[1] = g /\ u[2] = f
  BY <1>1, <1>2, <1>3, <1>4
<1>7. ASSUME NEW j \in 3 .. Len(s) + 1 PROVE u[j] = s[j - 1]
  <2>1. /\ j \in 1 .. 2 + Len(t) /\ ~(j <= 2)
        /\ j - 2 \in 1 .. Len(t) /\ (j - 2) + 1 = j - 1
    BY <1>1, <1>3
  <2>2. u[j] = t[j - 2]
    BY <1>2, <1>4, <2>1
  <2>3. t[j - 2] = s[(j - 2) + 1]
    BY <1>1, <2>1
  <2> QED BY <2>1, <2>2, <2>3
<1> QED BY <1>4, <1>5, <1>6, <1>7 DEF u, t, h

\* The innermost call is a frame of the stack.
LEMMA TopIsFirst ==
  ASSUME TypeOK, stack # <<>>
  PROVE  /\ Top \in Frame /\ Top = stack[1]
         /\ 1 \in DOMAIN stack /\ DOMAIN stack = 1 .. Len(stack) /\ Len(stack) \in Nat \ {0}
         /\ \A i \in DOMAIN stack : stack[i] \in Frame
<1>1. stack \in Seq(Frame)
  BY DEF TypeOK
<1>2. Len(stack) \in Nat \ {0} /\ DOMAIN stack = 1 .. Len(stack)
  BY <1>1, EmptySeq, LenProperties
<1>3. Head(stack) = stack[1] /\ Head(stack) \in Frame
  BY <1>1, HeadTailProperties
<1>4. \A i \in DOMAIN stack : stack[i] \in Frame
  BY <1>1, <1>2, ElementOfSeq
<1> QED BY <1>2, <1>3, <1>4 DEF Top

\* A frame has its three fields.
LEMMA FrameFields ==
  ASSUME NEW f \in Frame
  PROVE  /\ f.agent \in Agent /\ f.at \in Reasons \cup {"loop"} /\ f.todo \in SUBSET Agent
         /\ \A d : /\ LoopPast(f, d) \in Frame
                  /\ LoopPast(f, d).agent = f.agent
                  /\ LoopPast(f, d).at = f.at
                  /\ LoopPast(f, d).todo = f.todo \ {d}
BY DEF Frame, LoopPast

-----------------------------------------------------------------------------
(***************************************************************************)
(* Type correctness.                                                       *)
(***************************************************************************)

\* What Pass leaves on top.
Passed(f) == [f EXCEPT !.at = After(f.at),
                       !.todo = IF After(f.at) = "loop" THEN dependents[f.agent] ELSE {}]

LEMMA PassedIsFrame ==
  ASSUME TypeOK, NEW f \in Frame, f.at \in Reasons
  PROVE  /\ Passed(f) \in Frame
         /\ Passed(f).agent = f.agent
         /\ Passed(f).at = After(f.at)
         /\ Passed(f).todo = IF After(f.at) = "loop" THEN dependents[f.agent] ELSE {}
<1>1. /\ f.agent \in Agent /\ f.todo \in SUBSET Agent
      /\ dependents[f.agent] \in SUBSET Agent
      /\ After(f.at) \in Reasons \cup {"loop"}
  BY DEF TypeOK, Frame, After, Reasons
<1> QED BY <1>1 DEF Frame, Passed

-----------------------------------------------------------------------------
\* What the agents do leaves their tables and slots what they are.
TablesOK ==
  /\ dependents \in [Agent -> SUBSET Agent]
  /\ rows \subseteq Row
  /\ slot \in [Agent -> Task \cup {Nothing}]
  /\ {interrupted, calling, summarized} \subseteq SUBSET Agent
  /\ calls \in 0 .. MaxCalls

LEMMA PutBackIsRows ==
  ASSUME TypeOK, NEW a \in Agent
  PROVE  PutBack(a) \subseteq Row
<1>1. CASE slot[a] = Nothing
  BY <1>1 DEF PutBack
<1>2. CASE slot[a] # Nothing
  <2>1. slot[a] \in Task
    BY <1>2 DEF TypeOK
  <2> HIDE DEF Task
  <2>2. [task |-> slot[a], to |-> a, paused |-> TRUE] \in Row
    BY <2>1 DEF Row
  <2> QED BY <1>2, <2>2 DEF PutBack
<1> QED BY <1>1, <1>2

\* An admitted row is one, and only a partner reports.
LEMMA AdmitTypes ==
  ASSUME TypeOK, NEW t \in Task, t.from \in Agent, NEW a \in Agent \cup {Director},
         Admit(t, a, rows)
  PROVE  rows' \subseteq Row /\ summarized' \subseteq Agent
<1>1. Fresh(t, a) \in Row
  BY DEF Fresh, Row
<1> QED BY <1>1 DEF Admit, TypeOK

LEMMA SendTypes ==
  ASSUME TypeOK, NEW a \in Agent, NEW b \in Agent, NEW l \in Sendable, Send(a, b, l)
  PROVE  TablesOK'
<1>1. calls' \in 0 .. MaxCalls
  BY NoWorkAssumption DEF Send, TypeOK
<1>2. PICK t : t = [id |-> calls', label |-> l, from |-> a]
  OBVIOUS
<1>3. t \in Task /\ t.from \in Agent
  BY <1>1, <1>2, NoWorkAssumption DEF Task
<1>4. Admit(t, b, rows)
  BY <1>2 DEF Send
<1>5. rows' \subseteq Row /\ summarized' \subseteq Agent
  BY <1>3, <1>4, AdmitTypes
<1>6. /\ dependents' \in [Agent -> SUBSET Agent]
      /\ slot' \in [Agent -> Task \cup {Nothing}]
      /\ interrupted' \subseteq Agent /\ calling' \subseteq Agent
  BY DEF Send, TypeOK
<1> QED BY <1>1, <1>5, <1>6 DEF TablesOK

LEMMA InterruptTypes ==
  ASSUME TypeOK, NEW a \in Agent, Interrupt(a)
  PROVE  TablesOK'
<1>1. rows' \subseteq Row
  BY PutBackIsRows DEF Interrupt, TypeOK
<1>2. slot' \in [Agent -> Task \cup {Nothing}]
  BY DEF Interrupt, TypeOK
<1>3. /\ dependents' \in [Agent -> SUBSET Agent]
      /\ {interrupted', calling', summarized'} \subseteq SUBSET Agent
      /\ calls' \in 0 .. MaxCalls
  BY DEF Interrupt, TypeOK
<1> QED BY <1>1, <1>2, <1>3 DEF TablesOK

LEMMA TakeTypes ==
  ASSUME TypeOK, NEW row \in rows, Take(row)
  PROVE  TablesOK'
<1>1. row.to \in Agent
  BY DEF Take
<1>2. row.task \in Task
  <2>1. row \in Row
    BY DEF TypeOK
  <2> QED BY <2>1 DEF Row
<1>3. rows' \subseteq Row
  BY <1>1, PutBackIsRows DEF Take, TypeOK
<1>4. slot' \in [Agent -> Task \cup {Nothing}]
  BY <1>1, <1>2 DEF Take, TypeOK
<1>5. /\ dependents' \in [Agent -> SUBSET Agent]
      /\ {interrupted', calling', summarized'} \subseteq SUBSET Agent
      /\ calls' \in 0 .. MaxCalls
  BY DEF Take, TypeOK
<1> QED BY <1>3, <1>4, <1>5 DEF TablesOK

LEMMA CompleteTypes ==
  ASSUME TypeOK, NEW a \in Agent, Complete(a)
  PROVE  TablesOK'
<1>1. slot[a] \in Task
  BY DEF Complete, TypeOK
<1>2. PICK task \in Task : task = slot[a]
  BY <1>1
<1>3. task.id \in 0 .. MaxCalls /\ task.label \in Label /\ task.from \in Agent \cup {Director}
  BY DEF Task
<1>4. rows' \subseteq Row /\ summarized' \subseteq Agent
  <2>1. CASE ReplyBehavior[task.label] = NoLabel
    BY <1>2, <2>1 DEF Complete, TypeOK
  <2>2. CASE ReplyBehavior[task.label] # NoLabel
    <3>1. ReplyBehavior[task.label] \in Label
      BY <1>3, <2>2 DEF ReplyBehavior, Label, NoLabel
    <3>2. PICK t : t = [id |-> task.id, label |-> ReplyBehavior[task.label], from |-> a]
      OBVIOUS
    <3>3. t \in Task /\ t.from \in Agent
      BY <1>3, <3>1, <3>2 DEF Task
    <3>4. Admit(t, task.from, rows)
      BY <1>2, <2>2, <3>2 DEF Complete
    <3> QED BY <1>3, <3>3, <3>4, AdmitTypes
  <2> QED BY <2>1, <2>2
<1>5. /\ slot' \in [Agent -> Task \cup {Nothing}]
      /\ dependents' \in [Agent -> SUBSET Agent]
      /\ interrupted' \subseteq Agent /\ calling' \subseteq Agent
      /\ calls' \in 0 .. MaxCalls
  BY DEF Complete, TypeOK
<1> QED BY <1>4, <1>5 DEF TablesOK

LEMMA HandshakeTypes ==
  ASSUME TypeOK, NEW a \in Agent, NEW b \in Agent, Handshake(a, b)
  PROVE  TablesOK'
BY NoWorkAssumption DEF Handshake, TypeOK, TablesOK

\* What the agents do makes no handshake undone and takes no report back.
LEMMA WorkTypes ==
  ASSUME TypeOK, Work
  PROVE  /\ TypeOK'
         /\ summarized \subseteq summarized'
         /\ \A a \in Agent : dependents[a] \subseteq dependents'[a]
<1>1. TablesOK'
  <2>1. ASSUME NEW a \in Agent, SendRaises(a) \/ Restart(a) PROVE TablesOK'
    BY <2>1 DEF SendRaises, Restart, TypeOK, TablesOK
  <2> QED BY <2>1, SendTypes, InterruptTypes, TakeTypes, CompleteTypes, HandshakeTypes DEF Work
<1>2. lasting' \in [Agent -> SUBSET Reasons]
  BY DEF Work, TypeOK
<1>3. TypeOK'
  BY <1>1, <1>2 DEF Work, TypeOK, TablesOK, walk
<1>4. summarized \subseteq summarized'
  BY DEF Work, Interrupt, SendRaises, Complete, Restart, Handshake, Send, Take, Admit
<1>5. \A a \in Agent : dependents[a] \subseteq dependents'[a]
  <2>1. ASSUME NEW a \in Agent, NEW b \in Agent, Handshake(a, b)
        PROVE  \A d \in Agent : dependents[d] \subseteq dependents'[d]
    BY <2>1 DEF Handshake, TypeOK
  <2>2. CASE UNCHANGED dependents
    BY <2>2
  <2> QED BY <2>1, <2>2 DEF Work, Interrupt, SendRaises, Complete, Restart, Send, Take
<1> QED BY <1>3, <1>4, <1>5

\* Every reachable state is a stack of calls over the agents, over tables and
\* slots that hold tasks.
THEOREM NoWorkTypeCorrect == Spec => []TypeOK
<1>1. Init => TypeOK
  <2> SUFFICES ASSUME Init PROVE TypeOK
    OBVIOUS
  <2>1. [id |-> 0, label |-> "RESEARCH", from |-> Director] \in Task
    BY NoWorkAssumption DEF Task, Label
  <2>2. slot \in [Agent -> Task \cup {Nothing}]
    BY <2>1 DEF Init
  <2>3. dependents \in [Agent -> SUBSET Agent]
    BY NoWorkAssumption DEF Init
  <2>4. lasting \in [Agent -> SUBSET Reasons] /\ NeverAsked \in [Agent -> SUBSET Agent]
    BY DEF Init, NeverAsked
  <2>5. before \in [dependents : [Agent -> SUBSET Agent], open : SUBSET Agent]
    BY <2>4 DEF Init
  <2>6. stack \in Seq(Frame) /\ calls \in 0 .. MaxCalls
    BY NoWorkAssumption DEF Init
  <2> QED BY <2>2, <2>3, <2>4, <2>5, <2>6 DEF Init, TypeOK
<1>2. TypeOK /\ [Next]_vars => TypeOK'
  <2> SUFFICES ASSUME TypeOK, [Next]_vars PROVE TypeOK'
    OBVIOUS
  <2>1. CASE Walk
    <3>0. TablesOK'
      BY <2>1 DEF Walk, world, TypeOK, TablesOK
    <3>1. Top \in Frame /\ stack \in Seq(Frame) /\ stack # <<>>
      BY <2>1, TopIsFirst DEF Walk, TypeOK
    <3>2. CASE Fail
      <4>1. lasting' \in [Agent -> SUBSET Reasons] /\ NeverAsked \in [Agent -> SUBSET Agent]
        BY <3>2 DEF Fail, NeverAsked
      <4>2. before' \in [dependents : [Agent -> SUBSET Agent], open : SUBSET Agent]
        BY <3>2, <4>1 DEF Fail
      <4>3. stack' \in Seq(Frame)
        BY <3>2 DEF Fail
      <4> QED BY <3>0, <3>2, <4>1, <4>2, <4>3 DEF Fail, TypeOK, TablesOK
    <3>3. CASE Pass
      <4>1. stack' = <<Passed(Top)>> \o Tail(stack)
        BY <3>3 DEF Pass, Now, Passed
      <4>2. Passed(Top) \in Frame
        BY <3>1, <3>3, PassedIsFrame DEF Pass
      <4>3. stack' \in Seq(Frame)
        BY <3>1, <4>1, <4>2, TopReplaced
      <4> QED BY <3>0, <3>3, <4>3 DEF Pass, history, TypeOK, TablesOK
    <3>4. CASE Return
      <4>1. stack' \in Seq(Frame)
        BY <3>1, <3>4, HeadTailProperties DEF Return
      <4> QED BY <3>0, <3>4, <4>1 DEF Return, history, TypeOK, TablesOK
    <3>5. ASSUME NEW d \in Agent, Skip(d) PROVE TypeOK'
      <4>1. stack' = <<LoopPast(Top, d)>> \o Tail(stack)
        BY <3>5 DEF Skip, Now
      <4>2. LoopPast(Top, d) \in Frame
        BY <3>1, FrameFields
      <4>3. stack' \in Seq(Frame)
        BY <3>1, <4>1, <4>2, TopReplaced
      <4> QED BY <3>0, <3>5, <4>3 DEF Skip, history, TypeOK, TablesOK
    <3>6. ASSUME NEW d \in Agent, Recurse(d) PROVE TypeOK'
      <4>1. stack' = <<Called(d), LoopPast(Top, d)>> \o Tail(stack)
        BY <3>6 DEF Recurse
      <4>2. LoopPast(Top, d) \in Frame
        BY <3>1, FrameFields
      <4>3. Called(d) \in Frame
        BY DEF Called, Frame, Reasons
      <4>4. stack' \in Seq(Frame)
        BY <3>1, <4>1, <4>2, <4>3, TopPushed
      <4>5. seen' \subseteq Agent
        BY <3>6 DEF Recurse, TypeOK
      <4> QED BY <3>0, <3>6, <4>4, <4>5 DEF Recurse, history, TypeOK, TablesOK
    <3> QED BY <2>1, <3>2, <3>3, <3>4, <3>5, <3>6 DEF Walk
  <2>2. CASE Ask
    <3>1. TablesOK'
      BY <2>2 DEF Ask, world, TypeOK, TablesOK
    <3>2. Called(Root) \in Frame
      BY NoWorkAssumption DEF Called, Frame, Reasons
    <3>3. stack' \in Seq(Frame) /\ seen' \subseteq Agent
      BY <2>2, <3>2, NoWorkAssumption DEF Ask
    <3>4. lasting' \in [Agent -> SUBSET Reasons]
      BY <2>2 DEF Ask, Unfinished
    <3>5. before' \in [dependents : [Agent -> SUBSET Agent], open : SUBSET Agent]
      BY <2>2 DEF Ask, TypeOK
    <3> QED BY <2>2, <3>1, <3>3, <3>4, <3>5 DEF Ask, TypeOK, TablesOK
  <2>3. CASE Work
    BY <2>3, WorkTypes
  <2>4. CASE UNCHANGED vars
    BY <2>4 DEF TypeOK, vars
  <2> QED BY <2>1, <2>2, <2>3, <2>4 DEF Next
<1> QED BY <1>1, <1>2, PTL DEF Spec

-----------------------------------------------------------------------------
(***************************************************************************)
(* What a call knows stays so while its walk lasts.                        *)
(***************************************************************************)

\* More handshakes, more reported, more visited, and less that has lasted.
Settles ==
  /\ seen \subseteq seen'
  /\ summarized \subseteq summarized'
  /\ before' = before
  /\ \A a \in Agent : dependents[a] \subseteq dependents'[a] /\ lasting'[a] \subseteq lasting[a]

\* Every step of a walk that does not fail is of that kind, and every step of the
\* agents.
LEMMA StepSettles ==
  ASSUME TypeOK, (Walk /\ ~Fail) \/ Work \/ UNCHANGED vars
  PROVE  Settles
<1>1. CASE Walk /\ ~Fail
  BY <1>1 DEF Walk, Pass, Return, Skip, Recurse, world, history, Settles
<1>2. CASE Work
  <2>1. \A a \in Agent : lasting'[a] \subseteq lasting[a]
    BY <1>2 DEF Work
  <2> QED BY <1>2, <2>1, WorkTypes DEF Work, walk, Settles
<1>3. CASE UNCHANGED vars
  BY <1>3 DEF vars, Settles
<1> QED BY <1>1, <1>2, <1>3

\* Frame i, which becomes frame j.
LEMMA KnowsStays ==
  ASSUME NEW i, NEW j, stack'[j] = stack[i], stack[i].agent \in Agent,
         Knows(stack[i]), Settles
  PROVE  Knows(stack[j])'
BY DEF Knows, Settles

LEMMA ThroughStays ==
  ASSUME NEW a \in Agent, Through(a), Settles
  PROVE  Through(a)'
BY DEF Through, Settles

\* What has lasted is still there, and a handshake made is kept.
LEMMA HistoryStays ==
  ASSUME TypeOK, History, [Next]_vars
  PROVE  History'
<1>1. CASE Walk /\ Fail
  BY <1>1 DEF Walk, Fail, History, NeverAsked
<1>2. CASE Walk /\ ~Fail
  <2>1. UNCHANGED <<world, history>>
    BY <1>2 DEF Walk, Pass, Return, Skip, Recurse
  <2> QED BY <2>1 DEF History, Unfinished, world, history
<1>3. CASE Ask
  BY <1>3 DEF Ask, History, Unfinished, world
<1>4. CASE Work
  <2>1. \A a \in Agent : lasting'[a] \subseteq Unfinished(a)'
    BY <1>4 DEF Work
  <2>2. before' = before
    BY <1>4 DEF Work
  <2> QED BY <1>4, <2>1, <2>2, WorkTypes DEF History
<1>5. CASE UNCHANGED vars
  BY <1>5 DEF vars, History, Unfinished
<1> QED BY <1>1, <1>2, <1>3, <1>4, <1>5 DEF Next

-----------------------------------------------------------------------------
(***************************************************************************)
(* The steps keep the invariant.                                           *)
(***************************************************************************)

\* Before the first walk nobody has been asked.
LEMMA NotYetAsked == Init /\ TypeOK => WalkInv
<1> SUFFICES ASSUME Init, TypeOK PROVE WalkInv
  OBVIOUS
<1>1. DOMAIN stack = {} /\ stack = <<>> /\ seen = {} /\ verdict = "none"
  BY DEF Init
<1>2. History
  BY DEF Init, History, NeverAsked
<1> QED BY <1>1, <1>2 DEF WalkInv, AskedOnce, Sound, UnderRoot

\* When a walk begins nobody is through with anything.
LEMMA AskSound ==
  ASSUME WalkInv, TypeOK', Ask
  PROVE  AskedOnce' /\ Sound' /\ UnderRoot'
<1>1. /\ stack' = <<Called(Root)>> /\ DOMAIN stack' = {1} /\ stack'[1] = Called(Root)
      /\ stack' # <<>> /\ seen' = {Root} /\ verdict' = "none"
  BY DEF Ask
<1>2. AskedOnce'
  BY <1>1 DEF AskedOnce
<1>3. OnStack' = {Root}
  BY <1>1 DEF OnStack, Called
<1>4. Knows(Called(Root))'
  BY <1>1 DEF Called, Knows, ReadBefore
<1>5. Sound'
  BY <1>1, <1>3, <1>4 DEF Sound, Knows
<1>6. UnderRoot'
  BY <1>1 DEF Ask, UnderRoot, world
<1> QED BY <1>2, <1>5, <1>6

\* A step that replaces the innermost call by one of the same agent.
LEMMA SameAgents ==
  ASSUME WalkInv, TypeOK', Settles, stack # <<>>,
         NEW f \in Frame, stack' = <<f>> \o Tail(stack),
         f.agent = Top.agent, Knows(f)', seen' = seen, verdict' = verdict
  PROVE  AskedOnce' /\ Sound'
<1> USE DEF WalkInv
<1>1. /\ stack \in Seq(Frame)
      /\ DOMAIN stack' = DOMAIN stack
      /\ stack'[1] = f
      /\ \A j \in DOMAIN stack : j # 1 => stack'[j] = stack[j]
  BY TopReplaced DEF TypeOK
<1>2. /\ Top = stack[1] /\ 1 \in DOMAIN stack
      /\ \A i \in DOMAIN stack : stack[i] \in Frame
  BY TopIsFirst
<1>3. \A j \in DOMAIN stack : stack'[j].agent = stack[j].agent
  BY <1>1, <1>2
<1>4. AskedOnce'
  BY <1>1, <1>3 DEF AskedOnce
<1>5. OnStack' = OnStack
  BY <1>1, <1>3 DEF OnStack
<1>6. ASSUME NEW j \in DOMAIN stack' PROVE Knows(stack[j])'
  <2>1. CASE j = 1
    BY <1>1, <2>1 DEF Knows
  <2>2. CASE j # 1
    BY <1>1, <1>2, <2>2, KnowsStays, FrameFields DEF Sound
  <2> QED BY <2>1, <2>2
<1>7. \A a \in seen' \ OnStack' : Through(a)'
  BY <1>5, ThroughStays DEF Sound, TypeOK
<1>8. stack' # <<>> => verdict' = "none"
  BY <1>1, <1>2 DEF Sound
<1> QED BY <1>4, <1>6, <1>7, <1>8 DEF Sound

\* The innermost call has read one thing more.
LEMMA PassSound ==
  ASSUME WalkInv, TypeOK', Settles, stack # <<>>, Pass
  PROVE  AskedOnce' /\ Sound'
<1>1. /\ Top \in Frame /\ Top = stack[1] /\ Top.at \in Reasons /\ Knows(Top)
      /\ Top.at \notin lasting[Top.agent]
  BY TopIsFirst, FrameFields DEF WalkInv, Pass, Sound, History
<1>2. PICK f \in Frame : f = Passed(Top)
  BY <1>1, PassedIsFrame DEF WalkInv
<1>3. /\ f.agent = Top.agent /\ f.at = After(Top.at)
      /\ f.todo = IF After(Top.at) = "loop" THEN dependents[Top.agent] ELSE {}
      /\ stack' = <<f>> \o Tail(stack)
  BY <1>1, <1>2, PassedIsFrame DEF WalkInv, Pass, Now, Passed
<1>4. ReadBefore(After(Top.at)) = ReadBefore(Top.at) \cup {Top.at}
  BY <1>1 DEF ReadBefore, After, Reasons
<1>5. Knows(f)'
  <2>1. f.agent \in seen' /\ f.todo \subseteq dependents'[f.agent]
    BY <1>1, <1>3, FrameFields DEF Knows, Settles
  <2>2. lasting'[f.agent] \cap ReadBefore(f.at) = {}
    BY <1>1, <1>3, <1>4, FrameFields DEF Knows, Settles
  <2>3. f.at = "loop" => before'.dependents[f.agent] \ (summarized' \cup f.todo) \subseteq seen'
    BY <1>1, <1>3, FrameFields DEF WalkInv, History, Settles
  <2> QED BY <2>1, <2>2, <2>3 DEF Knows, ReadBefore
<1>6. seen' = seen /\ verdict' = verdict
  BY DEF Pass
<1> QED BY <1>3, <1>5, <1>6, SameAgents

\* It has looked at one dependent more, which is not its business.
LEMMA SkipSound ==
  ASSUME WalkInv, TypeOK', Settles, stack # <<>>, NEW d \in Agent, Skip(d)
  PROVE  AskedOnce' /\ Sound'
<1>1. /\ Top \in Frame /\ Top = stack[1] /\ Top.at = "loop" /\ Knows(Top)
      /\ d \in summarized \cup seen
  BY TopIsFirst DEF WalkInv, Skip, Skipped, Sound
<1>2. PICK f \in Frame : f = LoopPast(Top, d)
  BY <1>1, FrameFields
<1>3. /\ f.agent = Top.agent /\ f.at = Top.at /\ f.todo = Top.todo \ {d}
      /\ stack' = <<f>> \o Tail(stack)
  BY <1>1, <1>2, FrameFields DEF Skip, Now
<1>4. Knows(f)'
  BY <1>1, <1>3, FrameFields DEF Knows, Settles, ReadBefore
<1>5. seen' = seen /\ verdict' = verdict
  BY DEF Skip
<1> QED BY <1>3, <1>4, <1>5, SameAgents

\* It calls no_work for one it has not seen, and so for nobody twice.
LEMMA RecurseSound ==
  ASSUME WalkInv, TypeOK', Settles, stack # <<>>, NEW d \in Agent, Recurse(d)
  PROVE  AskedOnce' /\ Sound'
<1>1. /\ Top \in Frame /\ Top = stack[1] /\ Top.at = "loop" /\ Knows(Top)
      /\ DOMAIN stack = 1 .. Len(stack) /\ Len(stack) \in Nat \ {0}
      /\ \A i \in DOMAIN stack : stack[i] \in Frame
      /\ d \notin seen /\ seen' = seen \cup {d} /\ verdict' = verdict
  BY TopIsFirst DEF WalkInv, Recurse, Skipped, Sound
<1>2. PICK f \in Frame : f = LoopPast(Top, d)
  BY <1>1, FrameFields
<1>3. PICK g \in Frame : g = Called(d)
  BY DEF Called, Frame, Reasons
<1>4. /\ f.agent = Top.agent /\ f.at = Top.at /\ f.todo = Top.todo \ {d}
      /\ g.agent = d /\ g.at = "queued" /\ g.todo = {}
      /\ stack' = <<g, f>> \o Tail(stack)
  BY <1>1, <1>2, <1>3, FrameFields DEF Recurse, Called
<1>5. /\ DOMAIN stack' = 1 .. Len(stack) + 1
      /\ stack'[1] = g /\ stack'[2] = f
      /\ \A j \in 3 .. Len(stack) + 1 : stack'[j] = stack[j - 1]
  BY <1>4, TopPushed DEF WalkInv, TypeOK
<1>6. \A j \in 2 .. Len(stack) + 1 :
        j - 1 \in DOMAIN stack /\ stack'[j].agent = stack[j - 1].agent
  BY <1>1, <1>4, <1>5
<1>7. \A i \in DOMAIN stack : stack[i].agent \in seen
  BY DEF WalkInv, Sound, Knows
<1>8. AskedOnce'
  <2> SUFFICES ASSUME NEW i \in DOMAIN stack', NEW j \in DOMAIN stack',
                      stack'[i].agent = stack'[j].agent
               PROVE  i = j
    BY DEF AskedOnce
  <2>1. CASE i = 1 \/ j = 1
    BY <1>1, <1>4, <1>5, <1>6, <1>7, <2>1
  <2>2. CASE i # 1 /\ j # 1
    <3>1. i \in 2 .. Len(stack) + 1 /\ j \in 2 .. Len(stack) + 1
      BY <1>1, <1>5, <2>2
    <3>2. i - 1 = j - 1
      BY <1>6, <3>1 DEF WalkInv, AskedOnce
    <3> QED BY <3>1, <3>2
  <2> QED BY <2>1, <2>2
<1>9. OnStack \cup {d} \subseteq OnStack'
  <2>1. d \in OnStack'
    BY <1>1, <1>4, <1>5 DEF OnStack
  <2>2. ASSUME NEW i \in DOMAIN stack PROVE stack[i].agent \in OnStack'
    <3>1. i + 1 \in 2 .. Len(stack) + 1 /\ (i + 1) - 1 = i /\ i + 1 \in DOMAIN stack'
      BY <1>1, <1>5
    <3>2. stack'[i + 1].agent = stack[i].agent
      BY <1>6, <3>1
    <3> QED BY <3>1, <3>2 DEF OnStack
  <2> QED BY <2>1, <2>2 DEF OnStack
<1>10. ASSUME NEW j \in DOMAIN stack' PROVE Knows(stack[j])'
  <2>1. CASE j = 1
    <3>1. Knows(g)'
      BY <1>1, <1>4 DEF Knows, ReadBefore
    <3> QED BY <1>5, <2>1, <3>1 DEF Knows
  <2>2. CASE j = 2
    <3>1. Knows(f)'
      BY <1>1, <1>4, FrameFields DEF Knows, Settles, ReadBefore
    <3> QED BY <1>5, <2>2, <3>1 DEF Knows
  <2>3. CASE j \in 3 .. Len(stack) + 1
    <3>1. j - 1 \in DOMAIN stack /\ stack'[j] = stack[j - 1]
      BY <1>1, <1>5, <2>3
    <3>2. Knows(stack[j - 1]) /\ stack[j - 1].agent \in Agent
      BY <1>1, <3>1, FrameFields DEF WalkInv, Sound
    <3> QED BY <3>1, <3>2, KnowsStays
  <2> QED BY <1>1, <1>5, <2>1, <2>2, <2>3
<1>11. \A a \in seen' \ OnStack' : Through(a)'
  BY <1>1, <1>9, ThroughStays DEF WalkInv, Sound, TypeOK
<1>12. stack' # <<>> => verdict' = "none"
  BY <1>1, <1>5 DEF WalkInv, Sound
<1> QED BY <1>8, <1>10, <1>11, <1>12 DEF Sound

\* It returns, and the walk is through with its agent.
LEMMA ReturnSound ==
  ASSUME WalkInv, TypeOK', Settles, stack # <<>>, Return
  PROVE  AskedOnce' /\ Sound'
<1>1. /\ Top \in Frame /\ Top = stack[1] /\ Top.at = "loop" /\ Top.todo = {} /\ Knows(Top)
      /\ DOMAIN stack = 1 .. Len(stack) /\ Len(stack) \in Nat \ {0}
      /\ \A i \in DOMAIN stack : stack[i] \in Frame
      /\ seen' = seen
  BY TopIsFirst DEF WalkInv, Return, Sound
<1>2. /\ stack' \in Seq(Frame)
      /\ Len(stack') = Len(stack) - 1
      /\ \A j \in 1 .. Len(stack') : stack'[j] = stack[j + 1]
  BY HeadTailProperties DEF WalkInv, TypeOK, Return
<1>3. DOMAIN stack' = 1 .. Len(stack) - 1
  BY <1>2, LenProperties
<1>4. \A j \in DOMAIN stack' : j + 1 \in DOMAIN stack /\ stack'[j] = stack[j + 1]
  BY <1>1, <1>2, <1>3
<1>5. AskedOnce'
  <2> SUFFICES ASSUME NEW i \in DOMAIN stack', NEW j \in DOMAIN stack',
                      stack'[i].agent = stack'[j].agent
               PROVE  i = j
    BY DEF AskedOnce
  <2>1. i + 1 = j + 1
    BY <1>4 DEF WalkInv, AskedOnce
  <2> QED BY <1>1, <1>3, <2>1
<1>6. OnStack \subseteq OnStack' \cup {Top.agent}
  <2> SUFFICES ASSUME NEW i \in DOMAIN stack, i # 1 PROVE stack[i].agent \in OnStack'
    BY <1>1 DEF OnStack
  <2>1. i - 1 \in DOMAIN stack' /\ (i - 1) + 1 = i
    BY <1>1, <1>3
  <2>2. stack'[i - 1] = stack[i]
    BY <1>4, <2>1
  <2> QED BY <2>1, <2>2 DEF OnStack
<1>7. ASSUME NEW j \in DOMAIN stack' PROVE Knows(stack[j])'
  <2>1. Knows(stack[j + 1]) /\ stack[j + 1].agent \in Agent
    BY <1>1, <1>4, FrameFields DEF WalkInv, Sound
  <2> QED BY <1>4, <2>1, KnowsStays
<1>8. \A a \in seen' \ OnStack' : Through(a)'
  <2> SUFFICES ASSUME NEW a \in seen \ OnStack' PROVE Through(a)'
    BY <1>1
  <2>1. a \in Agent
    BY DEF WalkInv, TypeOK
  <2>2. CASE a = Top.agent
    <3>1. lasting[a] \cap Reasons = {} /\ before.dependents[a] \ summarized \subseteq seen
      BY <1>1, <2>2 DEF Knows, ReadBefore
    <3>2. lasting[a] \subseteq Reasons
      BY <2>1 DEF WalkInv, TypeOK
    <3>3. Through(a)
      BY <3>1, <3>2 DEF Through
    <3> QED BY <2>1, <3>3, ThroughStays
  <2>3. CASE a # Top.agent
    <3>1. Through(a)
      BY <1>6, <2>3 DEF WalkInv, Sound
    <3> QED BY <2>1, <3>1, ThroughStays
  <2> QED BY <2>2, <2>3
<1>9. stack' # <<>> => verdict' = "none"
  BY DEF WalkInv, Sound, Return
<1> QED BY <1>5, <1>7, <1>8, <1>9 DEF Sound

\* It fails, and nobody asks any further.
LEMMA FailSound ==
  ASSUME WalkInv, Fail
  PROVE  AskedOnce' /\ Sound' /\ UnderRoot'
<1>1. stack' = <<>> /\ DOMAIN stack' = {} /\ seen' = {} /\ verdict' = "no"
  BY DEF Fail
<1> QED BY <1>1 DEF AskedOnce, Sound, UnderRoot

\* The others go on, and the walk stands still.
LEMMA RestSound ==
  ASSUME WalkInv, Settles, UNCHANGED walk
  PROVE  AskedOnce' /\ Sound'
<1>1. stack' = stack /\ seen' = seen /\ verdict' = verdict
  BY DEF walk
<1>2. AskedOnce'
  BY <1>1 DEF WalkInv, AskedOnce
<1>3. ASSUME NEW j \in DOMAIN stack' PROVE Knows(stack[j])'
  <2>1. Knows(stack[j]) /\ stack'[j] = stack[j]
    BY <1>1 DEF WalkInv, Sound
  <2>2. stack[j].agent \in Agent
    <3>1. stack \in Seq(Frame) /\ j \in 1 .. Len(stack)
      BY <1>1, LenProperties DEF WalkInv, TypeOK
    <3> QED BY <3>1, ElementOfSeq, FrameFields
  <2> QED BY <2>1, <2>2, KnowsStays
<1>4. OnStack' = OnStack
  BY <1>1 DEF OnStack
<1>5. \A a \in seen' \ OnStack' : Through(a)'
  BY <1>1, <1>4, ThroughStays DEF WalkInv, Sound, TypeOK
<1>6. stack' # <<>> => verdict' = "none"
  BY <1>1 DEF WalkInv, Sound
<1> QED BY <1>2, <1>3, <1>5, <1>6 DEF Sound

\* Whoever is asked about is under the root.
LEMMA AskedUnderRoot ==
  ASSUME WalkInv, TypeOK', Settles, (Walk /\ ~Fail) \/ UNCHANGED walk
  PROVE  UnderRoot'
<1>1. stack' # <<>> \/ verdict' = "yes" => Root \in seen'
  BY DEF WalkInv, UnderRoot, Walk, Pass, Return, Skip, Recurse, Settles, walk
<1>2. ASSUME stack' # <<>>
      PROVE  stack # <<>> /\ Agent \ summarized' \subseteq before'.open
  BY <1>2 DEF WalkInv, UnderRoot, Walk, Settles, walk
<1>3. ASSUME stack' # <<>>, NEW S \in SUBSET Agent, Root \in S,
             Settled(S, {}, [a \in Agent |-> dependents[a] \cap before.open])'
      PROVE  seen' \subseteq S
  <2>1. Settled(S, {}, [a \in Agent |-> dependents[a] \cap before.open])
    BY <1>3 DEF Settled, Settles
  <2>2. stack # <<>> /\ seen \subseteq S
    BY <1>2, <1>3, <2>1 DEF WalkInv, UnderRoot
  <2>3. ASSUME NEW d \in Agent, Walk, Recurse(d) PROVE seen' \subseteq S
    <3>1. Top.agent \in S /\ Top.agent \in Agent /\ d \in dependents[Top.agent]
      BY <2>2, <2>3, TopIsFirst, FrameFields DEF WalkInv, Recurse, Sound, Knows
    <3>2. d \in before.open
      BY <2>2, <2>3 DEF WalkInv, UnderRoot, Recurse, Skipped
    <3>3. d \in S
      BY <2>1, <3>1, <3>2 DEF Settled
    <3> QED BY <2>2, <2>3, <3>3 DEF Recurse
  <2>4. CASE Walk /\ (Pass \/ Return \/ \E d \in Agent : Skip(d))
    BY <2>2, <2>4 DEF Pass, Return, Skip
  <2>5. CASE UNCHANGED walk
    BY <2>2, <2>5 DEF walk
  <2> QED BY <2>3, <2>4, <2>5 DEF Walk
<1> QED BY <1>1, <1>2, <1>3 DEF UnderRoot

LEMMA StepKeepsWalk == WalkInv /\ TypeOK' /\ [Next]_vars => WalkInv'
<1> SUFFICES ASSUME WalkInv, TypeOK', [Next]_vars PROVE WalkInv'
  OBVIOUS
<1>1. History'
  BY HistoryStays DEF WalkInv
<1>2. AskedOnce' /\ Sound' /\ UnderRoot'
  <2>1. CASE Ask
    BY <2>1, AskSound
  <2>2. CASE Walk /\ Fail
    BY <2>2, FailSound
  <2>3. CASE Walk /\ ~Fail
    <3>1. Settles
      BY <2>3, StepSettles DEF WalkInv
    <3>2. AskedOnce' /\ Sound'
      BY <2>3, <3>1, PassSound, ReturnSound, SkipSound, RecurseSound DEF Walk
    <3> QED BY <2>3, <3>1, <3>2, AskedUnderRoot
  <2>4. CASE Work \/ UNCHANGED vars
    <3>1. Settles
      BY <2>4, StepSettles DEF WalkInv
    <3>2. UNCHANGED walk
      BY <2>4 DEF Work, vars, walk
    <3> QED BY <3>1, <3>2, RestSound, AskedUnderRoot
  <2> QED BY <2>1, <2>2, <2>3, <2>4 DEF Next
<1> QED BY <1>1, <1>2 DEF WalkInv

LEMMA WalkInvariant == Spec => []WalkInv
BY NotYetAsked, StepKeepsWalk, NoWorkTypeCorrect, PTL DEF Spec

-----------------------------------------------------------------------------
\* The recursion of no_work never asks about an agent inside a call about it.
THEOREM NobodyAskedTwice == Spec => []AskedOnce
<1>1. WalkInv => AskedOnce
  BY DEF WalkInv
<1> QED BY <1>1, WalkInvariant, PTL

\* When it says yes, the agents it visited are such a set: none of them has had
\* work left ever since the walk began, and they wait only for one another.
THEOREM YesSeesWhatLasts == Spec => []YesOverlooksNothing
<1> DEFINE busy == {a \in Agent : lasting[a] # {}}
           under == [a \in Agent |-> before.dependents[a] \ summarized]
<1>1. WalkInv => YesOverlooksNothing
  <2> SUFFICES ASSUME WalkInv, verdict = "yes" PROVE NothingLeft(busy, under)
    BY DEF YesOverlooksNothing
  <2>1. stack = <<>> /\ OnStack = {}
    BY DEF WalkInv, Sound, OnStack
  <2>2. \A a \in seen : Through(a)
    BY <2>1 DEF WalkInv, Sound
  <2>3. seen \in SUBSET Agent /\ Root \in seen
    BY DEF WalkInv, TypeOK, UnderRoot
  <2>4. Settled(seen, busy, under)
    BY <2>2, <2>3 DEF Settled, Through
  <2> QED BY <2>3, <2>4 DEF NothingLeft
<1> QED BY <1>1, WalkInvariant, PTL

\* When it says no, an agent it came to has work left at that moment: whatever
\* circles the handshakes form, there is no set around the root that is done.
THEOREM NoIsForAReason == Spec => NoHasAReason
<1> DEFINE busy == {a \in Agent : Unfinished(a) # {}}
           under == [a \in Agent |-> dependents[a] \cap before.open]
<1>1. WalkInv /\ [Next]_vars => (stack # <<>> /\ verdict' = "no" => ~NothingLeft(busy, under))
  <2> SUFFICES ASSUME WalkInv, [Next]_vars, stack # <<>>, verdict' = "no",
                      NEW S \in SUBSET Agent, Root \in S, Settled(S, busy, under)
               PROVE  FALSE
    BY DEF NothingLeft
  <2>1. verdict = "none"
    BY DEF WalkInv, Sound
  <2>2. Fail
    BY <2>1 DEF Next, Ask, Walk, Pass, Return, Skip, Recurse, Work, walk, vars
  <2>3. Top.agent \in Agent /\ Top.agent \in seen
    BY TopIsFirst, FrameFields DEF WalkInv, Sound, Knows
  <2>4. Top.agent \in busy
    BY <2>2, <2>3 DEF Fail
  <2>5. seen \subseteq S
    BY DEF WalkInv, UnderRoot, Settled
  <2> QED BY <2>3, <2>4, <2>5 DEF Settled
<1> QED BY <1>1, WalkInvariant, PTL DEF Spec, NoHasAReason
=============================================================================
