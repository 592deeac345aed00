-------------------------- MODULE AgentQueue_proofs --------------------------
(***************************************************************************)
(* Theorems about AgentQueue, for every assignment of ranks to the labels, *)
(* every length of the queue, and agents that send requests or do not.     *)
(***************************************************************************)
EXTENDS AgentQueue, SequenceTheorems, WellFoundedInduction, TLAPS

WorkLabel == Label \ RepliesNothing

\* The part of the inductive invariant that concerns label l: one paused row
\* of l at most, and none while the slot holds an l.  The second half is what
\* makes the first inductive, as what is put back is what the slot holds.
PausedOnce(l) ==
  /\ AtMostOnePaused(l)
  /\ slot = l => PausedRows(l) = {}

-----------------------------------------------------------------------------
(***************************************************************************)
(* What RemoveAt and PutBack do to a queue.                                *)
(***************************************************************************)

\* Row i is gone, and those after it have moved up by one.
LEMMA RemoveAtRows ==
  ASSUME NEW S, NEW q \in Seq(S), NEW i \in DOMAIN q
  PROVE  /\ RemoveAt(q, i) \in Seq(S)
         /\ DOMAIN RemoveAt(q, i) = 1 .. Len(q) - 1
         /\ \A j \in 1 .. Len(q) - 1 :
              RemoveAt(q, i)[j] = IF j < i THEN q[j] ELSE q[j + 1]
<1> DEFINE front == SubSeq(q, 1, i - 1)
           back == SubSeq(q, i + 1, Len(q))
<1>1. i \in 1 .. Len(q) /\ Len(q) \in Nat
  OBVIOUS
<1>2. front \in Seq(S) /\ Len(front) = i - 1 /\ \A j \in 1 .. i - 1 : front[j] = q[j]
  BY <1>1
<1>3. /\ back \in Seq(S)
      /\ Len(back) = Len(q) - i
      /\ \A j \in 1 .. Len(q) - i : back[j] = q[i + j]
  BY <1>1
<1>4. RemoveAt(q, i) = front \o back
  BY DEF RemoveAt
<1> HIDE DEF front, back
<1>5. /\ front \o back \in Seq(S)
      /\ Len(front \o back) = Len(q) - 1
      /\ \A j \in 1 .. Len(q) - 1 :
           (front \o back)[j] = IF j <= i - 1 THEN front[j] ELSE back[j - (i - 1)]
  <2>1. /\ front \o back \in Seq(S)
        /\ Len(front \o back) = Len(front) + Len(back)
        /\ \A j \in 1 .. Len(front) + Len(back) :
             (front \o back)[j] = IF j <= Len(front) THEN front[j] ELSE back[j - Len(front)]
    BY <1>2, <1>3, ConcatProperties
  <2>2. Len(front) + Len(back) = Len(q) - 1
    BY <1>1, <1>2, <1>3
  <2> QED BY <1>2, <2>1, <2>2
<1>6. ASSUME NEW j \in 1 .. Len(q) - 1
      PROVE  (front \o back)[j] = IF j < i THEN q[j] ELSE q[j + 1]
  <2>1. CASE j < i
    BY <2>1, <1>1, <1>2, <1>5
  <2>2. CASE ~(j < i)
    <3>1. j - (i - 1) \in 1 .. Len(q) - i /\ i + (j - (i - 1)) = j + 1
      BY <2>2, <1>1
    <3>2. (front \o back)[j] = IF j <= i - 1 THEN front[j] ELSE back[j - (i - 1)]
      BY <1>5
    <3>3. ~(j <= i - 1)
      BY <2>2, <1>1
    <3>4. (front \o back)[j] = back[j - (i - 1)]
      BY <3>2, <3>3
    <3>5. back[j - (i - 1)] = q[i + (j - (i - 1))]
      BY <3>1, <1>3
    <3> QED BY <2>2, <3>1, <3>4, <3>5
  <2> QED BY <2>1, <2>2
<1> QED BY <1>1, <1>4, <1>5, <1>6

\* A row of a queue has a label and a pause mark.
LEMMA RowColumns ==
  ASSUME NEW q \in Seq(Row), NEW i \in DOMAIN q
  PROVE  q[i].label \in Label /\ q[i].paused \in BOOLEAN
<1>1. q[i] \in Row
  BY LenProperties, ElementOfSeq
<1> QED BY <1>1 DEF Row

\* One paused row more, at the end.
LEMMA PutBackRows ==
  ASSUME NEW q \in Seq(Row), NEW l \in Label
  PROVE  /\ PutBack(q, l) \in Seq(Row)
         /\ DOMAIN PutBack(q, l) = 1 .. Len(q) + 1
         /\ \A j \in 1 .. Len(q) : PutBack(q, l)[j] = q[j]
         /\ PutBack(q, l)[Len(q) + 1] = [label |-> l, paused |-> TRUE]
BY DEF PutBack, Paused, Row

-----------------------------------------------------------------------------
(***************************************************************************)
(* Type correctness.                                                       *)
(***************************************************************************)

\* Every reachable state has the columns and the slot hold what they may hold.
THEOREM TypeCorrect == Spec => []TypeOK
<1>1. Init => TypeOK
  BY EmptySeq DEF Init, TypeOK
<1>2. TypeOK /\ [Next]_vars => TypeOK'
  <2> SUFFICES ASSUME TypeOK, [Next]_vars PROVE TypeOK'
    OBVIOUS
  <2> USE DEF TypeOK
  <2>1. ASSUME NEW l \in Label, Push(l) PROVE TypeOK'
    BY <2>1 DEF Push, Fresh, Row
  <2>2. ASSUME NEW i \in DOMAIN queue, Advance(i) PROVE TypeOK'
    <3>1. RemoveAt(queue, i) \in Seq(Row)
      BY RemoveAtRows
    <3>2. queue[i].label \in Label
      BY RowColumns
    <3>3. queue' \in Seq(Row)
      BY <2>2, <3>1, PutBackRows DEF Advance
    <3>4. slot' \in Label /\ interrupted' \in BOOLEAN
      BY <2>2, <3>2 DEF Advance
    <3> QED BY <3>3, <3>4
  <2>3. CASE DeliveryFails
    BY <2>3, PutBackRows DEF DeliveryFails
  <2>4. CASE Finish
    BY <2>4 DEF Finish
  <2>5. CASE BeginSummary
    BY <2>5 DEF BeginSummary, Label
  <2>6. CASE Interrupt
    BY <2>6, PutBackRows DEF Interrupt
  <2>7. CASE Restart
    BY <2>7 DEF Restart
  <2>8. CASE UNCHANGED vars
    BY <2>8 DEF vars
  <2> QED BY <2>1, <2>2, <2>3, <2>4, <2>5, <2>6, <2>7, <2>8 DEF Next
<1> QED BY <1>1, <1>2, PTL DEF Spec

-----------------------------------------------------------------------------
(***************************************************************************)
(* One paused row of each kind of work.                                    *)
(***************************************************************************)

\* The label put back had no paused row, or is no work: PutBack then keeps
\* every work label to one.
LEMMA PutBackKeepsOne ==
  ASSUME NEW q \in Seq(Row), NEW s \in Label, NEW l \in WorkLabel,
         \A i, j \in DOMAIN q :
           q[i].paused /\ q[i].label = l /\ q[j].paused /\ q[j].label = l => i = j,
         s = l => \A i \in DOMAIN q : ~(q[i].paused /\ q[i].label = l)
  PROVE  \A i, j \in DOMAIN PutBack(q, s) :
           /\ PutBack(q, s)[i].paused /\ PutBack(q, s)[i].label = l
           /\ PutBack(q, s)[j].paused /\ PutBack(q, s)[j].label = l
           => i = j
<1> DEFINE r == PutBack(q, s)
<1>1. /\ DOMAIN r = 1 .. Len(q) + 1
      /\ \A j \in 1 .. Len(q) : r[j] = q[j]
      /\ r[Len(q) + 1] = [label |-> s, paused |-> TRUE]
  BY PutBackRows
<1>2. Len(q) \in Nat /\ DOMAIN q = 1 .. Len(q)
  BY LenProperties
<1> HIDE DEF r
<1>3. SUFFICES ASSUME NEW i \in DOMAIN r, NEW j \in DOMAIN r,
                      r[i].paused, r[i].label = l, r[j].paused, r[j].label = l
               PROVE  i = j
  BY DEF r
<1>4. r[Len(q) + 1].label = s
  BY <1>1
<1>5. CASE i \in 1 .. Len(q) /\ j \in 1 .. Len(q)
  BY <1>5, <1>1, <1>2, <1>3
<1>6. CASE i = Len(q) + 1 /\ j \in 1 .. Len(q)
  BY <1>6, <1>1, <1>2, <1>3, <1>4
<1>7. CASE i \in 1 .. Len(q) /\ j = Len(q) + 1
  BY <1>7, <1>1, <1>2, <1>3, <1>4
<1>8. CASE i = Len(q) + 1 /\ j = Len(q) + 1
  BY <1>8
<1> QED BY <1>1, <1>2, <1>5, <1>6, <1>7, <1>8

\* A row taken out leaves at most one paused row of each label, and none of
\* its own if it was the one, or if it was fresh and there was none.
LEMMA RemoveAtKeepsOne ==
  ASSUME NEW q \in Seq(Row), NEW k \in DOMAIN q, NEW l \in Label,
         \A i, j \in DOMAIN q :
           q[i].paused /\ q[i].label = l /\ q[j].paused /\ q[j].label = l => i = j
  PROVE  LET r == RemoveAt(q, k)
         IN  /\ \A i, j \in DOMAIN r :
                  r[i].paused /\ r[i].label = l /\ r[j].paused /\ r[j].label = l => i = j
             /\ \A i \in DOMAIN r : r[i].paused /\ r[i].label = l =>
                  \E j \in DOMAIN q \ {k} : q[j].paused /\ q[j].label = l
<1> DEFINE r == RemoveAt(q, k)
           from(i) == IF i < k THEN i ELSE i + 1
<1>1. /\ DOMAIN r = 1 .. Len(q) - 1
      /\ \A j \in 1 .. Len(q) - 1 : r[j] = IF j < k THEN q[j] ELSE q[j + 1]
  BY RemoveAtRows
<1>2. Len(q) \in Nat /\ DOMAIN q = 1 .. Len(q)
  BY LenProperties
<1> HIDE DEF r
<1>3. ASSUME NEW i \in DOMAIN r
      PROVE  from(i) \in DOMAIN q \ {k} /\ r[i] = q[from(i)]
  BY <1>1, <1>2
<1>4. ASSUME NEW i \in DOMAIN r, NEW j \in DOMAIN r, from(i) = from(j)
      PROVE  i = j
  BY <1>4, <1>1, <1>2
<1> HIDE DEF from
<1>5. \A i, j \in DOMAIN r :
        r[i].paused /\ r[i].label = l /\ r[j].paused /\ r[j].label = l => i = j
  BY <1>3, <1>4
<1>6. \A i \in DOMAIN r : r[i].paused /\ r[i].label = l =>
        \E j \in DOMAIN q \ {k} : q[j].paused /\ q[j].label = l
  BY <1>3
<1> QED BY <1>5, <1>6 DEF r

\* A fresh row that heads its label has no paused row of that label before or
\* behind it.
LEMMA FreshHeadHasNoPausedSibling ==
  ASSUME NEW q \in Seq(Row), NEW k \in DOMAIN q, IsHead(q, k), ~q[k].paused,
         NEW j \in DOMAIN q, q[j].label = q[k].label
  PROVE  ~q[j].paused
BY DEF IsHead, RowsOf, RowBefore

\* NULL is no label.
LEMMA NoLabelIsNoLabel == NoLabel \notin Label
BY DEF NoLabel, Label

\* A report is not work: it is owed no answer.
LEMMA ReportsReplyNothing == "TRUTHFUL_REPORT" \in RepliesNothing
BY DEF RepliesNothing, ReplyBehavior, NoLabel, Label

\* The rank that takes a slot is strictly better, so no label displaces itself.
LEMMA OutranksIrreflexive ==
  ASSUME NEW l \in Label
  PROVE  ~Outranks(l, l)
BY RankAssumption DEF Outranks

\* A row that advance takes leaves no paused row of its label, as long as
\* there was one at most.
LEMMA CandidateTakesThePausedOne ==
  ASSUME TypeOK, NEW k \in DOMAIN queue, Candidate(k),
         queue[k].label \in WorkLabel, AtMostOnePaused(queue[k].label)
  PROVE  \A j \in DOMAIN queue \ {k} : ~(queue[j].paused /\ queue[j].label = queue[k].label)
<1> SUFFICES ASSUME NEW j \in DOMAIN queue \ {k},
                    queue[j].paused, queue[j].label = queue[k].label
             PROVE  FALSE
  OBVIOUS
<1>1. queue[k].label \notin RepliesNothing
  BY DEF WorkLabel
<1>2. ~IsFreshResponse(queue, k)
  BY <1>1 DEF IsFreshResponse, FreshResponses
<1>3. IsHead(queue, k)
  BY <1>2 DEF Candidate
<1>4. CASE queue[k].paused
  BY <1>4 DEF AtMostOnePaused, PausedRows
<1>5. CASE ~queue[k].paused
  BY <1>3, <1>5, FreshHeadHasNoPausedSibling DEF TypeOK
<1> QED BY <1>4, <1>5

\* One step of the queue keeps a work label to one paused row.
LEMMA StepKeepsPausedOnce ==
  ASSUME TypeOK, NEW l \in WorkLabel, PausedOnce(l), [Next]_vars
  PROVE  PausedOnce(l)'
<1>1. l \in Label /\ l \notin RepliesNothing /\ queue \in Seq(Row)
  BY DEF WorkLabel, TypeOK
<1>2. /\ \A i, j \in DOMAIN queue :
           queue[i].paused /\ queue[i].label = l /\ queue[j].paused /\ queue[j].label = l
           => i = j
      /\ slot = l => \A i \in DOMAIN queue : ~(queue[i].paused /\ queue[i].label = l)
  BY DEF PausedOnce, AtMostOnePaused, PausedRows
<1>4. ASSUME NEW m \in Label, Push(m) PROVE PausedOnce(l)'
  <2>1. Fresh(m) \in Row /\ ~Fresh(m).paused
    BY DEF Fresh, Row
  <2>2. /\ DOMAIN queue' = 1 .. Len(queue) + 1
        /\ \A j \in 1 .. Len(queue) : queue'[j] = queue[j]
        /\ ~queue'[Len(queue) + 1].paused
    BY <1>1, <1>4, <2>1 DEF Push
  <2>3. \A i \in DOMAIN queue' : queue'[i].paused => i \in DOMAIN queue /\ queue'[i] = queue[i]
    BY <1>1, <2>2, LenProperties
  <2> QED BY <1>2, <1>4, <2>3 DEF Push, PausedOnce, AtMostOnePaused, PausedRows
<1>5. ASSUME NEW m \in Label, queue' = PutBack(queue, m), slot = m, slot' = NoLabel
      PROVE  PausedOnce(l)'
  <2>1. slot' # l
    BY <1>1, <1>5, NoLabelIsNoLabel
  <2>2. \A i, j \in DOMAIN queue' :
          /\ queue'[i].paused /\ queue'[i].label = l
          /\ queue'[j].paused /\ queue'[j].label = l
          => i = j
    BY <1>1, <1>2, <1>5, PutBackKeepsOne
  <2> QED BY <2>1, <2>2 DEF PausedOnce, AtMostOnePaused, PausedRows
<1>6. ASSUME NEW k \in DOMAIN queue, Advance(k) PROVE PausedOnce(l)'
  <2> DEFINE rest == RemoveAt(queue, k)
             head == queue[k].label
  <2>1. head \in Label /\ rest \in Seq(Row)
    BY <1>1, RowColumns, RemoveAtRows
  <2>2. Candidate(k) /\ (slot # NoLabel => Outranks(head, slot)) /\ slot' = head
    BY <1>6 DEF Advance, Promotable
  <2>3. /\ \A i, j \in DOMAIN rest :
             /\ rest[i].paused /\ rest[i].label = l
             /\ rest[j].paused /\ rest[j].label = l
             => i = j
        /\ \A i \in DOMAIN rest : rest[i].paused /\ rest[i].label = l =>
             \E j \in DOMAIN queue \ {k} : queue[j].paused /\ queue[j].label = l
    BY <1>1, <1>2, RemoveAtKeepsOne
  <2>4. head = l => \A j \in DOMAIN queue \ {k} : ~(queue[j].paused /\ queue[j].label = l)
    BY <2>2, CandidateTakesThePausedOne DEF PausedOnce
  <2>5. slot = l => \A i \in DOMAIN rest : ~(rest[i].paused /\ rest[i].label = l)
    BY <1>2, <2>3
  <2>6. head = l => \A i \in DOMAIN rest : ~(rest[i].paused /\ rest[i].label = l)
    BY <2>3, <2>4
  <2>7. CASE slot = NoLabel
    <3>1. queue' = rest
      BY <1>6, <2>7 DEF Advance
    <3> HIDE DEF rest, head
    <3> QED BY <2>2, <2>3, <2>6, <3>1 DEF PausedOnce, AtMostOnePaused, PausedRows
  <2>8. CASE slot # NoLabel
    <3>1. queue' = PutBack(rest, slot)
      BY <1>6, <2>8 DEF Advance
    <3>2. slot \in Label
      BY <2>8 DEF TypeOK
    <3>3. slot # head
      BY <2>1, <2>2, <2>8, OutranksIrreflexive
    <3> HIDE DEF rest, head
    <3>4. \A i, j \in DOMAIN queue' :
            /\ queue'[i].paused /\ queue'[i].label = l
            /\ queue'[j].paused /\ queue'[j].label = l
            => i = j
      BY <2>1, <2>3, <2>5, <3>1, <3>2, PutBackKeepsOne
    <3>5. ASSUME head = l, NEW i \in DOMAIN queue', queue'[i].paused
          PROVE  queue'[i].label # l
      <4>1. /\ DOMAIN queue' = 1 .. Len(rest) + 1
            /\ \A j \in 1 .. Len(rest) : queue'[j] = rest[j]
            /\ queue'[Len(rest) + 1] = [label |-> slot, paused |-> TRUE]
        BY <2>1, <3>1, <3>2, PutBackRows
      <4>2. Len(rest) \in Nat /\ DOMAIN rest = 1 .. Len(rest)
        BY <2>1, LenProperties
      <4>3. CASE i = Len(rest) + 1
        BY <3>3, <3>5, <4>1, <4>3
      <4>4. CASE i \in 1 .. Len(rest)
        BY <2>6, <3>5, <4>1, <4>2, <4>4
      <4> QED BY <4>1, <4>2, <4>3, <4>4
    <3> QED BY <2>2, <3>4, <3>5 DEF PausedOnce, AtMostOnePaused, PausedRows
  <2> QED BY <2>7, <2>8
<1>7. CASE DeliveryFails
  <2>1. slot \in Label
    BY <1>7 DEF DeliveryFails, TypeOK
  <2> QED BY <1>5, <1>7, <2>1 DEF DeliveryFails
<1>8. CASE Finish
  BY <1>1, <1>8, NoLabelIsNoLabel DEF Finish, PausedOnce, AtMostOnePaused, PausedRows
<1>9. CASE BeginSummary
  <2>1. slot' # l
    BY <1>1, <1>9, ReportsReplyNothing DEF BeginSummary
  <2> QED BY <1>9, <2>1 DEF BeginSummary, PausedOnce, AtMostOnePaused, PausedRows
<1>10. CASE Interrupt
  <2>1. CASE slot = NoLabel
    BY <1>10, <2>1 DEF Interrupt, PausedOnce, AtMostOnePaused, PausedRows
  <2>2. CASE slot # NoLabel
    <3>1. slot \in Label
      BY <2>2 DEF TypeOK
    <3> QED BY <1>5, <1>10, <2>2, <3>1 DEF Interrupt
  <2> QED BY <2>1, <2>2
<1>11. CASE Restart
  BY <1>11 DEF Restart, PausedOnce, AtMostOnePaused, PausedRows
<1>12. CASE UNCHANGED vars
  BY <1>12 DEF vars, PausedOnce, AtMostOnePaused, PausedRows
<1> QED BY <1>4, <1>6, <1>7, <1>8, <1>9, <1>10, <1>11, <1>12 DEF Next

\* The resume prompt names one task, in every reachable state and whatever the
\* ranks are: of each label that is work, one row at most is paused.
THEOREM OnePausedWork == Spec => []OnePausedWorkRow
<1>1. Init => \A l \in WorkLabel : PausedOnce(l)
  BY DEF Init, PausedOnce, AtMostOnePaused, PausedRows
<1>2. TypeOK /\ (\A l \in WorkLabel : PausedOnce(l)) /\ [Next]_vars
        => (\A l \in WorkLabel : PausedOnce(l))'
  <2> SUFFICES ASSUME TypeOK, \A l \in WorkLabel : PausedOnce(l), [Next]_vars,
                      NEW l \in WorkLabel
               PROVE  PausedOnce(l)'
    BY DEF WorkLabel, Label, RepliesNothing
  <2> QED BY StepKeepsPausedOnce
<1>3. (\A l \in WorkLabel : PausedOnce(l)) => OnePausedWorkRow
  BY DEF WorkLabel, PausedOnce, OnePausedWorkRow
<1> QED BY <1>1, <1>2, <1>3, TypeCorrect, PTL DEF Spec

-----------------------------------------------------------------------------
(***************************************************************************)
(* Interruption.                                                           *)
(***************************************************************************)

\* Nothing but a restart ends the wait of an agent no answer has reached: no
\* row it had started, and no request that arrived, is taken in its place.
THEOREM InterruptionStands == Spec => InterruptionHolds
<1>1. [Next]_vars =>
        [interrupted /\ FreshResponses(queue) = {} /\ slot = NoLabel
           => interrupted' \/ Restart]_vars
  <2> SUFFICES ASSUME Next, interrupted, FreshResponses(queue) = {}, slot = NoLabel
               PROVE  interrupted' \/ Restart
    OBVIOUS
  <2>1. ASSUME NEW l \in Label, Push(l) PROVE interrupted'
    BY <2>1 DEF Push
  <2>2. ASSUME NEW i \in DOMAIN queue, Advance(i) PROVE FALSE
    <3>1. IsFreshResponse(queue, i)
      BY <2>2 DEF Advance, Promotable, Candidate
    <3> QED BY <3>1 DEF IsFreshResponse
  <2>3. ~DeliveryFails /\ ~Finish
    BY DEF DeliveryFails, Finish
  <2>4. BeginSummary \/ Interrupt => interrupted'
    BY DEF BeginSummary, Interrupt
  <2> QED BY <2>1, <2>2, <2>3, <2>4 DEF Next
<1> QED BY <1>1, PTL DEF Spec, InterruptionHolds

-----------------------------------------------------------------------------
(***************************************************************************)
(* Who is next: that there is a next one at all, and that it is not a row  *)
(* which should have waited.                                               *)
(***************************************************************************)

\* A nonempty set of positions or ranks has a least one.
LEMMA LeastOf ==
  ASSUME NEW T \in SUBSET Nat, T # {}
  PROVE  \E x \in T : \A y \in T : x <= y
<1> DEFINE R == {ss \in Nat \X Nat : ss[1] < ss[2]}
<1>1. IsWellFoundedOn(R, Nat)
  BY NatLessThanWellFounded DEF OpToRel
<1>2. PICK x \in T : \A y \in T : ~(<<y, x>> \in R)
  <2> HIDE DEF R
  <2> QED BY <1>1, WFMin
<1>3. ASSUME NEW y \in T PROVE x <= y
  <2>1. x \in Nat /\ y \in Nat
    OBVIOUS
  <2>2. ~(y < x)
    BY <1>2, <2>1
  <2> QED BY <2>1, <2>2
<1> QED BY <1>3

\* Of the answers that arrived one is the best ranked and then the oldest, even
\* if several labels share a rank.
LEMMA SomeFreshResponse ==
  ASSUME NEW q \in Seq(Row), FreshResponses(q) # {}
  PROVE  \E i \in DOMAIN q : IsFreshResponse(q, i)
<1> DEFINE S == FreshResponses(q)
           rank(i) == Rank[q[i].label]
           best == {rank(i) : i \in S}
<1>1. \A i \in S : i \in DOMAIN q /\ i \in Nat /\ rank(i) \in Nat
  BY LenProperties, RowColumns, RankAssumption DEF FreshResponses, FreshRows
<1> HIDE DEF S, rank
<1>2. PICK r \in best : \A s \in best : r <= s
  <2>1. best \in SUBSET Nat /\ best # {}
    BY <1>1 DEF S
  <2> HIDE DEF best
  <2> QED BY <2>1, LeastOf
<1>3. PICK i \in {k \in S : rank(k) = r} : \A j \in {k \in S : rank(k) = r} : i <= j
  <2> DEFINE T == {k \in S : rank(k) = r}
  <2>1. T \in SUBSET Nat /\ T # {}
    BY <1>1
  <2> HIDE DEF T
  <2>2. \E x \in T : \A y \in T : x <= y
    BY <2>1, LeastOf
  <2> QED BY <2>2 DEF T
<1>4. ASSUME NEW j \in S \ {i}
      PROVE  rank(i) < rank(j) \/ (rank(i) = rank(j) /\ i < j)
  <2>1. i \in Nat /\ j \in Nat /\ rank(i) = r /\ rank(j) \in Nat /\ r \in Nat
    BY <1>1, <1>3
  <2>2. r <= rank(j)
    BY <1>2
  <2>3. rank(j) = r => i <= j
    BY <1>3
  <2> QED BY <2>1, <2>2, <2>3
<1> QED BY <1>1, <1>3, <1>4 DEF IsFreshResponse, Outranks, S, rank

\* The answer an interrupted agent waits for is always there to be taken once it
\* is in the queue, however far down, and whatever paused work stands before it.
THEOREM AnswersAreTaken == Spec => []AnswerIsTaken
<1>1. TypeOK => AnswerIsTaken
  <2> SUFFICES ASSUME TypeOK, interrupted, slot = NoLabel, FreshResponses(queue) # {}
               PROVE  \E i \in DOMAIN queue : Promotable(i)
    BY DEF AnswerIsTaken
  <2>1. PICK i \in DOMAIN queue : IsFreshResponse(queue, i)
    BY SomeFreshResponse DEF TypeOK
  <2>2. Promotable(i)
    BY <2>1 DEF Promotable, Candidate
  <2> QED BY <2>2
<1> QED BY <1>1, TypeCorrect, PTL

\* No fresh row waits behind paused work of another label of its rank, nor behind
\* a label whose fresh rows all came later: this is what the order by the oldest
\* fresh row is for, whatever the ranks are.
THEOREM FreshIsNotPassedOver == Spec => []FreshLabelFirst
<1>1. TypeOK => FreshLabelFirst
  <2> SUFFICES ASSUME TypeOK, NEW i \in DOMAIN queue, NEW j \in DOMAIN queue,
                      IsHead(queue, i), ~queue[j].paused,
                      Rank[queue[j].label] = Rank[queue[i].label]
               PROVE  \E k \in RowsOf(queue, queue[i].label) \cap FreshRows(queue) : k <= j
    BY DEF FreshLabelFirst
  <2> DEFINE fresh(l) == RowsOf(queue, l) \cap FreshRows(queue)
  <2>1. j \in fresh(queue[j].label) /\ j \in Nat /\ queue[j].label \in LabelsIn(queue)
    BY LenProperties DEF TypeOK, RowsOf, FreshRows, LabelsIn
  <2>2. CASE queue[j].label = queue[i].label
    BY <2>1, <2>2
  <2>3. CASE queue[j].label # queue[i].label
    <3>1. LabelBefore(queue, queue[i].label, queue[j].label)
      BY <2>1, <2>3 DEF IsHead, IsHeadLabel
    <3>2. Rank[queue[i].label] \in Nat
      BY RowColumns, RankAssumption DEF TypeOK
    <3>3. EarlierThan(fresh(queue[i].label), fresh(queue[j].label))
      BY <2>1, <3>1, <3>2 DEF LabelBefore
    <3>4. PICK k \in fresh(queue[i].label) : \A m \in fresh(queue[j].label) : k < m
      BY <3>3 DEF EarlierThan
    <3>5. k \in Nat
      BY <3>4, LenProperties DEF TypeOK, FreshRows
    <3> QED BY <2>1, <3>4, <3>5
  <2> QED BY <2>2, <2>3
<1> QED BY <1>1, TypeCorrect, PTL
=============================================================================
