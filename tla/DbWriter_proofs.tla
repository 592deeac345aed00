--------------------------- MODULE DbWriter_proofs ---------------------------
(***************************************************************************)
(* Theorems about DbWriter, for any number of processes and of calls, any  *)
(* failures, and any crossing of calls, closings and crashes.              *)
(***************************************************************************)
EXTENDS DbWriter, SequenceTheorems, FiniteSetTheorems, TLAPS

Busy(k) == writer[k] \in Working
HasLock(k) == writer[k].pc \in {"running", "committing"}

\* The file counts its writes; the lock is held by whoever is between BEGIN and
\* COMMIT; what such a writer has read is what the file says.
FileInv ==
  /\ IsFiniteSet(committed)
  /\ version = Cardinality(committed)
  /\ \A k \in Process : lock = k <=> HasLock(k)
  /\ \A k \in Process : At(k, "committing") => writer[k].read = version

Queued(k, w) == \E i \in DOMAIN jobs[k] : jobs[k][i] = w

QueuedOnce(k) ==
  \A i, j \in DOMAIN jobs[k] : jobs[k][i] = jobs[k][j] /\ jobs[k][i] # Stop => i = j

\* A call that waits is in one place in its process, and is in the file only
\* when all that is left is to say so.
JobInv ==
  /\ \A w \in Write : call[w] = "unasked" => w \notin committed
  /\ \A k \in Process, w \in Write : Queued(k, w) =>
       Home[w] = k /\ call[w] = "asked" /\ w \notin committed
  /\ \A k \in Process : QueuedOnce(k)
  /\ \A k \in Process : Busy(k) =>
       /\ Home[writer[k].job] = k
       /\ call[writer[k].job] = "asked"
       /\ ~Queued(k, writer[k].job)
       /\ writer[k].job \in committed <=> At(k, "answering")

DbInv == TypeOK /\ FileInv /\ JobInv

-----------------------------------------------------------------------------
(***************************************************************************)
(* The writer thread's states, and the queue it takes from.                *)
(***************************************************************************)

\* A writer rests, has stopped, or has a job in hand.
LEMMA WriterStates ==
  ASSUME TypeOK, NEW k \in Process
  PROVE  /\ Busy(k) <=> writer[k].pc \in {"beginning", "running", "committing", "answering"}
         /\ ~Busy(k) => writer[k] \in {Resting, Stopped}
         /\ Busy(k) => writer[k].job \in Write /\ writer[k].read \in Nat
BY DEF TypeOK, Busy, Working, Resting, Stopped

\* What a queue holds after an Append.
LEMMA Appended ==
  ASSUME NEW S, NEW q \in Seq(S), NEW e \in S
  PROVE  /\ Append(q, e) \in Seq(S)
         /\ DOMAIN q = 1 .. Len(q) /\ Len(q) \in Nat
         /\ DOMAIN Append(q, e) = 1 .. Len(q) + 1
         /\ Append(q, e)[Len(q) + 1] = e
         /\ \A i \in 1 .. Len(q) : Append(q, e)[i] = q[i]
BY AppendProperties, LenProperties

\* What it holds after its head is taken.
LEMMA Taken ==
  ASSUME NEW S, NEW q \in Seq(S), q # <<>>
  PROVE  /\ Tail(q) \in Seq(S) /\ Head(q) \in S
         /\ DOMAIN q = 1 .. Len(q) /\ Len(q) \in Nat \ {0}
         /\ Head(q) = q[1]
         /\ DOMAIN Tail(q) = 1 .. Len(q) - 1
         /\ \A i \in 1 .. Len(q) - 1 : Tail(q)[i] = q[i + 1]
<1>1. /\ Tail(q) \in Seq(S) /\ Head(q) \in S /\ Head(q) = q[1]
      /\ Len(Tail(q)) = Len(q) - 1
      /\ \A i \in 1 .. Len(Tail(q)) : Tail(q)[i] = q[i + 1]
  BY HeadTailProperties
<1>2. DOMAIN q = 1 .. Len(q) /\ Len(q) \in Nat \ {0}
  BY EmptySeq, LenProperties
<1>3. DOMAIN Tail(q) = 1 .. Len(Tail(q))
  BY <1>1, LenProperties
<1> QED BY <1>1, <1>2, <1>3

-----------------------------------------------------------------------------
(***************************************************************************)
(* Type correctness.                                                       *)
(***************************************************************************)

\* Every reachable state of the databases has the types TypeOK gives.
THEOREM DbTypeCorrect == Spec => []TypeOK
<1>1. Init => TypeOK
  BY DEF Init, TypeOK, Resting
<1>2. TypeOK /\ [Next]_vars => TypeOK'
  <2> SUFFICES ASSUME TypeOK, [Next]_vars PROVE TypeOK'
    OBVIOUS
  <2> USE DbAssumption
  <2>1. ASSUME NEW w \in Write, Submit(w) PROVE TypeOK'
    <3>1. Append(jobs[Home[w]], w) \in Seq(Write \cup {Stop})
      BY Appended DEF TypeOK
    <3>2. Home[w] \in Process
      OBVIOUS
    <3>3. jobs' \in [Process -> Seq(Write \cup {Stop})]
      BY <2>1, <3>1, <3>2 DEF Submit, SubmitUnlessClosed, Enqueued, TypeOK
    <3>4. call' \in [Write -> {"unasked", "asked", "done", "failed", "lost"}]
      BY <2>1 DEF Submit, SubmitUnlessClosed, Enqueued, TypeOK
    <3> QED BY <2>1, <3>3, <3>4 DEF Submit, file, TypeOK
  <2>2. ASSUME NEW k \in Process, Take(k) PROVE TypeOK'
    <3>1. Tail(jobs[k]) \in Seq(Write \cup {Stop}) /\ Head(jobs[k]) \in Write \cup {Stop}
      BY <2>2, Taken DEF Take, TypeOK
    <3>2. writer' \in [Process -> Working \cup {Resting, Stopped}]
      BY <2>2, <3>1 DEF Take, TypeOK, Working
    <3> QED BY <2>2, <3>1, <3>2 DEF Take, file, TypeOK
  <2>3. ASSUME NEW k \in Process, Begin(k) PROVE TypeOK'
    <3>1. writer' \in [Process -> Working \cup {Resting, Stopped}]
      BY <2>3, WriterStates DEF Begin, At, Busy, TypeOK, Working
    <3> QED BY <2>3, <3>1 DEF Begin, TypeOK
  <2>4. ASSUME NEW k \in Process, Run(k) PROVE TypeOK'
    <3>1. writer' \in [Process -> Working \cup {Resting, Stopped}]
      <4>1. Busy(k)
        BY <2>4, WriterStates DEF Run, At
      <4>2. writer' = [writer EXCEPT ![k].pc = "committing", ![k].read = version]
        BY <2>4 DEF Run
      <4>3. [writer[k] EXCEPT !.pc = "committing", !.read = version] \in Working
        BY <4>1 DEF Busy, Working, TypeOK
      <4>4. writer' = [writer EXCEPT ![k] =
                        [writer[k] EXCEPT !.pc = "committing", !.read = version]]
        BY <4>2 DEF TypeOK
      <4> QED BY <4>3, <4>4 DEF TypeOK
    <3> QED BY <2>4, <3>1 DEF Run, file, TypeOK
  <2>5. ASSUME NEW k \in Process, Commit(k) PROVE TypeOK'
    <3>1. Busy(k) /\ writer[k].job \in Write /\ writer[k].read \in Nat
      BY <2>5, WriterStates DEF Commit, At
    <3>2. writer' \in [Process -> Working \cup {Resting, Stopped}]
      <4>1. writer' = [writer EXCEPT ![k].pc = "answering"]
        BY <2>5 DEF Commit
      <4>2. [writer[k] EXCEPT !.pc = "answering"] \in Working
        BY <3>1 DEF Busy, Working
      <4> QED BY <4>1, <4>2 DEF TypeOK
    <3> QED BY <2>5, <3>1, <3>2 DEF Commit, Stored, TypeOK
  <2>6. ASSUME NEW k \in Process, BeginFails(k) \/ RolledBack(k) \/ Answer(k) PROVE TypeOK'
    <3>1. lock' \in Process \cup {Nobody} /\ UNCHANGED <<committed, version, jobs, closed, closing>>
      BY <2>6 DEF BeginFails, RolledBack, Answer, Resolve, file, TypeOK
    <3>2. \E o \in {"done", "failed"} : Resolve(k, o)
      BY <2>6 DEF BeginFails, RolledBack, Answer
    <3>3. PICK o \in {"done", "failed"} : Resolve(k, o)
      BY <3>2
    <3>4. call' \in [Write -> {"unasked", "asked", "done", "failed", "lost"}]
      BY <3>3 DEF Resolve, TypeOK
    <3>5. writer' \in [Process -> Working \cup {Resting, Stopped}]
      BY <3>3 DEF Resolve, TypeOK
    <3> QED BY <3>1, <3>4, <3>5, <2>6 DEF BeginFails, RolledBack, Answer, file, TypeOK
  <2>7. ASSUME NEW k \in Process, CloseBegins(k) PROVE TypeOK'
    <3>1. Append(jobs[k], Stop) \in Seq(Write \cup {Stop})
      BY Appended DEF TypeOK
    <3> QED BY <2>7, <3>1 DEF CloseBegins, file, TypeOK
  <2>8. ASSUME NEW k \in Process, CloseReturns(k) PROVE TypeOK'
    BY <2>8 DEF CloseReturns, file, TypeOK
  <2>9. ASSUME NEW k \in Process, Crash(k) PROVE TypeOK'
    BY <2>9 DEF Crash, TypeOK
  <2>10. CASE UNCHANGED vars
    BY <2>10 DEF vars, TypeOK
  <2> QED BY <2>1, <2>2, <2>3, <2>4, <2>5, <2>6, <2>7, <2>8, <2>9, <2>10 DEF Next, WriterStep
<1> QED BY <1>1, <1>2, PTL DEF Spec

-----------------------------------------------------------------------------
(***************************************************************************)
(* The file.                                                               *)
(***************************************************************************)

\* Between BEGIN and COMMIT there is one writer.
LEMMA OneHasLock ==
  ASSUME FileInv, NEW k \in Process, HasLock(k)
  PROVE  lock = k /\ \A j \in Process : j # k => ~HasLock(j)
BY DEF FileInv

\* A step of one process in which the writers of the others stand still, nobody
\* writes, and the lock goes with the writer's place.
LEMMA FileKept ==
  ASSUME TypeOK, FileInv, NEW k \in Process,
         UNCHANGED <<committed, version>>,
         \A j \in Process : j # k => writer'[j] = writer[j],
         HasLock(k)' /\ writer'[k].pc = "committing" => writer'[k].read = version,
         \/ lock' = lock /\ (HasLock(k)' <=> HasLock(k))
         \/ lock = Nobody /\ lock' = k /\ HasLock(k)'
         \/ lock = k /\ lock' = Nobody /\ ~HasLock(k)'
  PROVE  FileInv'
<1> USE DbAssumption
<1>1. IsFiniteSet(committed') /\ version' = Cardinality(committed')
  BY DEF FileInv
<1>2. ASSUME NEW j \in Process PROVE lock' = j <=> HasLock(j)'
  <2>1. CASE j = k
    BY <2>1 DEF FileInv
  <2>2. CASE j # k
    BY <2>2 DEF FileInv, HasLock
  <2> QED BY <2>1, <2>2
<1>3. ASSUME NEW j \in Process, At(j, "committing")' PROVE writer'[j].read = version'
  BY <1>3 DEF FileInv, At, HasLock
<1> QED BY <1>1, <1>2, <1>3 DEF FileInv

LEMMA FileStep ==
  ASSUME DbInv, [Next]_vars
  PROVE  FileInv'
<1> USE DbAssumption
<1>0. TypeOK /\ FileInv /\ JobInv
  BY DEF DbInv
<1>1. ASSUME NEW k \in Process, Take(k) PROVE FileInv'
  <2>1. ~HasLock(k) /\ ~HasLock(k)' /\ lock' = lock
    BY <1>0, <1>1 DEF Take, At, HasLock, file, Stopped, TypeOK
  <2>2. \A j \in Process : j # k => writer'[j] = writer[j]
    BY <1>0, <1>1 DEF Take, TypeOK
  <2> QED BY <1>0, <1>1, <2>1, <2>2, FileKept DEF Take, file
<1>2. ASSUME NEW k \in Process, Begin(k) PROVE FileInv'
  <2>1. writer'[k].pc = "running" /\ \A j \in Process : j # k => writer'[j] = writer[j]
    BY <1>0, <1>2, WriterStates DEF Begin, TypeOK
  <2> QED BY <1>0, <1>2, <2>1, FileKept DEF Begin, LockIsFree, HasLock
<1>3. ASSUME NEW k \in Process, BeginFails(k) \/ Answer(k) PROVE FileInv'
  <2>1. /\ writer'[k] = Resting /\ \A j \in Process : j # k => writer'[j] = writer[j]
        /\ UNCHANGED file
    BY <1>0, <1>3 DEF BeginFails, Answer, Resolve, TypeOK
  <2>2. ~HasLock(k) /\ ~HasLock(k)'
    BY <1>3, <2>1 DEF BeginFails, Answer, At, HasLock, Resting
  <2> QED BY <1>0, <2>1, <2>2, FileKept DEF file
<1>4. ASSUME NEW k \in Process, Run(k) PROVE FileInv'
  <2>1. /\ writer'[k].pc = "committing" /\ writer'[k].read = version
        /\ \A j \in Process : j # k => writer'[j] = writer[j]
    BY <1>0, <1>4, WriterStates DEF Run, At, TypeOK, Busy, Working
  <2> QED BY <1>0, <1>4, <2>1, FileKept DEF Run, At, HasLock, file
<1>5. ASSUME NEW k \in Process, RolledBack(k) PROVE FileInv'
  <2>1. lock = k
    BY <1>0, <1>5 DEF RolledBack, At, HasLock, FileInv
  <2>2. /\ writer'[k] = Resting /\ \A j \in Process : j # k => writer'[j] = writer[j]
    BY <1>0, <1>5 DEF RolledBack, Resolve, TypeOK
  <2> QED BY <1>0, <1>5, <2>1, <2>2, FileKept DEF RolledBack, HasLock, Resting
<1>6. ASSUME NEW k \in Process, Commit(k) PROVE FileInv'
  <2>1. HasLock(k) /\ Busy(k) /\ writer[k].job \in Write /\ writer[k].read = version
    BY <1>0, <1>6, WriterStates DEF Commit, At, HasLock, FileInv
  <2>2. writer[k].job \notin committed
    BY <1>0, <1>6, <2>1 DEF JobInv, Commit, At
  <2>3. /\ writer'[k].pc = "answering"
        /\ \A j \in Process : j # k => writer'[j] = writer[j]
    BY <1>0, <1>6, <2>1 DEF Commit, TypeOK, Busy, Working
  <2>4. /\ IsFiniteSet(committed')
        /\ Cardinality(committed') = Cardinality(committed) + 1
    BY <1>0, <1>6, <2>2, FS_AddElement DEF Commit, Stored, FileInv
  <2>5. \A j \in Process : ~HasLock(j)'
    BY <1>0, <2>1, <2>3, OneHasLock DEF HasLock
  <2>6. lock' = Nobody /\ version' = version + 1
    BY <1>6, <2>1 DEF Commit, Stored
  <2> QED BY <1>0, <2>4, <2>5, <2>6 DEF FileInv, HasLock, At
<1>7. ASSUME NEW k \in Process, Crash(k) PROVE FileInv'
  <2>1. /\ writer'[k] = Resting /\ \A j \in Process : j # k => writer'[j] = writer[j]
    BY <1>0, <1>7 DEF Crash, TypeOK
  <2>2. ~HasLock(k)'
    BY <2>1 DEF HasLock, Resting
  <2>3. \/ lock = k /\ lock' = Nobody
        \/ lock' = lock /\ ~HasLock(k)
    BY <1>0, <1>7 DEF Crash, FileInv
  <2> QED BY <1>0, <1>7, <2>1, <2>2, <2>3, FileKept DEF Crash
<1>8. CASE UNCHANGED <<file, writer>>
  BY <1>0, <1>8 DEF file, FileInv, HasLock, At
<1> QED BY <1>1, <1>2, <1>3, <1>4, <1>5, <1>6, <1>7, <1>8
  DEF Next, WriterStep, Submit, CloseBegins, CloseReturns, vars, file

-----------------------------------------------------------------------------
(***************************************************************************)
(* The jobs.                                                               *)
(***************************************************************************)

\* Something joins a queue, where it is not yet or is the sentinel.
LEMMA JobQueued ==
  ASSUME TypeOK, NEW k \in Process, NEW e \in Write \cup {Stop},
         jobs' = [jobs EXCEPT ![k] = Append(@, e)],
         e = Stop \/ ~Queued(k, e)
  PROVE  /\ \A j \in Process, w \in Write : Queued(j, w)' => Queued(j, w) \/ (j = k /\ w = e)
         /\ \A j \in Process : QueuedOnce(j) => QueuedOnce(j)'
<1>1. jobs[k] \in Seq(Write \cup {Stop}) /\ jobs'[k] = Append(jobs[k], e)
  BY DEF TypeOK
<1>2. /\ DOMAIN jobs[k] = 1 .. Len(jobs[k]) /\ Len(jobs[k]) \in Nat
      /\ DOMAIN jobs'[k] = 1 .. Len(jobs[k]) + 1
      /\ jobs'[k][Len(jobs[k]) + 1] = e
      /\ \A i \in 1 .. Len(jobs[k]) : jobs'[k][i] = jobs[k][i]
  BY <1>1, Appended
<1>3. \A j \in Process : j # k => jobs'[j] = jobs[j]
  BY DEF TypeOK
<1>4. \A i \in DOMAIN jobs'[k] : i \in DOMAIN jobs[k] \/ i = Len(jobs[k]) + 1
  BY <1>2
<1>5. ASSUME NEW j \in Process, NEW w \in Write, Queued(j, w)'
      PROVE  Queued(j, w) \/ (j = k /\ w = e)
  <2>1. CASE j # k
    BY <1>3, <1>5, <2>1 DEF Queued
  <2>2. CASE j = k
    BY <1>2, <1>4, <1>5, <2>2 DEF Queued
  <2> QED BY <2>1, <2>2
<1>6. ASSUME NEW j \in Process, QueuedOnce(j) PROVE QueuedOnce(j)'
  <2>1. CASE j # k
    BY <1>3, <1>6, <2>1 DEF QueuedOnce
  <2>2. CASE j = k
    BY <1>2, <1>4, <1>6, <2>2 DEF Queued, QueuedOnce
  <2> QED BY <2>1, <2>2
<1> QED BY <1>5, <1>6

\* The head leaves it.
LEMMA JobTaken ==
  ASSUME TypeOK, NEW k \in Process, jobs[k] # <<>>, NEW h, h = Head(jobs[k]),
         jobs' = [jobs EXCEPT ![k] = Tail(@)]
  PROVE  /\ \A j \in Process, w \in Write : Queued(j, w)' => Queued(j, w)
         /\ \A j \in Process : QueuedOnce(j) => QueuedOnce(j)'
         /\ Queued(k, h)
         /\ QueuedOnce(k) /\ h # Stop => ~Queued(k, h)'
<1>1. jobs[k] \in Seq(Write \cup {Stop}) /\ jobs'[k] = Tail(jobs[k])
  BY DEF TypeOK
<1>2. /\ DOMAIN jobs[k] = 1 .. Len(jobs[k]) /\ Len(jobs[k]) \in Nat \ {0}
      /\ Head(jobs[k]) = jobs[k][1]
      /\ DOMAIN jobs'[k] = 1 .. Len(jobs[k]) - 1
      /\ \A i \in 1 .. Len(jobs[k]) - 1 : jobs'[k][i] = jobs[k][i + 1]
  BY <1>1, Taken
<1>3. \A j \in Process : j # k => jobs'[j] = jobs[j]
  BY DEF TypeOK
<1>4. \A i \in DOMAIN jobs'[k] : i + 1 \in DOMAIN jobs[k] /\ i + 1 # 1 /\ i \in Int
  BY <1>2
<1>5. ASSUME NEW j \in Process, NEW w \in Write, Queued(j, w)' PROVE Queued(j, w)
  <2>1. CASE j # k
    BY <1>3, <1>5, <2>1 DEF Queued
  <2>2. CASE j = k
    <3>1. PICK i \in DOMAIN jobs'[k] : jobs'[k][i] = w
      BY <1>5, <2>2 DEF Queued
    <3>2. jobs[k][i + 1] = w
      BY <1>2, <3>1
    <3> QED BY <1>4, <2>2, <3>2 DEF Queued
  <2> QED BY <2>1, <2>2
<1>6. ASSUME NEW j \in Process, QueuedOnce(j) PROVE QueuedOnce(j)'
  <2>1. CASE j # k
    BY <1>3, <1>6, <2>1 DEF QueuedOnce
  <2>2. CASE j = k
    <3> SUFFICES ASSUME NEW a \in DOMAIN jobs'[k], NEW b \in DOMAIN jobs'[k],
                        jobs'[k][a] = jobs'[k][b], jobs'[k][a] # Stop
                 PROVE  a = b
      BY <2>2 DEF QueuedOnce
    <3>1. jobs[k][a + 1] = jobs[k][b + 1] /\ jobs[k][a + 1] # Stop
      BY <1>2
    <3>2. a + 1 = b + 1
      BY <1>4, <1>6, <2>2, <3>1 DEF QueuedOnce
    <3> QED BY <1>4, <3>2
  <2> QED BY <2>1, <2>2
<1>7. Queued(k, h)
  BY <1>2 DEF Queued
<1>8. ASSUME QueuedOnce(k), h # Stop PROVE ~Queued(k, h)'
  <2> SUFFICES ASSUME NEW i \in DOMAIN jobs'[k], jobs'[k][i] = h PROVE FALSE
    BY DEF Queued
  <2>1. jobs[k][i + 1] = jobs[k][1] /\ 1 \in DOMAIN jobs[k]
    BY <1>2
  <2> QED BY <1>2, <1>4, <1>8, <2>1 DEF QueuedOnce
<1> QED BY <1>5, <1>6, <1>7, <1>8

\* A writer with a job in hand.
InHand(k) ==
  /\ Home[writer[k].job] = k
  /\ call[writer[k].job] = "asked"
  /\ ~Queued(k, writer[k].job)
  /\ writer[k].job \in committed <=> At(k, "answering")

\* The job of one writer is in no other hand and in no queue.
LEMMA JobIsInOnePlace ==
  ASSUME DbInv, NEW k \in Process, Busy(k)
  PROVE  /\ InHand(k) /\ writer[k].job \in Write
         /\ \A j \in Process : ~Queued(j, writer[k].job)
         /\ \A j \in Process : j # k /\ Busy(j) => writer[j].job # writer[k].job
<1>1. TypeOK /\ JobInv
  BY DEF DbInv
<1>2. InHand(k) /\ writer[k].job \in Write
  BY <1>1, WriterStates DEF JobInv, InHand
<1> QED BY <1>1, <1>2 DEF JobInv, InHand

\* The call ends: nobody else had anything to do with it.
LEMMA JobResolved ==
  ASSUME DbInv, NEW k \in Process, Busy(k), NEW o \in {"done", "failed"}, Resolve(k, o),
         committed' = committed
  PROVE  JobInv'
<1> DEFINE w == writer[k].job
<1>1. TypeOK /\ JobInv
  BY DEF DbInv
<1>2. /\ w \in Write
      /\ \A j \in Process : ~Queued(j, w)
      /\ \A j \in Process : j # k /\ Busy(j) => writer[j].job # w
  BY JobIsInOnePlace
<1>3. /\ jobs' = jobs
      /\ call'[w] = o /\ \A v \in Write : v # w => call'[v] = call[v]
      /\ writer'[k] = Resting /\ \A j \in Process : j # k => writer'[j] = writer[j]
  BY <1>1, <1>2 DEF Resolve, TypeOK
<1> HIDE DEF w
<1>4. \A j \in Process, v \in Write : Queued(j, v)' <=> Queued(j, v)
  BY <1>3 DEF Queued
<1>5. \A v \in Write : call'[v] = "unasked" => v \notin committed'
  BY <1>1, <1>3 DEF JobInv
<1>6. \A j \in Process, v \in Write : Queued(j, v)' =>
        Home[v] = j /\ call'[v] = "asked" /\ v \notin committed'
  BY <1>1, <1>2, <1>3, <1>4 DEF JobInv
<1>7. \A j \in Process : QueuedOnce(j)'
  BY <1>1, <1>3 DEF JobInv, QueuedOnce
<1>8. ASSUME NEW j \in Process, Busy(j)' PROVE InHand(j)'
  <2>1. j # k
    BY <1>3, <1>8 DEF Busy, Working, Resting
  <2>2. writer'[j] = writer[j] /\ Busy(j)
    BY <1>3, <1>8, <2>1 DEF Busy
  <2>3. InHand(j) /\ writer[j].job \in Write /\ writer[j].job # w
    BY <1>2, <2>1, <2>2, JobIsInOnePlace
  <2> QED BY <1>3, <2>2, <2>3 DEF InHand, Queued, At
<1> QED BY <1>5, <1>6, <1>7, <1>8 DEF JobInv, InHand

LEMMA JobStep ==
  ASSUME DbInv, [Next]_vars
  PROVE  JobInv'
<1> USE DbAssumption
<1>0. TypeOK /\ JobInv
  BY DEF DbInv
<1>1. ASSUME NEW w \in Write, Submit(w) PROVE JobInv'
  <2>1. /\ call[w] = "unasked" /\ w \notin committed /\ Home[w] \in Process
        /\ \A j \in Process : ~Queued(j, w)
        /\ UNCHANGED <<committed, writer>>
    BY <1>0, <1>1 DEF Submit, JobInv, file
  <2>2. /\ call'[w] \in {"asked", "failed"}
        /\ \A v \in Write : v # w => call'[v] = call[v]
    BY <1>0, <1>1 DEF Submit, SubmitUnlessClosed, Enqueued, TypeOK
  <2>3. /\ \A j \in Process, v \in Write : Queued(j, v)' =>
             Queued(j, v) \/ (j = Home[w] /\ v = w /\ call'[w] = "asked")
        /\ \A j \in Process : QueuedOnce(j)'
    <3>1. CASE jobs' = jobs
      BY <1>0, <3>1 DEF Queued, QueuedOnce, JobInv
    <3>2. CASE jobs' = [jobs EXCEPT ![Home[w]] = Append(@, w)] /\ call'[w] = "asked"
      <4>1. /\ \A j \in Process, v \in Write :
                Queued(j, v)' => Queued(j, v) \/ (j = Home[w] /\ v = w)
            /\ \A j \in Process : QueuedOnce(j) => QueuedOnce(j)'
        <5>1. ~Queued(Home[w], w) /\ w \in Write \cup {Stop} /\ TypeOK
          BY <1>0, <2>1
        <5> QED BY ONLY <2>1, <3>2, <5>1, JobQueued
      <4> QED BY <1>0, <3>2, <4>1 DEF JobInv
    <3> QED BY <1>0, <1>1, <3>1, <3>2 DEF Submit, SubmitUnlessClosed, Enqueued, TypeOK
  <2>4. ASSUME NEW j \in Process, Busy(j)' PROVE InHand(j)'
    <3>1. Busy(j) /\ writer'[j] = writer[j]
      BY <2>1, <2>4 DEF Busy
    <3>2. InHand(j) /\ writer[j].job \in Write /\ writer[j].job # w
      BY <2>1, <3>1, JobIsInOnePlace DEF InHand
    <3>3. ~Queued(j, writer[j].job)'
      BY <2>1, <2>3, <3>1, <3>2 DEF InHand
    <3> QED BY <2>1, <2>2, <3>1, <3>2, <3>3 DEF InHand, At
  <2>5. \A v \in Write : call'[v] = "unasked" => v \notin committed'
    BY <1>0, <2>1, <2>2 DEF JobInv
  <2>6. \A j \in Process, v \in Write : Queued(j, v)' =>
          Home[v] = j /\ call'[v] = "asked" /\ v \notin committed'
    BY <1>0, <2>1, <2>2, <2>3 DEF JobInv
  <2> QED BY <2>3, <2>4, <2>5, <2>6 DEF JobInv, InHand
<1>2. ASSUME NEW k \in Process, CloseBegins(k) PROVE JobInv'
  <2>1. UNCHANGED <<committed, writer, call>> /\ jobs' = [jobs EXCEPT ![k] = Append(@, Stop)]
    BY <1>2 DEF CloseBegins, file
  <2>2. /\ \A j \in Process, v \in Write : Queued(j, v)' => Queued(j, v)
        /\ \A j \in Process : QueuedOnce(j)'
    <3>1. /\ \A j \in Process, v \in Write : Queued(j, v)' => Queued(j, v) \/ (j = k /\ v = Stop)
          /\ \A j \in Process : QueuedOnce(j) => QueuedOnce(j)'
      <4>1. Stop \in Write \cup {Stop} /\ TypeOK
        BY <1>0
      <4> QED BY ONLY <2>1, <4>1, JobQueued
    <3> QED BY <1>0, <3>1 DEF JobInv
  <2>3. ASSUME NEW j \in Process, Busy(j)' PROVE InHand(j)'
    <3>1. Busy(j) /\ InHand(j) /\ writer[j].job \in Write
      BY <2>1, <2>3, JobIsInOnePlace DEF Busy
    <3> QED BY <2>1, <2>2, <3>1 DEF InHand, At
  <2> QED BY <1>0, <2>1, <2>2, <2>3 DEF JobInv, InHand
<1>3. ASSUME NEW k \in Process, Take(k) PROVE JobInv'
  <2>1. PICK h : h = Head(jobs[k])
    OBVIOUS
  <2>2. /\ UNCHANGED <<committed, call>> /\ jobs[k] # <<>>
        /\ jobs' = [jobs EXCEPT ![k] = Tail(@)]
        /\ \A j \in Process : j # k => writer'[j] = writer[j]
        /\ writer'[k] = IF h = Stop THEN Stopped ELSE [pc |-> "beginning", job |-> h, read |-> 0]
        /\ h \in Write \cup {Stop}
    BY <1>0, <1>3, <2>1, Taken DEF Take, file, TypeOK
  <2>3. /\ \A j \in Process, v \in Write : Queued(j, v)' => Queued(j, v)
        /\ \A j \in Process : QueuedOnce(j)'
        /\ Queued(k, h)
        /\ h # Stop => ~Queued(k, h)'
    BY <1>0, <2>1, <2>2, JobTaken DEF JobInv
  <2>4. ASSUME NEW j \in Process, Busy(j)' PROVE InHand(j)'
    <3>1. CASE j = k
      <4>1. h # Stop /\ writer'[k].job = h /\ writer'[k].pc = "beginning"
        BY <2>2, <2>4, <3>1 DEF Busy, Working, Stopped
      <4>2. h \in Write /\ Home[h] = k /\ call[h] = "asked" /\ h \notin committed
        BY <1>0, <2>2, <2>3, <4>1 DEF JobInv
      <4> QED BY <2>2, <2>3, <3>1, <4>1, <4>2 DEF InHand, At
    <3>2. CASE j # k
      <4>1. Busy(j) /\ writer'[j] = writer[j]
        BY <2>2, <2>4, <3>2 DEF Busy
      <4>2. InHand(j) /\ writer[j].job \in Write
        BY <4>1, JobIsInOnePlace
      <4> QED BY <2>2, <2>3, <4>1, <4>2 DEF InHand, At
    <3> QED BY <3>1, <3>2
  <2> QED BY <1>0, <2>2, <2>3, <2>4 DEF JobInv, InHand
<1>4. ASSUME NEW k \in Process, Begin(k) \/ Run(k) PROVE JobInv'
  <2>1. /\ UNCHANGED <<committed, jobs, call>> /\ Busy(k) /\ ~At(k, "answering")
        /\ \A j \in Process : j # k => writer'[j] = writer[j]
        /\ writer'[k].job = writer[k].job /\ writer'[k].pc # "answering"
    BY <1>0, <1>4, WriterStates DEF Begin, Run, At, file, TypeOK, Busy, Working
  <2>2. ASSUME NEW j \in Process, Busy(j)' PROVE InHand(j)'
    <3>1. Busy(j) /\ writer'[j].job = writer[j].job /\ (At(j, "answering")' <=> At(j, "answering"))
      BY <2>1, <2>2 DEF Busy, At
    <3>2. InHand(j)
      BY <3>1, JobIsInOnePlace
    <3> QED BY <2>1, <3>1, <3>2 DEF InHand, Queued
  <2> QED BY <1>0, <2>1, <2>2 DEF JobInv, InHand, Queued, QueuedOnce
<1>5. ASSUME NEW k \in Process, BeginFails(k) \/ RolledBack(k) \/ Answer(k) PROVE JobInv'
  <2>1. Busy(k) /\ committed' = committed /\ \E o \in {"done", "failed"} : Resolve(k, o)
    BY <1>0, <1>5, WriterStates DEF BeginFails, RolledBack, Answer, At, file
  <2> QED BY <2>1, JobResolved
<1>6. ASSUME NEW k \in Process, Commit(k) PROVE JobInv'
  <2>1. Busy(k)
    BY <1>0, <1>6, WriterStates DEF Commit, At
  <2>2. PICK w \in Write : w = writer[k].job
    BY <2>1, JobIsInOnePlace
  <2>3. /\ InHand(k)
        /\ \A j \in Process : ~Queued(j, w)
        /\ \A j \in Process : j # k /\ Busy(j) => writer[j].job # w
    BY <2>1, <2>2, JobIsInOnePlace
  <2>4. /\ UNCHANGED <<jobs, call>> /\ committed' = committed \cup {w}
        /\ \A j \in Process : j # k => writer'[j] = writer[j]
        /\ writer'[k].job = w /\ writer'[k].pc = "answering"
    BY <1>0, <1>6, <2>1, <2>2 DEF Commit, Stored, TypeOK, Busy, Working
  <2>5. ASSUME NEW j \in Process, Busy(j)' PROVE InHand(j)'
    <3>1. CASE j = k
      BY <2>2, <2>3, <2>4, <3>1 DEF InHand, At, Queued
    <3>2. CASE j # k
      <4>1. Busy(j) /\ writer'[j] = writer[j]
        BY <2>4, <2>5, <3>2 DEF Busy
      <4>2. InHand(j) /\ writer[j].job # w
        BY <2>3, <3>2, <4>1, JobIsInOnePlace
      <4> QED BY <2>4, <4>1, <4>2 DEF InHand, At, Queued
    <3> QED BY <3>1, <3>2
  <2>6. \A v \in Write : call'[v] = "unasked" => v \notin committed'
    BY <1>0, <2>2, <2>3, <2>4 DEF JobInv, InHand
  <2>7. \A j \in Process, v \in Write : Queued(j, v)' =>
          Home[v] = j /\ call'[v] = "asked" /\ v \notin committed'
    BY <1>0, <2>3, <2>4 DEF JobInv, Queued
  <2>8. \A j \in Process : QueuedOnce(j)'
    BY <1>0, <2>4 DEF JobInv, QueuedOnce
  <2> QED BY <2>5, <2>6, <2>7, <2>8 DEF JobInv, InHand
<1>7. ASSUME NEW k \in Process, Crash(k) PROVE JobInv'
  <2>1. /\ committed' = committed
        /\ jobs'[k] = <<>> /\ \A j \in Process : j # k => jobs'[j] = jobs[j]
        /\ writer'[k] = Resting /\ \A j \in Process : j # k => writer'[j] = writer[j]
        /\ \A v \in Write : call'[v] \in {call[v], "lost"} /\ (Home[v] # k => call'[v] = call[v])
    BY <1>0, <1>7 DEF Crash, TypeOK
  <2>2. \A j \in Process, v \in Write : Queued(j, v)' => j # k /\ Queued(j, v)
    BY <2>1 DEF Queued
  <2>3. \A j \in Process : QueuedOnce(j)'
    BY <1>0, <2>1 DEF JobInv, QueuedOnce
  <2>4. ASSUME NEW j \in Process, Busy(j)' PROVE InHand(j)'
    <3>1. j # k /\ Busy(j) /\ writer'[j] = writer[j]
      BY <2>1, <2>4 DEF Busy, Working, Resting
    <3>2. InHand(j) /\ writer[j].job \in Write
      BY <3>1, JobIsInOnePlace
    <3>3. call'[writer[j].job] = call[writer[j].job] /\ ~Queued(j, writer[j].job)'
      BY <2>1, <2>2, <3>1, <3>2 DEF InHand, Queued
    <3> QED BY <2>1, <3>1, <3>2, <3>3 DEF InHand, At
  <2>5. \A v \in Write : call'[v] = "unasked" => v \notin committed'
    BY <1>0, <2>1 DEF JobInv
  <2>6. \A j \in Process, v \in Write : Queued(j, v)' =>
          Home[v] = j /\ call'[v] = "asked" /\ v \notin committed'
    BY <1>0, <2>1, <2>2 DEF JobInv
  <2> QED BY <2>3, <2>4, <2>5, <2>6 DEF JobInv, InHand
<1>8. CASE UNCHANGED <<committed, jobs, writer, call>>
  BY <1>0, <1>8 DEF JobInv, Queued, QueuedOnce, Busy, At
<1> QED BY <1>1, <1>2, <1>3, <1>4, <1>5, <1>6, <1>7, <1>8
  DEF Next, WriterStep, CloseReturns, vars, file

-----------------------------------------------------------------------------
LEMMA DbInvariant == Spec => []DbInv
<1>1. Init => FileInv /\ JobInv
  <2> SUFFICES ASSUME Init PROVE FileInv /\ JobInv
    OBVIOUS
  <2>1. /\ committed = {} /\ version = 0 /\ lock = Nobody
        /\ \A k \in Process : jobs[k] = <<>> /\ writer[k] = Resting
    BY DEF Init
  <2>2. FileInv
    BY <2>1, DbAssumption, FS_EmptySet DEF FileInv, HasLock, At, Resting
  <2>3. JobInv
    BY <2>1 DEF JobInv, Queued, QueuedOnce, Busy, Working, Resting
  <2> QED BY <2>2, <2>3
<1>2. TypeOK /\ TypeOK' /\ FileInv /\ JobInv /\ [Next]_vars => FileInv' /\ JobInv'
  BY FileStep, JobStep DEF DbInv
<1> QED BY <1>1, <1>2, DbTypeCorrect, PTL DEF Spec, DbInv

\* Whichever processes write, fail and die, the value every write reads and
\* replaces counts the writes in the file.
THEOREM NothingIsLost == Spec => []NoLostUpdate
<1>1. DbInv => NoLostUpdate
  BY DEF DbInv, FileInv, NoLostUpdate
<1> QED BY <1>1, DbInvariant, PTL

-----------------------------------------------------------------------------
(***************************************************************************)
(* The databases implement the store that their callers are promised.      *)
(***************************************************************************)

\* A step that ends a call says what is so of it.
LEMMA ResolveTells ==
  ASSUME DbInv, NEW k \in Process, Busy(k), UNCHANGED committed,
         Resolve(k, IF At(k, "answering") THEN "done" ELSE "failed")
  PROVE  Store!Tell(writer[k].job) /\ writer[k].job \in Write
<1>1. InHand(k) /\ writer[k].job \in Write
  BY JobIsInOnePlace
<1> QED BY <1>1 DEF Resolve, InHand, Store!Tell

LEMMA StepMapsToStore ==
  ASSUME DbInv, [Next]_vars
  PROVE  [Store!Next]_(Store!storeVars)
<1> USE DEF Store!storeVars
<1>0. TypeOK
  BY DEF DbInv
<1>1. ASSUME NEW w \in Write, Submit(w) PROVE Store!Next
  <2>1. Store!Ask(w) \/ Store!TurnAway(w)
    BY <1>1 DEF Submit, SubmitUnlessClosed, Enqueued, file, Store!Ask, Store!TurnAway
  <2> QED BY <2>1 DEF Store!Next
<1>2. ASSUME NEW k \in Process, Take(k) \/ Begin(k) \/ Run(k) \/ CloseBegins(k) \/ CloseReturns(k)
      PROVE  UNCHANGED Store!storeVars
  BY <1>2 DEF Take, Begin, Run, CloseBegins, CloseReturns, file
<1>3. ASSUME NEW k \in Process, BeginFails(k) \/ RolledBack(k) \/ Answer(k) PROVE Store!Next
  <2>1. Busy(k) /\ UNCHANGED committed
    BY <1>0, <1>3, WriterStates DEF BeginFails, RolledBack, Answer, At, file
  <2>2. Resolve(k, IF At(k, "answering") THEN "done" ELSE "failed")
    BY <1>3 DEF BeginFails, RolledBack, Answer, At
  <2>3. Store!Tell(writer[k].job) /\ writer[k].job \in Write
    BY <2>1, <2>2, ResolveTells
  <2> QED BY <2>3 DEF Store!Next
<1>4. ASSUME NEW k \in Process, Commit(k) PROVE Store!Next
  <2>1. Busy(k)
    BY <1>0, <1>4, WriterStates DEF Commit, At
  <2>2. InHand(k) /\ writer[k].job \in Write
    BY <2>1, JobIsInOnePlace
  <2>3. Store!Apply(writer[k].job)
    BY <1>4, <2>2 DEF Commit, Stored, At, InHand, Store!Apply
  <2> QED BY <2>2, <2>3 DEF Store!Next
<1>5. ASSUME NEW k \in Process, Crash(k) PROVE Store!Next
  <2> DEFINE W == {w \in Write : Home[w] = k}
  <2>1. call' = [w \in Write |-> IF w \in W /\ call[w] = "asked" THEN "lost" ELSE call[w]]
    BY <1>5 DEF Crash
  <2>2. Store!Lose(W) /\ W \in SUBSET Write
    BY <1>5, <2>1 DEF Crash, Store!Lose
  <2> QED BY <2>2 DEF Store!Next
<1>6. CASE UNCHANGED vars
  BY <1>6 DEF vars
<1> QED BY <1>1, <1>2, <1>3, <1>4, <1>5, <1>6 DEF Next, WriterStep

\* Through failing commits, closed databases and crashes, a write is made whole
\* or not at all, once, and its caller hears nothing but the truth.
THEOREM WritesAreAtomic == Spec => StoreIsAtomic
<1>1. Init => Store!Init
  BY DEF Init, Store!Init
<1>2. DbInv /\ [Next]_vars => [Store!Next]_(Store!storeVars)
  BY StepMapsToStore
<1> QED BY <1>1, <1>2, DbInvariant, PTL DEF Spec, StoreIsAtomic, Store!Spec
=============================================================================
