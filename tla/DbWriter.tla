------------------------------ MODULE DbWriter ------------------------------
(***************************************************************************)
(* The Database objects of several processes on one SQLite file.  Each has *)
(* one writer thread, which takes the calls of write() from a queue and    *)
(* runs each of them between BEGIN IMMEDIATE and COMMIT; close() puts a    *)
(* sentinel behind them.  A write reads a value and stores one that        *)
(* depends on it, as every admission under a cap does.                     *)
(***************************************************************************)
EXTENDS Naturals, Sequences, FiniteSets

CONSTANTS
  Process,  \* the processes that opened the file
  Write,    \* the calls of write(), one thread each
  Home,     \* the process a call is made in
  Stop,     \* the sentinel on the job queue
  Nobody,   \* no process
  Faults    \* what may go wrong: "commit" fails, a process "crash"es

ASSUME DbAssumption ==
  /\ Home \in [Write -> Process]
  /\ Stop \notin Write
  /\ Nobody \notin Process
  /\ Faults \subseteq {"commit", "crash"}

VARIABLES
  committed,  \* the file: the writes it holds
  version,    \* the file: the value every write reads and replaces
  lock,       \* SQLite's write lock on the file
  jobs,       \* _job_queue
  writer,     \* the writer thread: where it is, its job, what the job has read
  closed,     \* _closed
  closing,    \* where close() is
  call        \* the calls of write()

file == <<committed, version, lock>>
vars == <<committed, version, lock, jobs, writer, closed, closing, call>>

Resting == [pc |-> "resting"]
Stopped == [pc |-> "stopped"]
Working == [pc : {"beginning", "running", "committing", "answering"}, job : Write, read : Nat]

TypeOK ==
  /\ committed \in SUBSET Write
  /\ version \in Nat
  /\ lock \in Process \cup {Nobody}
  /\ jobs \in [Process -> Seq(Write \cup {Stop})]
  /\ writer \in [Process -> Working \cup {Resting, Stopped}]
  /\ closed \in [Process -> BOOLEAN]
  /\ closing \in [Process -> {"open", "joining", "returned"}]
  /\ call \in [Write -> {"unasked", "asked", "done", "failed", "lost"}]

Init ==
  /\ committed = {}
  /\ version = 0
  /\ lock = Nobody
  /\ jobs = [k \in Process |-> <<>>]
  /\ writer = [k \in Process |-> Resting]
  /\ closed = [k \in Process |-> FALSE]
  /\ closing = [k \in Process |-> "open"]
  /\ call = [w \in Write |-> "unasked"]

At(k, pc) == writer[k].pc = pc

-----------------------------------------------------------------------------
(***************************************************************************)
(* The callers.                                                            *)
(***************************************************************************)

Enqueued(w) ==
  /\ jobs' = [jobs EXCEPT ![Home[w]] = Append(@, w)]
  /\ call' = [call EXCEPT ![w] = "asked"]

\* A submit that does not look at _closed.
SubmitAnyway(w) == Enqueued(w)

\* _submit, under the submit lock: the flag is read and the job is put there.
SubmitUnlessClosed(w) ==
  IF closed[Home[w]]
    THEN call' = [call EXCEPT ![w] = "failed"] /\ UNCHANGED jobs
    ELSE Enqueued(w)

Submit(w) ==
  /\ call[w] = "unasked"
  /\ SubmitUnlessClosed(w)
  /\ UNCHANGED <<file, writer, closed, closing>>

\* close(), under the same lock.
CloseBegins(k) ==
  /\ ~closed[k]
  /\ closed' = [closed EXCEPT ![k] = TRUE]
  /\ jobs' = [jobs EXCEPT ![k] = Append(@, Stop)]
  /\ closing' = [closing EXCEPT ![k] = "joining"]
  /\ UNCHANGED <<file, writer, call>>

\* join() returns when the writer thread has ended.
CloseReturns(k) ==
  /\ closing[k] = "joining"
  /\ At(k, "stopped")
  /\ closing' = [closing EXCEPT ![k] = "returned"]
  /\ UNCHANGED <<file, jobs, writer, closed, call>>

-----------------------------------------------------------------------------
(***************************************************************************)
(* The writer thread.                                                      *)
(***************************************************************************)

Take(k) ==
  /\ At(k, "resting")
  /\ jobs[k] # <<>>
  /\ writer' = [writer EXCEPT ![k] =
       IF Head(jobs[k]) = Stop THEN Stopped
       ELSE [pc |-> "beginning", job |-> Head(jobs[k]), read |-> 0]]
  /\ jobs' = [jobs EXCEPT ![k] = Tail(@)]
  /\ UNCHANGED <<file, closed, closing, call>>

\* A deferred BEGIN, which takes no lock.
MayBegin(k) == TRUE

\* BEGIN IMMEDIATE takes the file's write lock.
LockIsFree(k) == lock = Nobody

Begin(k) ==
  /\ At(k, "beginning")
  /\ LockIsFree(k)
  /\ lock' = k
  /\ writer' = [writer EXCEPT ![k].pc = "running"]
  /\ UNCHANGED <<committed, version, jobs, closed, closing, call>>

\* The future gets an outcome and the thread goes back to its queue.
Resolve(k, outcome) ==
  /\ call' = [call EXCEPT ![writer[k].job] = outcome]
  /\ writer' = [writer EXCEPT ![k] = Resting]
  /\ UNCHANGED <<jobs, closed, closing>>

\* busy_timeout ran out: another process holds the lock.
BeginFails(k) ==
  /\ At(k, "beginning")
  /\ lock \notin {Nobody, k}
  /\ Resolve(k, "failed")
  /\ UNCHANGED file

\* The function runs on the connection.
Run(k) ==
  /\ At(k, "running")
  /\ writer' = [writer EXCEPT ![k].pc = "committing", ![k].read = version]
  /\ UNCHANGED <<file, jobs, closed, closing, call>>

Stored(k) ==
  /\ committed' = committed \cup {writer[k].job}
  /\ version' = writer[k].read + 1

\* A failure that is reported and not undone: the next COMMIT writes it.
ReportedOnly(k) ==
  /\ At(k, "committing") /\ "commit" \in Faults
  /\ Resolve(k, "failed")
  /\ lock' = Nobody
  /\ Stored(k)

\* It raises, a refusal for instance, or the COMMIT fails: ROLLBACK.
RolledBack(k) ==
  /\ \/ At(k, "running")
     \/ At(k, "committing") /\ "commit" \in Faults
  /\ Resolve(k, "failed")
  /\ lock' = Nobody
  /\ UNCHANGED <<committed, version>>

Commit(k) ==
  /\ At(k, "committing")
  /\ Stored(k)
  /\ lock' = Nobody
  /\ writer' = [writer EXCEPT ![k].pc = "answering"]
  /\ UNCHANGED <<jobs, closed, closing, call>>

\* set_result.
Answer(k) ==
  /\ At(k, "answering")
  /\ Resolve(k, "done")
  /\ UNCHANGED file

-----------------------------------------------------------------------------
\* The process dies and another opens the file.  SQLite rolls back what was
\* open, the queue and the threads that waited are gone.
Crash(k) ==
  /\ "crash" \in Faults
  /\ lock' = IF lock = k THEN Nobody ELSE lock
  /\ jobs' = [jobs EXCEPT ![k] = <<>>]
  /\ writer' = [writer EXCEPT ![k] = Resting]
  /\ closed' = [closed EXCEPT ![k] = FALSE]
  /\ closing' = [closing EXCEPT ![k] = "open"]
  /\ call' = [w \in Write |-> IF Home[w] = k /\ call[w] = "asked" THEN "lost" ELSE call[w]]
  /\ UNCHANGED <<committed, version>>

WriterStep(k) ==
  Take(k) \/ Begin(k) \/ BeginFails(k) \/ Run(k) \/ RolledBack(k) \/ Commit(k) \/ Answer(k)

Next ==
  \/ \E w \in Write : Submit(w)
  \/ \E k \in Process : WriterStep(k) \/ CloseBegins(k) \/ CloseReturns(k) \/ Crash(k)

Spec == Init /\ [][Next]_vars

\* The writer thread runs, and so does the thread that joins it.
Fairness == \A k \in Process : WF_vars(WriterStep(k)) /\ WF_vars(CloseReturns(k))

FairSpec == Spec /\ Fairness

-----------------------------------------------------------------------------
\* No update is lost, whichever processes write: the value counts the writes
\* that were committed, as the cap on a queue counts its rows.
NoLostUpdate == version = Cardinality(committed)

Store == INSTANCE AtomicStore WITH told <- call

\* Through failing commits, closed databases and crashes a write is made whole
\* or not at all, once, and its caller never hears anything but the truth.
StoreIsAtomic == Store!Spec

\* write() returns: no caller is left waiting on a future nobody resolves,
\* however its call and close() cross.
EveryCallReturns == \A w \in Write : call[w] = "asked" ~> call[w] # "asked"
=============================================================================
