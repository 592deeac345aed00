---------------------------- MODULE AtomicStore ----------------------------
(***************************************************************************)
(* What Database.write promises its callers: a write happens whole or not  *)
(* at all, and a caller that is told an outcome is told the true one.      *)
(***************************************************************************)
CONSTANT Write  \* the calls of write()

VARIABLES
  committed,    \* the writes the file holds
  told          \* what each caller has heard

storeVars == <<committed, told>>

Init ==
  /\ committed = {}
  /\ told = [w \in Write |-> "unasked"]

Ask(w) ==
  /\ told[w] = "unasked"
  /\ told' = [told EXCEPT ![w] = "asked"]
  /\ UNCHANGED committed

\* Turned away by a database that is closed.
TurnAway(w) ==
  /\ told[w] = "unasked"
  /\ told' = [told EXCEPT ![w] = "failed"]
  /\ UNCHANGED committed

Apply(w) ==
  /\ told[w] = "asked"
  /\ w \notin committed
  /\ committed' = committed \cup {w}
  /\ UNCHANGED told

\* The caller hears what is so.
Tell(w) ==
  /\ told[w] = "asked"
  /\ told' = [told EXCEPT ![w] = IF w \in committed THEN "done" ELSE "failed"]
  /\ UNCHANGED committed

\* The processes of some callers die: they hear nothing, and what was not
\* written by then never is.
Lose(W) ==
  /\ told' = [w \in Write |-> IF w \in W /\ told[w] = "asked" THEN "lost" ELSE told[w]]
  /\ UNCHANGED committed

Next ==
  \/ \E w \in Write : Ask(w) \/ TurnAway(w) \/ Apply(w) \/ Tell(w)
  \/ \E W \in SUBSET Write : Lose(W)

Spec == Init /\ [][Next]_storeVars
=============================================================================
