--------------------------- MODULE PriorityQueue ---------------------------
(***************************************************************************)
(* Which row of one partner's message_queue is next.                       *)
(*                                                                         *)
(* A queue is the sequence of the partner's rows in the order they were    *)
(* inserted, so a position stands for the pair (enqueued_at, id) the SQL   *)
(* sorts on.  A row is a record with at least a `label` and a `paused`     *)
(* field (the column in_process).                                          *)
(*                                                                         *)
(* The rule takes two statements: the first picks the label, the second    *)
(* the row within it.  Rank is a parameter because the ranks are data: two *)
(* labels may be given the same one.                                       *)
(***************************************************************************)
EXTENDS Naturals, Sequences, FiniteSets

CONSTANT Rank   \* label_caps.priority, a function from labels to numbers

\* The positions of the rows carrying label l.
RowsOf(q, l) == {i \in DOMAIN q : q[i].label = l}

\* The positions of the rows that were never in the working slot.
FreshRows(q) == {i \in DOMAIN q : ~q[i].paused}

LabelsIn(q) == {q[i].label : i \in DOMAIN q}

\* S is never later than T: the comparison of two MIN(enqueued_at) keys.
EarlierThan(S, T) == \E i \in S : \A j \in T : i < j

\* The label order without its third key, the arrival of the fresh rows.
LabelBeforeByOldestRow(q, l, m) ==
  LET fresh(k)  == RowsOf(q, k) \cap FreshRows(q)
  IN  \/ Rank[l] < Rank[m]
      \/ /\ Rank[l] = Rank[m]
         /\ \/ fresh(l) # {} /\ fresh(m) = {}
            \/ /\ fresh(l) = {} <=> fresh(m) = {}
               /\ EarlierThan(RowsOf(q, l), RowsOf(q, m))

(***************************************************************************)
(* _HEAD_LABEL_SQL: l comes before m in the order of the labels.  The keys *)
(* are the rank; whether the label has any fresh row; the arrival of its   *)
(* earliest fresh row; the arrival of its earliest row of any kind.        *)
(***************************************************************************)
LabelBefore(q, l, m) ==
  LET fresh(k)  == RowsOf(q, k) \cap FreshRows(q)
  IN  \/ Rank[l] < Rank[m]
      \/ /\ Rank[l] = Rank[m]
         /\ \/ fresh(l) # {} /\ fresh(m) = {}
            \/ fresh(l) # {} /\ fresh(m) # {} /\ EarlierThan(fresh(l), fresh(m))
            \/ fresh(l) = {} /\ fresh(m) = {} /\ EarlierThan(RowsOf(q, l), RowsOf(q, m))

\* The row order of a queue that does not know what was started.
RowBeforeByArrival(q, i, j) == i < j

\* _HEAD_ROW_SQL: within one label a paused row goes first, then the oldest.
RowBefore(q, i, j) ==
  \/ q[i].paused /\ ~q[j].paused
  \/ q[i].paused = q[j].paused /\ i < j

IsHeadLabel(q, l) == \A m \in LabelsIn(q) \ {l} : LabelBefore(q, l, m)

\* Position i of q is the row the queue hands out next.
IsHead(q, i) ==
  /\ i \in DOMAIN q
  /\ IsHeadLabel(q, q[i].label)
  /\ \A j \in RowsOf(q, q[i].label) \ {i} : RowBefore(q, i, j)

\* A strictly better rank is what it takes to displace a task.
Outranks(l, m) == Rank[l] < Rank[m]
=============================================================================
