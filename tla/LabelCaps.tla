----------------------------- MODULE LabelCaps -----------------------------
(***************************************************************************)
(* The five message labels and the row each has in the label_caps table:   *)
(* its rank, how many of it one caller may have outstanding, and what a     *)
(* finished task carrying it sends back.  The table is seeded by the schema *)
(* and never written afterwards, so it is constant here.                    *)
(***************************************************************************)
EXTENDS Naturals

\* No label: a NULL in a column that otherwise names one.
NoLabel == "none"

Label == {"TRUTHFUL_REPORT", "MESSAGE_RESPONSE", "ERROR", "QUERY", "RESEARCH"}

\* label_caps.priority: the lower number wins.
Priority ==
  [TRUTHFUL_REPORT  |-> 1,
   MESSAGE_RESPONSE |-> 2,
   ERROR            |-> 3,
   QUERY            |-> 4,
   RESEARCH         |-> 5]

\* label_caps.max_outstanding, for the labels where it is not NULL.
MaxOutstanding == [QUERY |-> 3, RESEARCH |-> 2]
Capped == {"QUERY", "RESEARCH"}

\* label_caps.reply_behavior: what a finished task sends back to its caller.
ReplyBehavior ==
  [TRUTHFUL_REPORT  |-> NoLabel,
   MESSAGE_RESPONSE |-> NoLabel,
   ERROR            |-> NoLabel,
   QUERY            |-> "MESSAGE_RESPONSE",
   RESEARCH         |-> "TRUTHFUL_REPORT"]

\* Sending one of these interrupts its sender.
RequestBehaviors == {"RESEARCH", "ERROR", "QUERY"}

\* The answers, as the code's own list names them.
ResponseBehaviors == {"MESSAGE_RESPONSE", "TRUTHFUL_REPORT"}

\* The labels a query over `reply_behavior IS NULL` selects.
RepliesNothing == {l \in Label : ReplyBehavior[l] = NoLabel}
=============================================================================
