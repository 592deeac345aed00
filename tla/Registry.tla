------------------------------ MODULE Registry ------------------------------
(***************************************************************************)
(* Who exists and who may talk to whom: projects, partners, roles,         *)
(* budgets, extensions, handshakes, and the work that is sent along them.  *)
(*                                                                         *)
(* The tables are shared by one process for each source.  A process serves *)
(* the calls of its own source's partners one at a time, and its drain     *)
(* threads move work meanwhile.  A call all of whose reads only its own    *)
(* process can change is one step; handshake and send name partners of     *)
(* other processes, and read before they write.                            *)
(*                                                                         *)
(* Which row a queue promotes is PriorityQueue's matter: here it is any.   *)
(***************************************************************************)
EXTENDS Integers, FiniteSets, FiniteSetsExt

CONSTANTS
  Project,    \* the projects that may be created
  SourceOf,   \* source_prefix of each
  LiveLimit,  \* source_caps.max_live_partners
  MaxBudget,  \* the most budget_grants allows
  MaxId,      \* bound on the ids of partners
  MaxCalls,   \* bound on the calls made
  MaxWork     \* bound on the work there is when a send is made

Source == {"nlm", "code", "science", "gemini"}
Role == {"bridge-scientist", "project-orchestrator", "gemini-orchestrator"}
NoRole == "none"
Row == [project : Project, role : Role \cup {NoRole}, archived : BOOLEAN]
Grant == [to : 1..MaxId, by : 1..MaxId, count : 0..MaxBudget]

ASSUME RegistryAssumption ==
  /\ SourceOf \in [Project -> Source]
  /\ {LiveLimit, MaxBudget, MaxId, MaxCalls, MaxWork} \subseteq Nat

VARIABLES
  projects,    \* projects: the rows
  partner,     \* partners: the rows, by id
  handshakes,  \* handshakes: <<from_partner, to_partner>>
  extended,    \* project_extension: sets of two projects
  grants,      \* budget_grants
  work,        \* the rows of message_queue, and what was taken out of it
  call,        \* the handshake or send each process has checked, not made
  calls        \* how many calls were made

tables == <<projects, partner, handshakes, extended, grants>>
vars == <<projects, partner, handshakes, extended, grants, work, call, calls>>

Idle == [op |-> "none"]
Call == [op : {"handshake", "send"}, from : 1..MaxId, to : 1..MaxId,
         label : {"research", "query"}]
Work == [to : 1..MaxId, from : 1..MaxId, at : {"queue", "delivering", "slot"},
         label : {"research", "query", "answer", "error"}]

TypeOK ==
  /\ projects \subseteq Project
  /\ partner \in [DOMAIN partner -> Row] /\ DOMAIN partner \subseteq 1..MaxId
  /\ \A p \in DOMAIN partner : partner[p].project \in projects
  /\ handshakes \subseteq (DOMAIN partner) \X (DOMAIN partner)
  /\ \A e \in extended : e \subseteq projects /\ Cardinality(e) = 2
  /\ grants \subseteq Grant
  /\ \A g \in grants : {g.to, g.by} \subseteq DOMAIN partner
  /\ work \subseteq Work
  /\ \A w \in work : w.at = "queue" => {w.to, w.from} \subseteq DOMAIN partner
  /\ call \in [Source -> Call \cup {Idle}]
  /\ calls \in 0..MaxCalls

Init ==
  /\ projects = {}
  /\ partner = <<>>
  /\ handshakes = {}
  /\ extended = {}
  /\ grants = {}
  /\ work = {}
  /\ call = [s \in Source |-> Idle]
  /\ calls = 0

-----------------------------------------------------------------------------
(***************************************************************************)
(* What the tables say.                                                    *)
(***************************************************************************)

Live == {p \in DOMAIN partner : ~partner[p].archived}
RoleOf(p) == partner[p].role
From(p) == SourceOf[partner[p].project]
Members(j) == {p \in DOMAIN partner : partner[p].project = j}
Together(a, b) == partner[a].project = partner[b].project
Linked(a, b) == {partner[a].project, partner[b].project} \in extended

\* agent_layers: lower is higher up.
Layer(p) ==
  CASE From(p) \in {"nlm", "code"} -> 0
    [] From(p) = "gemini" -> 4
    [] RoleOf(p) = "bridge-scientist" -> 1
    [] RoleOf(p) = "gemini-orchestrator" -> 3
    [] OTHER -> 2

\* A bridge is handshaken with one live code_ partner at most.
CodeAndBridge(code, bridge) ==
  /\ From(code) = "code" /\ From(bridge) = "science"
  /\ RoleOf(bridge) = "bridge-scientist"
  /\ \A c \in Live \ {code} :
       From(c) = "code" => <<c, bridge>> \notin handshakes /\ <<bridge, c>> \notin handshakes

\* Any number of conversations continue one.
SucceededFreely(a, b) == TRUE

\* One conversation continues another, and no other live one does.
Continues(a, b) ==
  \A c \in Live \ {a} : From(c) = "gemini" => <<c, b>> \notin handshakes

GeminiPair(a, b) ==
  /\ From(a) = "gemini" /\ From(b) = "gemini"
  /\ ~Together(a, b) /\ Linked(a, b)
  /\ Continues(a, b)

Peers(a, b) ==
  /\ From(a) = "science" /\ From(b) = "science"
  /\ ~Together(a, b) /\ Linked(a, b)
  /\ RoleOf(a) # NoRole /\ RoleOf(a) = RoleOf(b)

\* A plain partner handshakes within its project as well.
AnyColleagues(a, b) == From(a) = "science" /\ Together(a, b)

Colleagues(a, b) ==
  /\ From(a) = "science" /\ Together(a, b)
  /\ \/ RoleOf(a) = "project-orchestrator"
     \/ RoleOf(a) = "bridge-scientist" /\ RoleOf(b) = "project-orchestrator"

\* The conversations an orchestrator has been given, the archived ones too.
Conversations(a) == {g \in DOMAIN partner : From(g) = "gemini" /\ <<a, g>> \in handshakes}

\* Only the science_ partners that are live count.
OtherLiveSource(a, b) == {c \in Live \ {a} : From(c) = "science" /\ <<c, b>> \in handshakes}

OtherSource(a, b) ==
  {c \in (DOMAIN partner) \ {a} : From(c) = "science" /\ <<c, b>> \in handshakes}

\* A grant taken for one conversation more than it says.
BudgetLeftOver(a) == \E g \in grants : g.to = a /\ Cardinality(Conversations(a)) <= g.count

BudgetLeft(a) == \E g \in grants : g.to = a /\ Cardinality(Conversations(a)) < g.count

Directs(a, b) ==
  /\ From(a) = "science" /\ From(b) = "gemini"
  /\ RoleOf(a) = "gemini-orchestrator"
  /\ OtherSource(a, b) = {}
  /\ BudgetLeft(a)

MayHandshake(a, b) ==
  /\ a # b
  /\ <<a, b>> \notin handshakes
  /\ \/ CodeAndBridge(a, b) \/ CodeAndBridge(b, a)
     \/ GeminiPair(a, b)
     \/ Peers(a, b) \/ Colleagues(a, b)
     \/ Directs(a, b)

\* Work goes along a handshake, an answer also back along it.
ARow(a, b, l) ==
  \/ <<a, b>> \in handshakes
  \/ l # "research" /\ <<b, a>> \in handshakes

MayRoute(a, b, l) ==
  /\ From(a) # "nlm"
  /\ l = "research" => From(b) # "nlm" /\ Layer(a) <= Layer(b)
  /\ From(b) = "nlm" \/ ARow(a, b, l)

-----------------------------------------------------------------------------
(***************************************************************************)
(* The calls.  A requester is live, and so is a partner named by title:    *)
(* Next ranges over Live.                                                  *)
(***************************************************************************)

\* A process serves one call at a time.
ServedBy(s) ==
  /\ calls < MaxCalls
  /\ call[s] = Idle
  /\ calls' = calls + 1

Calls(a) == ServedBy(From(a))

\* create_project, by the process whose extension can verify it.
CreateProject(j) ==
  /\ j \notin projects
  /\ ServedBy(SourceOf[j])
  /\ projects' = projects \cup {j}
  /\ UNCHANGED <<partner, handshakes, extended, grants, work, call>>

\* An id is one more than the greatest there is, so that of a deleted partner
\* may come back.
NewId == Max(DOMAIN partner \cup {0}) + 1

CreatePartner(j) ==
  /\ j \in projects
  /\ NewId <= MaxId
  /\ Cardinality(Members(j) \cap Live) < LiveLimit
  /\ ServedBy(SourceOf[j])
  /\ partner' = [p \in DOMAIN partner \cup {NewId} |->
       IF p = NewId THEN [project |-> j, role |-> NoRole, archived |-> FALSE] ELSE partner[p]]
  /\ UNCHANGED <<projects, handshakes, extended, grants, work, call>>

Claim(a, r) ==
  /\ Calls(a)
  /\ RoleOf(a) = NoRole
  /\ From(a) = "science"
  /\ \A p \in Members(partner[a].project) \cap Live : RoleOf(p) # r
  /\ partner' = [partner EXCEPT ![a].role = r]
  /\ UNCHANGED <<projects, handshakes, extended, grants, work, call>>

GrantBudget(a, b, n) ==
  /\ Calls(a)
  /\ RoleOf(a) = "project-orchestrator"
  /\ Together(a, b) /\ RoleOf(b) = "gemini-orchestrator"
  /\ grants' = {g \in grants : g.to # b} \cup {[to |-> b, by |-> a, count |-> n]}
  /\ UNCHANGED <<projects, partner, handshakes, extended, work, call>>

\* The requester's own project, or two of Antigravity's.
Extend(a, i, j) ==
  /\ Calls(a)
  /\ {i, j} \subseteq projects /\ i # j /\ SourceOf[i] = SourceOf[j]
  /\ \/ RoleOf(a) = "project-orchestrator" /\ i = partner[a].project
     \/ RoleOf(a) = "gemini-orchestrator" /\ SourceOf[i] = "gemini"
  /\ extended' = extended \cup {{i, j}}
  /\ UNCHANGED <<projects, partner, handshakes, grants, work, call>>

\* The reads of handshake and of send.
Checked(a, b, o, l) ==
  /\ Calls(a)
  /\ call' = [call EXCEPT ![From(a)] = [op |-> o, from |-> a, to |-> b, label |-> l]]
  /\ UNCHANGED <<tables, work>>

HandshakeChecked(a, b) == Checked(a, b, "handshake", "query") /\ MayHandshake(a, b)

SendChecked(a, b, l) ==
  /\ Cardinality(work) < MaxWork
  /\ Checked(a, b, "send", l)
  /\ MayRoute(a, b, l)

Returned(s) == call' = [call EXCEPT ![s] = Idle]

\* Both ids still name a row: the foreign keys of both tables.
EndsExist(c) == {c.from, c.to} \subseteq DOMAIN partner

HandshakeMade(s) ==
  /\ call[s].op = "handshake"
  /\ handshakes' = IF EndsExist(call[s])
       THEN handshakes \cup {<<call[s].from, call[s].to>>} ELSE handshakes
  /\ Returned(s)
  /\ UNCHANGED <<projects, partner, extended, grants, work, calls>>

\* One message of a pair and a label at a time: two would do the same.
Sent(s) ==
  /\ call[s].op = "send"
  /\ LET new == [to |-> call[s].to, from |-> call[s].from, label |-> call[s].label,
                 at |-> "queue"]
     IN work' = IF EndsExist(call[s]) /\ \A w \in work : [w EXCEPT !.at = "queue"] # new
          THEN work \cup {new} ELSE work
  /\ Returned(s)
  /\ UNCHANGED <<tables, calls>>

-----------------------------------------------------------------------------
(***************************************************************************)
(* The calls that make partners vanish.                                    *)
(***************************************************************************)

Held(b) == {w \in work : w.to = b /\ w.at = "slot"}
Queued(b) == {w \in work : w.to = b /\ w.at = "queue"}

\* Only those with a row in the queue.
WaitingInQueue(b) == {w.from : w \in Queued(b)}

\* _report_lost_work: the callers of the queue and of the slot.
Waiting(b) == {w.from : w \in Queued(b) \cup Held(b)}

Notice(c, b) == [to |-> c, from |-> b, label |-> "error", at |-> "queue"]

\* archive_sessions, one title.
Archive(a, b) ==
  /\ Calls(a)
  /\ Together(a, b)
  /\ partner' = [partner EXCEPT ![b].archived = TRUE]
  /\ work' = (work \ Held(b)) \cup {Notice(c, b) : c \in (Waiting(b) \cap Live) \ {b}}
  /\ UNCHANGED <<projects, handshakes, extended, grants, call>>

\* Only what is in the queue holds a deletion up.
BusyQueue(D) == \E b \in D : Queued(b) # {}

\* partner_has_work_in_flight.
Busy(D) == \E b \in D : Queued(b) \cup Held(b) # {}

\* DELETE FROM partners, with what refers to a row.
Delete(D) ==
  /\ ~Busy(D)
  /\ \A g \in grants : g.by \in D => g.to \in D
  /\ partner' = [p \in DOMAIN partner \ D |-> partner[p]]
  /\ handshakes' = {h \in handshakes : {h[1], h[2]} \cap D = {}}
  /\ grants' = {g \in grants : g.to \notin D}
  /\ work' = {w \in work : ~(w.at = "queue" /\ w.from \in D)}
  /\ UNCHANGED call

DeletePartner(a, b) ==
  /\ Calls(a)
  /\ RoleOf(a) = "project-orchestrator"
  /\ Together(a, b)
  /\ Delete({b})
  /\ UNCHANGED <<projects, extended>>

DeleteProject(a) ==
  /\ Calls(a)
  /\ RoleOf(a) = "project-orchestrator"
  /\ LET j == partner[a].project IN
       /\ Delete(Members(j))
       /\ projects' = projects \ {j}
       /\ extended' = {e \in extended : j \notin e}

-----------------------------------------------------------------------------
(***************************************************************************)
(* The drain threads.                                                      *)
(***************************************************************************)

Moved(w, at) == work' = (work \ {w}) \cup {[w EXCEPT !.at = at]}

\* advance: a row is deleted and its task is in the hands of the thread that
\* delivers it.  What was in the slot goes back to the queue, which a task of
\* a deleted caller cannot.
Take(w) ==
  /\ w.at = "queue" /\ w.to \in Live
  /\ ~\E v \in work : v.to = w.to /\ v.at = "delivering"
  /\ \A v \in Held(w.to) : v.from \in DOMAIN partner
  /\ work' = (work \ ({w} \cup Held(w.to)))
       \cup {[w EXCEPT !.at = "delivering"]} \cup {[v EXCEPT !.at = "queue"] : v \in Held(w.to)}
  /\ UNCHANGED <<tables, call, calls>>

\* slots.set, whatever became of the partner.
Deliver(w) ==
  /\ w.at = "delivering"
  /\ Moved(w, "slot")
  /\ UNCHANGED <<tables, call, calls>>

\* _requeue: refused by a foreign key if either partner is gone.
DeliveryFails(w) ==
  /\ w.at = "delivering"
  /\ IF EndsExist(w) THEN Moved(w, "queue") ELSE work' = work \ {w}
  /\ UNCHANGED <<tables, call, calls>>

\* release, then report_back: an answer to a request, if its caller is live.
Finish(w) ==
  /\ w.at = "slot" /\ w.to \in Live
  /\ work' = (work \ {w}) \cup
       {[to |-> c, from |-> w.to, label |-> "answer", at |-> "queue"] :
         c \in IF w.label \in {"research", "query"} THEN {w.from} \cap Live ELSE {}}
  /\ UNCHANGED <<tables, call, calls>>

\* advance, of a partner that is not live.
Drop(b) ==
  /\ b \notin Live
  /\ Queued(b) \cup Held(b) # {}
  /\ work' = work \ (Queued(b) \cup Held(b))
  /\ UNCHANGED <<tables, call, calls>>

Serve ==
  \/ \E w \in work : Take(w) \/ Deliver(w) \/ DeliveryFails(w) \/ Finish(w)
  \/ \E b \in 1..MaxId : Drop(b)

Administer ==
  \/ \E j \in Project : CreateProject(j) \/ CreatePartner(j)
  \/ \E a \in Live :
       \/ \E r \in Role : Claim(a, r)
       \/ \E i, j \in projects : Extend(a, i, j)
       \/ DeleteProject(a)
       \/ \E b \in Live :
            \/ \E n \in 0..MaxBudget : GrantBudget(a, b, n)
            \/ Archive(a, b) \/ DeletePartner(a, b)

Talk ==
  \/ \E a, b \in Live :
       HandshakeChecked(a, b) \/ \E l \in {"research", "query"} : SendChecked(a, b, l)
  \/ \E s \in Source : HandshakeMade(s) \/ Sent(s)

Next == Serve \/ Administer \/ Talk

Spec == Init /\ [][Next]_vars

-----------------------------------------------------------------------------
\* A conversation has one science_ partner directing it, for good: archiving
\* the orchestrator that opened it does not hand it to the next one.
OneScienceSource ==
  \A h, k \in handshakes :
    /\ h[2] = k[2] /\ From(h[2]) = "gemini"
    /\ From(h[1]) = "science" /\ From(k[1]) = "science"
    => h[1] = k[1]

\* Which conversation continues this one has at most one answer.
LineageIsALine ==
  \A h, k \in handshakes :
    /\ h[2] = k[2] /\ {h[1], k[1]} \subseteq Live
    /\ From(h[1]) = "gemini" /\ From(k[1]) = "gemini"
    => h[1] = k[1]

\* However a budget is raised and lowered again, an orchestrator never holds
\* more conversations than a budget can be.
BudgetIsKept ==
  \A a \in DOMAIN partner : From(a) = "science" => Cardinality(Conversations(a)) <= MaxBudget

\* a may give b work: they are not peers across an extension, for whom either
\* direction is meant.
Commands(a, b) ==
  /\ MayRoute(a, b, "research")
  /\ ~(From(a) = From(b) /\ ~Together(a, b))

\* No circle of live partners can form in which each delegates to the next and
\* waits: through archived directors, claimed roles and answers travelling back
\* along a handshake, work inside a project and down to its conversations goes
\* one way.
NobodyWaitsInACircle ==
  LET Joined == handshakes \cup {<<h[2], h[1]>> : h \in handshakes}
      Chain == {h \in Joined : {h[1], h[2]} \subseteq Live /\ Commands(h[1], h[2])}
  IN \A S \in SUBSET {h[1] : h \in Chain} :
       S # {} => \E a \in S : \A b \in S : <<a, b>> \notin Chain

Vanishes(b) == b \in Live /\ b \notin Live'

Told(w) == w.from \in Live' /\ w.from # w.to => Notice(w.from, w.to) \in work'

\* A partner never vanishes under work in its queue or its slot without each
\* caller that still lives being told: archiving tells, deleting refuses.
VanishingTells ==
  [][\A w \in work : Vanishes(w.to) /\ w.at # "delivering" => Told(w)]_vars

\* The same of all work, as delete_partner and archive_sessions say.  (The code
\* does not keep this: what is being delivered is in neither the queue nor the
\* slot.)
NoWorkIsDropped == [][\A w \in work : Vanishes(w.to) => Told(w)]_vars
=============================================================================
