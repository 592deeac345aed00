--------------------------- MODULE Registry_proofs ---------------------------
(***************************************************************************)
(* Theorems about Registry, for any projects, limits and budgets, any      *)
(* number of partners and calls, and any interleaving of the processes.    *)
(***************************************************************************)
EXTENDS Registry, FiniteSetTheorems, WellFoundedInduction, TLAPS

-----------------------------------------------------------------------------
(***************************************************************************)
(* Ids, sources and grants.                                                *)
(***************************************************************************)

\* A set of numbers within a bound has a greatest.
LEMMA GreatestExists ==
  ASSUME NEW n \in Nat, NEW S \in SUBSET (0 .. n), S # {}
  PROVE  Max(S) \in S /\ \A y \in S : Max(S) >= y
<1> DEFINE T == {m \in Nat : n - m \in S}
           R == OpToRel(<, Nat)
<1>1. T \subseteq Nat /\ T # {}
  <2>1. PICK y \in S : TRUE
    OBVIOUS
  <2>2. n - y \in Nat /\ n - (n - y) = y
    OBVIOUS
  <2> QED BY <2>1, <2>2
<1>2. \A x, y \in Nat : y < x => <<y, x>> \in R
  BY DEF OpToRel
<1> HIDE DEF R
<1>3. IsWellFoundedOn(R, Nat)
  BY NatLessThanWellFounded DEF R
<1>4. PICK x \in T : \A y \in T : ~ (<<y, x>> \in R)
  BY <1>1, <1>3, WFMin
<1>5. n - x \in S /\ x \in Nat
  BY <1>4
<1>6. ASSUME NEW y \in S PROVE n - x >= y
  <2>1. n - y \in Nat /\ n - (n - y) = y
    OBVIOUS
  <2>2. n - y \in T
    BY <2>1
  <2>3. ~(n - y < x)
    BY <1>2, <1>4, <1>5, <2>1, <2>2
  <2> QED BY <1>5, <2>1, <2>3
<1> QED BY <1>5, <1>6 DEF Max

\* The id of a new partner is nobody's.
LEMMA NewIdIsFree ==
  ASSUME TypeOK, NewId <= MaxId
  PROVE  NewId \in 1 .. MaxId /\ NewId \notin DOMAIN partner
<1> DEFINE S == DOMAIN partner \cup {0}
<1>1. S \in SUBSET (0 .. MaxId) /\ S # {} /\ MaxId \in Nat
  BY RegistryAssumption DEF TypeOK
<1> HIDE DEF S
<1>2. Max(S) \in S /\ \A y \in S : Max(S) >= y
  BY <1>1, GreatestExists
<1>3. NewId = Max(S) + 1
  BY DEF NewId, S
<1>4. Max(S) \in Nat
  <2>1. PICK m \in S : m = Max(S)
    BY <1>2
  <2>2. m \in 0 .. MaxId
    BY <1>1
  <2> QED BY <1>1, <2>1, <2>2
<1>5. NewId \notin S
  BY <1>1, <1>2, <1>3, <1>4
<1> QED BY <1>3, <1>4, <1>5 DEF S

\* A partner has a project, and so a source.
LEMMA PartnerRow ==
  ASSUME TypeOK, NEW p \in DOMAIN partner
  PROVE  /\ partner[p] \in Row /\ partner[p].project \in projects
         /\ p \in 1 .. MaxId /\ From(p) \in Source
         /\ RoleOf(p) \in Role \cup {NoRole} /\ partner[p].archived \in BOOLEAN
<1>1. partner[p] \in Row /\ partner[p].project \in projects /\ projects \subseteq Project
  BY DEF TypeOK
<1> QED BY <1>1, RegistryAssumption DEF TypeOK, Row, From, RoleOf

\* A live partner has a row.
LEMMA LiveAreThere == Live \subseteq DOMAIN partner
BY DEF Live

\* Two projects that are not the same make a set of two.
LEMMA PairOfTwo ==
  ASSUME NEW i, NEW j, i # j
  PROVE  Cardinality({i, j}) = 2
<1>1. IsFiniteSet({i}) /\ Cardinality({i}) = 1
  BY FS_Singleton
<1>2. Cardinality({i} \cup {j}) = 2
  BY <1>1, FS_AddElement
<1>3. {i} \cup {j} = {i, j}
  OBVIOUS
<1> QED BY <1>2, <1>3

-----------------------------------------------------------------------------
(***************************************************************************)
(* Type correctness.                                                       *)
(***************************************************************************)

\* A deletion leaves no row that refers to what is gone.
LEMMA DeleteTypes ==
  ASSUME TypeOK, NEW D, Delete(D)
  PROVE  /\ partner' \in [DOMAIN partner' -> Row] /\ DOMAIN partner' = DOMAIN partner \ D
         /\ \A p \in DOMAIN partner' : partner'[p] = partner[p]
         /\ handshakes' \subseteq (DOMAIN partner') \X (DOMAIN partner')
         /\ grants' \subseteq Grant
         /\ \A g \in grants' : {g.to, g.by} \subseteq DOMAIN partner'
         /\ work' \subseteq Work
         /\ \A w \in work' : w.at = "queue" => {w.to, w.from} \subseteq DOMAIN partner'
         /\ call' = call
<1>1. /\ partner' = [p \in DOMAIN partner \ D |-> partner[p]]
      /\ DOMAIN partner' = DOMAIN partner \ D
  BY DEF Delete
<1>2. /\ partner' \in [DOMAIN partner' -> Row]
      /\ \A p \in DOMAIN partner' : partner'[p] = partner[p]
  BY <1>1 DEF TypeOK
<1>3. handshakes' \subseteq (DOMAIN partner') \X (DOMAIN partner')
  BY <1>1 DEF Delete, TypeOK
<1>4. grants' \subseteq Grant /\ \A g \in grants' : {g.to, g.by} \subseteq DOMAIN partner'
  BY <1>1 DEF Delete, TypeOK
<1>5. ASSUME NEW w \in work', w.at = "queue" PROVE {w.to, w.from} \subseteq DOMAIN partner'
  <2>1. w \in work /\ w.from \notin D
    BY <1>5 DEF Delete
  <2>2. w.to \notin D
    BY <1>5, <2>1 DEF Delete, Busy, Queued
  <2> QED BY <1>1, <1>5, <2>1, <2>2 DEF TypeOK
<1> QED BY <1>1, <1>2, <1>3, <1>4, <1>5 DEF Delete, TypeOK

\* A call that is served is counted.
LEMMA CallsTyped ==
  ASSUME TypeOK, NEW s \in Source, ServedBy(s)
  PROVE  calls' \in 0 .. MaxCalls /\ call[s] = Idle
BY RegistryAssumption DEF TypeOK, ServedBy

\* A row of the queue has both of its ends.
FineWork(v) == v \in Work /\ (v.at = "queue" => {v.to, v.from} \subseteq DOMAIN partner)

\* Work that moves stays work, in a queue only if both of its ends are there.
LEMMA ServeTypes ==
  ASSUME TypeOK, Serve
  PROVE  TypeOK'
<1>1. UNCHANGED <<tables, call, calls>>
  BY DEF Serve, Take, Deliver, DeliveryFails, Finish, Drop
<1>2. Live \subseteq DOMAIN partner /\ DOMAIN partner \subseteq 1 .. MaxId
  BY LiveAreThere DEF TypeOK
<1>3. \A w \in work :
        /\ w \in Work
        /\ \A at \in {"queue", "delivering", "slot"} :
             /\ [w EXCEPT !.at = at] \in Work
             /\ [w EXCEPT !.at = at].at = at
             /\ [w EXCEPT !.at = at].to = w.to
             /\ [w EXCEPT !.at = at].from = w.from
  BY DEF TypeOK, Work
<1>4. \A w \in work : FineWork(w)
  BY DEF TypeOK, FineWork
<1>5. ASSUME NEW w \in work, Take(w), NEW v \in work' PROVE FineWork(v)
  <2>1. CASE v \in work
    BY <1>4, <2>1
  <2>2. CASE v = [w EXCEPT !.at = "delivering"]
    BY <1>3, <2>2 DEF FineWork
  <2>3. ASSUME NEW u \in Held(w.to), v = [u EXCEPT !.at = "queue"] PROVE FineWork(v)
    <3>1. u \in work /\ u.to \in DOMAIN partner /\ u.from \in DOMAIN partner
      BY <1>2, <1>5 DEF Take, Held
    <3> QED BY <1>3, <2>3, <3>1 DEF FineWork
  <2> QED BY <1>5, <2>1, <2>2, <2>3 DEF Take
<1>6. ASSUME NEW w \in work, Deliver(w), NEW v \in work' PROVE FineWork(v)
  <2>1. v \in work \/ v = [w EXCEPT !.at = "slot"]
    BY <1>6 DEF Deliver, Moved
  <2> QED BY <1>3, <1>4, <2>1 DEF FineWork
<1>7. ASSUME NEW w \in work, DeliveryFails(w), NEW v \in work' PROVE FineWork(v)
  <2>1. v \in work \/ (v = [w EXCEPT !.at = "queue"] /\ EndsExist(w))
    BY <1>7 DEF DeliveryFails, Moved
  <2>2. CASE v = [w EXCEPT !.at = "queue"] /\ EndsExist(w)
    <3>1. v \in Work /\ v.to = w.to /\ v.from = w.from
      BY <1>3, <2>2
    <3> QED BY <2>2, <3>1 DEF EndsExist, FineWork
  <2> QED BY <1>4, <2>1, <2>2
<1>8. ASSUME NEW w \in work, Finish(w), NEW v \in work' PROVE FineWork(v)
  <2>1. CASE v \in work
    BY <1>4, <2>1
  <2>2. ASSUME NEW c \in Live, v = [to |-> c, from |-> w.to, label |-> "answer", at |-> "queue"]
        PROVE  FineWork(v)
    <3>1. w.to \in DOMAIN partner /\ c \in DOMAIN partner
      BY <1>2, <1>8 DEF Finish
    <3>2. v.to = c /\ v.from = w.to /\ v \in Work
      BY <1>2, <2>2, <3>1 DEF Work
    <3> QED BY <3>1, <3>2 DEF FineWork
  <2>3. \/ v \in work
        \/ \E c \in Live : v = [to |-> c, from |-> w.to, label |-> "answer", at |-> "queue"]
    BY <1>8 DEF Finish
  <2> QED BY <2>1, <2>2, <2>3
<1>9. ASSUME NEW b \in 1 .. MaxId, Drop(b), NEW v \in work' PROVE FineWork(v)
  BY <1>4, <1>9 DEF Drop
<1>10. \A v \in work' : FineWork(v)
  BY <1>5, <1>6, <1>7, <1>8, <1>9 DEF Serve
<1> QED BY <1>1, <1>10 DEF TypeOK, tables, FineWork

\* A partner, a role, a budget, an extension or a project more or less.
LEMMA AdministerTypes ==
  ASSUME TypeOK, Administer
  PROVE  TypeOK'
<1>1. Live \subseteq DOMAIN partner /\ DOMAIN partner \subseteq 1 .. MaxId
  BY LiveAreThere DEF TypeOK
<1>2. SourceOf \in [Project -> Source] /\ MaxBudget \in Nat
  BY RegistryAssumption
<1>3. ASSUME NEW j \in Project, CreateProject(j) PROVE TypeOK'
  <2>1. calls' \in 0 .. MaxCalls
    BY <1>2, <1>3, CallsTyped DEF CreateProject
  <2> QED BY <1>3, <2>1 DEF CreateProject, TypeOK
<1>4. ASSUME NEW j \in Project, CreatePartner(j) PROVE TypeOK'
  <2>1. calls' \in 0 .. MaxCalls
    BY <1>2, <1>4, CallsTyped DEF CreatePartner
  <2>2. NewId \in 1 .. MaxId /\ NewId \notin DOMAIN partner
    BY <1>4, NewIdIsFree DEF CreatePartner
  <2>3. PICK n \in 1 .. MaxId : n = NewId
    BY <2>2
  <2>4. partner' = [p \in DOMAIN partner \cup {n} |->
          IF p = n THEN [project |-> j, role |-> NoRole, archived |-> FALSE] ELSE partner[p]]
    BY <1>4, <2>3 DEF CreatePartner
  <2>5. DOMAIN partner' = DOMAIN partner \cup {n} /\ DOMAIN partner' \subseteq 1 .. MaxId
    BY <1>1, <2>4
  <2>6. [project |-> j, role |-> NoRole, archived |-> FALSE] \in Row
    BY DEF Row
  <2>7. partner' \in [DOMAIN partner' -> Row]
    BY <2>4, <2>5, <2>6, PartnerRow
  <2>8. \A p \in DOMAIN partner' : partner'[p].project \in projects
    BY <1>4, <2>4, <2>5, PartnerRow DEF CreatePartner
  <2> QED BY <1>4, <2>1, <2>5, <2>7, <2>8 DEF CreatePartner, TypeOK
<1>5. ASSUME NEW a \in Live, NEW r \in Role, Claim(a, r) PROVE TypeOK'
  <2>1. calls' \in 0 .. MaxCalls
    BY <1>1, <1>5, CallsTyped, PartnerRow DEF Claim, Calls
  <2>2. partner' = [partner EXCEPT ![a].role = r]
    BY <1>5 DEF Claim
  <2>3. /\ [partner[a] EXCEPT !.role = r] \in Row
        /\ [partner[a] EXCEPT !.role = r].project = partner[a].project
    BY <1>1, PartnerRow DEF Row
  <2>4. /\ DOMAIN partner' = DOMAIN partner /\ partner' \in [DOMAIN partner -> Row]
        /\ \A p \in DOMAIN partner : partner'[p].project = partner[p].project
    BY <1>1, <2>2, <2>3 DEF TypeOK
  <2> QED BY <1>5, <2>1, <2>4 DEF Claim, TypeOK
<1>6. ASSUME NEW a \in Live, NEW i \in projects, NEW j \in projects, Extend(a, i, j) PROVE TypeOK'
  <2>1. calls' \in 0 .. MaxCalls
    BY <1>1, <1>6, CallsTyped, PartnerRow DEF Extend, Calls
  <2>2. Cardinality({i, j}) = 2
    BY <1>6, PairOfTwo DEF Extend
  <2> QED BY <1>6, <2>1, <2>2 DEF Extend, TypeOK
<1>7. ASSUME NEW a \in Live, NEW b \in Live, NEW n \in 0 .. MaxBudget,
             GrantBudget(a, b, n)
      PROVE  TypeOK'
  <2>1. calls' \in 0 .. MaxCalls
    BY <1>1, <1>7, CallsTyped, PartnerRow DEF GrantBudget, Calls
  <2>2. [to |-> b, by |-> a, count |-> n] \in Grant
    BY <1>1 DEF Grant
  <2>3. grants' \subseteq Grant /\ \A g \in grants' : {g.to, g.by} \subseteq DOMAIN partner
    BY <1>1, <1>7, <2>2 DEF GrantBudget, TypeOK
  <2> QED BY <1>7, <2>1, <2>3 DEF GrantBudget, TypeOK
<1>8. ASSUME NEW a \in Live, NEW b \in Live, Archive(a, b) PROVE TypeOK'
  <2>1. calls' \in 0 .. MaxCalls
    BY <1>1, <1>8, CallsTyped, PartnerRow DEF Archive, Calls
  <2>2. partner' = [partner EXCEPT ![b].archived = TRUE]
    BY <1>8 DEF Archive
  <2>3. /\ [partner[b] EXCEPT !.archived = TRUE] \in Row
        /\ [partner[b] EXCEPT !.archived = TRUE].project = partner[b].project
    BY <1>1, PartnerRow DEF Row
  <2>4. /\ DOMAIN partner' = DOMAIN partner /\ partner' \in [DOMAIN partner -> Row]
        /\ \A p \in DOMAIN partner : partner'[p].project = partner[p].project
    BY <1>1, <2>2, <2>3 DEF TypeOK
  <2>5. \A c \in Live : Notice(c, b) \in Work
    BY <1>1 DEF Notice, Work
  <2>6. \A w \in work' : w \in work \/ \E c \in Live : w = Notice(c, b)
    BY <1>8 DEF Archive
  <2>7. \A w \in work' : FineWork(w)
    BY <1>1, <2>5, <2>6 DEF TypeOK, Notice, FineWork
  <2> QED BY <1>8, <2>1, <2>4, <2>7 DEF Archive, TypeOK, FineWork
<1>9. ASSUME NEW a \in Live, NEW b \in Live, DeletePartner(a, b) PROVE TypeOK'
  <2>1. calls' \in 0 .. MaxCalls
    BY <1>1, <1>9, CallsTyped, PartnerRow DEF DeletePartner, Calls
  <2>2. Delete({b}) /\ UNCHANGED <<projects, extended>>
    BY <1>9 DEF DeletePartner
  <2> QED BY <1>1, <2>1, <2>2, DeleteTypes DEF TypeOK
<1>10. ASSUME NEW a \in Live, DeleteProject(a) PROVE TypeOK'
  <2>1. calls' \in 0 .. MaxCalls
    BY <1>1, <1>10, CallsTyped, PartnerRow DEF DeleteProject, Calls
  <2>2. PICK j : j = partner[a].project
    OBVIOUS
  <2>3. /\ Delete(Members(j))
        /\ projects' = projects \ {j}
        /\ extended' = {e \in extended : j \notin e}
    BY <1>10, <2>2 DEF DeleteProject
  <2>4. \A p \in DOMAIN partner' : partner'[p].project \in projects'
    <3> SUFFICES ASSUME NEW p \in DOMAIN partner' PROVE partner'[p].project \in projects'
      OBVIOUS
    <3>1. p \in DOMAIN partner \ Members(j) /\ partner'[p] = partner[p]
      BY <2>3, DeleteTypes
    <3>2. partner[p].project \in projects /\ partner[p].project # j
      BY <3>1, PartnerRow DEF Members
    <3> QED BY <2>3, <3>1, <3>2
  <2>5. \A e \in extended' : e \subseteq projects' /\ Cardinality(e) = 2
    BY <2>3 DEF TypeOK
  <2> QED BY <1>1, <2>1, <2>3, <2>4, <2>5, DeleteTypes DEF TypeOK
<1> QED BY <1>3, <1>4, <1>5, <1>6, <1>7, <1>8, <1>9, <1>10 DEF Administer

\* A handshake or a message.
LEMMA TalkTypes ==
  ASSUME TypeOK, Talk
  PROVE  TypeOK'
<1>1. Live \subseteq DOMAIN partner /\ DOMAIN partner \subseteq 1 .. MaxId
  BY LiveAreThere DEF TypeOK
<1>2. ASSUME NEW a \in Live, NEW b \in Live, NEW o \in {"handshake", "send"},
             NEW l \in {"research", "query"}, Checked(a, b, o, l)
      PROVE  TypeOK'
  <2>1. calls' \in 0 .. MaxCalls /\ From(a) \in Source
    BY <1>1, <1>2, CallsTyped, PartnerRow DEF Checked, Calls
  <2>2. [op |-> o, from |-> a, to |-> b, label |-> l] \in Call
    BY <1>1 DEF Call
  <2> QED BY <1>2, <2>1, <2>2 DEF Checked, TypeOK, tables
<1>3. ASSUME NEW s \in Source, HandshakeMade(s) PROVE TypeOK'
  <2>1. handshakes' \subseteq (DOMAIN partner) \X (DOMAIN partner)
    BY <1>3 DEF HandshakeMade, EndsExist, TypeOK
  <2> QED BY <1>3, <2>1 DEF HandshakeMade, Returned, TypeOK
<1>4. ASSUME NEW s \in Source, Sent(s) PROVE TypeOK'
  <2>1. call[s] \in Call
    BY <1>4 DEF Sent, TypeOK, Idle
  <2> DEFINE new == [to |-> call[s].to, from |-> call[s].from, label |-> call[s].label,
                     at |-> "queue"]
  <2>2. new \in Work /\ new.to = call[s].to /\ new.from = call[s].from
    BY <2>1 DEF Call, Work
  <2>3. work' = work \/ (EndsExist(call[s]) /\ work' = work \cup {new})
    BY <1>4 DEF Sent
  <2>4. \A w \in work' : FineWork(w)
    BY <2>2, <2>3 DEF TypeOK, EndsExist, FineWork
  <2> QED BY <1>4, <2>4 DEF Sent, Returned, TypeOK, tables, FineWork
<1> QED BY <1>2, <1>3, <1>4 DEF Talk, HandshakeChecked, SendChecked

\* Every reachable state of the tables has the types TypeOK gives, and no row
\* refers to one that is gone.
THEOREM RegistryTypeCorrect == Spec => []TypeOK
<1>1. Init => TypeOK
  BY RegistryAssumption DEF Init, TypeOK, Idle
<1>2. TypeOK /\ [Next]_vars => TypeOK'
  <2> SUFFICES ASSUME TypeOK, [Next]_vars PROVE TypeOK'
    OBVIOUS
  <2>1. CASE UNCHANGED vars
    BY <2>1 DEF vars, TypeOK
  <2> QED BY <2>1, ServeTypes, AdministerTypes, TalkTypes DEF Next
<1> QED BY <1>1, <1>2, PTL DEF Spec

-----------------------------------------------------------------------------
(***************************************************************************)
(* What a step does to the partners, the handshakes and the calls.         *)
(***************************************************************************)

\* Roles are claimed by science_ partners, and so are the deletions theirs.
RolesAreScience == \A p \in DOMAIN partner : RoleOf(p) # NoRole => From(p) = "science"

\* A partner stays in its project, archived once it is, and in its role, but
\* for a claim of one that nobody there has.
Stays(p) ==
  /\ partner'[p].project = partner[p].project
  /\ partner[p].archived => partner'[p].archived
  /\ partner'[p].role # partner[p].role =>
       /\ RoleOf(p) = NoRole /\ From(p) = "science"
       /\ \A q \in Members(partner[p].project) \cap Live : RoleOf(q) # partner'[p].role

\* A partner is new, in a process that is in the middle of no call.
Arrives(p) ==
  /\ partner'[p].role = NoRole
  /\ partner'[p].project \in Project
  /\ call[SourceOf[partner'[p].project]] = Idle
  /\ UNCHANGED <<call, handshakes, grants>>

PartnersStep ==
  /\ \A p \in DOMAIN partner : p \in DOMAIN partner' => Stays(p)
  /\ \A p \in DOMAIN partner : p \notin DOMAIN partner' => From(p) = "science"
  /\ \A p \in DOMAIN partner' : p \notin DOMAIN partner => Arrives(p)
  /\ call["science"] # Idle => DOMAIN partner \subseteq DOMAIN partner' /\ UNCHANGED grants
  /\ \A p, q \in DOMAIN partner :
       /\ {p, q} \subseteq DOMAIN partner'
       /\ partner'[p].role # partner[p].role /\ partner'[q].role # partner[q].role
       => p = q

\* Nothing happens to the partners.
LEMMA PartnersRest ==
  ASSUME TypeOK, UNCHANGED partner, UNCHANGED grants \/ call["science"] = Idle
  PROVE  PartnersStep
BY DEF PartnersStep, Stays

\* A deletion is a science_ call.
LEMMA PartnersDeleted ==
  ASSUME TypeOK, RolesAreScience, NEW a \in Live, Calls(a), RoleOf(a) = "project-orchestrator",
         NEW D, \A b \in D \cap DOMAIN partner : From(b) = From(a), Delete(D)
  PROVE  PartnersStep
<1>1. a \in DOMAIN partner
  BY DEF Live
<1>2. From(a) = "science" /\ call["science"] = Idle
  BY <1>1 DEF RolesAreScience, NoRole, Calls, ServedBy
<1>3. /\ DOMAIN partner' = DOMAIN partner \ D
      /\ \A p \in DOMAIN partner' : partner'[p] = partner[p]
  BY DeleteTypes
<1> QED BY <1>2, <1>3 DEF PartnersStep, Stays

\* Whatever happens, the partners change as PartnersStep says.
LEMMA EveryPartnersStep ==
  ASSUME TypeOK, RolesAreScience, [Next]_vars
  PROVE  PartnersStep
<1>1. Live \subseteq DOMAIN partner
  BY LiveAreThere
<1>2. CASE Serve \/ Talk \/ UNCHANGED vars
  <2>1. UNCHANGED <<partner, grants>>
    BY <1>2 DEF Serve, Take, Deliver, DeliveryFails, Finish, Drop, Talk, HandshakeChecked,
                SendChecked, Checked, HandshakeMade, Sent, tables, vars
  <2> QED BY <2>1, PartnersRest
<1>3. ASSUME NEW j \in Project, CreateProject(j) PROVE PartnersStep
  BY <1>3, PartnersRest DEF CreateProject
<1>4. ASSUME NEW j \in Project, CreatePartner(j) PROVE PartnersStep
  <2>1. PICK n \in 1 .. MaxId : n = NewId /\ n \notin DOMAIN partner
    BY <1>4, NewIdIsFree DEF CreatePartner
  <2>2. /\ partner' = [p \in DOMAIN partner \cup {n} |->
             IF p = n THEN [project |-> j, role |-> NoRole, archived |-> FALSE] ELSE partner[p]]
        /\ UNCHANGED <<handshakes, grants, call>> /\ call[SourceOf[j]] = Idle
    BY <1>4, <2>1 DEF CreatePartner, ServedBy
  <2>3. /\ DOMAIN partner' = DOMAIN partner \cup {n}
        /\ partner'[n] = [project |-> j, role |-> NoRole, archived |-> FALSE]
        /\ \A p \in DOMAIN partner : partner'[p] = partner[p]
    BY <2>1, <2>2
  <2>4. Arrives(n)
    BY <2>2, <2>3 DEF Arrives
  <2> QED BY <2>2, <2>3, <2>4 DEF PartnersStep, Stays
<1>5. ASSUME NEW a \in Live, NEW r \in Role, Claim(a, r) PROVE PartnersStep
  <2>1. /\ DOMAIN partner' = DOMAIN partner
        /\ \A p \in DOMAIN partner : p # a => partner'[p] = partner[p]
        /\ UNCHANGED grants
    BY <1>5 DEF Claim, TypeOK
  <2>2. /\ partner'[a].project = partner[a].project
        /\ partner'[a].archived = partner[a].archived
        /\ partner'[a].role = r
    BY <1>1, <1>5, PartnerRow DEF Claim, TypeOK, Row
  <2>3. Stays(a)
    BY <1>5, <2>2 DEF Claim, Stays, RoleOf, NoRole
  <2> QED BY <2>1, <2>3 DEF PartnersStep, Stays
<1>6. ASSUME NEW a \in Live, NEW i \in projects, NEW j \in projects, Extend(a, i, j)
      PROVE  PartnersStep
  BY <1>6, PartnersRest DEF Extend
<1>7. ASSUME NEW a \in Live, NEW b \in Live, NEW n \in 0 .. MaxBudget, GrantBudget(a, b, n)
      PROVE  PartnersStep
  <2>1. From(a) = "science" /\ call["science"] = Idle
    BY <1>1, <1>7 DEF GrantBudget, RolesAreScience, NoRole, Calls, ServedBy
  <2> QED BY <1>7, <2>1, PartnersRest DEF GrantBudget
<1>8. ASSUME NEW a \in Live, NEW b \in Live, Archive(a, b) PROVE PartnersStep
  <2>1. /\ DOMAIN partner' = DOMAIN partner
        /\ \A p \in DOMAIN partner : p # b => partner'[p] = partner[p]
        /\ UNCHANGED grants
    BY <1>8 DEF Archive, TypeOK
  <2>2. /\ partner'[b].project = partner[b].project
        /\ partner'[b].archived = TRUE
        /\ partner'[b].role = partner[b].role
    BY <1>1, <1>8, PartnerRow DEF Archive, TypeOK, Row
  <2> QED BY <2>1, <2>2 DEF PartnersStep, Stays
<1>9. ASSUME NEW a \in Live, NEW b \in Live, DeletePartner(a, b) PROVE PartnersStep
  <2>1. /\ Calls(a) /\ RoleOf(a) = "project-orchestrator" /\ Delete({b})
        /\ From(b) = From(a)
    BY <1>9 DEF DeletePartner, Together, From
  <2> QED BY <2>1, PartnersDeleted
<1>10. ASSUME NEW a \in Live, DeleteProject(a) PROVE PartnersStep
  <2>1. PICK D : D = Members(partner[a].project)
    OBVIOUS
  <2>2. /\ Calls(a) /\ RoleOf(a) = "project-orchestrator" /\ Delete(D)
        /\ \A b \in D \cap DOMAIN partner : From(b) = From(a)
    BY <1>10, <2>1 DEF DeleteProject, Members, From
  <2> QED BY <2>2, PartnersDeleted
<1> QED BY <1>2, <1>3, <1>4, <1>5, <1>6, <1>7, <1>8, <1>9, <1>10 DEF Next, Administer

\* A call that is checked and not made is the one it was, or was checked now.
CallsStep ==
  \A s \in Source : call'[s] # Idle /\ call'[s] # call[s] =>
    \E a, b \in Live :
      /\ From(a) = s /\ call'[s].from = a /\ call'[s].to = b
      /\ call'[s].op = "handshake" => MayHandshake(a, b)
      /\ UNCHANGED tables

\* A new handshake is one that was checked.
RowsStep ==
  \A h \in handshakes' : h \in handshakes \/
    \E s \in Source :
      /\ call[s].op = "handshake" /\ h = <<call[s].from, call[s].to>>
      /\ EndsExist(call[s]) /\ call'[s] = Idle
      /\ UNCHANGED <<partner, grants>>

\* Whatever happens, the calls and the handshakes change as these two say.
LEMMA EveryCallsStep ==
  ASSUME TypeOK, [Next]_vars
  PROVE  CallsStep /\ RowsStep
<1>1. CASE Serve \/ UNCHANGED vars
  BY <1>1 DEF Serve, Take, Deliver, DeliveryFails, Finish, Drop, tables, vars, CallsStep, RowsStep
<1>2. CASE Administer
  BY <1>2 DEF Administer, CreateProject, CreatePartner, Claim, Extend, GrantBudget, Archive,
              DeletePartner, DeleteProject, Delete, CallsStep, RowsStep
<1>3. ASSUME NEW a \in Live, NEW b \in Live, NEW o \in {"handshake", "send"},
             NEW l \in {"research", "query"}, Checked(a, b, o, l),
             o = "handshake" => MayHandshake(a, b)
      PROVE  CallsStep /\ RowsStep
  <2>1. /\ From(a) \in Source
        /\ call'[From(a)] = [op |-> o, from |-> a, to |-> b, label |-> l]
        /\ \A s \in Source : s # From(a) => call'[s] = call[s]
        /\ UNCHANGED tables
    BY <1>3, LiveAreThere, PartnerRow DEF Checked, TypeOK
  <2> QED BY <1>3, <2>1 DEF CallsStep, RowsStep, tables
<1>4. ASSUME NEW s \in Source, HandshakeMade(s) \/ Sent(s) PROVE CallsStep /\ RowsStep
  <2>1. /\ call'[s] = Idle /\ \A z \in Source : call'[z] \in {call[z], Idle}
        /\ UNCHANGED <<partner, grants>>
    BY <1>4 DEF HandshakeMade, Sent, Returned, TypeOK, tables
  <2> QED BY <1>4, <2>1 DEF HandshakeMade, Sent, tables, CallsStep, RowsStep
<1> QED BY <1>1, <1>2, <1>3, <1>4 DEF Next, Talk, HandshakeChecked, SendChecked

-----------------------------------------------------------------------------
(***************************************************************************)
(* What a process that has checked a handshake may still believe when it   *)
(* makes it.                                                               *)
(***************************************************************************)

\* Process s has checked a handshake of a with b and not made it.
Asks(s, a, b) == call[s].op = "handshake" /\ call[s].from = a /\ call[s].to = b

CallsAreOwn ==
  \A s \in Source : call[s] # Idle =>
    call[s].from \in DOMAIN partner /\ From(call[s].from) = s

\* No call of the science_ process comes in between, and only those change who
\* directs a conversation and with what budget.
ScienceAsked ==
  \A a, b : Asks("science", a, b) =>
    /\ b \in DOMAIN partner
    /\ From(b) = "gemini" => OtherSource(a, b) = {} /\ BudgetLeft(a)

\* No call of the gemini_ process does, and only those say which conversation
\* continues which.
GeminiAsked ==
  \A a, b : Asks("gemini", a, b) =>
    b \in DOMAIN partner /\ From(b) = "gemini" /\ Continues(a, b)

\* What every handshake is, whoever the two have become since.
Shape(a, b) ==
  /\ a # b
  /\ From(a) = From(b) => From(a) \in {"science", "gemini"}
  /\ Together(a, b) => RoleOf(a) \in {"project-orchestrator", "bridge-scientist"}

ShapeAsked == \A s \in Source : \A a, b : Asks(s, a, b) /\ b \in DOMAIN partner => Shape(a, b)

RowsAreShaped == \A h \in handshakes : Shape(h[1], h[2])

Asked == RolesAreScience /\ CallsAreOwn /\ ScienceAsked /\ GeminiAsked /\ ShapeAsked

\* What MayHandshake implies of two partners.
LEMMA MayHandshakeShape ==
  ASSUME NEW a \in DOMAIN partner, NEW b \in DOMAIN partner, MayHandshake(a, b)
  PROVE  /\ Shape(a, b)
         /\ From(a) = "science" /\ From(b) = "gemini" => Directs(a, b)
         /\ From(a) = "gemini" => GeminiPair(a, b)
<1>1. Together(a, b) => From(a) = From(b)
  BY DEF Together, From
<1>2. a # b
  BY DEF MayHandshake
<1>3. CASE CodeAndBridge(a, b) \/ CodeAndBridge(b, a)
  BY <1>1, <1>2, <1>3 DEF CodeAndBridge, Shape
<1>4. CASE GeminiPair(a, b)
  BY <1>2, <1>4 DEF GeminiPair, Shape
<1>5. CASE Peers(a, b)
  BY <1>2, <1>5 DEF Peers, Shape
<1>6. CASE Colleagues(a, b)
  BY <1>1, <1>2, <1>6 DEF Colleagues, Shape
<1>7. CASE Directs(a, b)
  BY <1>1, <1>2, <1>7 DEF Directs, Shape
<1> QED BY <1>3, <1>4, <1>5, <1>6, <1>7 DEF MayHandshake

\* A partner that stays has the source it had.
LEMMA SourceStays ==
  ASSUME PartnersStep, NEW p \in DOMAIN partner, p \in DOMAIN partner'
  PROVE  From(p)' = From(p) /\ (p \in Live' => p \in Live) /\ Stays(p)
BY DEF PartnersStep, Stays, From, Live

\* Two that stay are as much together as they were, and keep their shape.
LEMMA ShapeStays ==
  ASSUME PartnersStep, NEW a \in DOMAIN partner, a \in DOMAIN partner',
         NEW b \in DOMAIN partner, b \in DOMAIN partner', Shape(a, b)
  PROVE  Shape(a, b)'
<1>1. From(a)' = From(a) /\ From(b)' = From(b) /\ Stays(a) /\ Stays(b)
  BY SourceStays
<1>2. Together(a, b)' <=> Together(a, b)
  BY <1>1 DEF Together, Stays
<1>3. RoleOf(a) \in {"project-orchestrator", "bridge-scientist"} => RoleOf(a)' = RoleOf(a)
  BY <1>1 DEF Stays, RoleOf, NoRole
<1> QED BY <1>1, <1>2, <1>3 DEF Shape

\* No process asks anything at first.
LEMMA AskedStarts == Init => Asked
<1> SUFFICES ASSUME Init PROVE Asked
  OBVIOUS
<1>1. \A s \in Source : call[s] = Idle /\ call[s].op # "handshake"
  BY DEF Init, Idle
<1>2. "science" \in Source /\ "gemini" \in Source
  BY DEF Source
<1>3. DOMAIN partner = {}
  BY DEF Init
<1> QED BY <1>1, <1>2, <1>3
  DEF Asked, RolesAreScience, CallsAreOwn, ScienceAsked, GeminiAsked, ShapeAsked, Asks

\* No step gives a role to any but a science_ partner.
LEMMA RolesStep ==
  ASSUME RolesAreScience, PartnersStep
  PROVE  RolesAreScience'
<1> SUFFICES ASSUME NEW p \in DOMAIN partner', RoleOf(p)' # NoRole PROVE From(p)' = "science"
  BY DEF RolesAreScience
<1>1. p \in DOMAIN partner
  BY DEF PartnersStep, Arrives, RoleOf
<1>2. From(p)' = From(p) /\ Stays(p)
  BY <1>1, SourceStays
<1> QED BY <1>1, <1>2 DEF RolesAreScience, Stays, RoleOf

\* The partner a process acts for is its own, and is not deleted meanwhile.
LEMMA OwnStep ==
  ASSUME TypeOK, CallsAreOwn, PartnersStep, CallsStep
  PROVE  CallsAreOwn'
<1> SUFFICES ASSUME NEW s \in Source, call'[s] # Idle
             PROVE  call'[s].from \in DOMAIN partner' /\ From(call[s].from)' = s
  BY DEF CallsAreOwn
<1>1. PICK a : a = call'[s].from
  OBVIOUS
<1>2. a \in DOMAIN partner' /\ From(a)' = s
  <2>1. CASE call'[s] = call[s]
    <3>1. a \in DOMAIN partner /\ From(a) = s
      BY <1>1, <2>1 DEF CallsAreOwn
    <3>2. a \in DOMAIN partner'
      BY <2>1, <3>1 DEF PartnersStep
    <3> QED BY <3>1, <3>2, SourceStays
  <2>2. CASE call'[s] # call[s]
    BY <1>1, <2>2, LiveAreThere DEF CallsStep, tables, From
  <2> QED BY <2>1, <2>2
<1> QED BY <1>1, <1>2 DEF From

\* A pair that is asked about was asked about before, or is checked now.
LEMMA AsksBefore ==
  ASSUME CallsStep, NEW s \in Source, NEW a, NEW b, Asks(s, a, b)'
  PROVE  \/ Asks(s, a, b) /\ call[s] # Idle /\ call'[s] = call[s]
         \/ /\ a \in Live /\ b \in Live /\ From(a) = s
            /\ MayHandshake(a, b) /\ UNCHANGED tables
<1>1. call'[s].op = "handshake" /\ call'[s].from = a /\ call'[s].to = b /\ call'[s] # Idle
  BY DEF Asks, Idle
<1> QED BY <1>1 DEF CallsStep, Asks

\* A new handshake is one that a process asked about, and is done with.
LEMMA RowsOfOthers ==
  ASSUME CallsAreOwn, RowsStep, NEW h \in handshakes', h \notin handshakes
  PROVE  \E s \in Source :
           /\ Asks(s, h[1], h[2]) /\ h = <<h[1], h[2]>>
           /\ h[1] \in DOMAIN partner /\ h[2] \in DOMAIN partner /\ From(h[1]) = s
           /\ call'[s] = Idle /\ UNCHANGED <<partner, grants>>
<1>1. PICK s \in Source :
        /\ call[s].op = "handshake" /\ h = <<call[s].from, call[s].to>>
        /\ EndsExist(call[s]) /\ call'[s] = Idle
        /\ UNCHANGED <<partner, grants>>
  BY DEF RowsStep
<1>2. call[s] # Idle
  BY <1>1 DEF Idle
<1>3. From(call[s].from) = s
  BY <1>2 DEF CallsAreOwn
<1> QED BY <1>1, <1>3 DEF Asks, EndsExist

\* While a process asks, no handshake is made by its partners.
LEMMA RowsRest ==
  ASSUME CallsAreOwn, RowsStep, NEW s \in Source, call[s] # Idle, call'[s] = call[s],
         NEW h \in handshakes', From(h[1])' = s
  PROVE  h \in handshakes
<1> SUFFICES ASSUME h \notin handshakes PROVE FALSE
  OBVIOUS
<1>1. PICK z \in Source :
        /\ From(h[1]) = z /\ call'[z] = Idle /\ UNCHANGED partner
  BY RowsOfOthers
<1>2. From(h[1])' = From(h[1])
  BY <1>1 DEF From
<1> QED BY <1>1, <1>2

\* What there is of an orchestrator's conversations is a finite set.
LEMMA ConversationsFinite ==
  ASSUME TypeOK, NEW a
  PROVE  IsFiniteSet(Conversations(a)) /\ Conversations(a) \subseteq DOMAIN partner
<1>1. IsFiniteSet(1 .. MaxId)
  BY RegistryAssumption, FS_Interval
<1> QED BY <1>1, FS_Subset DEF TypeOK, Conversations

\* A conversation has the source it had.
LEMMA ConversationsStay ==
  ASSUME TypeOK, PartnersStep, NEW a, NEW c \in Conversations(a)', <<a, c>> \in handshakes
  PROVE  c \in Conversations(a)
<1>1. c \in DOMAIN partner /\ c \in DOMAIN partner' /\ From(c)' = "gemini"
  BY DEF Conversations, TypeOK
<1> QED BY <1>1, SourceStays DEF Conversations

\* Who directs a conversation, and what is left of a budget, waits for the call.
LEMMA ScienceStep ==
  ASSUME TypeOK, Asked, PartnersStep, CallsStep, RowsStep
  PROVE  ScienceAsked'
<1> SUFFICES ASSUME NEW a, NEW b, Asks("science", a, b)'
             PROVE  /\ b \in DOMAIN partner'
                    /\ From(b)' = "gemini" => OtherSource(a, b)' = {} /\ BudgetLeft(a)'
  BY DEF ScienceAsked
<1>1. "science" \in Source
  BY DEF Source
<1>2. CASE Asks("science", a, b) /\ call["science"] # Idle /\ call'["science"] = call["science"]
  <2>1. /\ DOMAIN partner \subseteq DOMAIN partner' /\ grants' = grants
        /\ b \in DOMAIN partner /\ b \in DOMAIN partner'
        /\ From(b)' = From(b)
        /\ From(b) = "gemini" => OtherSource(a, b) = {} /\ BudgetLeft(a)
    BY <1>2, SourceStays DEF PartnersStep, Asked, ScienceAsked
  <2>2. a \in DOMAIN partner /\ From(a)' = "science"
    BY <1>1, <1>2, <2>1, SourceStays DEF Asked, CallsAreOwn, Asks
  <2>3. \A c : <<c, b>> \in handshakes' /\ From(c)' = "science" => <<c, b>> \in handshakes
    BY <1>1, <1>2, RowsRest DEF Asked
  <2>4. OtherSource(a, b)' \subseteq OtherSource(a, b)
    BY <2>3, SourceStays DEF OtherSource, TypeOK
  <2>5. \A c : <<a, c>> \in handshakes' => <<a, c>> \in handshakes
    BY <1>1, <1>2, <2>2, RowsRest DEF Asked
  <2>6. Conversations(a)' \subseteq Conversations(a)
    <3> SUFFICES ASSUME NEW c \in Conversations(a)' PROVE c \in Conversations(a)
      OBVIOUS
    <3>1. <<a, c>> \in handshakes
      BY <2>5 DEF Conversations
    <3> QED BY <3>1, ConversationsStay
  <2>7. BudgetLeft(a) => BudgetLeft(a)'
    <3> SUFFICES ASSUME NEW g \in grants, g.to = a, Cardinality(Conversations(a)) < g.count
                 PROVE  BudgetLeft(a)'
      BY DEF BudgetLeft
    <3>1. /\ Cardinality(Conversations(a)) \in Nat /\ Cardinality(Conversations(a)') \in Nat
          /\ Cardinality(Conversations(a)') <= Cardinality(Conversations(a))
      BY <2>6, ConversationsFinite, FS_Subset, FS_CardinalityType
    <3>2. g.count \in Nat /\ g \in grants'
      BY <2>1, RegistryAssumption DEF TypeOK, Grant
    <3>3. Cardinality(Conversations(a)') < g.count
      BY <3>1, <3>2
    <3> QED BY <3>2, <3>3 DEF BudgetLeft
  <2> QED BY <2>1, <2>4, <2>7
<1>3. CASE /\ a \in Live /\ b \in Live /\ From(a) = "science"
           /\ MayHandshake(a, b) /\ UNCHANGED tables
  <2>1. From(b) = "gemini" => OtherSource(a, b) = {} /\ BudgetLeft(a)
    BY <1>3, LiveAreThere, MayHandshakeShape DEF Directs
  <2> QED BY <1>3, <2>1, LiveAreThere
        DEF tables, From, OtherSource, BudgetLeft, Conversations
<1> QED BY <1>1, <1>2, <1>3, AsksBefore

\* So does which conversation continues which.
LEMMA GeminiStep ==
  ASSUME TypeOK, Asked, PartnersStep, CallsStep, RowsStep
  PROVE  GeminiAsked'
<1> SUFFICES ASSUME NEW a, NEW b, Asks("gemini", a, b)'
             PROVE  b \in DOMAIN partner' /\ From(b)' = "gemini" /\ Continues(a, b)'
  BY DEF GeminiAsked
<1>1. "gemini" \in Source
  BY DEF Source
<1>2. CASE Asks("gemini", a, b) /\ call["gemini"] # Idle /\ call'["gemini"] = call["gemini"]
  <2>1. b \in DOMAIN partner /\ From(b) = "gemini" /\ Continues(a, b)
    BY <1>2 DEF Asked, GeminiAsked
  <2>2. b \in DOMAIN partner' /\ From(b)' = "gemini"
    BY <2>1, SourceStays DEF PartnersStep
  <2>3. ASSUME NEW c \in Live' \ {a}, From(c)' = "gemini", <<c, b>> \in handshakes'
        PROVE  FALSE
    <3>1. <<c, b>> \in handshakes
      BY <1>1, <1>2, <2>3, RowsRest DEF Asked
    <3>2. c \in DOMAIN partner /\ c \in DOMAIN partner'
      BY <3>1 DEF TypeOK, Live
    <3>3. c \in Live /\ From(c) = "gemini"
      BY <2>3, <3>2, SourceStays
    <3> QED BY <2>1, <3>1, <3>3 DEF Continues
  <2> QED BY <2>2, <2>3 DEF Continues
<1>3. CASE /\ a \in Live /\ b \in Live /\ From(a) = "gemini"
           /\ MayHandshake(a, b) /\ UNCHANGED tables
  <2>1. From(b) = "gemini" /\ Continues(a, b)
    BY <1>3, LiveAreThere, MayHandshakeShape DEF GeminiPair
  <2> QED BY <1>3, <2>1, LiveAreThere DEF tables, From, Continues, Live
<1> QED BY <1>1, <1>2, <1>3, AsksBefore

\* An id that comes back under another project does not spoil the shape.
LEMMA ShapeAskedStep ==
  ASSUME TypeOK, Asked, PartnersStep, CallsStep, CallsAreOwn'
  PROVE  ShapeAsked'
<1> SUFFICES ASSUME NEW s \in Source, NEW a, NEW b, Asks(s, a, b)', b \in DOMAIN partner'
             PROVE  Shape(a, b)'
  BY DEF ShapeAsked
<1>1. CASE Asks(s, a, b) /\ call[s] # Idle /\ call'[s] = call[s]
  <2>1. /\ a \in DOMAIN partner /\ From(a) = s
        /\ a \in DOMAIN partner' /\ From(a)' = s
    BY <1>1 DEF Asked, CallsAreOwn, Asks, From
  <2>2. CASE b \in DOMAIN partner
    BY <1>1, <2>1, <2>2, ShapeStays DEF Asked, ShapeAsked
  <2>3. CASE b \notin DOMAIN partner
    <3>1. call[From(b)'] = Idle
      BY <2>3 DEF PartnersStep, Arrives, From
    <3>2. From(a)' # From(b)' /\ a # b
      BY <1>1, <2>1, <2>3, <3>1
    <3> QED BY <3>2 DEF Shape, Together, From
  <2> QED BY <2>2, <2>3
<1>2. CASE a \in Live /\ b \in Live /\ MayHandshake(a, b) /\ UNCHANGED tables
  <2>1. Shape(a, b)
    BY <1>2, LiveAreThere, MayHandshakeShape
  <2> QED BY <1>2, <2>1 DEF tables, Shape, From, Together, RoleOf
<1> QED BY <1>1, <1>2, AsksBefore

\* What a process that asks believes stays true until it is done.
LEMMA AskedStep ==
  ASSUME TypeOK, Asked, [Next]_vars
  PROVE  Asked'
<1>1. PartnersStep /\ CallsStep /\ RowsStep
  BY EveryPartnersStep, EveryCallsStep DEF Asked
<1>2. RolesAreScience' /\ CallsAreOwn'
  BY <1>1, RolesStep, OwnStep DEF Asked
<1> QED BY <1>1, <1>2, ScienceStep, GeminiStep, ShapeAskedStep DEF Asked

-----------------------------------------------------------------------------
(***************************************************************************)
(* The invariant: the types, what processes believe, the shape of every    *)
(* handshake, and that a role is held once in a project.                   *)
(***************************************************************************)

RoleUnique ==
  \A p, q \in Live : Together(p, q) /\ RoleOf(p) = RoleOf(q) /\ RoleOf(p) # NoRole => p = q

RegistryInv ==
  /\ TypeOK /\ Asked /\ RowsAreShaped /\ RoleUnique
  /\ OneScienceSource /\ LineageIsALine /\ BudgetIsKept

\* The ends of a handshake there was and is.
LEMMA EndsStay ==
  ASSUME TypeOK, TypeOK', PartnersStep, NEW h \in handshakes', h \in handshakes
  PROVE  \A p \in {h[1], h[2]} :
           /\ p \in DOMAIN partner /\ p \in DOMAIN partner'
           /\ From(p)' = From(p) /\ (p \in Live' => p \in Live)
<1>1. \A p \in {h[1], h[2]} : p \in DOMAIN partner /\ p \in DOMAIN partner'
  BY DEF TypeOK
<1> QED BY <1>1, SourceStays

\* A handshake is made in shape and keeps it.
LEMMA ShapedStep ==
  ASSUME TypeOK, TypeOK', Asked, RowsAreShaped, PartnersStep, RowsStep
  PROVE  RowsAreShaped'
<1> SUFFICES ASSUME NEW h \in handshakes' PROVE Shape(h[1], h[2])'
  BY DEF RowsAreShaped
<1>1. CASE h \in handshakes
  BY <1>1, EndsStay, ShapeStays DEF RowsAreShaped
<1>2. CASE h \notin handshakes
  <2>1. /\ h[1] \in DOMAIN partner /\ h[2] \in DOMAIN partner /\ partner' = partner
        /\ Shape(h[1], h[2])
    BY <1>2, RowsOfOthers DEF Asked, ShapeAsked
  <2> QED BY <2>1, ShapeStays
<1> QED BY <1>1, <1>2

\* A role is claimed only where nobody live has it, one claim at a time.
LEMMA RoleStep ==
  ASSUME RoleUnique, PartnersStep
  PROVE  RoleUnique'
<1> SUFFICES ASSUME NEW p \in Live', NEW q \in Live', Together(p, q)',
                    RoleOf(p)' = RoleOf(q)', RoleOf(p)' # NoRole
             PROVE  p = q
  BY DEF RoleUnique
<1>1. /\ p \in DOMAIN partner /\ p \in DOMAIN partner'
      /\ q \in DOMAIN partner /\ q \in DOMAIN partner'
  BY DEF PartnersStep, Arrives, RoleOf, Live
<1>2. p \in Live /\ q \in Live /\ Stays(p) /\ Stays(q)
  BY <1>1, SourceStays
<1>3. Together(p, q)
  BY <1>2 DEF Together, Stays
<1>4. CASE RoleOf(p)' = RoleOf(p) /\ RoleOf(q)' = RoleOf(q)
  BY <1>2, <1>3, <1>4 DEF RoleUnique
<1>5. CASE RoleOf(p)' # RoleOf(p) /\ RoleOf(q)' # RoleOf(q)
  BY <1>1, <1>5 DEF PartnersStep, RoleOf
<1>6. CASE RoleOf(p)' # RoleOf(p) /\ RoleOf(q)' = RoleOf(q)
  <2>1. q \in Members(partner[p].project) \cap Live
    BY <1>1, <1>2, <1>3 DEF Members, Together
  <2> QED BY <1>2, <1>6, <2>1 DEF Stays, RoleOf
<1>7. CASE RoleOf(p)' = RoleOf(p) /\ RoleOf(q)' # RoleOf(q)
  <2>1. p \in Members(partner[q].project) \cap Live
    BY <1>1, <1>2, <1>3 DEF Members, Together
  <2> QED BY <1>2, <1>7, <2>1 DEF Stays, RoleOf
<1> QED BY <1>4, <1>5, <1>6, <1>7

\* A new director is the first.
LEMMA SourceStep ==
  ASSUME TypeOK, TypeOK', Asked, OneScienceSource, PartnersStep, RowsStep
  PROVE  OneScienceSource'
<1> DEFINE Directed(h) == From(h[2]) = "gemini" /\ From(h[1]) = "science"
<1>1. ASSUME NEW h \in handshakes', Directed(h)', h \in handshakes
      PROVE  Directed(h) /\ h[1] \in DOMAIN partner
  BY <1>1, EndsStay
<1>2. ASSUME NEW h \in handshakes', Directed(h)', h \notin handshakes
      PROVE  /\ Asks("science", h[1], h[2]) /\ OtherSource(h[1], h[2]) = {}
             /\ UNCHANGED partner
  <2>1. PICK s \in Source :
          Asks(s, h[1], h[2]) /\ From(h[1]) = s /\ UNCHANGED partner
    BY <1>2, RowsOfOthers DEF Asked
  <2>2. From(h[1]) = "science" /\ From(h[2]) = "gemini"
    BY <1>2, <2>1 DEF From
  <2> QED BY <2>1, <2>2 DEF Asked, ScienceAsked
<1>3. ASSUME NEW h \in handshakes', NEW k \in handshakes', h[2] = k[2],
             Directed(h)', Directed(k)', h \notin handshakes
      PROVE  h[1] = k[1]
  <2>1. CASE k \in handshakes
    <3>1. Directed(k) /\ k[1] \in DOMAIN partner /\ k = <<k[1], h[2]>>
      BY <1>1, <1>3, <2>1 DEF TypeOK
    <3> QED BY <1>2, <1>3, <2>1, <3>1 DEF OtherSource
  <2>2. CASE k \notin handshakes
    BY <1>2, <1>3, <2>2 DEF Asks
  <2> QED BY <2>1, <2>2
<1>4. ASSUME NEW h \in handshakes', NEW k \in handshakes', h[2] = k[2],
             Directed(h)', Directed(k)', h \in handshakes, k \in handshakes
      PROVE  h[1] = k[1]
  BY <1>1, <1>4 DEF OneScienceSource
<1> QED BY <1>3, <1>4 DEF OneScienceSource

\* A new successor is the only live one.
LEMMA LineageStep ==
  ASSUME TypeOK, TypeOK', Asked, LineageIsALine, PartnersStep, RowsStep
  PROVE  LineageIsALine'
<1> DEFINE Continued(h) == h[1] \in Live /\ From(h[1]) = "gemini"
<1>1. ASSUME NEW h \in handshakes', Continued(h)', h \in handshakes
      PROVE  Continued(h)
  BY <1>1, EndsStay
<1>2. ASSUME NEW h \in handshakes', Continued(h)', h \notin handshakes
      PROVE  Asks("gemini", h[1], h[2]) /\ Continues(h[1], h[2])
  <2>1. PICK s \in Source :
          Asks(s, h[1], h[2]) /\ From(h[1]) = s /\ UNCHANGED partner
    BY <1>2, RowsOfOthers DEF Asked
  <2>2. From(h[1]) = "gemini"
    BY <1>2, <2>1 DEF From
  <2> QED BY <2>1, <2>2 DEF Asked, GeminiAsked
<1>3. ASSUME NEW h \in handshakes', NEW k \in handshakes', h[2] = k[2],
             Continued(h)', Continued(k)', h \notin handshakes
      PROVE  h[1] = k[1]
  <2>1. CASE k \in handshakes
    <3>1. Continued(k) /\ k = <<k[1], h[2]>>
      BY <1>1, <1>3, <2>1 DEF TypeOK
    <3> QED BY <1>2, <1>3, <2>1, <3>1 DEF Continues
  <2>2. CASE k \notin handshakes
    BY <1>2, <1>3, <2>2 DEF Asks
  <2> QED BY <2>1, <2>2
<1>4. ASSUME NEW h \in handshakes', NEW k \in handshakes', h[2] = k[2],
             Continued(h)', Continued(k)', h \in handshakes, k \in handshakes
      PROVE  h[1] = k[1]
  BY <1>1, <1>4 DEF LineageIsALine
<1> QED BY <1>3, <1>4 DEF LineageIsALine

\* A new conversation is within a budget.
LEMMA BudgetStep ==
  ASSUME TypeOK, TypeOK', Asked, BudgetIsKept, PartnersStep, RowsStep
  PROVE  BudgetIsKept'
<1> SUFFICES ASSUME NEW a \in DOMAIN partner', From(a)' = "science"
             PROVE  Cardinality(Conversations(a)') <= MaxBudget
  BY DEF BudgetIsKept
<1>1. IsFiniteSet(Conversations(a)) /\ Cardinality(Conversations(a)) \in Nat
  BY ConversationsFinite, FS_CardinalityType
<1>2. CASE a \notin DOMAIN partner
  <2>1. handshakes' = handshakes
    BY <1>2 DEF PartnersStep, Arrives
  <2>2. Conversations(a)' = {}
    BY <1>2, <2>1 DEF Conversations, TypeOK
  <2> QED BY <2>2, FS_EmptySet, RegistryAssumption
<1>3. CASE a \in DOMAIN partner /\ \A c : <<a, c>> \in handshakes' => <<a, c>> \in handshakes
  <2>1. Conversations(a)' \subseteq Conversations(a)
    BY <1>3, ConversationsStay DEF Conversations
  <2>2. Cardinality(Conversations(a)) <= MaxBudget
    BY <1>3, SourceStays DEF BudgetIsKept
  <2>3. /\ Cardinality(Conversations(a)') <= Cardinality(Conversations(a))
        /\ Cardinality(Conversations(a)') \in Nat
    BY <1>1, <2>1, FS_Subset, FS_CardinalityType
  <2> QED BY <1>1, <2>2, <2>3, RegistryAssumption
<1>4. ASSUME a \in DOMAIN partner, NEW b, <<a, b>> \in handshakes', <<a, b>> \notin handshakes
      PROVE  Cardinality(Conversations(a)') <= MaxBudget
  <2>1. PICK s \in Source :
          Asks(s, a, b) /\ From(a) = s /\ b \in DOMAIN partner /\ UNCHANGED <<partner, grants>>
    BY <1>4, RowsOfOthers DEF Asked
  <2>2. s = "science"
    BY <2>1 DEF From
  <2>3. \A c : <<a, c>> \in handshakes' /\ <<a, c>> \notin handshakes => c = b
    <3> SUFFICES ASSUME NEW c, <<a, c>> \in handshakes', <<a, c>> \notin handshakes PROVE c = b
      OBVIOUS
    <3>1. PICK z \in Source : Asks(z, a, c) /\ From(a) = z
      BY RowsOfOthers DEF Asked
    <3> QED BY <2>1, <3>1 DEF Asks
  <2>4. Conversations(a)' \subseteq Conversations(a) \cup {b}
    BY <2>1, <2>3 DEF Conversations, From
  <2>5. /\ Cardinality(Conversations(a)') <= Cardinality(Conversations(a) \cup {b})
        /\ Cardinality(Conversations(a)') \in Nat
        /\ Cardinality(Conversations(a) \cup {b}) <= Cardinality(Conversations(a)) + 1
        /\ Cardinality(Conversations(a) \cup {b}) \in Nat
    BY <1>1, <2>4, FS_AddElement, FS_Subset, FS_CardinalityType
  <2>6. CASE From(b) = "gemini"
    <3>1. PICK g \in grants : Cardinality(Conversations(a)) < g.count
      BY <2>1, <2>2, <2>6 DEF Asked, ScienceAsked, BudgetLeft
    <3>2. g.count \in 0 .. MaxBudget
      BY DEF TypeOK, Grant
    <3> QED BY <1>1, <2>5, <3>1, <3>2, RegistryAssumption
  <2>7. CASE From(b) # "gemini"
    <3>1. Conversations(a)' \subseteq Conversations(a)
      BY <2>1, <2>4, <2>7 DEF Conversations, From
    <3>2. Cardinality(Conversations(a)) <= MaxBudget
      BY <1>4, SourceStays DEF BudgetIsKept
    <3>3. Cardinality(Conversations(a)') <= Cardinality(Conversations(a))
      BY <1>1, <3>1, FS_Subset
    <3> QED BY <1>1, <2>5, <3>2, <3>3, RegistryAssumption
  <2> QED BY <2>6, <2>7
<1> QED BY <1>2, <1>3, <1>4

\* The empty tables satisfy the invariant.
LEMMA RegistryInvStarts == Init => RegistryInv
<1> SUFFICES ASSUME Init PROVE RegistryInv
  OBVIOUS
<1>1. TypeOK
  BY RegistryAssumption DEF Init, TypeOK, Idle
<1>2. DOMAIN partner = {} /\ handshakes = {}
  BY DEF Init
<1> QED BY <1>1, <1>2, AskedStarts
  DEF RegistryInv, RowsAreShaped, RoleUnique, Live, OneScienceSource, LineageIsALine, BudgetIsKept

\* Every step keeps the invariant.
LEMMA RegistryInvStep ==
  ASSUME RegistryInv, [Next]_vars
  PROVE  RegistryInv'
<1>1. TypeOK'
  <2>1. CASE UNCHANGED vars
    BY <2>1 DEF RegistryInv, vars, TypeOK
  <2> QED BY <2>1, ServeTypes, AdministerTypes, TalkTypes DEF RegistryInv, Next
<1>2. Asked' /\ PartnersStep /\ RowsStep
  BY AskedStep, EveryPartnersStep, EveryCallsStep DEF RegistryInv, Asked
<1> QED BY <1>1, <1>2, ShapedStep, RoleStep, SourceStep, LineageStep, BudgetStep
  DEF RegistryInv

\* So it holds in every reachable state.
LEMMA RegistryInvHolds == Spec => []RegistryInv
BY RegistryInvStarts, RegistryInvStep, PTL DEF Spec

\* A conversation is directed by one science_ partner for as long as it exists,
\* whatever is archived, deleted and created again, and whichever calls the
\* processes have checked and not made.
THEOREM OneDirector == Spec => []OneScienceSource
BY RegistryInvHolds, PTL DEF RegistryInv

\* Two live conversations never continue the same one.
THEOREM OneSuccessor == Spec => []LineageIsALine
BY RegistryInvHolds, PTL DEF RegistryInv

\* No orchestrator is given more conversations than the greatest budget.
THEOREM BudgetHolds == Spec => []BudgetIsKept
BY RegistryInvHolds, PTL DEF RegistryInv

-----------------------------------------------------------------------------
(***************************************************************************)
(* Delegation goes one way.                                                *)
(***************************************************************************)

\* Where a partner stands: its layer, and a plain science_ partner half a step
\* below an orchestrator.
Rank(p) == 2 * Layer(p) + (IF Layer(p) = 2 /\ RoleOf(p) = NoRole THEN 1 ELSE 0)

\* Ranks are small numbers, and follow the layers.
LEMMA RankIsSmall ==
  ASSUME NEW p
  PROVE  /\ Layer(p) \in 0 .. 4 /\ Rank(p) \in 0 .. 8
         /\ 2 * Layer(p) <= Rank(p) /\ Rank(p) <= 2 * Layer(p) + 1
BY DEF Layer, Rank

\* The layers of agent_layers, one by one.
LEMMA LayerOf ==
  ASSUME NEW p, From(p) \in Source, RoleOf(p) # NoRole => From(p) = "science"
  PROVE  /\ From(p) \in {"nlm", "code"} <=> Layer(p) = 0
         /\ From(p) = "gemini" <=> Layer(p) = 4
         /\ From(p) = "science" /\ RoleOf(p) = "bridge-scientist" <=> Layer(p) = 1
         /\ From(p) = "science" /\ RoleOf(p) = "gemini-orchestrator" <=> Layer(p) = 3
<1>1. CASE From(p) \in {"nlm", "code"}
  BY <1>1 DEF Layer, NoRole
<1>2. CASE From(p) = "gemini"
  BY <1>2 DEF Layer, NoRole
<1>3. CASE From(p) = "science"
  <2>1. ~(From(p) \in {"nlm", "code"}) /\ From(p) # "gemini"
    BY <1>3
  <2>2. CASE RoleOf(p) = "bridge-scientist"
    <3>1. RoleOf(p) # "gemini-orchestrator"
      BY <2>2
    <3>2. Layer(p) = 1
      BY <2>1, <2>2, <3>1 DEF Layer
    <3> QED BY <1>3, <2>2, <3>2
  <2>3. CASE RoleOf(p) = "gemini-orchestrator"
    <3>1. RoleOf(p) # "bridge-scientist"
      BY <2>3
    <3>2. Layer(p) = 3
      BY <2>1, <2>3, <3>1 DEF Layer
    <3> QED BY <1>3, <2>3, <3>2
  <2>4. CASE RoleOf(p) \notin {"bridge-scientist", "gemini-orchestrator"}
    BY <2>1, <2>4 DEF Layer
  <2> QED BY <1>3, <2>2, <2>3, <2>4
<1> QED BY <1>1, <1>2, <1>3 DEF Source

\* Who commands stands above: of two on one layer, one is the orchestrator of
\* the project and the other has no role.
LEMMA CommandsDown ==
  ASSUME RegistryInv, NEW a \in Live, NEW b \in Live, Commands(a, b)
  PROVE  Rank(a) < Rank(b)
<1>1. a \in DOMAIN partner /\ b \in DOMAIN partner
  BY LiveAreThere
<1>2. /\ From(a) # "nlm" /\ From(b) # "nlm" /\ <<a, b>> \in handshakes
      /\ Layer(a) <= Layer(b)
      /\ From(a) = From(b) => Together(a, b)
  BY DEF Commands, MayRoute, ARow
<1>3. Shape(a, b)
  BY <1>2 DEF RegistryInv, RowsAreShaped
<1>4. /\ From(a) \in Source /\ RoleOf(a) \in Role \cup {NoRole}
      /\ From(b) \in Source /\ RoleOf(b) \in Role \cup {NoRole}
      /\ \A p \in {a, b} : RoleOf(p) # NoRole => From(p) = "science"
  BY <1>1, PartnerRow DEF RegistryInv, Asked, RolesAreScience
<1>5. CASE Layer(a) < Layer(b)
  BY <1>5, RankIsSmall
<1>6. CASE Layer(a) = Layer(b)
  <2>1. From(a) = From(b) \/ {From(a), From(b)} \subseteq {"nlm", "code"}
    BY <1>4, <1>6, LayerOf DEF Source
  <2>2. From(a) = From(b) /\ From(a) \in {"science", "gemini"} /\ Together(a, b)
    BY <1>2, <1>3, <2>1 DEF Shape
  <2>3. RoleOf(a) \in {"project-orchestrator", "bridge-scientist"}
    BY <1>3, <2>2 DEF Shape
  <2>4. From(a) = "science"
    BY <1>1, <2>3 DEF RegistryInv, Asked, RolesAreScience, NoRole
  <2>5. RoleOf(a) # RoleOf(b)
    BY <1>3, <2>2, <2>3 DEF RegistryInv, RoleUnique, Shape, NoRole
  <2>6. Layer(a) = 2 /\ RoleOf(a) # NoRole /\ RoleOf(b) = NoRole
    <3>1. From(b) = "science"
      BY <2>2, <2>4
    <3>2. Layer(a) \in 0 .. 4 /\ Layer(b) \in 0 .. 4
      BY RankIsSmall
    <3>3. RoleOf(a) # "gemini-orchestrator" /\ RoleOf(a) # NoRole
      BY <2>3 DEF NoRole
    <3>4. RoleOf(a) # "bridge-scientist"
      BY <1>4, <1>6, <2>4, <2>5, <3>1, LayerOf
    <3>5. Layer(a) = 2 /\ Layer(b) = 2
      BY <1>4, <1>6, <2>4, <3>2, <3>3, <3>4, LayerOf
    <3>6. RoleOf(b) = NoRole
      BY <1>4, <2>3, <2>5, <3>1, <3>4, <3>5, LayerOf DEF Role
    <3> QED BY <3>3, <3>5, <3>6
  <2> QED BY <1>6, <2>6 DEF Rank
<1> QED BY <1>2, <1>5, <1>6, RankIsSmall

\* The lowest of a set waits for none of it.
LEMMA NoCircle == RegistryInv => NobodyWaitsInACircle
<1> DEFINE Joined == handshakes \cup {<<h[2], h[1]>> : h \in handshakes}
           Chain == {h \in Joined : {h[1], h[2]} \subseteq Live /\ Commands(h[1], h[2])}
<1> SUFFICES ASSUME RegistryInv, NEW S \in SUBSET {h[1] : h \in Chain}, S # {}
             PROVE  \E a \in S : \A b \in S : <<a, b>> \notin Chain
  BY Zenon DEF NobodyWaitsInACircle
<1>1. \A a, b : <<a, b>> \in Chain => Rank(a) < Rank(b)
  BY CommandsDown
<1> DEFINE Ranks == {Rank(a) : a \in S}
<1>2. Max(Ranks) \in Ranks /\ \A y \in Ranks : Max(Ranks) >= y
  <2>1. Ranks \in SUBSET (0 .. 8) /\ Ranks # {}
    BY RankIsSmall
  <2> HIDE DEF Ranks
  <2> QED BY <2>1, GreatestExists
<1>3. PICK a \in S : Rank(a) = Max(Ranks)
  BY <1>2
<1>4. \A b \in S : Rank(b) <= Rank(a)
  BY <1>2, <1>3
<1> HIDE DEF Chain
<1>5. \A b \in S : <<a, b>> \notin Chain
  BY <1>1, <1>4, RankIsSmall
<1> QED BY <1>5

\* There is never a set of live partners each of whom has delegated, or may, to
\* another of them and waits: every send goes down in rank.
THEOREM NoCircleOfWaiting == Spec => []NobodyWaitsInACircle
BY RegistryInvHolds, NoCircle, PTL

-----------------------------------------------------------------------------
(***************************************************************************)
(* Who vanishes.                                                           *)
(***************************************************************************)

\* No live partner is archived or deleted by any other step.
LEMMA ElseNobodyVanishes ==
  ASSUME TypeOK, NEW b, Vanishes(b),
         Serve \/ Talk \/ UNCHANGED vars
         \/ (\E j \in Project : CreateProject(j) \/ CreatePartner(j))
         \/ (\E a \in Live :
              \/ \E r \in Role : Claim(a, r)
              \/ \E i, j \in projects : Extend(a, i, j)
              \/ \E c \in Live : \E n \in 0 .. MaxBudget : GrantBudget(a, c, n))
  PROVE  FALSE
<1>1. b \in DOMAIN partner /\ ~partner[b].archived
  BY DEF Vanishes, Live
<1>2. CASE UNCHANGED partner
  BY <1>2 DEF Vanishes, Live
<1>3. ASSUME NEW j \in Project, CreatePartner(j) PROVE FALSE
  <2>1. PICK n : n = NewId /\ n \notin DOMAIN partner
    BY <1>3, NewIdIsFree DEF CreatePartner
  <2>2. b \in DOMAIN partner' /\ partner'[b] = partner[b]
    BY <1>1, <1>3, <2>1 DEF CreatePartner
  <2> QED BY <1>1, <2>2 DEF Vanishes, Live
<1>4. ASSUME NEW a \in Live, NEW r \in Role, Claim(a, r) PROVE FALSE
  <2>1. b \in DOMAIN partner' /\ partner'[b].archived = partner[b].archived
    BY <1>1, <1>4, PartnerRow, LiveAreThere DEF Claim, TypeOK, Row
  <2> QED BY <1>1, <2>1 DEF Vanishes, Live
<1>5. \/ UNCHANGED partner \/ \E j \in Project : CreatePartner(j)
      \/ \E a \in Live : \E r \in Role : Claim(a, r)
  BY DEF Serve, Take, Deliver, DeliveryFails, Finish, Drop, Talk, HandshakeChecked,
         SendChecked, Checked, HandshakeMade, Sent, tables, vars, CreateProject, Extend,
         GrantBudget
<1> QED BY <1>2, <1>3, <1>4, <1>5

\* Archiving one tells every caller of what it held or had waiting.
LEMMA ArchivingTells ==
  ASSUME TypeOK, NEW a \in Live, NEW b \in Live, Archive(a, b),
         NEW w \in work, Vanishes(w.to), w.at # "delivering"
  PROVE  Told(w)
<1>1. \A p \in DOMAIN partner : p # b => partner'[p] = partner[p]
  BY DEF Archive, TypeOK
<1>2. DOMAIN partner' = DOMAIN partner
  BY DEF Archive, TypeOK
<1>3. w.to = b
  BY <1>1, <1>2 DEF Vanishes, Live
<1>4. w \in Queued(b) \cup Held(b)
  BY <1>3 DEF TypeOK, Work, Queued, Held
<1>5. w.from \in Live' => w.from = b \/ w.from \in Live
  BY <1>1, <1>2 DEF Live
<1>6. Notice(w.from, b)' = Notice(w.from, b)
  BY DEF Notice
<1> QED BY <1>3, <1>4, <1>5 DEF Told, Archive, Waiting

\* Deleting finds nothing in the queue or the slot.
LEMMA DeletingFindsNothing ==
  ASSUME TypeOK, NEW D, Delete(D), NEW w \in work, Vanishes(w.to)
  PROVE  w.at = "delivering"
<1>1. w.to \in D
  <2> SUFFICES ASSUME w.to \notin D PROVE FALSE
    OBVIOUS
  <2>1. w.to \in DOMAIN partner' /\ partner'[w.to] = partner[w.to]
    <3>1. w.to \in DOMAIN partner
      BY DEF Vanishes, Live
    <3>2. /\ DOMAIN partner' = DOMAIN partner \ D
          /\ \A p \in DOMAIN partner' : partner'[p] = partner[p]
      BY DeleteTypes
    <3> QED BY <3>1, <3>2
  <2> QED BY <2>1 DEF Vanishes, Live
<1> QED BY <1>1 DEF Delete, Busy, Queued, Held, TypeOK, Work

\* A partner never vanishes under work in its queue or its slot without each
\* caller that still lives being told.
THEOREM NobodyVanishesUntold == Spec => VanishingTells
<1>1. ASSUME TypeOK, [Next]_vars, NEW w \in work, Vanishes(w.to), w.at # "delivering"
      PROVE  Told(w)
  <2>1. ASSUME NEW a \in Live, NEW b \in Live, Archive(a, b) PROVE Told(w)
    BY <1>1, <2>1, ArchivingTells
  <2>2. ASSUME NEW a \in Live, NEW b \in Live, DeletePartner(a, b) PROVE Told(w)
    BY <1>1, <2>2, DeletingFindsNothing DEF DeletePartner
  <2>3. ASSUME NEW a \in Live, DeleteProject(a) PROVE Told(w)
    BY <1>1, <2>3, DeletingFindsNothing DEF DeleteProject
  <2> QED BY <1>1, <2>1, <2>2, <2>3, ElseNobodyVanishes DEF Next, Administer
<1>2. TypeOK /\ [Next]_vars
        => [\A w \in work : Vanishes(w.to) /\ w.at # "delivering" => Told(w)]_vars
  BY <1>1
<1> QED BY <1>2, RegistryTypeCorrect, PTL DEF Spec, VanishingTells
=============================================================================
