-------------------------- MODULE DrainServer_proofs --------------------------
(***************************************************************************)
(* Proofs about DrainServer: its types, that every thread nobody stopped   *)
(* is registered, and that work somebody armed for has a thread in its     *)
(* loop, for any number of partners and threads.                           *)
(***************************************************************************)
EXTENDS DrainServer, TLAPS

Pc == {"top", "advance", "delivering", "read", "depth", "poll", "idle",
       "rechecking", "leaving", "forgetting"}

Threads == [Thread -> Running \cup {Off}]

Delivers(t, p) == At(t, "delivering") /\ thread[t].of = p

\* One holder of the slot lock at most, and it found or made the slot empty.
SlotGuarded ==
  \A p \in Partner :
    /\ sender[p] = "delivering" => ~slot[p]
    /\ \A t \in Thread : Delivers(t, p) => ~slot[p] /\ sender[p] # "delivering"
    /\ \A t, u \in Thread : Delivers(t, p) /\ Delivers(u, p) => t = u

\* A task in the slot, or on its way there, has left room to go back.
RoomLeft ==
  \A p \in Partner : slot[p] \/ ~SlotLockFree(p) => rows[p] < MaxTasks

\* A live thread serves the partner it is registered for.
Registrations ==
  \A p \in Partner : Attended(p) => thread[registry[p]].of = p

\* Between its two locks stop() has told every thread it could know of.
ClosingToldAll == closing => \A t \in Thread : ~Staying(t)

\* The server's lock has one holder.
OneDecides ==
  \A t, u \in Thread : At(t, "rechecking") /\ At(u, "rechecking") => t = u

InLoopFor(t, p) == Serves(t, p) /\ InLoop(t)

Armed(p) == armed[p] /\ sender[p] = "none"

\* A slot filled while a thread makes up its mind was filled by another thread.
SomebodyElse ==
  \A p \in Partner, t \in Thread :
    At(t, "rechecking") /\ thread[t].of = p /\ Armed(p) /\ slot[p]
      => \E u \in Thread \ {t} : InLoopFor(u, p)

-----------------------------------------------------------------------------
(***************************************************************************)
(* What a step may do to the threads.                                      *)
(***************************************************************************)

\* A thread whose place in the loop is known is live, and has its fields.
LEMMA LiveFields ==
  ASSUME thread \in Threads, NEW t \in Thread
  PROVE  /\ Live(t) <=> thread[t].pc # "off"
         /\ Live(t) => /\ thread[t] \in Running
                       /\ thread[t].pc \in Pc
                       /\ thread[t].of \in Partner
                       /\ thread[t].told \in BOOLEAN
                       /\ thread[t].late \in BOOLEAN
  BY DEF Threads, Running, Off, Live, Pc

\* A thread that moves on keeps all but its place.
LEMMA GoToFields ==
  ASSUME thread \in Threads, NEW t \in Thread, Live(t), NEW pc \in Pc, GoTo(t, pc)
  PROVE  /\ thread' \in Threads
         /\ Live(t)'
         /\ thread'[t].pc = pc
         /\ thread'[t].of = thread[t].of
         /\ thread'[t].told = thread[t].told
         /\ thread'[t].late = thread[t].late
         /\ \A u \in Thread \ {t} : thread'[u] = thread[u]
  <1>1. thread[t] \in Running
    BY LiveFields
  <1>2. thread' = [thread EXCEPT ![t] = [thread[t] EXCEPT !.pc = pc]]
    BY DEF GoTo
  <1>3. [thread[t] EXCEPT !.pc = pc] \in Running
    BY <1>1 DEF Running, Pc
  <1>4. thread'[t] = [thread[t] EXCEPT !.pc = pc]
    BY <1>2 DEF Threads
  <1>5. thread' \in Threads
    BY <1>2, <1>3 DEF Threads
  <1>6. thread'[t].pc = pc
    BY <1>1, <1>4 DEF Running
  <1>7. Live(t)'
    BY <1>6 DEF Live, Off, Pc
  <1> QED
    BY <1>1, <1>2, <1>4, <1>5, <1>6, <1>7 DEF Running, Threads

\* A thread that ends is off, and the others stay as they are.
LEMMA EndsFields ==
  ASSUME thread \in Threads, NEW t \in Thread, Ends(t)
  PROVE  /\ thread' \in Threads
         /\ thread'[t] = Off
         /\ \A u \in Thread \ {t} : thread'[u] = thread[u]
  BY DEF Threads, Ends

\* A thread that is told to stop keeps its place until it asks.
LEMMA ToldFields ==
  ASSUME NEW r \in Running \cup {Off}
  PROVE  /\ Told(r) \in Running \cup {Off}
         /\ Told(r) = Off <=> r = Off
         /\ Told(r).pc = r.pc
         /\ r # Off => /\ Told(r).told
                       /\ Told(r).of = r.of
                       /\ Told(r).late = r.late
  <1>1. CASE r = Off
    BY <1>1 DEF Told
  <1>2. CASE r # Off
    <2>1. Told(r) = [r EXCEPT !.told = TRUE]
      BY <1>2 DEF Told
    <2>2. r \in Running
      BY <1>2
    <2>3. Told(r) \in Running /\ Told(r).pc = r.pc /\ Told(r).told
            /\ Told(r).of = r.of /\ Told(r).late = r.late
      BY <2>1, <2>2 DEF Running
    <2>4. Told(r) # Off
      BY <2>3 DEF Running, Off
    <2> QED
      BY <1>2, <2>3, <2>4
  <1> QED
    BY <1>1, <1>2

\* What a new thread starts as.
LEMMA StartedFields ==
  ASSUME NEW p \in Partner, closing \in BOOLEAN
  PROVE  /\ Started(p) \in Running
         /\ Started(p) # Off
         /\ Started(p).pc = "top"
         /\ Started(p).of = p
         /\ ~Started(p).told
         /\ Started(p).late = closing
  BY DEF Started, Running, Off

\* Arming starts a thread that had ended and is registered nowhere, or nothing.
LEMMA EnsureFields ==
  ASSUME thread \in Threads,
         registry \in [Partner -> Thread \cup {NoThread}],
         closing \in BOOLEAN,
         NEW p \in Partner,
         EnsureThread(p)
  PROVE  /\ thread' \in Threads
         /\ registry' \in [Partner -> Thread \cup {NoThread}]
         /\ LockFree
         /\ \/ Attended(p) /\ UNCHANGED <<thread, registry, row>>
            \/ /\ ~Attended(p)
               /\ \E t \in Thread :
                    /\ ~Live(t)
                    /\ \A q \in Partner : registry[q] # t
                    /\ thread'[t] = Started(p)
                    /\ \A u \in Thread \ {t} : thread'[u] = thread[u]
                    /\ registry'[p] = t
                    /\ \A q \in Partner \ {p} : registry'[q] = registry[q]
                    /\ row' = [row EXCEPT ![p] = TRUE]
  <1>1. CASE Attended(p)
    BY <1>1 DEF EnsureThread
  <1>2. CASE ~Attended(p)
    <2>1. PICK t \in Spare : /\ thread' = [thread EXCEPT ![t] = Started(p)]
                             /\ registry' = [registry EXCEPT ![p] = t]
                             /\ row' = [row EXCEPT ![p] = TRUE]
      BY <1>2 DEF EnsureThread
    <2>2. t \in Thread /\ ~Live(t) /\ \A q \in Partner : registry[q] # t
      BY DEF Spare
    <2>3. thread' \in Threads
      BY <2>1, <2>2, StartedFields DEF Threads
    <2> QED
      BY <1>2, <2>1, <2>2, <2>3 DEF EnsureThread, Threads
  <1> QED
    BY <1>1, <1>2

\* stop_partner_thread tells the registered thread, and no other.
LEMMA SignalsFields ==
  ASSUME thread \in Threads,
         registry \in [Partner -> Thread \cup {NoThread}],
         NEW p \in Partner,
         StopThreadSignals(p)
  PROVE  /\ thread' \in Threads
         /\ registry' \in [Partner -> Thread \cup {NoThread}]
         /\ registry'[p] = NoThread
         /\ \A q \in Partner \ {p} : registry'[q] = registry[q]
         /\ \A u \in Thread : thread'[u] = IF u = registry[p] THEN Told(thread[u]) ELSE thread[u]
  <1>1. CASE registry[p] = NoThread
    BY <1>1, ThreadAssumption DEF StopThreadSignals, Threads
  <1>2. CASE registry[p] # NoThread
    <2>1. registry[p] \in Thread
      BY <1>2
    <2>2. thread[registry[p]] \in Running \cup {Off}
      BY <2>1 DEF Threads
    <2>3. Told(thread[registry[p]]) \in Running \cup {Off}
      BY <2>2, ToldFields
    <2>4. thread' = [thread EXCEPT ![registry[p]] = Told(thread[registry[p]])]
      BY <1>2 DEF StopThreadSignals
    <2> QED
      BY <2>1, <2>3, <2>4 DEF StopThreadSignals, Threads
  <1> QED
    BY <1>1, <1>2

\* Who is started was off and registered nowhere, for a partner nobody served.
BringsBack ==
  /\ \A u \in Thread :
       \/ thread'[u] = thread[u]
       \/ /\ ~Live(u) /\ \A q \in Partner : registry[q] # u
          /\ \E p \in Partner : /\ ~Attended(p) /\ registry'[p] = u
                                /\ thread'[u] = Started(p)
  /\ \A p \in Partner :
       \/ registry'[p] = registry[p]
       \/ /\ ~Attended(p) /\ registry'[p] \in Thread
          /\ \A q \in Partner : registry[q] # registry'[p]
          /\ thread'[registry'[p]] = Started(p)

\* start brings threads back for partners that have none, each its own.
LEMMA StartFields ==
  ASSUME thread \in Threads,
         registry \in [Partner -> Thread \cup {NoThread}],
         closing \in BOOLEAN,
         Start
  PROVE  /\ thread' \in Threads
         /\ registry' \in [Partner -> Thread \cup {NoThread}]
         /\ BringsBack
  <1> DEFINE need == {p \in Partner : row[p] /\ ~Attended(p)}
  <1>1. PICK f \in [need -> Spare] :
          /\ \A p, q \in need : f[p] = f[q] => p = q
          /\ thread' = [t \in Thread |-> IF \E p \in need : f[p] = t
                                         THEN Started(CHOOSE p \in need : f[p] = t)
                                         ELSE thread[t]]
          /\ registry' = [p \in Partner |-> IF p \in need THEN f[p] ELSE registry[p]]
    BY Zenon DEF Start
  <1>2. \A p \in need : f[p] \in Thread /\ ~Live(f[p]) /\ \A q \in Partner : registry[q] # f[p]
    BY DEF Spare
  <1>3. ASSUME NEW u \in Thread, NEW p \in need, f[p] = u
        PROVE  thread'[u] = Started(p)
    <2>1. (CHOOSE q \in need : f[q] = u) = p
      BY <1>1, <1>3
    <2> QED
      BY <1>1, <1>3, <2>1
  <1>4. ASSUME NEW u \in Thread, ~\E p \in need : f[p] = u
        PROVE  thread'[u] = thread[u]
    BY <1>1, <1>4
  <1>5. \A p \in need : p \in Partner /\ ~Attended(p) /\ registry'[p] = f[p]
    BY <1>1
  <1>6. \A p \in Partner : p \notin need => registry'[p] = registry[p]
    BY <1>1
  <1>7. thread' \in Threads
    <2>1. \A u \in Thread : thread'[u] \in Running \cup {Off}
      BY <1>3, <1>4, <1>5, StartedFields DEF Threads
    <2> QED
      BY <1>1, <2>1 DEF Threads
  <1>8. registry' \in [Partner -> Thread \cup {NoThread}]
    BY <1>1, <1>2
  <1> HIDE DEF need
  <1> QED
    BY <1>2, <1>3, <1>4, <1>5, <1>6, <1>7, <1>8 DEF BringsBack

\* stop tells whoever is registered.
LEMMA StopTellsFields ==
  ASSUME thread \in Threads, StopTells
  PROVE  /\ thread' \in Threads
         /\ \A u \in Thread : thread'[u] = IF u \in Registered THEN Told(thread[u]) ELSE thread[u]
  <1>1. \A u \in Thread : Told(thread[u]) \in Running \cup {Off}
    BY ToldFields DEF Threads
  <1> QED
    BY <1>1 DEF StopTells, Threads

-----------------------------------------------------------------------------
(***************************************************************************)
(* Types, the slot lock, and room in the queue.                            *)
(***************************************************************************)

Work == /\ rows \in [Partner -> 0 .. MaxTasks]
        /\ reply \in [Partner -> BOOLEAN]
        /\ slot \in [Partner -> BOOLEAN]
        /\ waiting \in [Partner -> BOOLEAN]

Calls == /\ sender \in [Partner -> {"none", "admitted", "delivering", "arming"}]
         /\ stopping \in [Partner -> {"none", "signal", "delete"}]

Server == /\ registry \in [Partner -> Thread \cup {NoThread}]
          /\ row \in [Partner -> BOOLEAN]
          /\ started \in BOOLEAN
          /\ closing \in BOOLEAN
          /\ looking \in BOOLEAN
          /\ todo \in SUBSET Partner

Types == Work /\ Calls /\ Server /\ thread \in Threads /\ armed \in [Partner -> BOOLEAN]

Guarded == SlotGuarded /\ RoomLeft

LEMMA TypesAreTypeOK == Types <=> TypeOK
  BY DEF Types, Work, Calls, Server, Threads, TypeOK

\* A step that begins no delivery, fills no slot and adds no row.
LEMMA GuardedStays ==
  ASSUME Types, Guarded, Work',
         \A p \in Partner : /\ sender'[p] = "delivering" => sender[p] = "delivering"
                            /\ slot'[p] => slot[p]
                            /\ rows'[p] <= rows[p],
         \A p \in Partner, t \in Thread : Delivers(t, p)' => Delivers(t, p)
  PROVE  Guarded'
  <1>1. SlotGuarded'
    BY DEF Guarded, SlotGuarded
  <1>2. \A p \in Partner : ~SlotLockFree(p)' => ~SlotLockFree(p)
    BY DEF SlotLockFree, Delivers
  <1>3. ASSUME NEW p \in Partner, slot'[p] \/ ~SlotLockFree(p)'
        PROVE  rows'[p] < MaxTasks
    <2>1. rows[p] < MaxTasks
      BY <1>2, <1>3 DEF Guarded, RoomLeft
    <2>2. rows[p] \in Nat /\ rows'[p] \in Nat
      BY DEF Types, Work
    <2> QED
      BY <2>1, <2>2, TasksAssumption
  <1> QED
    BY <1>1, <1>3 DEF Guarded, RoomLeft

\* What taking a row does to a partner's work.
LEMMA TakesFields ==
  ASSUME Types, Guarded, NEW p \in Partner, Takes(p), SlotLockFree(p)
  PROVE  /\ Work'
         /\ ~slot'[p]
         /\ rows'[p] < MaxTasks
         /\ \A q \in Partner \ {p} : slot'[q] = slot[q] /\ rows'[q] = rows[q]
  <1>1. rows[p] \in 0 .. MaxTasks /\ rows[p] > 0 /\ (slot[p] => rows[p] < MaxTasks)
    BY DEF Types, Work, Takes, MayTake, Guarded, RoomLeft
  <1>2. rows' = [rows EXCEPT ![p] = IF slot[p] THEN rows[p] ELSE rows[p] - 1]
    BY DEF Takes
  <1>3. rows' \in [Partner -> 0 .. MaxTasks] /\ rows'[p] < MaxTasks
    BY <1>1, <1>2, TasksAssumption DEF Types, Work
  <1>4. reply' \in [Partner -> BOOLEAN]
    BY DEF Types, Work, Takes
  <1>5. slot' \in [Partner -> BOOLEAN] /\ ~slot'[p]
    BY DEF Types, Work, Takes
  <1>6. waiting' \in [Partner -> BOOLEAN]
    BY Zenon DEF Types, Work, Takes
  <1>7. \A q \in Partner \ {p} : slot'[q] = slot[q] /\ rows'[q] = rows[q]
    BY DEF Types, Work, Takes
  <1> QED
    BY <1>3, <1>4, <1>5, <1>6, <1>7 DEF Work

\* A step that takes a row with the lock, and is then the one that holds it.
LEMMA GuardedByTaker ==
  ASSUME Types, Guarded, NEW p \in Partner, Takes(p), SlotLockFree(p),
         \A q \in Partner \ {p} : sender'[q] = sender[q],
         \A q \in Partner \ {p}, t \in Thread : Delivers(t, q)' = Delivers(t, q),
         \/ sender'[p] = "delivering" /\ \A t \in Thread : ~Delivers(t, p)'
         \/ sender'[p] # "delivering" /\ \A t, u \in Thread : Delivers(t, p)' /\ Delivers(u, p)' => t = u
  PROVE  Guarded' /\ Work'
  <1>1. /\ Work' /\ ~slot'[p] /\ rows'[p] < MaxTasks
        /\ \A q \in Partner \ {p} : slot'[q] = slot[q] /\ rows'[q] = rows[q]
    BY TakesFields
  <1>2. SlotGuarded'
    <2>1. ASSUME NEW q \in Partner \ {p}
          PROVE  /\ sender'[q] = "delivering" => ~slot'[q]
                 /\ \A t \in Thread : Delivers(t, q)' => ~slot'[q] /\ sender'[q] # "delivering"
                 /\ \A t, u \in Thread : Delivers(t, q)' /\ Delivers(u, q)' => t = u
      BY <1>1, <2>1 DEF Guarded, SlotGuarded
    <2> QED
      BY <1>1, <2>1 DEF SlotGuarded
  <1>3. \A q \in Partner \ {p} : SlotLockFree(q)' = SlotLockFree(q)
    BY DEF SlotLockFree, Delivers
  <1>4. RoomLeft'
    BY <1>1, <1>3 DEF Guarded, RoomLeft
  <1> QED
    BY <1>1, <1>2, <1>4 DEF Guarded

\* The task on the way arrives in the slot, or goes back to the queue.
LEMMA ArrivalFields ==
  ASSUME Types, Guarded, NEW p \in Partner, ~SlotLockFree(p), Delivered(p) \/ Refused(p)
  PROVE  /\ Work'
         /\ slot'[p] => rows'[p] < MaxTasks
         /\ \A q \in Partner \ {p} : slot'[q] = slot[q] /\ rows'[q] = rows[q]
  <1>1. rows[p] < MaxTasks /\ ~slot[p]
    BY DEF Guarded, RoomLeft, SlotGuarded, SlotLockFree, Delivers
  <1>2. CASE Delivered(p)
    BY <1>1, <1>2 DEF Types, Work, Delivered
  <1>3. CASE Refused(p)
    <2>1. rows' = [rows EXCEPT ![p] = rows[p] + 1] /\ UNCHANGED <<reply, slot, waiting>>
      BY <1>3 DEF Refused
    <2>2. rows[p] + 1 \in 0 .. MaxTasks
      BY <1>1, TasksAssumption DEF Types, Work
    <2> QED
      BY <1>1, <2>1, <2>2 DEF Types, Work
  <1> QED
    BY <1>2, <1>3

\* A delivery that ends gives the lock back.
LEMMA GuardedByArrival ==
  ASSUME Types, Guarded, NEW p \in Partner, ~SlotLockFree(p), Delivered(p) \/ Refused(p),
         \A q \in Partner \ {p} : sender'[q] = sender[q],
         \A q \in Partner \ {p}, t \in Thread : Delivers(t, q)' = Delivers(t, q),
         sender'[p] # "delivering",
         \A t \in Thread : ~Delivers(t, p)'
  PROVE  Guarded' /\ Work'
  <1>1. /\ Work' /\ (slot'[p] => rows'[p] < MaxTasks)
        /\ \A q \in Partner \ {p} : slot'[q] = slot[q] /\ rows'[q] = rows[q]
    BY ArrivalFields
  <1>2. SlotGuarded'
    <2>1. ASSUME NEW q \in Partner \ {p}
          PROVE  /\ sender'[q] = "delivering" => ~slot'[q]
                 /\ \A t \in Thread : Delivers(t, q)' => ~slot'[q] /\ sender'[q] # "delivering"
                 /\ \A t, u \in Thread : Delivers(t, q)' /\ Delivers(u, q)' => t = u
      BY <1>1, <2>1 DEF Guarded, SlotGuarded
    <2> QED
      BY <1>1, <2>1 DEF SlotGuarded
  <1>3. \A q \in Partner \ {p} : SlotLockFree(q)' = SlotLockFree(q)
    BY DEF SlotLockFree, Delivers
  <1>4. SlotLockFree(p)'
    BY DEF SlotLockFree, Delivers
  <1>5. RoomLeft'
    BY <1>1, <1>3, <1>4 DEF Guarded, RoomLeft
  <1> QED
    BY <1>1, <1>2, <1>5 DEF Guarded

\* A message that finds room joins the queue.
LEMMA PushedFields ==
  ASSUME Types, Guarded, NEW p \in Partner, Room(p), NEW answer \in BOOLEAN,
         rows' = [rows EXCEPT ![p] = @ + 1],
         reply' = [reply EXCEPT ![p] = @ \/ answer],
         UNCHANGED <<slot, waiting, thread>>,
         \A q \in Partner : sender'[q] = "delivering" <=> sender[q] = "delivering"
  PROVE  Guarded' /\ Work'
  <1>1. /\ rows[p] + 1 <= MaxTasks
        /\ slot[p] \/ ~SlotLockFree(p) => rows[p] + 1 < MaxTasks
    BY TasksAssumption DEF Room, Types, Work
  <1>2. rows' \in [Partner -> 0 .. MaxTasks]
    BY <1>1, TasksAssumption DEF Types, Work
  <1>3. reply' \in [Partner -> BOOLEAN]
    BY Zenon DEF Types, Work
  <1>4. Work'
    BY <1>2, <1>3 DEF Types, Work
  <1>5. \A q \in Partner : SlotLockFree(q)' = SlotLockFree(q)
    BY DEF SlotLockFree, At
  <1>6. SlotGuarded'
    BY DEF Guarded, SlotGuarded, Delivers, At
  <1>7. RoomLeft'
    BY <1>1, <1>5 DEF Guarded, RoomLeft, Types, Work
  <1> QED
    BY <1>4, <1>6, <1>7 DEF Guarded

\* The interrupted partner's task goes back to the queue it came from.
LEMMA InterruptFields ==
  ASSUME Types, Guarded, NEW p \in Partner, Interrupt(p)
  PROVE  Guarded' /\ Work'
  <1>1. SlotLockFree(p) /\ (slot[p] => rows[p] < MaxTasks)
    BY DEF Interrupt, Guarded, RoomLeft
  <1>2. rows' = [rows EXCEPT ![p] = IF slot[p] THEN rows[p] + 1 ELSE rows[p]]
    BY DEF Interrupt
  <1>3. rows' \in [Partner -> 0 .. MaxTasks]
    BY <1>1, <1>2, TasksAssumption DEF Types, Work
  <1>4. Work'
    BY <1>3 DEF Types, Work, Interrupt
  <1>5. \A q \in Partner : SlotLockFree(q)' = SlotLockFree(q)
    BY DEF SlotLockFree, At, Interrupt, server
  <1>6. SlotGuarded'
    BY DEF Guarded, SlotGuarded, Delivers, At, Interrupt, Types, Work
  <1>7. RoomLeft'
    BY <1>1, <1>5 DEF Guarded, RoomLeft, Types, Work, Interrupt
  <1> QED
    BY <1>4, <1>6, <1>7 DEF Guarded

USE DEF work, calls, server, supervisor

\* Each step of a call keeps the types and the slot lock.
LEMMA CallTypes ==
  ASSUME Types, Guarded, NEW p \in Partner, Call(p)
  PROVE  Types' /\ Guarded'
  <1>1. ASSUME NEW answer \in BOOLEAN, Push(p, answer)
        PROVE  Types' /\ Guarded'
    <2>1. sender' \in [Partner -> {"none", "admitted", "delivering", "arming"}]
      BY <1>1 DEF Push, Types, Calls
    <2>2. \A q \in Partner : sender'[q] = "delivering" <=> sender[q] = "delivering"
      BY <1>1 DEF Push, Types, Calls
    <2>3. Guarded' /\ Work'
      BY <1>1, <2>2, PushedFields DEF Push
    <2> QED
      BY <1>1, <2>1, <2>3 DEF Push, Types, Calls, Server
  <1>2. ASSUME NEW answer \in BOOLEAN, PushFromElsewhere(p, answer)
        PROVE  Types' /\ Guarded'
    <2>1. Guarded' /\ Work'
      BY <1>2, PushedFields DEF PushFromElsewhere
    <2> QED
      BY <1>2, <2>1 DEF PushFromElsewhere, Types, Calls, Server
  <1>3. ASSUME SendAdvance(p)
        PROVE  Types' /\ Guarded'
    <2>1. CASE Takes(p) /\ sender' = [sender EXCEPT ![p] = "delivering"]
      <3>1. \A q \in Partner, t \in Thread : Delivers(t, q)' = Delivers(t, q)
        BY <1>3 DEF SendAdvance, Delivers, At
      <3>2. sender'[p] = "delivering" /\ \A q \in Partner \ {p} : sender'[q] = sender[q]
        BY <2>1 DEF Types, Calls
      <3>3. \A t \in Thread : ~Delivers(t, p)
        BY <1>3 DEF SendAdvance, SlotLockFree, Delivers
      <3>4. Guarded' /\ Work'
        BY <1>3, <2>1, <3>1, <3>2, <3>3, GuardedByTaker DEF SendAdvance
      <3> QED
        BY <1>3, <2>1, <3>4 DEF SendAdvance, Types, Calls, Server
    <2>2. CASE sender' = [sender EXCEPT ![p] = "arming"] /\ UNCHANGED work
      <3>1. Types'
        BY <1>3, <2>2 DEF SendAdvance, Types, Work, Calls, Server
      <3>2. Guarded'
        BY <1>3, <2>2, <3>1, GuardedStays DEF SendAdvance, Types, Work, Calls, Delivers, At
      <3> QED
        BY <3>1, <3>2
    <2> QED
      BY <1>3, <2>1, <2>2 DEF SendAdvance
  <1>4. ASSUME SendDelivers(p) \/ SendFails(p)
        PROVE  Types' /\ Guarded'
    <2>1. /\ \A q \in Partner, t \in Thread : Delivers(t, q)' = Delivers(t, q)
          /\ \A q \in Partner \ {p} : sender'[q] = sender[q]
          /\ sender'[p] # "delivering"
      BY <1>4 DEF SendDelivers, SendFails, Delivers, At, Types, Calls
    <2>2. \A t \in Thread : ~Delivers(t, p)
      BY <1>4 DEF SendDelivers, SendFails, Guarded, SlotGuarded
    <2>3. ~SlotLockFree(p) /\ (Delivered(p) \/ Refused(p))
      BY <1>4 DEF SendDelivers, SendFails, SlotLockFree
    <2>4. Guarded' /\ Work'
      BY <2>1, <2>2, <2>3, GuardedByArrival
    <2> QED
      BY <1>4, <2>4 DEF SendDelivers, SendFails, Types, Calls, Server
  <1>5. ASSUME SendArms(p)
        PROVE  Types' /\ Guarded'
    <2>1. sender' = [sender EXCEPT ![p] = "none"] /\ armed' \in [Partner -> BOOLEAN]
      BY <1>5 DEF SendArms, Types
    <2>2. \A q \in Partner, t \in Thread : Delivers(t, q)' => Delivers(t, q)
      <3>1. CASE EnsureThread(p)
        BY <3>1, EnsureFields, StartedFields DEF Types, Server, Delivers, At
      <3>2. CASE SpawnFails(p)
        BY <3>2 DEF SpawnFails, Delivers, At
      <3> QED
        BY <1>5, <3>1, <3>2 DEF SendArms
    <2>3. thread' \in Threads /\ Server'
      <3>1. CASE EnsureThread(p)
        BY <1>5, <3>1, EnsureFields DEF SendArms, Types, Server
      <3>2. CASE SpawnFails(p)
        BY <1>5, <3>2 DEF SendArms, SpawnFails, Spare, Types, Server
      <3> QED
        BY <1>5, <3>1, <3>2 DEF SendArms
    <2>4. Types'
      BY <1>5, <2>1, <2>3 DEF SendArms, Types, Work, Calls
    <2>5. Guarded'
      BY <1>5, <2>1, <2>2, <2>4, GuardedStays DEF SendArms, Types, Work, Calls
    <2> QED
      BY <2>4, <2>5
  <1>6. ASSUME Interrupt(p)
        PROVE  Types' /\ Guarded'
    BY <1>6, InterruptFields DEF Interrupt, Types, Calls, Server
  <1>7. ASSUME StopThreadSignals(p)
        PROVE  Types' /\ Guarded'
    <2>1. thread' \in Threads /\ registry' \in [Partner -> Thread \cup {NoThread}]
      BY <1>7, SignalsFields DEF Types, Server
    <2>2. Types'
      BY <1>7, <2>1 DEF StopThreadSignals, Types, Work, Calls, Server
    <2>3. \A q \in Partner, t \in Thread : Delivers(t, q)' => Delivers(t, q)
      BY <1>7, SignalsFields, ToldFields DEF Types, Server, Threads, Delivers, At, Off
    <2>4. Guarded'
      BY <1>7, <2>2, <2>3, GuardedStays DEF StopThreadSignals, Types, Work
    <2> QED
      BY <2>2, <2>4
  <1>8. ASSUME StopThreadSkipped(p) \/ StopThreadDeletes(p) \/ Restart(p)
        PROVE  Types' /\ Guarded'
    <2>1. Types'
      BY <1>8 DEF StopThreadSkipped, StopThreadDeletes, Restart, Types, Work, Calls, Server
    <2>2. /\ UNCHANGED <<rows, slot, thread>>
          /\ \A q \in Partner : sender'[q] = "delivering" => sender[q] = "delivering"
      BY <1>8 DEF StopThreadSkipped, StopThreadDeletes, Restart, Types, Calls
    <2>3. Guarded'
      BY <2>1, <2>2, GuardedStays DEF Types, Work, Delivers, At
    <2> QED
      BY <2>1, <2>3
  <1> QED
    BY <1>1, <1>2, <1>3, <1>4, <1>5, <1>6, <1>7, <1>8 DEF Call

\* A thread that moves on within its pass, or leaves its loop, delivers nothing.
LEMMA MovesDelivers ==
  ASSUME Types, NEW t \in Thread,
         \/ Ends(t)
         \/ \E pc \in Pc : pc # "delivering" /\ Live(t) /\ GoTo(t, pc)
  PROVE  /\ thread' \in Threads
         /\ \A p \in Partner : ~Delivers(t, p)'
         /\ \A p \in Partner, u \in Thread \ {t} : Delivers(u, p)' = Delivers(u, p)
         /\ \A p \in Partner, u \in Thread : Delivers(u, p)' => Delivers(u, p)
  <1>1. thread \in Threads
    BY DEF Types
  <1>2. CASE Ends(t)
    BY <1>1, <1>2, EndsFields DEF Delivers, At, Off
  <1>3. ASSUME NEW pc \in Pc, pc # "delivering", Live(t), GoTo(t, pc)
        PROVE  /\ thread' \in Threads
               /\ \A p \in Partner : ~Delivers(t, p)'
               /\ \A p \in Partner, u \in Thread \ {t} : Delivers(u, p)' = Delivers(u, p)
               /\ \A p \in Partner, u \in Thread : Delivers(u, p)' => Delivers(u, p)
    BY <1>1, <1>3, GoToFields DEF Delivers, At
  <1> QED
    BY <1>2, <1>3

\* Each step of a drain thread keeps the types and the slot lock.
LEMMA DrainTypes ==
  ASSUME Types, Guarded, NEW t \in Thread, DrainLoop(t)
  PROVE  Types' /\ Guarded'
  <1>1. thread \in Threads
    BY DEF Types
  <1>2. PICK p \in Partner : Live(t) /\ thread[t].of = p
    BY <1>1, LiveFields DEF DrainLoop, Top, PassAdvance, PassDelivers, PassFails, PassReads,
       PassCounts, PassPolls, Recheck, Retire, RetireFails, LeavingDeletes, LeavingForgets, At
  <1>3. ASSUME PassAdvance(t)
        PROVE  Types' /\ Guarded'
    <2>1. CASE Takes(p) /\ GoTo(t, "delivering")
      <3>1. /\ thread' \in Threads /\ Live(t)'
            /\ thread'[t].pc = "delivering" /\ thread'[t].of = p
            /\ \A u \in Thread \ {t} : thread'[u] = thread[u]
        BY <1>1, <1>2, <2>1, GoToFields DEF Pc
      <3>2. \A q \in Partner \ {p}, u \in Thread : Delivers(u, q)' = Delivers(u, q)
        BY <1>3, <3>1 DEF Delivers, At, PassAdvance
      <3>3. \A u \in Thread : ~Delivers(u, p)
        BY <1>2, <1>3 DEF PassAdvance, SlotLockFree, Delivers
      <3>4. \A u, v \in Thread : Delivers(u, p)' /\ Delivers(v, p)' => u = v
        BY <3>1, <3>3 DEF Delivers, At
      <3>5. UNCHANGED sender /\ sender[p] # "delivering"
        BY <1>2, <1>3 DEF PassAdvance, SlotLockFree
      <3>6. SlotLockFree(p)
        BY <1>2, <1>3 DEF PassAdvance
      <3>7. Guarded' /\ Work'
        BY <2>1, <3>2, <3>4, <3>5, <3>6, GuardedByTaker
      <3> QED
        BY <1>3, <3>1, <3>7 DEF PassAdvance, Types, Calls, Server
    <2>2. CASE GoTo(t, "read") /\ UNCHANGED work
      <3>1. /\ thread' \in Threads
            /\ \A q \in Partner, u \in Thread : Delivers(u, q)' => Delivers(u, q)
        BY <1>2, <2>2, MovesDelivers DEF Pc
      <3>2. Types'
        BY <1>3, <2>2, <3>1 DEF PassAdvance, Types, Work, Calls, Server
      <3> QED
        BY <1>3, <2>2, <3>1, <3>2, GuardedStays DEF PassAdvance, Types, Work
    <2> QED
      BY <1>2, <1>3, <2>1, <2>2 DEF PassAdvance
  <1>4. ASSUME PassDelivers(t) \/ PassFails(t)
        PROVE  Types' /\ Guarded'
    <2>1. Delivers(t, p) /\ ~SlotLockFree(p)
      BY <1>2, <1>4 DEF PassDelivers, PassFails, Delivers, SlotLockFree
    <2>2. /\ thread' \in Threads
          /\ \A q \in Partner : ~Delivers(t, q)'
          /\ \A q \in Partner, u \in Thread \ {t} : Delivers(u, q)' = Delivers(u, q)
      BY <1>2, <1>4, MovesDelivers DEF PassDelivers, PassFails, Pc
    <2>3. \A u \in Thread \ {t} : ~Delivers(u, p)
      BY <1>2, <2>1 DEF Guarded, SlotGuarded
    <2>4. \A q \in Partner \ {p}, u \in Thread : Delivers(u, q)' = Delivers(u, q)
      BY <1>2, <2>2 DEF Delivers
    <2>5. UNCHANGED <<sender, stopping, server>> /\ sender[p] # "delivering"
      BY <1>2, <1>4, <2>1 DEF PassDelivers, PassFails, Guarded, SlotGuarded
    <2>6. armed' \in [Partner -> BOOLEAN]
      BY <1>2, <1>4 DEF PassDelivers, PassFails, Types
    <2>7. Delivered(p) \/ Refused(p)
      BY <1>2, <1>4 DEF PassDelivers, PassFails
    <2>8. Guarded' /\ Work'
      BY <1>2, <2>1, <2>2, <2>3, <2>4, <2>5, <2>7, GuardedByArrival
    <2> QED
      BY <2>2, <2>5, <2>6, <2>8 DEF Types, Calls, Server
  <1>5. ASSUME \/ Top(t) \/ PassReads(t) \/ PassCounts(t) \/ PassPolls(t) \/ Recheck(t)
               \/ Retire(t) \/ RetireFails(t) \/ LeavingDeletes(t) \/ LeavingForgets(t)
        PROVE  Types' /\ Guarded'
    <2>1. Ends(t) \/ \E pc \in Pc : pc # "delivering" /\ GoTo(t, pc)
      BY <1>5 DEF Top, PassReads, PassCounts, PassPolls, Recheck, Retire, RetireFails,
         LeavingDeletes, LeavingForgets, Pc
    <2>2. /\ thread' \in Threads
          /\ \A q \in Partner, u \in Thread : Delivers(u, q)' => Delivers(u, q)
      BY <1>2, <2>1, MovesDelivers
    <2>3. /\ Work' /\ UNCHANGED <<rows, sender, stopping, started, closing, looking, todo>>
          /\ \A q \in Partner : slot'[q] => slot[q]
      BY <1>2, <1>5 DEF Top, PassReads, PassCounts, PassPolls, Recheck, Retire, RetireFails,
         LeavingDeletes, LeavingForgets, Types, Work
    <2>4. registry' \in [Partner -> Thread \cup {NoThread}]
      BY <1>2, <1>5 DEF Top, PassReads, PassCounts, PassPolls, Recheck, Retire, RetireFails,
         LeavingDeletes, LeavingForgets, Without, Types, Server
    <2>5. row' \in [Partner -> BOOLEAN]
      BY <1>2, <1>5 DEF Top, PassReads, PassCounts, PassPolls, Recheck, Retire, RetireFails,
         LeavingDeletes, LeavingForgets, Types, Server
    <2>6. armed' \in [Partner -> BOOLEAN]
      BY <1>2, <1>5 DEF Top, PassReads, PassCounts, PassPolls, Recheck, Retire, RetireFails,
         LeavingDeletes, LeavingForgets, Types
    <2>7. Types'
      BY <2>2, <2>3, <2>4, <2>5, <2>6 DEF Types, Calls, Server
    <2>8. Guarded'
      BY <2>2, <2>3, <2>7, GuardedStays DEF Types, Work
    <2> QED
      BY <2>7, <2>8
  <1> QED
    BY <1>3, <1>4, <1>5 DEF DrainLoop

\* So does each step of the supervisor, of start, of stop, and a crash.
LEMMA ServerTypes ==
  ASSUME Types, Guarded, Supervisor \/ Start \/ StopTells \/ StopReturns \/ Crash
  PROVE  Types' /\ Guarded'
  <1>1. ASSUME ScanReads \/ ScanLooks
        PROVE  Types' /\ Guarded'
    <2>1. UNCHANGED <<work, calls, thread, registry, row, started, closing, armed>>
      BY <1>1 DEF ScanReads, ScanLooks
    <2>2. looking' \in BOOLEAN /\ todo' \in SUBSET Partner
      BY <1>1 DEF ScanReads, ScanLooks, Occupied, Types, Server
    <2>3. Types'
      BY <2>1, <2>2 DEF Types, Work, Calls, Server
    <2> QED
      BY <2>1, <2>3, GuardedStays DEF Types, Work, Delivers, At
  <1>2. ASSUME NEW p \in Partner, ScanArms(p) \/ ScanFails(p)
        PROVE  Types' /\ Guarded'
    <2>1. /\ thread' \in Threads
          /\ registry' \in [Partner -> Thread \cup {NoThread}]
          /\ row' \in [Partner -> BOOLEAN]
          /\ \A q \in Partner, t \in Thread : Delivers(t, q)' => Delivers(t, q)
      <3>1. CASE ScanArms(p)
        <4>1. EnsureThread(p)
          BY <3>1 DEF ScanArms
        <4>2. row' \in [Partner -> BOOLEAN]
          BY <4>1 DEF EnsureThread, Types, Server
        <4> QED
          BY <4>1, <4>2, EnsureFields, StartedFields DEF Types, Server, Delivers, At
      <3>2. CASE ScanFails(p)
        BY <3>2 DEF ScanFails, SpawnFails, Spare, Types, Server, Delivers, At
      <3> QED
        BY <1>2, <3>1, <3>2
    <2>2. /\ UNCHANGED <<work, calls, started, closing, looking, armed>>
          /\ todo' \in SUBSET Partner
      BY <1>2 DEF ScanArms, ScanFails, Types, Server
    <2>3. Types'
      BY <2>1, <2>2 DEF Types, Work, Calls, Server
    <2> QED
      BY <2>1, <2>2, <2>3, GuardedStays DEF Types, Work
  <1>3. ASSUME Start
        PROVE  Types' /\ Guarded'
    <2>1. /\ thread' \in Threads
          /\ registry' \in [Partner -> Thread \cup {NoThread}]
          /\ \A q \in Partner, t \in Thread : Delivers(t, q)' => Delivers(t, q)
      BY <1>3, StartFields, StartedFields DEF BringsBack, Types, Server, Delivers, At
    <2>2. Types'
      BY <1>3, <2>1 DEF Start, Types, Work, Calls, Server
    <2> QED
      BY <1>3, <2>1, <2>2, GuardedStays DEF Start, Types, Work
  <1>4. ASSUME StopTells
        PROVE  Types' /\ Guarded'
    <2>1. /\ thread' \in Threads
          /\ \A q \in Partner, t \in Thread : Delivers(t, q)' => Delivers(t, q)
      BY <1>4, StopTellsFields, ToldFields DEF Types, Threads, Delivers, At, Off
    <2>2. Types'
      BY <1>4, <2>1 DEF StopTells, Types, Work, Calls, Server
    <2> QED
      BY <1>4, <2>1, <2>2, GuardedStays DEF StopTells, Types, Work
  <1>5. ASSUME StopReturns
        PROVE  Types' /\ Guarded'
    <2>1. Types'
      BY <1>5 DEF StopReturns, Types, Work, Calls, Server
    <2> QED
      BY <1>5, <2>1, GuardedStays DEF StopReturns, Types, Work, Delivers, At
  <1>6. ASSUME Crash
        PROVE  Types' /\ Guarded'
    <2>1. Types'
      BY <1>6 DEF Crash, Types, Work, Calls, Server, Threads
    <2> QED
      BY <1>6, <2>1, GuardedStays DEF Crash, Types, Work, Delivers, At, Off
  <1> QED
    BY <1>1, <1>2, <1>3, <1>4, <1>5, <1>6 DEF Supervisor

LEMMA TypesStep ==
  ASSUME Types, Guarded, [Next]_vars
  PROVE  Types' /\ Guarded'
  <1>1. CASE UNCHANGED vars
    BY <1>1 DEF vars, Types, Work, Calls, Server, Guarded, SlotGuarded, RoomLeft, SlotLockFree,
       Delivers, At
  <1>2. CASE Next
    BY <1>2, CallTypes, DrainTypes, ServerTypes DEF Next
  <1> QED
    BY <1>1, <1>2

LEMMA TypesInit ==
  ASSUME Init
  PROVE  Types /\ Guarded
  <1>1. Work
    BY TasksAssumption DEF Init, Work
  <1>2. Types
    BY <1>1 DEF Init, Types, Calls, Server, Threads
  <1>3. \A t \in Thread : ~At(t, "delivering")
    BY DEF Init, At, Off
  <1>4. \A p \in Partner : ~slot[p] /\ SlotLockFree(p)
    BY <1>3 DEF Init, SlotLockFree
  <1> QED
    BY <1>2, <1>3, <1>4 DEF Guarded, SlotGuarded, RoomLeft, Delivers, Init

\* The queue never holds more than was admitted, and everything else is of its
\* type, whatever fails and whoever stops whom.
THEOREM TypeCorrect == Spec => []TypeOK
  <1>1. Init => Types /\ Guarded
    BY TypesInit
  <1>2. Types /\ Guarded /\ [Next]_vars => (Types /\ Guarded)'
    BY TypesStep
  <1>3. Types /\ Guarded => TypeOK
    BY TypesAreTypeOK
  <1> QED
    BY <1>1, <1>2, <1>3, PTL DEF Spec

-----------------------------------------------------------------------------
(***************************************************************************)
(* The registry.                                                           *)
(***************************************************************************)

Registry == Registrations /\ LiveIsRegistered /\ ClosingToldAll

\* A thread that is live after a step was so before, for the same partner, and
\* was not told less.
Kept(u) == Live(u)' => /\ Live(u)
                       /\ thread'[u].of = thread[u].of
                       /\ thread'[u].late = thread[u].late
                       /\ thread[u].told => thread'[u].told

\* Nobody starts, and who is forgotten is on its way out.
LEMMA RegistryShrinks ==
  ASSUME Types, Registry,
         \A u \in Thread : Kept(u),
         \A p \in Partner :
           \/ registry'[p] = registry[p]
           \/ ~Attended(p)' /\ \A u \in Thread : registry[p] = u => ~Staying(u)',
         closing' => closing \/ \A u \in Thread : ~Staying(u)'
  PROVE  Registry'
  <1>1. \A u \in Thread : Staying(u)' => Staying(u) /\ thread[u].of \in Partner
    BY LiveFields DEF Kept, Staying, Types
  <1>2. ASSUME NEW p \in Partner, Attended(p)'
        PROVE  thread'[registry'[p]].of = p
    <2>1. registry'[p] = registry[p] /\ registry[p] \in Thread
      BY <1>2 DEF Attended, Types, Server
    <2> QED
      BY <1>2, <2>1 DEF Kept, Attended, Live, Registry, Registrations
  <1>3. ASSUME NEW u \in Thread, Staying(u)'
        PROVE  registry'[thread'[u].of] = u
    <2>1. registry[thread[u].of] = u /\ thread'[u].of = thread[u].of
      BY <1>1, <1>3 DEF Registry, LiveIsRegistered, Kept, Staying
    <2> QED
      BY <1>1, <1>3, <2>1
  <1>4. closing' => \A u \in Thread : ~Staying(u)'
    BY <1>1 DEF Registry, ClosingToldAll
  <1> QED
    BY <1>2, <1>3, <1>4 DEF Registry, Registrations, LiveIsRegistered, ClosingToldAll

\* Whoever is started is registered, and takes nobody's place.
LEMMA RegistryGrows ==
  ASSUME Types, Registry, BringsBack, UNCHANGED closing
  PROVE  Registry'
  <1>1. ASSUME NEW p \in Partner, Attended(p)'
        PROVE  thread'[registry'[p]].of = p
    <2>1. CASE registry'[p] = registry[p]
      <3>1. registry[p] \in Thread
        BY <1>1, <2>1 DEF Attended, Types, Server
      <3>2. thread'[registry[p]] = thread[registry[p]]
        BY <3>1 DEF BringsBack
      <3> QED
        BY <1>1, <2>1, <3>2 DEF Attended, Live, Registry, Registrations
    <2>2. CASE registry'[p] # registry[p]
      <3>1. thread'[registry'[p]] = Started(p)
        BY <2>2 DEF BringsBack
      <3> QED
        BY <3>1, StartedFields DEF Types, Server
    <2> QED
      BY <2>1, <2>2
  <1>2. ASSUME NEW u \in Thread, Staying(u)'
        PROVE  registry'[thread'[u].of] = u /\ ~closing
    <2>1. CASE thread'[u] = thread[u]
      <3>1. Staying(u) /\ Live(u) /\ thread[u].of \in Partner
        BY <1>2, <2>1, LiveFields DEF Staying, Live, Types
      <3>2. registry[thread[u].of] = u /\ ~closing
        BY <3>1 DEF Registry, LiveIsRegistered, ClosingToldAll
      <3>3. Attended(thread[u].of)
        BY <3>1, <3>2, ThreadAssumption DEF Attended
      <3> QED
        BY <2>1, <3>1, <3>2, <3>3 DEF BringsBack
    <2>2. CASE thread'[u] # thread[u]
      <3>1. PICK p \in Partner : registry'[p] = u /\ thread'[u] = Started(p)
        BY <2>2 DEF BringsBack
      <3> QED
        BY <1>2, <3>1, StartedFields DEF Staying, Types, Server
    <2> QED
      BY <2>1, <2>2
  <1> QED
    BY <1>1, <1>2 DEF Registry, Registrations, LiveIsRegistered, ClosingToldAll

LEMMA EnsureBringsBack ==
  ASSUME Types, NEW p \in Partner, EnsureThread(p)
  PROVE  BringsBack
  BY EnsureFields DEF BringsBack, Types, Server

\* A spawn that fails replaces a registration of nobody by another of nobody.
LEMMA SpawnFailsRegistry ==
  ASSUME Types, Registry, NEW p \in Partner, SpawnFails(p), UNCHANGED closing
  PROVE  Registry'
  <1>1. PICK t \in Spare : registry' = [registry EXCEPT ![p] = t]
    BY DEF SpawnFails
  <1>2. t \in Thread /\ ~Live(t) /\ UNCHANGED thread /\ ~Attended(p)
    BY DEF Spare, SpawnFails
  <1>3. registry'[p] = t /\ \A q \in Partner \ {p} : registry'[q] = registry[q]
    BY <1>1 DEF Types, Server
  <1>4. ~Attended(p)' /\ \A u \in Thread : registry[p] = u => ~Staying(u)'
    BY <1>2, <1>3, ThreadAssumption DEF Attended, Live, Staying
  <1> QED
    BY <1>2, <1>3, <1>4, RegistryShrinks DEF Kept, Live

\* No thread starts or ends, and none is forgotten.
LEMMA MovesKept ==
  ASSUME Types, NEW t \in Thread, Ends(t) \/ \E pc \in Pc : Live(t) /\ GoTo(t, pc)
  PROVE  \A u \in Thread : Kept(u)
  <1>1. CASE Ends(t)
    BY <1>1, EndsFields DEF Types, Kept, Live
  <1>2. ASSUME NEW pc \in Pc, Live(t), GoTo(t, pc)
        PROVE  \A u \in Thread : Kept(u)
    BY <1>2, GoToFields DEF Types, Kept, Live
  <1> QED
    BY <1>1, <1>2

\* A step of a drain thread takes no registration but its own away.
LEMMA DrainRegistry ==
  ASSUME Types, Registry, NEW t \in Thread, DrainLoop(t)
  PROVE  Registry'
  <1>1. Live(t) /\ thread[t].of \in Partner
    BY LiveFields DEF DrainLoop, Top, PassAdvance, PassDelivers, PassFails, PassReads,
       PassCounts, PassPolls, Recheck, Retire, RetireFails, LeavingDeletes, LeavingForgets, At,
       Types
  <1>2. Ends(t) \/ \E pc \in Pc : GoTo(t, pc)
    BY DEF DrainLoop, Top, PassAdvance, PassDelivers, PassFails, PassReads, PassCounts,
       PassPolls, Recheck, Retire, RetireFails, LeavingDeletes, LeavingForgets, Pc
  <1>3. \A u \in Thread : Kept(u)
    BY <1>1, <1>2, MovesKept
  <1>4. UNCHANGED closing
    BY DEF DrainLoop, Top, PassAdvance, PassDelivers, PassFails, PassReads, PassCounts,
       PassPolls, Recheck, Retire, RetireFails, LeavingDeletes, LeavingForgets
  <1>5. UNCHANGED registry \/ (registry' = Without(t) /\ Ends(t))
    BY DEF DrainLoop, Top, PassAdvance, PassDelivers, PassFails, PassReads, PassCounts,
       PassPolls, Recheck, Retire, RetireFails, LeavingDeletes, LeavingForgets
  <1>6. CASE UNCHANGED registry
    BY <1>3, <1>4, <1>6, RegistryShrinks
  <1>7. CASE registry' = Without(t) /\ Ends(t)
    <2>1. ASSUME NEW p \in Partner, registry'[p] # registry[p]
          PROVE  ~Attended(p)' /\ \A u \in Thread : registry[p] = u => ~Staying(u)'
      <3>1. registry'[p] = NoThread /\ registry[p] = t
        BY <1>7, <2>1 DEF Without, Types, Server
      <3>2. ~Staying(t)'
        BY <1>7, EndsFields DEF Types, Staying, Live
      <3> QED
        BY <3>1, <3>2 DEF Attended
    <2> QED
      BY <1>3, <1>4, <2>1, RegistryShrinks
  <1> QED
    BY <1>5, <1>6, <1>7

\* A call forgets only the thread it tells to stop.
LEMMA CallRegistry ==
  ASSUME Types, Registry, NEW p \in Partner, Call(p)
  PROVE  Registry'
  <1>1. CASE UNCHANGED <<thread, registry, closing>>
    BY <1>1, RegistryShrinks DEF Kept, Live
  <1>2. CASE SendArms(p)
    <2>1. CASE EnsureThread(p)
      BY <1>2, <2>1, EnsureBringsBack, RegistryGrows DEF SendArms
    <2>2. CASE SpawnFails(p)
      BY <1>2, <2>2, SpawnFailsRegistry DEF SendArms
    <2> QED
      BY <1>2, <2>1, <2>2 DEF SendArms
  <1>3. CASE StopThreadSignals(p)
    <2>1. /\ registry'[p] = NoThread
          /\ \A q \in Partner \ {p} : registry'[q] = registry[q]
          /\ \A u \in Thread : thread'[u] = IF u = registry[p] THEN Told(thread[u]) ELSE thread[u]
      BY <1>3, SignalsFields DEF Types, Server
    <2>2. \A u \in Thread : Kept(u)
      BY <2>1, ToldFields DEF Types, Threads, Kept, Live
    <2>3. \A u \in Thread : registry[p] = u => ~Staying(u)'
      BY <2>1, ToldFields DEF Types, Threads, Staying, Live
    <2>4. ~Attended(p)'
      BY <2>1 DEF Attended
    <2> QED
      BY <1>3, <2>1, <2>2, <2>3, <2>4, RegistryShrinks DEF StopThreadSignals
  <1> QED
    BY <1>1, <1>2, <1>3 DEF Call, Push, PushFromElsewhere, SendAdvance, SendDelivers, SendFails,
       Interrupt, StopThreadSkipped, StopThreadDeletes, Restart

\* The supervisor and start register whom they start, stop forgets whom it told.
LEMMA ServerRegistry ==
  ASSUME Types, Registry, Supervisor \/ Start \/ StopTells \/ StopReturns \/ Crash
  PROVE  Registry'
  <1>1. CASE ScanReads \/ ScanLooks
    BY <1>1, RegistryShrinks DEF ScanReads, ScanLooks, Kept, Live
  <1>2. ASSUME NEW p \in Partner, ScanArms(p)
        PROVE  Registry'
    BY <1>2, EnsureBringsBack, RegistryGrows DEF ScanArms
  <1>3. ASSUME NEW p \in Partner, ScanFails(p)
        PROVE  Registry'
    BY <1>3, SpawnFailsRegistry DEF ScanFails
  <1>4. CASE Start
    BY <1>4, StartFields, RegistryGrows DEF Types, Server, Start
  <1>5. CASE StopTells
    <2>1. \A u \in Thread : thread'[u] = IF u \in Registered THEN Told(thread[u]) ELSE thread[u]
      BY <1>5, StopTellsFields DEF Types
    <2>2. \A u \in Thread : Kept(u)
      BY <2>1, ToldFields DEF Types, Threads, Kept, Live
    <2>3. ASSUME NEW u \in Thread, Staying(u)'
          PROVE  FALSE
      <3>1. CASE u \in Registered
        BY <2>1, <2>3, <3>1, ToldFields DEF Types, Threads, Staying, Live
      <3>2. CASE u \notin Registered
        <4>1. Staying(u) /\ thread[u].of \in Partner
          BY <2>1, <2>3, <3>2, LiveFields DEF Staying, Live, Types
        <4>2. registry[thread[u].of] = u
          BY <4>1 DEF Registry, LiveIsRegistered
        <4> QED
          BY <3>2, <4>1, <4>2, ThreadAssumption DEF Registered
      <3> QED
        BY <3>1, <3>2
    <2> QED
      BY <1>5, <2>2, <2>3, RegistryShrinks DEF StopTells
  <1>6. CASE StopReturns
    <2>1. \A u \in Thread : ~Staying(u)'
      BY <1>6 DEF StopReturns, Registry, ClosingToldAll, Staying, Live
    <2>2. \A p \in Partner : ~Attended(p)'
      BY <1>6 DEF StopReturns, Attended
    <2> QED
      BY <1>6, <2>1, <2>2, RegistryShrinks DEF StopReturns, Kept, Live
  <1>7. CASE Crash
    BY <1>7 DEF Crash, Registry, Registrations, LiveIsRegistered, ClosingToldAll, Attended,
       Staying, Live
  <1> QED
    BY <1>1, <1>2, <1>3, <1>4, <1>5, <1>6, <1>7 DEF Supervisor

LEMMA RegistryStep ==
  ASSUME Types, Registry, [Next]_vars
  PROVE  Registry'
  <1>1. CASE UNCHANGED vars
    BY <1>1, RegistryShrinks DEF vars, Kept, Live
  <1>2. CASE Next
    BY <1>2, CallRegistry, DrainRegistry, ServerRegistry DEF Next
  <1> QED
    BY <1>1, <1>2

LEMMA RegistryInit ==
  ASSUME Init
  PROVE  Registry
  BY DEF Init, Registry, Registrations, LiveIsRegistered, ClosingToldAll, Attended, Staying, Live

\* A thread nobody has told to stop can be found by whoever wants to stop it,
\* and is the only one of its partner, however retirements, stops, restarts
\* and failures interleave, for any number of partners and threads.
THEOREM LiveAreRegistered == Spec => []LiveIsRegistered
  <1>1. Init => Types /\ Guarded /\ Registry
    BY TypesInit, RegistryInit
  <1>2. Types /\ Guarded /\ Registry /\ [Next]_vars => (Types /\ Guarded /\ Registry)'
    BY TypesStep, RegistryStep
  <1>3. Types /\ Guarded /\ Registry => LiveIsRegistered
    BY DEF Registry
  <1> QED
    BY <1>1, <1>2, <1>3, PTL DEF Spec

-----------------------------------------------------------------------------
(***************************************************************************)
(* Work that was armed for.                                                *)
(***************************************************************************)

Attention == OneDecides /\ SomebodyElse /\ ArmedWorkHasThread

\* A step that brings no work to whom is armed for, and takes no thread of
\* theirs out of its loop.
LEMMA AttentionStays ==
  ASSUME Types, Attention,
         \A p \in Partner : Armed(p)' => /\ Armed(p)
                                         /\ HasWork(p)' => HasWork(p)
                                         /\ slot'[p] => slot[p],
         \A u \in Thread : At(u, "rechecking")' => At(u, "rechecking") /\ thread'[u].of = thread[u].of,
         \A p \in Partner, u \in Thread : Armed(p)' /\ InLoopFor(u, p) => InLoopFor(u, p)'
  PROVE  Attention'
  <1>1. OneDecides'
    BY DEF Attention, OneDecides
  <1>2. SomebodyElse'
    <2> SUFFICES ASSUME NEW p \in Partner, NEW t \in Thread,
                        At(t, "rechecking")', thread'[t].of = p, Armed(p)', slot'[p]
                 PROVE  \E u \in Thread \ {t} : InLoopFor(u, p)'
      BY DEF SomebodyElse
    <2>1. PICK u \in Thread \ {t} : InLoopFor(u, p)
      BY DEF Attention, SomebodyElse
    <2> QED
      BY <2>1
  <1>3. ArmedWorkHasThread'
    <2> SUFFICES ASSUME NEW p \in Partner, Armed(p)', HasWork(p)'
                 PROVE  \E u \in Thread : InLoopFor(u, p)'
      BY DEF ArmedWorkHasThread, Armed, InLoopFor
    <2>1. PICK u \in Thread : InLoopFor(u, p)
      BY DEF Attention, ArmedWorkHasThread, Armed, InLoopFor
    <2> QED
      BY <2>1
  <1> QED
    BY <1>1, <1>2, <1>3 DEF Attention

\* The same, where the threads stay as they are.
LEMMA AttentionOfCall ==
  ASSUME Types, Attention, UNCHANGED thread,
         \A p \in Partner : Armed(p)' => /\ Armed(p)
                                         /\ HasWork(p)' => HasWork(p)
                                         /\ slot'[p] => slot[p]
  PROVE  Attention'
  BY AttentionStays DEF At, InLoopFor, Serves, Live, InLoop

\* Arming leaves the partner with a thread in its loop, or the history says not.
LEMMA ArmsAttention ==
  ASSUME Types, Registry, Attention, NEW p \in Partner, EnsureThread(p),
         UNCHANGED <<rows, slot>>,
         \A q \in Partner \ {p} : Armed(q)' = Armed(q),
         Armed(p)' => Armed(p) \/ (Attended(p) => InLoop(registry[p]))
  PROVE  Attention'
  <1>1. \A t \in Thread : ~At(t, "rechecking")
    BY DEF EnsureThread, LockFree
  <1>2. \A u \in Thread : thread'[u] = thread[u] \/ (~Live(u) /\ thread'[u].pc = "top")
    BY EnsureFields, StartedFields DEF Types, Server
  <1>3. \A t \in Thread : ~At(t, "rechecking")'
    BY <1>1, <1>2 DEF At
  <1>4. \A u \in Thread, q \in Partner : InLoopFor(u, q) => InLoopFor(u, q)'
    BY <1>2 DEF InLoopFor, Serves, InLoop, Live
  <1>5. ASSUME NEW q \in Partner, Armed(q), HasWork(q)
        PROVE  \E u \in Thread : InLoopFor(u, q)'
    BY <1>4, <1>5 DEF Attention, ArmedWorkHasThread, Armed, InLoopFor
  <1>6. ASSUME Attended(p) => InLoop(registry[p])
        PROVE  \E u \in Thread : InLoopFor(u, p)'
    <2>1. CASE Attended(p)
      <3>1. registry[p] \in Thread
        BY <2>1 DEF Attended, Types, Server
      <3>2. InLoopFor(registry[p], p)
        BY <1>6, <2>1 DEF Attended, Registry, Registrations, InLoopFor, Serves
      <3> QED
        BY <1>4, <3>1, <3>2
    <2>2. CASE ~Attended(p)
      <3>1. PICK t \in Thread : thread'[t] = Started(p)
        BY <2>2, EnsureFields DEF Types, Server
      <3>2. InLoopFor(t, p)'
        BY <3>1, StartedFields DEF InLoopFor, Serves, InLoop, Live, Types, Server
      <3> QED
        BY <3>2
    <2> QED
      BY <2>1, <2>2
  <1>7. \A q \in Partner : HasWork(q)' = HasWork(q)
    BY DEF HasWork
  <1>8. ASSUME NEW q \in Partner, Armed(q)', HasWork(q)'
        PROVE  \E u \in Thread : InLoopFor(u, q)'
    BY <1>5, <1>6, <1>7, <1>8
  <1>9. ArmedWorkHasThread'
    BY <1>8 DEF ArmedWorkHasThread, Armed, InLoopFor
  <1> QED
    BY <1>3, <1>9 DEF Attention, OneDecides, SomebodyElse

LEMMA CallAttention ==
  ASSUME Types, Registry, Attention, NEW p \in Partner, Call(p)
  PROVE  Attention'
  <1>1. ASSUME NEW answer \in BOOLEAN, Push(p, answer) \/ PushFromElsewhere(p, answer)
        PROVE  Attention'
    BY <1>1, AttentionOfCall DEF Push, PushFromElsewhere, Types, Work, Calls, Armed, HasWork
  <1>2. CASE SendAdvance(p)
    <2>1. UNCHANGED <<thread, armed>> /\ ~Armed(p)
      BY <1>2 DEF SendAdvance, Armed
    <2>2. sender'[p] # "none" /\ \A q \in Partner \ {p} : sender'[q] = sender[q]
      BY <1>2 DEF SendAdvance, Types, Calls
    <2>3. \A q \in Partner \ {p} : rows'[q] = rows[q] /\ slot'[q] = slot[q]
      BY <1>2 DEF SendAdvance, Takes, Types, Work
    <2> QED
      BY <2>1, <2>2, <2>3, AttentionOfCall DEF Armed, HasWork
  <1>3. CASE SendDelivers(p) \/ SendFails(p)
    <2>1. UNCHANGED thread /\ ~Armed(p)'
      BY <1>3 DEF SendDelivers, SendFails, Armed, Types, Calls
    <2>2. \A q \in Partner \ {p} : /\ sender'[q] = sender[q] /\ armed'[q] = armed[q]
                                   /\ rows'[q] = rows[q] /\ slot'[q] = slot[q]
      BY <1>3 DEF SendDelivers, SendFails, Delivered, Refused, Types, Work, Calls
    <2> QED
      BY <2>1, <2>2, AttentionOfCall DEF Armed, HasWork
  <1>4. CASE SendArms(p)
    <2>1. UNCHANGED <<rows, slot>> /\ \A q \in Partner \ {p} : Armed(q)' = Armed(q)
      BY <1>4 DEF SendArms, Armed, Types, Calls
    <2>2. CASE EnsureThread(p) /\ armed' = [armed EXCEPT ![p] = Attended(p) => InLoop(registry[p])]
      <3>1. Armed(p)' => (Attended(p) => InLoop(registry[p]))
        BY <2>2, Zenon DEF Armed, Types
      <3> QED
        BY <2>1, <2>2, <3>1, ArmsAttention
    <2>3. CASE SpawnFails(p) /\ armed' = [armed EXCEPT ![p] = FALSE]
      <3>1. UNCHANGED thread /\ ~Armed(p)'
        BY <2>3 DEF SpawnFails, Armed, Types
      <3> QED
        BY <2>1, <3>1, AttentionOfCall DEF HasWork
    <2> QED
      BY <1>4, <2>2, <2>3 DEF SendArms
  <1>5. CASE Interrupt(p)
    <2>1. UNCHANGED <<thread, armed, sender>>
      BY <1>5 DEF Interrupt
    <2>2. \A q \in Partner : (HasWork(q)' => HasWork(q)) /\ (slot'[q] => slot[q])
      BY <1>5, TasksAssumption DEF Interrupt, HasWork, Types, Work
    <2> QED
      BY <2>1, <2>2, AttentionOfCall DEF Armed
  <1>6. CASE StopThreadSignals(p)
    <2>1. \A u \in Thread : thread'[u] = IF u = registry[p] THEN Told(thread[u]) ELSE thread[u]
      BY <1>6, SignalsFields DEF Types, Server
    <2>2. UNCHANGED work /\ ~Armed(p)' /\ \A q \in Partner \ {p} : Armed(q)' = Armed(q)
      BY <1>6 DEF StopThreadSignals, Armed, Types
    <2>3. \A u \in Thread : ~At(u, "rechecking")'
      BY <1>6, <2>1, ToldFields DEF StopThreadSignals, LockFree, At, Types, Threads
    <2>4. ASSUME NEW q \in Partner \ {p}, NEW u \in Thread, InLoopFor(u, q)
          PROVE  InLoopFor(u, q)'
      <3>1. u # registry[p]
        BY <2>4, ThreadAssumption DEF InLoopFor, Serves, Registry, Registrations, Attended
      <3> QED
        BY <2>1, <2>4, <3>1 DEF InLoopFor, Serves, InLoop, Live
    <2> QED
      BY <2>2, <2>3, <2>4, AttentionStays DEF HasWork
  <1>7. CASE StopThreadSkipped(p) \/ StopThreadDeletes(p) \/ Restart(p)
    <2>1. UNCHANGED <<thread, armed, rows, slot>>
      BY <1>7 DEF StopThreadSkipped, StopThreadDeletes, Restart
    <2>2. \A q \in Partner : Armed(q)' => Armed(q)
      BY <1>7 DEF StopThreadSkipped, StopThreadDeletes, Restart, Armed, Types, Calls
    <2> QED
      BY <2>1, <2>2, AttentionOfCall DEF HasWork
  <1> QED
    BY <1>1, <1>2, <1>3, <1>4, <1>5, <1>6, <1>7 DEF Call

\* A thread that moves within its loop stays there, and the others where they are.
LEMMA MovesAttention ==
  ASSUME Types, NEW t \in Thread, Live(t),
         NEW pc \in Pc \ {"leaving", "forgetting"}, GoTo(t, pc)
  PROVE  /\ \A u \in Thread, p \in Partner : InLoopFor(u, p) => InLoopFor(u, p)'
         /\ pc # "rechecking" =>
              \A u \in Thread : At(u, "rechecking")' => At(u, "rechecking") /\ thread'[u].of = thread[u].of
         /\ \A u \in Thread \ {t} : At(u, "rechecking")' = At(u, "rechecking")
         /\ thread'[t].of = thread[t].of
  BY GoToFields DEF Types, InLoopFor, Serves, InLoop, Live, At

\* The end of a thread that had left its loop takes nobody out of theirs.
LEMMA EndsAttention ==
  ASSUME Types, NEW t \in Thread, Ends(t)
  PROVE  /\ \A u \in Thread \ {t}, p \in Partner : InLoopFor(u, p) => InLoopFor(u, p)'
         /\ \A u \in Thread : At(u, "rechecking")' => u # t /\ At(u, "rechecking") /\ thread'[u].of = thread[u].of
  BY EndsFields DEF Types, InLoopFor, Serves, InLoop, Live, At, Off

\* The recheck under the lock sees whatever was armed for, and sees another
\* thread's task only where that thread remains.
LEMMA RetireAttention ==
  ASSUME Types, Attention, NEW t \in Thread, Recheck(t) \/ Retire(t)
  PROVE  Attention'
  <1>1. PICK p \in Partner : Live(t) /\ thread[t].of = p
    BY LiveFields DEF Recheck, Retire, At, Types
  <1>2. UNCHANGED <<work, calls, armed>>
    BY DEF Recheck, Retire
  <1>3. CASE GoTo(t, "top")
    BY <1>1, <1>2, <1>3, MovesAttention, AttentionStays DEF Pc, Armed, HasWork
  <1>4. CASE Recheck(t) /\ GoTo(t, "rechecking")
    <2>1. ~slot[p] /\ LockFree
      BY <1>1, <1>4, GoToFields DEF Recheck, Types, Pc
    <2>2. /\ \A u \in Thread, q \in Partner : InLoopFor(u, q) => InLoopFor(u, q)'
          /\ \A u \in Thread \ {t} : ~At(u, "rechecking")'
          /\ thread'[t].of = p
      BY <1>1, <1>4, <2>1, MovesAttention DEF Pc, LockFree
    <2>3. OneDecides'
      BY <2>2 DEF OneDecides
    <2>4. SomebodyElse'
      BY <1>2, <2>1, <2>2 DEF SomebodyElse
    <2>5. ArmedWorkHasThread'
      <3> SUFFICES ASSUME NEW q \in Partner, Armed(q), HasWork(q)
                   PROVE  \E u \in Thread : InLoopFor(u, q)'
        BY <1>2 DEF ArmedWorkHasThread, Armed, HasWork, InLoopFor
      <3>1. PICK u \in Thread : InLoopFor(u, q)
        BY DEF Attention, ArmedWorkHasThread, Armed, InLoopFor
      <3> QED
        BY <2>2, <3>1
    <2> QED
      BY <2>3, <2>4, <2>5 DEF Attention
  <1>5. CASE Retire(t) /\ Ends(t) /\ ~(rows[p] > 0)
    <2>1. \A u \in Thread : ~At(u, "rechecking")'
      BY <1>5, EndsAttention DEF Retire, Attention, OneDecides
    <2>2. ArmedWorkHasThread'
      <3> SUFFICES ASSUME NEW q \in Partner, Armed(q), HasWork(q)
                   PROVE  \E u \in Thread : InLoopFor(u, q)'
        BY <1>2 DEF ArmedWorkHasThread, Armed, HasWork, InLoopFor
      <3>1. CASE q = p
        <4>1. slot[p] /\ At(t, "rechecking")
          BY <1>5, <3>1 DEF HasWork, Retire
        <4>2. PICK u \in Thread \ {t} : InLoopFor(u, p)
          BY <1>1, <3>1, <4>1 DEF Attention, SomebodyElse
        <4> QED
          BY <1>5, <3>1, <4>2, EndsAttention
      <3>2. CASE q # p
        <4>1. PICK u \in Thread : InLoopFor(u, q)
          BY DEF Attention, ArmedWorkHasThread, Armed, InLoopFor
        <4>2. u # t
          BY <1>1, <3>2, <4>1 DEF InLoopFor, Serves
        <4> QED
          BY <1>5, <4>1, <4>2, EndsAttention
      <3> QED
        BY <3>1, <3>2
    <2> QED
      BY <2>1, <2>2 DEF Attention, OneDecides, SomebodyElse
  <1>6. Recheck(t) \/ (Retire(t) /\ (GoTo(t, "top") \/ (Ends(t) /\ ~(rows[p] > 0))))
    BY <1>1 DEF Retire
  <1>7. Recheck(t) => GoTo(t, "top") \/ GoTo(t, "rechecking")
    BY DEF Recheck
  <1> QED
    BY <1>3, <1>4, <1>5, <1>6, <1>7

\* A thread that fills the slot, or gives the task back, is one that stays, or
\* was told to go.
LEMMA ArrivalAttention ==
  ASSUME Types, Attention, NEW t \in Thread, PassDelivers(t) \/ PassFails(t)
  PROVE  Attention'
  <1>1. PICK p \in Partner : Live(t) /\ thread[t].of = p
    BY LiveFields DEF PassDelivers, PassFails, At, Types
  <1>2. PICK pc \in {"read", "top"} : GoTo(t, pc)
    BY DEF PassDelivers, PassFails
  <1>3. /\ \A u \in Thread, q \in Partner : InLoopFor(u, q) => InLoopFor(u, q)'
        /\ \A u \in Thread : At(u, "rechecking")' => At(u, "rechecking") /\ thread'[u].of = thread[u].of
    BY <1>1, <1>2, MovesAttention DEF Pc
  <1>4. /\ UNCHANGED calls
        /\ \A q \in Partner \ {p} : slot'[q] = slot[q] /\ rows'[q] = rows[q] /\ armed'[q] = armed[q]
    BY <1>1 DEF PassDelivers, PassFails, Delivered, Refused, Types, Work
  <1>5. CASE thread[t].told
    <2>1. ~Armed(p)'
      BY <1>1, <1>5 DEF PassDelivers, PassFails, Armed, Types
    <2> QED
      BY <1>3, <1>4, <2>1, AttentionStays DEF Armed, HasWork
  <1>6. CASE ~thread[t].told
    <2>1. InLoopFor(t, p)'
      BY <1>1, <1>3, <1>6 DEF InLoopFor, Serves, InLoop, PassDelivers, PassFails, At
    <2>2. ~At(t, "rechecking")'
      BY <1>1, <1>2, GoToFields DEF At, Types, Pc
    <2>3. OneDecides'
      BY <1>3 DEF Attention, OneDecides
    <2>4. SomebodyElse'
      <3> SUFFICES ASSUME NEW q \in Partner, NEW w \in Thread,
                          At(w, "rechecking")', thread'[w].of = q, Armed(q)', slot'[q]
                   PROVE  \E u \in Thread \ {w} : InLoopFor(u, q)'
        BY DEF SomebodyElse
      <3>1. CASE q = p
        BY <2>1, <2>2, <3>1
      <3>2. CASE q # p
        <4>1. PICK u \in Thread \ {w} : InLoopFor(u, q)
          BY <1>3, <1>4, <3>2 DEF Attention, SomebodyElse, Armed
        <4> QED
          BY <1>3, <4>1
      <3> QED
        BY <3>1, <3>2
    <2>5. ArmedWorkHasThread'
      <3> SUFFICES ASSUME NEW q \in Partner, Armed(q)', HasWork(q)'
                   PROVE  \E u \in Thread : InLoopFor(u, q)'
        BY DEF ArmedWorkHasThread, Armed, InLoopFor
      <3>1. CASE q = p
        BY <2>1, <3>1
      <3>2. CASE q # p
        <4>1. PICK u \in Thread : InLoopFor(u, q)
          BY <1>4, <3>2 DEF Attention, ArmedWorkHasThread, Armed, HasWork, InLoopFor
        <4> QED
          BY <1>3, <4>1
      <3> QED
        BY <3>1, <3>2
    <2> QED
      BY <2>3, <2>4, <2>5 DEF Attention
  <1> QED
    BY <1>5, <1>6

LEMMA DrainAttention ==
  ASSUME Types, Attention, NEW t \in Thread, DrainLoop(t)
  PROVE  Attention'
  <1>1. PICK p \in Partner : Live(t) /\ thread[t].of = p
    BY LiveFields DEF DrainLoop, Top, PassAdvance, PassDelivers, PassFails, PassReads,
       PassCounts, PassPolls, Recheck, Retire, RetireFails, LeavingDeletes, LeavingForgets, At,
       Types
  <1>2. CASE Top(t)
    <2>1. UNCHANGED <<work, calls, armed>>
      BY <1>2 DEF Top
    <2>2. CASE GoTo(t, "advance")
      BY <1>1, <2>1, <2>2, MovesAttention, AttentionStays DEF Pc, Armed, HasWork
    <2>3. CASE thread[t].told /\ Ends(t)
      <3>1. \A q \in Partner : ~InLoopFor(t, q)
        BY <2>3 DEF InLoopFor, InLoop
      <3> QED
        BY <2>1, <2>3, <3>1, EndsAttention, AttentionStays DEF Armed, HasWork
    <2> QED
      BY <1>2, <2>2, <2>3 DEF Top
  <1>3. CASE PassAdvance(t)
    <2>1. \E pc \in {"delivering", "read"} : GoTo(t, pc)
      BY <1>3 DEF PassAdvance
    <2>2. UNCHANGED <<calls, armed>>
      BY <1>3 DEF PassAdvance
    <2>3. \A q \in Partner : (HasWork(q)' => HasWork(q)) /\ (slot'[q] => slot[q])
      <3>1. CASE UNCHANGED work
        BY <3>1 DEF HasWork
      <3>2. CASE Takes(p)
        BY <3>2 DEF Takes, MayTake, HasWork, Types, Work
      <3> QED
        BY <1>1, <1>3, <3>1, <3>2 DEF PassAdvance
    <2> QED
      BY <1>1, <2>1, <2>2, <2>3, MovesAttention, AttentionStays DEF Pc, Armed
  <1>4. CASE PassReads(t) \/ PassCounts(t) \/ PassPolls(t)
    <2>1. \E pc \in {"poll", "depth", "idle", "top"} : GoTo(t, pc)
      BY <1>4 DEF PassReads, PassCounts, PassPolls
    <2>2. UNCHANGED <<rows, calls, armed>> /\ \A q \in Partner : slot'[q] => slot[q]
      BY <1>1, <1>4 DEF PassReads, PassCounts, PassPolls, Types, Work
    <2> QED
      BY <1>1, <2>1, <2>2, MovesAttention, AttentionStays DEF Pc, Armed, HasWork
  <1>5. CASE RetireFails(t)
    <2>1. /\ UNCHANGED <<work, calls>> /\ ~Armed(p)'
          /\ \A q \in Partner \ {p} : Armed(q)' = Armed(q)
      BY <1>1, <1>5 DEF RetireFails, Armed, Types
    <2>2. /\ \A u \in Thread \ {t} : thread'[u] = thread[u]
          /\ thread'[t].pc = "leaving"
      BY <1>1, <1>5, GoToFields DEF RetireFails, Types, Pc
    <2>3. \A q \in Partner, u \in Thread : q # p /\ InLoopFor(u, q) => InLoopFor(u, q)'
      BY <1>1, <2>2 DEF InLoopFor, Serves, InLoop, Live
    <2>4. \A u \in Thread : At(u, "rechecking")' => At(u, "rechecking") /\ thread'[u].of = thread[u].of
      BY <2>2 DEF At
    <2> QED
      BY <2>1, <2>3, <2>4, AttentionStays DEF HasWork
  <1>6. CASE LeavingDeletes(t) \/ LeavingForgets(t)
    <2>1. UNCHANGED <<work, calls, armed>> /\ \A q \in Partner : ~InLoopFor(t, q)
      BY <1>6 DEF LeavingDeletes, LeavingForgets, InLoopFor, InLoop, At
    <2>2. CASE Ends(t)
      BY <2>1, <2>2, EndsAttention, AttentionStays DEF Armed, HasWork
    <2>3. CASE GoTo(t, "forgetting")
      <3>1. /\ \A u \in Thread \ {t} : thread'[u] = thread[u]
            /\ thread'[t].pc = "forgetting"
        BY <1>1, <2>3, GoToFields DEF Types, Pc
      <3>2. \A q \in Partner, u \in Thread : InLoopFor(u, q) => InLoopFor(u, q)'
        BY <2>1, <3>1 DEF InLoopFor, Serves, InLoop, Live
      <3> QED
        BY <2>1, <3>1, <3>2, AttentionStays DEF At, Armed, HasWork
    <2> QED
      BY <1>6, <2>2, <2>3 DEF LeavingDeletes, LeavingForgets
  <1> QED
    BY <1>2, <1>3, <1>4, <1>5, <1>6, RetireAttention, ArrivalAttention DEF DrainLoop

LEMMA ServerAttention ==
  ASSUME Types, Registry, Attention, Supervisor \/ Start \/ StopTells \/ StopReturns \/ Crash
  PROVE  Attention'
  <1>1. CASE ScanReads \/ ScanLooks
    BY <1>1, AttentionOfCall DEF ScanReads, ScanLooks, Armed, HasWork
  <1>2. ASSUME NEW p \in Partner, ScanArms(p)
        PROVE  Attention'
    BY <1>2, ArmsAttention DEF ScanArms, Armed
  <1>3. ASSUME NEW p \in Partner, ScanFails(p)
        PROVE  Attention'
    BY <1>3, AttentionOfCall DEF ScanFails, SpawnFails, Armed, HasWork
  <1>4. CASE Start
    <2>1. \A u \in Thread : thread'[u] = thread[u] \/ (~Live(u) /\ thread'[u].pc = "top")
      BY <1>4, StartFields, StartedFields DEF BringsBack, Types, Server
    <2>2. \A u \in Thread : At(u, "rechecking")' => At(u, "rechecking") /\ thread'[u].of = thread[u].of
      BY <2>1 DEF At
    <2>3. \A p \in Partner, u \in Thread : InLoopFor(u, p) => InLoopFor(u, p)'
      BY <2>1 DEF InLoopFor, Serves, InLoop, Live
    <2> QED
      BY <1>4, <2>2, <2>3, AttentionStays DEF Start, Armed, HasWork
  <1>5. CASE StopTells
    <2>1. \A p \in Partner : ~Armed(p)'
      BY <1>5 DEF StopTells, Armed
    <2>2. \A u \in Thread : At(u, "rechecking")' => At(u, "rechecking")
      BY <1>5, StopTellsFields, ToldFields DEF Types, Threads, At
    <2>3. \A u \in Thread : ~At(u, "rechecking")
      BY <1>5 DEF StopTells, LockFree
    <2> QED
      BY <2>1, <2>2, <2>3, AttentionStays
  <1>6. CASE StopReturns \/ Crash
    <2>1. \A p \in Partner : ~Armed(p)'
      BY <1>6 DEF StopReturns, Crash, Armed
    <2>2. \A u \in Thread : At(u, "rechecking")' => At(u, "rechecking") /\ thread'[u].of = thread[u].of
      BY <1>6 DEF StopReturns, Crash, At, Off
    <2> QED
      BY <2>1, <2>2, AttentionStays
  <1> QED
    BY <1>1, <1>2, <1>3, <1>4, <1>5, <1>6 DEF Supervisor

LEMMA AttentionStep ==
  ASSUME Types, Registry, Attention, [Next]_vars
  PROVE  Attention'
  <1>1. CASE UNCHANGED vars
    BY <1>1, AttentionOfCall DEF vars, Armed, HasWork
  <1>2. CASE Next
    BY <1>2, CallAttention, DrainAttention, ServerAttention DEF Next
  <1> QED
    BY <1>1, <1>2

LEMMA AttentionInit ==
  ASSUME Init
  PROVE  Attention
  BY DEF Init, Attention, OneDecides, SomebodyElse, ArmedWorkHasThread, At, Off

\* A message somebody armed a thread for is never left behind by one that was
\* about to retire: the race that the recheck under the lock closes is closed
\* for any number of partners, threads and messages, whatever else happens.
THEOREM ArmedWorkIsServed == Spec => []ArmedWorkHasThread
  <1>1. Init => Types /\ Guarded /\ Registry /\ Attention
    BY TypesInit, RegistryInit, AttentionInit
  <1>2. Types /\ Guarded /\ Registry /\ Attention /\ [Next]_vars
          => (Types /\ Guarded /\ Registry /\ Attention)'
    BY TypesStep, RegistryStep, AttentionStep
  <1>3. Types /\ Guarded /\ Registry /\ Attention => ArmedWorkHasThread
    BY DEF Attention
  <1> QED
    BY <1>1, <1>2, <1>3, PTL DEF Spec
=============================================================================
