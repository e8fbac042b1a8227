---------------------------- MODULE AviationProofs ----------------------------
(* Theorems about Aviation, for all sources, areas, cells and bounds.        *)
EXTENDS Aviation, SequenceTheorems, FiniteSetTheorems, TLAPS

-----------------------------------------------------------------------------
(* Types.                                                                  *)

\* Seeding keeps the queue a queue.
LEMMA SeedType ==
  ASSUME TypeOK, NEW m \in Missions, InitializeRegion(m)
  PROVE  queue' \in [Cells -> Nat \cup {NotQueued}]
  BY DEF TypeOK, InitializeRegion

\* Rescheduling keeps the queue and the counts what they are.
LEMMA UpdateType ==
  ASSUME TypeOK, NEW c \in Cells, NEW n \in {"empty", "busy"}, UpdatePriority(c, n)
  PROVE  /\ queue' \in [Cells -> Nat \cup {NotQueued}]
         /\ counts' \in [Cells -> {"none", "empty", "busy"}]
<1>1. now + (IF n = "busy" THEN Active ELSE Empty) \in Nat
  BY BoundsAssumption DEF TypeOK
<1> QED  BY <1>1 DEF TypeOK, UpdatePriority

\* The initial state has the types.
LEMMA TypeInit == Init => TypeOK
<1> SUFFICES ASSUME Init
             PROVE  TypeOK
  OBVIOUS
<1>1. Default \in Missions /\ MaxNow \in Nat /\ MaxFaults \in Nat
  BY AreasAssumption, BoundsAssumption
<1>2. mission \in Missions /\ area \in Missions /\ now \in 0..MaxNow
      /\ faults \in 0..MaxFaults
  BY <1>1 DEF Init
<1>3. request \in [Requests -> [state : {"new", "stored", "done"}, area : Missions]]
  BY <1>1 DEF Init
<1>4. /\ queue \in [Cells -> Nat \cup {NotQueued}]
      /\ counts \in [Cells -> {"none", "empty", "busy"}]
      /\ held \in [Sources -> Cells \cup {Idle}]
  BY DEF Init
<1>5. inbox \in Seq(Missions) /\ carried \subseteq Cells /\ passed \in Nat
  BY DEF Init
<1> QED  BY <1>2, <1>3, <1>4, <1>5 DEF Init, TypeOK

\* Every step keeps the types.
LEMMA TypeNext ==
  ASSUME TypeOK, [Next]_vars
  PROVE  TypeOK'
<1> USE DEF apiVars, pollerVars, queueVars, historyVars
<1>1. ASSUME NEW r \in Requests, NEW m \in Missions, StoreMission(r, m)
      PROVE  TypeOK'
  BY <1>1 DEF TypeOK, StoreMission
<1>2. ASSUME NEW r \in Requests, Announce(r)
      PROVE  TypeOK'
  <2>1. request[r].area \in Missions  BY DEF TypeOK
  <2>2. inbox' \in Seq(Missions)
    <3>1. inbox \in Seq(Missions)  BY DEF TypeOK
    <3>2. Append(inbox, request[r].area) \in Seq(Missions)
      BY <2>1, <3>1, AppendProperties
    <3> QED  BY <1>2, <3>1, <3>2 DEF Announce
  <2>3. request' \in [Requests -> [state : {"new", "stored", "done"}, area : Missions]]
    BY <1>2 DEF TypeOK, Announce
  <2> QED  BY <1>2, <2>2, <2>3 DEF TypeOK, Announce
<1>3. ASSUME NEW r \in Requests, AnnounceFails(r)
      PROVE  TypeOK'
  BY <1>3, BoundsAssumption DEF TypeOK, AnnounceFails, Fault
<1>4. ASSUME Subscribe \/ LoadActiveMission \/ Resubscribe
      PROVE  TypeOK'
  BY <1>4 DEF TypeOK, Subscribe, LoadActiveMission, Resubscribe
<1>5. ASSUME SeedAtStart
      PROVE  TypeOK'
  BY <1>5, SeedType DEF TypeOK, SeedAtStart, Queued
<1>6. ASSUME Stop
      PROVE  TypeOK'
  <2>1. faults' \in 0..MaxFaults
    BY <1>6, BoundsAssumption DEF TypeOK, Stop, Fault
  <2>2. held' \in [Sources -> Cells \cup {Idle}]  BY <1>6 DEF Stop
  <2>3. area' \in Missions /\ inbox' \in Seq(Missions)
    BY <1>6, AreasAssumption DEF Stop
  <2> QED  BY <1>6, <2>1, <2>2, <2>3 DEF TypeOK, Stop
<1>7. ASSUME Pivot
      PROVE  TypeOK'
  <2>1. inbox # <<>> /\ Head(inbox) \in Missions /\ Tail(inbox) \in Seq(Missions)
    BY <1>7, HeadTailProperties DEF Pivot, TypeOK
  <2>2. HeldCells \subseteq Cells  BY DEF TypeOK, HeldCells, Idle
  <2> QED  BY <1>7, <2>1, <2>2 DEF TypeOK, Pivot, FlushRegion
<1>8. ASSUME SeedForArea
      PROVE  TypeOK'
  BY <1>8, SeedType DEF TypeOK, SeedForArea
<1>9. ASSUME FlushFails
      PROVE  TypeOK'
  <2>1. inbox # <<>> /\ Head(inbox) \in Missions /\ Tail(inbox) \in Seq(Missions)
    BY <1>9, HeadTailProperties DEF FlushFails, TypeOK
  <2>2. HeldCells \subseteq Cells /\ Queued \subseteq Cells
    BY DEF TypeOK, HeldCells, Queued, Idle
  <2>3. faults' \in 0..MaxFaults
    BY <1>9, BoundsAssumption DEF TypeOK, FlushFails, Fault
  <2> QED  BY <1>9, <2>1, <2>2, <2>3 DEF TypeOK, FlushFails
<1>10. ASSUME SeedFails \/ SubscriptionFails
       PROVE  TypeOK'
  <2>1. faults' \in 0..MaxFaults
    BY <1>10, BoundsAssumption DEF TypeOK, SeedFails, SubscriptionFails, Fault
  <2>2. inbox' \in Seq(Missions)
    <3>1. inbox \in Seq(Missions) /\ <<>> \in Seq(Missions)  BY DEF TypeOK
    <3> QED  BY <1>10, <3>1 DEF SeedFails, SubscriptionFails
  <2> QED  BY <1>10, <2>1, <2>2 DEF TypeOK, SeedFails, SubscriptionFails
<1>11. ASSUME NEW s \in Sources, Peek(s)
       PROVE  TypeOK'
  BY <1>11 DEF TypeOK, Peek
<1>12. ASSUME NEW s \in Sources, NEW n \in {"empty", "busy"}, Reschedule(s, n)
       PROVE  TypeOK'
  <2>1. held[s] \in Cells  BY <1>12 DEF TypeOK, Reschedule
  <2> QED  BY <1>12, <2>1, UpdateType DEF TypeOK, Reschedule
<1>13. ASSUME NEW s \in Sources, RescheduleFails(s)
       PROVE  TypeOK'
  BY <1>13, BoundsAssumption DEF TypeOK, RescheduleFails, Fault
<1>14. CASE Tick
  BY <1>14, BoundsAssumption DEF TypeOK, Tick
<1>15. CASE UNCHANGED vars
  BY <1>15 DEF TypeOK, vars
<1> QED
  BY <1>1, <1>2, <1>3, <1>4, <1>5, <1>6, <1>7, <1>8, <1>9, <1>10, <1>11, <1>12,
     <1>13, <1>14, <1>15, ZenonT(60) DEF Next

\* Every variable keeps its type.
THEOREM TypeCorrect == Spec => []TypeOK
<1>1. Init => TypeOK  BY TypeInit
<1>2. TypeOK /\ [Next]_vars => TypeOK'  BY TypeNext
<1> QED  BY <1>1, <1>2, PTL DEF Spec

-----------------------------------------------------------------------------
(* The invariant.  RegionCovered and CountsAreQueued are inductive as they *)
(* stand.  The others are not: a cell on its way back to the queue is in a *)
(* loop's hands, and what an announcement will do waits in the inbox.      *)

LoopsIdle == poller # "up" => \A s \in Sources : held[s] = Idle

(* What is queued, or about to be, is of the area or was carried over.     *)
StraysInv ==
  poller = "up" =>
    /\ \A c \in Cells : queue[c] # NotQueued => c \in Region(area) \cup carried
    /\ \A s \in Sources : held[s] # Idle => held[s] \in Region(area) \cup carried

Starting == poller \in {"subscribed", "loaded"} => subscribed

(* The last announcement waiting, or the area if none waits, is the        *)
(* mission stored.                                                         *)
AnnouncedInv ==
  poller \in {"loaded", "up"} /\ ~missed /\ (\A r \in Requests : request[r].state # "stored")
    => IF inbox = <<>> THEN area = mission ELSE inbox[Len(inbox)] = mission

(* A cell that a loop takes from the queue only after Watched.             *)
Behind(c) ==
  /\ queue[c] # NotQueued
  /\ queue[Watched] < queue[c] \/ (queue[Watched] = queue[c] /\ Watched < c)

(* The loops that can no longer take another cell before Watched, with the *)
(* cell: the loop has it in hand, or the cell has gone behind.             *)
Spent == {p \in Sources \X (Cells \ {Watched}) : held[p[1]] = p[2] \/ Behind(p[2])}

(* Each poll counted against Watched has spent one of them.                *)
SpentInv == passed > 0 => Due(Watched) /\ passed <= Cardinality(Spent)

IInv ==
  TypeOK /\ LoopsIdle /\ RegionCovered /\ CountsAreQueued /\ StraysInv
  /\ Starting /\ AnnouncedInv /\ SpentInv

\* The invariant holds in the initial state.
LEMMA IInvInit == Init => IInv
<1> SUFFICES ASSUME Init
             PROVE  IInv
  OBVIOUS
<1>1. TypeOK  BY TypeInit
<1>2. LoopsIdle /\ Starting /\ AnnouncedInv
  BY DEF Init, LoopsIdle, Starting, AnnouncedInv
<1>3. RegionCovered /\ CountsAreQueued /\ StraysInv
  BY DEF Init, RegionCovered, CountsAreQueued, StraysInv, Settled
<1>4. SpentInv
  <2>1. passed = 0  BY DEF Init
  <2> QED  BY <2>1 DEF SpentInv
<1> QED  BY <1>1, <1>2, <1>3, <1>4 DEF IInv

\* Loops hold a cell only while the poller is up.
LEMMA LoopsIdleNext ==
  ASSUME IInv, [Next]_vars
  PROVE  LoopsIdle'
<1> USE DEF apiVars, pollerVars, queueVars, historyVars, LoopsIdle
<1> TypeOK /\ LoopsIdle  BY DEF IInv
<1>1. ASSUME NEW r \in Requests, NEW m \in Missions,
             StoreMission(r, m) \/ Announce(r) \/ AnnounceFails(r)
      PROVE  LoopsIdle'
  BY <1>1 DEF StoreMission, Announce, AnnounceFails
<1>2. ASSUME Subscribe \/ LoadActiveMission \/ SeedAtStart \/ Stop
      PROVE  LoopsIdle'
  BY <1>2 DEF Subscribe, LoadActiveMission, SeedAtStart, Stop
<1>3. ASSUME Pivot \/ SeedForArea \/ FlushFails \/ SeedFails \/ SubscriptionFails \/ Resubscribe
      PROVE  LoopsIdle'
  BY <1>3 DEF Pivot, SeedForArea, FlushFails, SeedFails, SubscriptionFails, Resubscribe
<1>4. ASSUME NEW s \in Sources, NEW n \in {"empty", "busy"},
             Peek(s) \/ Reschedule(s, n) \/ RescheduleFails(s)
      PROVE  LoopsIdle'
  BY <1>4 DEF Peek, Reschedule, RescheduleFails, TypeOK
<1>5. CASE Tick \/ UNCHANGED vars
  BY <1>5 DEF Tick, vars
<1>6. Missions # {} BY AreasAssumption
<1> QED
  BY <1>1, <1>2, <1>3, <1>4, <1>5, <1>6, ZenonT(60) DEF Next

\* A poller that starts is subscribed before it reads the mission.
LEMMA StartingNext ==
  ASSUME IInv, [Next]_vars
  PROVE  Starting'
<1> USE DEF apiVars, pollerVars, queueVars, historyVars, Starting
<1> Starting  BY DEF IInv
<1>1. ASSUME NEW r \in Requests, NEW m \in Missions,
             StoreMission(r, m) \/ Announce(r) \/ AnnounceFails(r)
      PROVE  Starting'
  BY <1>1 DEF StoreMission, Announce, AnnounceFails
<1>2. ASSUME Subscribe \/ LoadActiveMission \/ SeedAtStart \/ Stop
      PROVE  Starting'
  BY <1>2 DEF Subscribe, LoadActiveMission, SeedAtStart, Stop
<1>3. ASSUME Pivot \/ SeedForArea \/ FlushFails \/ SeedFails \/ SubscriptionFails \/ Resubscribe
      PROVE  Starting'
  BY <1>3 DEF Pivot, SeedForArea, FlushFails, SeedFails, SubscriptionFails, Resubscribe
<1>4. ASSUME NEW s \in Sources, NEW n \in {"empty", "busy"},
             Peek(s) \/ Reschedule(s, n) \/ RescheduleFails(s)
      PROVE  Starting'
  BY <1>4 DEF Peek, Reschedule, RescheduleFails
<1>5. CASE Tick \/ UNCHANGED vars
  BY <1>5 DEF Tick, vars
<1>6. Missions # {} BY AreasAssumption
<1> QED
  BY <1>1, <1>2, <1>3, <1>4, <1>5, <1>6, ZenonT(60) DEF Next

\* Counts are written and deleted with the queue entries they belong to.
LEMMA CountsNext ==
  ASSUME IInv, [Next]_vars
  PROVE  CountsAreQueued'
<1> USE DEF apiVars, pollerVars, queueVars, historyVars, CountsAreQueued, Queued
<1> TypeOK /\ CountsAreQueued  BY DEF IInv
<1>1. ASSUME NEW r \in Requests, NEW m \in Missions,
             StoreMission(r, m) \/ Announce(r) \/ AnnounceFails(r)
      PROVE  CountsAreQueued'
  BY <1>1 DEF StoreMission, Announce, AnnounceFails
<1>2. ASSUME Subscribe \/ LoadActiveMission \/ Stop \/ FlushFails \/ SeedFails
             \/ SubscriptionFails \/ Resubscribe
      PROVE  CountsAreQueued'
  BY <1>2 DEF Subscribe, LoadActiveMission, Stop, FlushFails, SeedFails,
              SubscriptionFails, Resubscribe
<1>3. ASSUME SeedAtStart \/ SeedForArea
      PROVE  CountsAreQueued'
  <2>1. InitializeRegion(area) /\ counts' = counts
    BY <1>3 DEF SeedAtStart, SeedForArea
  <2>2. now # NotQueued  BY BoundsAssumption DEF TypeOK, NotQueued
  <2> QED  BY <2>1, <2>2 DEF InitializeRegion
<1>4. ASSUME Pivot
      PROVE  CountsAreQueued'
  BY <1>4 DEF Pivot, FlushRegion
<1>5. ASSUME NEW s \in Sources, NEW n \in {"empty", "busy"}, Reschedule(s, n)
      PROVE  CountsAreQueued'
  <2>1. held[s] \in Cells /\ UpdatePriority(held[s], n)
    BY <1>5 DEF Reschedule, TypeOK
  <2>2. now + (IF n = "busy" THEN Active ELSE Empty) # NotQueued
    BY BoundsAssumption DEF TypeOK, NotQueued
  <2> QED  BY <2>1, <2>2 DEF UpdatePriority, TypeOK
<1>6. ASSUME NEW s \in Sources, Peek(s) \/ RescheduleFails(s)
      PROVE  CountsAreQueued'
  BY <1>6 DEF Peek, RescheduleFails
<1>7. CASE Tick \/ UNCHANGED vars
  BY <1>7 DEF Tick, vars
<1>8. Missions # {} BY AreasAssumption
<1> QED
  BY <1>1, <1>2, <1>3, <1>4, <1>5, <1>6, <1>7, <1>8, ZenonT(60) DEF Next

\* A seed completes the region, and nothing but a flush takes cells out.
LEMMA RegionNext ==
  ASSUME IInv, [Next]_vars
  PROVE  RegionCovered'
<1> USE DEF apiVars, pollerVars, queueVars, historyVars, RegionCovered, Settled, Queued
<1> TypeOK /\ RegionCovered  BY DEF IInv
<1>0. Region(area) \subseteq Cells  BY AreasAssumption DEF TypeOK
<1>1. ASSUME NEW r \in Requests, NEW m \in Missions,
             StoreMission(r, m) \/ Announce(r) \/ AnnounceFails(r)
      PROVE  RegionCovered'
  BY <1>1 DEF StoreMission, Announce, AnnounceFails
<1>2. ASSUME Subscribe \/ LoadActiveMission \/ Stop \/ FlushFails \/ SeedFails
             \/ SubscriptionFails \/ Resubscribe \/ Pivot
      PROVE  RegionCovered'
  BY <1>2 DEF Subscribe, LoadActiveMission, Stop, FlushFails, SeedFails,
              SubscriptionFails, Resubscribe, Pivot
<1>3. ASSUME SeedAtStart \/ SeedForArea
      PROVE  RegionCovered'
  <2>1. InitializeRegion(area) /\ area' = area
    BY <1>3 DEF SeedAtStart, SeedForArea
  <2>2. now # NotQueued  BY BoundsAssumption DEF TypeOK, NotQueued
  <2>3. \A c \in Region(area) : c \in Cells /\ queue'[c] # NotQueued
    BY <1>0, <2>1, <2>2 DEF InitializeRegion
  <2> QED  BY <2>1, <2>3
<1>4. ASSUME NEW s \in Sources, NEW n \in {"empty", "busy"}, Reschedule(s, n)
      PROVE  RegionCovered'
  <2>1. held[s] \in Cells /\ UpdatePriority(held[s], n)
    BY <1>4 DEF Reschedule, TypeOK
  <2>2. now + (IF n = "busy" THEN Active ELSE Empty) # NotQueued
    BY BoundsAssumption DEF TypeOK, NotQueued
  <2>3. Queued \subseteq Queued'
    BY <2>1, <2>2 DEF UpdatePriority, TypeOK
  <2> QED  BY <1>4, <2>3 DEF Reschedule
<1>5. ASSUME NEW s \in Sources, Peek(s) \/ RescheduleFails(s)
      PROVE  RegionCovered'
  BY <1>5 DEF Peek, RescheduleFails
<1>6. CASE Tick \/ UNCHANGED vars
  BY <1>6 DEF Tick, vars
<1>7. Missions # {} BY AreasAssumption
<1> QED
  BY <1>1, <1>2, <1>3, <1>4, <1>5, <1>6, <1>7, ZenonT(60) DEF Next

\* No step brings in a cell that is neither of the area nor carried over: a
\* reschedule returns what a loop held, and a pivot records what loops hold.
LEMMA StraysNext ==
  ASSUME IInv, [Next]_vars
  PROVE  StraysInv'
<1> USE DEF apiVars, pollerVars, queueVars, historyVars, StraysInv
<1> TypeOK /\ StraysInv /\ LoopsIdle  BY DEF IInv
<1>1. ASSUME NEW r \in Requests, NEW m \in Missions,
             StoreMission(r, m) \/ Announce(r) \/ AnnounceFails(r)
      PROVE  StraysInv'
  BY <1>1 DEF StoreMission, Announce, AnnounceFails
<1>2. ASSUME Subscribe \/ LoadActiveMission \/ Stop
      PROVE  StraysInv'
  BY <1>2 DEF Subscribe, LoadActiveMission, Stop
<1>3. ASSUME SeedAtStart
      PROVE  StraysInv'
  BY <1>3 DEF SeedAtStart, InitializeRegion, LoopsIdle, Queued
<1>4. ASSUME SeedForArea
      PROVE  StraysInv'
  BY <1>4 DEF SeedForArea, InitializeRegion
<1>5. ASSUME Pivot
      PROVE  StraysInv'
  BY <1>5 DEF Pivot, FlushRegion, HeldCells
<1>6. ASSUME FlushFails
      PROVE  StraysInv'
  BY <1>6 DEF FlushFails, HeldCells, Queued
<1>7. ASSUME SeedFails \/ SubscriptionFails \/ Resubscribe
      PROVE  StraysInv'
  BY <1>7 DEF SeedFails, SubscriptionFails, Resubscribe
<1>8. ASSUME NEW s \in Sources, Peek(s)
      PROVE  StraysInv'
  <2>1. PICK c \in Cells : c \in Queued /\ held' = [held EXCEPT ![s] = c]
    BY <1>8 DEF Peek, IsNext
  <2>2. /\ queue' = queue /\ area' = area /\ carried' = carried
        /\ poller' = poller /\ poller = "up"
    BY <1>8 DEF Peek
  <2> QED  BY <2>1, <2>2 DEF TypeOK, Queued
<1>9. ASSUME NEW s \in Sources, NEW n \in {"empty", "busy"}, Reschedule(s, n)
      PROVE  StraysInv'
  <2>1. held[s] \in Cells /\ UpdatePriority(held[s], n)
    BY <1>9 DEF Reschedule, TypeOK
  <2>2. /\ held' = [held EXCEPT ![s] = Idle] /\ area' = area
        /\ carried' = carried /\ poller' = poller /\ held[s] # Idle
    BY <1>9 DEF Reschedule
  <2>3. \A c \in Cells : c # held[s] => queue'[c] = queue[c]
    BY <2>1 DEF UpdatePriority, TypeOK
  <2> QED  BY <2>2, <2>3 DEF TypeOK
<1>10. ASSUME NEW s \in Sources, RescheduleFails(s)
       PROVE  StraysInv'
  BY <1>10 DEF RescheduleFails, TypeOK
<1>11. CASE Tick \/ UNCHANGED vars
  BY <1>11 DEF Tick, vars
<1>12. Missions # {} BY AreasAssumption
<1> QED
  BY <1>1, <1>2, <1>3, <1>4, <1>5, <1>6, <1>7, <1>8, <1>9, <1>10, <1>11, <1>12,
     ZenonT(60) DEF Next

\* Handling the first of several announcements leaves the last; handling the
\* only one leaves none.
LEMMA HandleOne ==
  ASSUME TypeOK, inbox # <<>>
  PROVE  /\ Tail(inbox) = <<>> => Head(inbox) = inbox[Len(inbox)]
         /\ Tail(inbox) # <<>> => Tail(inbox)[Len(Tail(inbox))] = inbox[Len(inbox)]
<1>1. inbox \in Seq(Missions) /\ Len(inbox) \in Nat /\ Len(inbox) # 0
  BY EmptySeq DEF TypeOK
<1>2. /\ Tail(inbox) \in Seq(Missions) /\ Head(inbox) = inbox[1]
      /\ Len(Tail(inbox)) = Len(inbox) - 1
      /\ \A i \in 1 .. Len(Tail(inbox)) : Tail(inbox)[i] = inbox[i + 1]
  BY <1>1, HeadTailProperties
<1>3. Tail(inbox) = <<>> => Len(inbox) = 1
  <2>1. Tail(inbox) = <<>> => Len(Tail(inbox)) = 0  BY EmptySeq
  <2> QED  BY <1>1, <1>2, <2>1
<1>4. Tail(inbox) # <<>> => Len(Tail(inbox)) \in 1 .. Len(Tail(inbox))
  BY <1>1, <1>2, EmptySeq
<1> QED  BY <1>1, <1>2, <1>3, <1>4

\* The last announcement waiting is of the stored mission unless one was lost,
\* was overtaken, or is still to come.
LEMMA AnnouncedNext ==
  ASSUME IInv, [Next]_vars
  PROVE  AnnouncedInv'
<1> USE DEF apiVars, pollerVars, queueVars, historyVars, AnnouncedInv
<1> TypeOK /\ AnnouncedInv /\ Starting  BY DEF IInv
<1>1. ASSUME NEW r \in Requests, NEW m \in Missions, StoreMission(r, m)
      PROVE  AnnouncedInv'
  <2>1. request'[r].state = "stored"  BY <1>1 DEF StoreMission, TypeOK
  <2> QED  BY <2>1
<1>2. ASSUME NEW r \in Requests, Announce(r)
      PROVE  AnnouncedInv'
  <2>1. CASE subscribed
    <3>1. /\ inbox' = Append(inbox, request[r].area) /\ mission' = mission
          /\ missed' = (request[r].area # mission)
      BY <1>2, <2>1 DEF Announce
    <3>2. inbox \in Seq(Missions) /\ request[r].area \in Missions
      BY <1>2 DEF TypeOK
    <3>3. /\ Append(inbox, request[r].area) # <<>>
          /\ inbox'[Len(inbox')] = request[r].area
      BY <3>1, <3>2, AppendProperties
    <3> QED  BY <3>1, <3>3
  <2>2. CASE ~subscribed
    BY <1>2, <2>2 DEF Announce, Starting, TypeOK
  <2> QED  BY <2>1, <2>2
<1>3. ASSUME NEW r \in Requests, AnnounceFails(r)
      PROVE  AnnouncedInv'
  BY <1>3 DEF AnnounceFails
<1>4. ASSUME Subscribe \/ LoadActiveMission \/ SeedAtStart \/ Stop
      PROVE  AnnouncedInv'
  BY <1>4 DEF Subscribe, LoadActiveMission, SeedAtStart, Stop, TypeOK
<1>5. ASSUME Pivot \/ FlushFails
      PROVE  AnnouncedInv'
  <2>1. /\ inbox # <<>> /\ inbox' = Tail(inbox) /\ area' = Head(inbox)
        /\ UNCHANGED <<poller, missed, request, mission>>
    BY <1>5 DEF Pivot, FlushFails
  <2> QED  BY <2>1, HandleOne
<1>6. ASSUME SeedForArea \/ SeedFails \/ SubscriptionFails \/ Resubscribe
      PROVE  AnnouncedInv'
  BY <1>6 DEF SeedForArea, SeedFails, SubscriptionFails, Resubscribe, TypeOK
<1>7. ASSUME NEW s \in Sources, NEW n \in {"empty", "busy"},
             Peek(s) \/ Reschedule(s, n) \/ RescheduleFails(s)
      PROVE  AnnouncedInv'
  BY <1>7 DEF Peek, Reschedule, RescheduleFails
<1>8. CASE Tick \/ UNCHANGED vars
  BY <1>8 DEF Tick, vars
<1>9. Missions # {} BY AreasAssumption
<1> QED
  BY <1>1, <1>2, <1>3, <1>4, <1>5, <1>6, <1>7, <1>8, <1>9, ZenonT(60) DEF Next

\* What can be spent is finite, and bounded by what there is.
LEMMA SpentFinite ==
  /\ IsFiniteSet(Spent) /\ IsFiniteSet(Spent')
  /\ Cardinality(Spent) <= (Cardinality(Cells) - 1) * Cardinality(Sources)
  /\ (Cardinality(Cells) - 1) * Cardinality(Sources) \in Nat
<1> DEFINE Pairs == Sources \X (Cells \ {Watched})
<1>1. IsFiniteSet(Sources) /\ IsFiniteSet(Cells) /\ Watched \in Cells  BY AreasAssumption
<1>2. IsFiniteSet(Cells \ {Watched}) /\ Cardinality(Cells \ {Watched}) = Cardinality(Cells) - 1
  BY <1>1, FS_RemoveElement
<1>3. IsFiniteSet(Pairs) /\ Cardinality(Pairs) = Cardinality(Sources) * (Cardinality(Cells) - 1)
  BY <1>1, <1>2, FS_Product
<1>4. Spent \in SUBSET Pairs /\ Spent' \in SUBSET Pairs  BY DEF Spent
<1> HIDE DEF Pairs
<1>5. IsFiniteSet(Spent) /\ IsFiniteSet(Spent') /\ Cardinality(Spent) <= Cardinality(Pairs)
  BY <1>3, <1>4, FS_Subset
<1>6. Cardinality(Pairs) \in Nat /\ Cardinality(Sources) \in Nat /\ Cardinality(Cells) \in Nat
  BY <1>1, <1>3, FS_CardinalityType
<1>7. Cardinality(Sources) * (Cardinality(Cells) - 1) = (Cardinality(Cells) - 1) * Cardinality(Sources)
  BY <1>6
<1> QED  BY <1>3, <1>5, <1>6, <1>7

\* A step that leaves what was spent spent, and Watched due, leaves the count
\* covered.
LEMMA SpentGrows ==
  ASSUME TypeOK, SpentInv, passed' = passed,
         passed > 0 => Due(Watched)' /\ Spent \subseteq Spent'
  PROVE  SpentInv'
<1> SUFFICES ASSUME passed > 0
             PROVE  Due(Watched)' /\ passed <= Cardinality(Spent')
  BY DEF SpentInv
<1>1. Due(Watched)' /\ Spent \subseteq Spent' /\ passed <= Cardinality(Spent)
  BY DEF SpentInv
<1>2. IsFiniteSet(Spent') /\ IsFiniteSet(Spent)  BY SpentFinite
<1>3. Cardinality(Spent) <= Cardinality(Spent')
  BY <1>1, <1>2, FS_Subset
<1>4. Cardinality(Spent) \in Nat /\ Cardinality(Spent') \in Nat
  BY <1>2, FS_CardinalityType
<1>5. passed \in Nat  BY DEF TypeOK
<1> QED  BY <1>1, <1>3, <1>4, <1>5

\* A loop that takes another cell while Watched is due spends that cell, which
\* it had not spent before; any other step spends no less.
LEMMA SpentNext ==
  ASSUME IInv, [Next]_vars
  PROVE  SpentInv'
<1> USE DEF apiVars, pollerVars, queueVars, historyVars
<1>0. TypeOK /\ SpentInv  BY DEF IInv
<1>a. Watched \in Cells /\ Cells \subseteq Nat  BY AreasAssumption
<1>b. /\ queue \in [Cells -> Nat \cup {NotQueued}] /\ held \in [Sources -> Cells \cup {Idle}]
      /\ now \in Nat /\ passed \in Nat
  BY <1>0, BoundsAssumption DEF TypeOK
<1>1. CASE UNCHANGED <<queue, held, now, passed>>
  <2>1. Spent' = Spent /\ Due(Watched)' = Due(Watched)
    BY <1>1 DEF Spent, Behind, Due
  <2> QED  BY <1>0, <1>1, <2>1, SpentGrows DEF SpentInv
<1>2. ASSUME SeedAtStart \/ SeedForArea
      PROVE  SpentInv'
  <2>1. InitializeRegion(area) /\ UNCHANGED <<held, now, passed>>
    BY <1>2 DEF SeedAtStart, SeedForArea
  <2>2. \A c \in Cells : queue[c] # NotQueued => queue'[c] = queue[c]
    BY <2>1 DEF InitializeRegion
  <2>3. Due(Watched) => queue'[Watched] = queue[Watched] /\ Due(Watched)'
    BY <1>a, <2>1, <2>2 DEF Due
  <2>4. Due(Watched) => Spent \subseteq Spent'
    BY <1>a, <2>1, <2>2, <2>3 DEF Spent, Behind
  <2> QED  BY <1>0, <2>1, <2>3, <2>4, SpentGrows DEF SpentInv
<1>3. ASSUME NEW s \in Sources, Peek(s)
      PROVE  SpentInv'
  <2>1. PICK c \in Cells :
          /\ IsNext(c) /\ held' = [held EXCEPT ![s] = c]
          /\ passed' = IF c = Watched THEN 0 ELSE IF Due(Watched) THEN passed + 1 ELSE passed
    BY <1>3 DEF Peek
  <2>2. held[s] = Idle /\ UNCHANGED <<queue, now>>  BY <1>3 DEF Peek
  <2>3. Due(Watched)' = Due(Watched)  BY <2>2 DEF Due
  <2>4. CASE c = Watched \/ ~Due(Watched)
    <3>1. passed' = 0  BY <1>0, <1>b, <2>1, <2>4 DEF SpentInv
    <3> QED  BY <3>1 DEF SpentInv
  <2>5. CASE c # Watched /\ Due(Watched)
    <3>1. ~Behind(c)
      <4>1. Watched \in Queued \ {c}  BY <1>a, <2>5 DEF Due, Queued
      <4>2. queue[c] # NotQueued /\ queue[Watched] # NotQueued
            /\ (queue[c] < queue[Watched] \/ (queue[c] = queue[Watched] /\ c < Watched))
        BY <2>1, <4>1 DEF IsNext, Queued
      <4>3. queue[c] \in Nat /\ queue[Watched] \in Nat /\ c \in Nat /\ Watched \in Nat
        BY <1>a, <1>b, <4>2
      <4> QED  BY <4>2, <4>3 DEF Behind
    <3>2. <<s, c>> \notin Spent
      <4>1. c # Idle  BY <1>a DEF Idle
      <4> QED  BY <2>2, <3>1, <4>1 DEF Spent
    <3>3. Spent \cup {<<s, c>>} \subseteq Spent'
      <4>1. <<s, c>> \in Spent'
        <5>1. held'[s] = c  BY <1>b, <2>1
        <5> QED  BY <2>5, <5>1 DEF Spent
      <4>2. ASSUME NEW p \in Spent
            PROVE  p \in Spent'
        <5>1. p \in Sources \X (Cells \ {Watched}) /\ (held[p[1]] = p[2] \/ Behind(p[2]))
          BY DEF Spent
        <5>2. CASE Behind(p[2])
          BY <2>2, <5>1, <5>2 DEF Spent, Behind
        <5>3. CASE held[p[1]] = p[2]
          <6>1. p[1] # s  BY <1>a, <2>2, <5>1, <5>3 DEF Idle
          <6>2. held'[p[1]] = held[p[1]]  BY <1>b, <2>1, <5>1, <6>1
          <6> QED  BY <5>1, <5>3, <6>2 DEF Spent
        <5> QED  BY <5>1, <5>2, <5>3
      <4> QED  BY <4>1, <4>2
    <3>4. IsFiniteSet(Spent) /\ IsFiniteSet(Spent')  BY SpentFinite
    <3>5. Cardinality(Spent \cup {<<s, c>>}) = Cardinality(Spent) + 1
      BY <3>2, <3>4, FS_AddElement
    <3>6. Cardinality(Spent \cup {<<s, c>>}) <= Cardinality(Spent')
      BY <3>3, <3>4, FS_Subset
    <3>7. Cardinality(Spent) \in Nat /\ Cardinality(Spent') \in Nat
      BY <3>4, FS_CardinalityType
    <3>8. passed' = passed + 1  BY <2>1, <2>5
    <3>9. passed <= Cardinality(Spent)
      BY <1>0, <1>b, <3>7 DEF SpentInv
    <3>10. passed' <= Cardinality(Spent')
      BY <1>b, <3>5, <3>6, <3>7, <3>8, <3>9
    <3> QED  BY <2>3, <2>5, <3>10 DEF SpentInv
  <2> QED  BY <2>4, <2>5
<1>4. ASSUME NEW s \in Sources, NEW n \in {"empty", "busy"}, Reschedule(s, n)
      PROVE  SpentInv'
  <2>1. /\ held[s] # Idle /\ held' = [held EXCEPT ![s] = Idle] /\ now' = now
        /\ UpdatePriority(held[s], n)
        /\ passed' = IF held[s] = Watched THEN 0 ELSE passed
    BY <1>4 DEF Reschedule
  <2>2. held[s] \in Cells  BY <1>b, <2>1
  <2>3. CASE held[s] = Watched
    <3>1. passed' = 0  BY <2>1, <2>3
    <3> QED  BY <3>1 DEF SpentInv
  <2>4. CASE held[s] # Watched
    <3> DEFINE at == now + (IF n = "busy" THEN Active ELSE Empty)
    <3>1. at \in Nat /\ now < at  BY <1>b, BoundsAssumption
    <3>2. /\ queue'[held[s]] = at
          /\ \A c \in Cells : c # held[s] => queue'[c] = queue[c]
      BY <1>b, <2>1, <2>2 DEF UpdatePriority
    <3> HIDE DEF at
    <3>3. queue'[Watched] = queue[Watched] /\ Due(Watched)' = Due(Watched)
      BY <1>a, <2>1, <2>4, <3>2 DEF Due
    <3>4. ASSUME Due(Watched), NEW p \in Spent
          PROVE  p \in Spent'
      <4>1. p \in Sources \X (Cells \ {Watched}) /\ (held[p[1]] = p[2] \/ Behind(p[2]))
        BY DEF Spent
      <4>2. CASE p[2] = held[s]
        <5>1. queue[Watched] <= now /\ queue[Watched] \in Nat
          BY <1>a, <1>b, <3>4 DEF Due
        <5>2. queue[Watched] < at  BY <1>b, <3>1, <5>1
        <5>3. at # NotQueued  BY <3>1 DEF NotQueued
        <5>4. Behind(p[2])'  BY <3>2, <3>3, <4>2, <5>2, <5>3 DEF Behind
        <5> QED  BY <4>1, <5>4 DEF Spent
      <4>3. CASE p[2] # held[s]
        <5>1. queue'[p[2]] = queue[p[2]]  BY <3>2, <4>1, <4>3
        <5>2. Behind(p[2]) => Behind(p[2])'  BY <3>3, <5>1 DEF Behind
        <5>3. held[p[1]] = p[2] => held'[p[1]] = p[2]  BY <1>b, <2>1, <4>1, <4>3
        <5> QED  BY <4>1, <5>2, <5>3 DEF Spent
      <4> QED  BY <4>2, <4>3
    <3> QED  BY <1>0, <2>1, <2>4, <3>3, <3>4, SpentGrows DEF SpentInv
  <2> QED  BY <2>3, <2>4
<1>5. ASSUME NEW s \in Sources, RescheduleFails(s)
      PROVE  SpentInv'
  <2>1. passed' = 0  BY <1>5 DEF RescheduleFails
  <2> QED  BY <2>1 DEF SpentInv
<1>6. ASSUME Pivot \/ Stop
      PROVE  SpentInv'
  <2>1. passed' = 0  BY <1>6 DEF Pivot, Stop
  <2> QED  BY <2>1 DEF SpentInv
<1>7. ASSUME Tick
      PROVE  SpentInv'
  <2>1. now' = now + 1 /\ UNCHANGED <<queue, held, passed>>  BY <1>7 DEF Tick
  <2>2. Spent' = Spent  BY <2>1 DEF Spent, Behind
  <2>3. Due(Watched) => Due(Watched)'
    <3>1. queue[Watched] \in Nat \cup {NotQueued}  BY <1>a, <1>b
    <3> QED  BY <1>b, <2>1, <3>1 DEF Due, NotQueued
  <2> QED  BY <1>0, <2>1, <2>2, <2>3, SpentGrows DEF SpentInv
<1>8. ASSUME NEW r \in Requests, NEW m \in Missions,
             StoreMission(r, m) \/ Announce(r) \/ AnnounceFails(r)
      PROVE  SpentInv'
  BY <1>1, <1>8 DEF StoreMission, Announce, AnnounceFails
<1>9. CASE Subscribe \/ LoadActiveMission \/ FlushFails \/ SeedFails \/ SubscriptionFails
           \/ Resubscribe \/ UNCHANGED vars
  BY <1>1, <1>9 DEF Subscribe, LoadActiveMission, FlushFails, SeedFails, SubscriptionFails,
     Resubscribe, vars
<1>10. Missions # {}  BY AreasAssumption
<1> QED
  BY <1>2, <1>3, <1>4, <1>5, <1>6, <1>7, <1>8, <1>9, <1>10, ZenonT(60) DEF Next

\* The invariant is preserved by every step.
LEMMA IInvNext ==
  ASSUME IInv, [Next]_vars
  PROVE  IInv'
<1>1. TypeOK'  BY TypeNext DEF IInv
<1> QED
  BY <1>1, LoopsIdleNext, StartingNext, CountsNext, RegionNext, StraysNext,
     AnnouncedNext, SpentNext DEF IInv

\* The invariant always holds.
THEOREM Invariance == Spec => []IInv
<1>1. Init => IInv  BY IInvInit
<1>2. IInv /\ [Next]_vars => IInv'  BY IInvNext
<1> QED  BY <1>1, <1>2, PTL DEF Spec

\* A queue that was seeded covers the area of the poller.
THEOREM CoverageCorrect == Spec => []RegionCovered
<1>1. IInv => RegionCovered  BY DEF IInv
<1> QED  BY <1>1, Invariance, PTL

\* The cells of other areas are those that loops held when the queue was
\* flushed, or that were queued when it was not.
THEOREM StraysCorrect == Spec => []StraysWereHeld
<1>1. IInv => StraysWereHeld
  BY DEF IInv, StraysInv, StraysWereHeld, Settled, Queued
<1> QED  BY <1>1, Invariance, PTL

\* With nothing waiting, lost or overtaken, the poller covers the mission.
THEOREM AreaCorrect == Spec => []AreaFollowsMission
<1>1. IInv => AreaFollowsMission
  BY DEF IInv, AnnouncedInv, AreaFollowsMission, Settled
<1> QED  BY <1>1, Invariance, PTL

\* The counts shown are of cells in the queue.
THEOREM CountsCorrect == Spec => []CountsAreQueued
<1>1. IInv => CountsAreQueued  BY DEF IInv
<1> QED  BY <1>1, Invariance, PTL

\* While Watched is due each other cell is polled at most once by each source
\* before it, and the counts are of queued cells.
THEOREM ServiceCorrect == Spec => []CellsAreServed
<1>1. IInv => CellsAreServed
  <2> SUFFICES ASSUME IInv
               PROVE  DueCellIsServed
    BY DEF IInv, CellsAreServed
  <2>1. passed \in Nat /\ SpentInv  BY DEF IInv, TypeOK
  <2>2. /\ Cardinality(Spent) <= (Cardinality(Cells) - 1) * Cardinality(Sources)
        /\ (Cardinality(Cells) - 1) * Cardinality(Sources) \in Nat
        /\ Cardinality(Spent) \in Nat
    BY SpentFinite, FS_CardinalityType
  <2>3. passed = 0 \/ passed <= Cardinality(Spent)  BY <2>1 DEF SpentInv
  <2> QED  BY <2>1, <2>2, <2>3 DEF DueCellIsServed
<1> QED  BY <1>1, Invariance, PTL
=============================================================================
