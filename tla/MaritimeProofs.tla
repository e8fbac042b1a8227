---------------------------- MODULE MaritimeProofs ----------------------------
(* Theorems about Maritime, for all numbers of sources, thresholds, centers  *)
(* and lengths of the inbox.                                                 *)
EXTENDS Maritime, FiniteSetTheorems, WellFoundedInduction, SequenceTheorems, TLAPS

-----------------------------------------------------------------------------
(* Choosing a source.                                                      *)

\* A set of numbers that is not empty has a smallest element: of the
\* intervals 0..k one is in none of the others.
LEMMA SmallestExists ==
  ASSUME NEW S \in SUBSET Nat, S # {}
  PROVE  \E m \in S : \A k \in S : m <= k
<1> DEFINE T == {0..k : k \in S}
<1>1. T \subseteq FiniteSubsetsOf(Nat)
  <2>1. ASSUME NEW k \in S
        PROVE  0..k \subseteq Nat /\ IsFiniteSet(0..k)
    BY FS_Interval
  <2> QED  BY <2>1 DEF FiniteSubsetsOf
<1>2. PICK x \in T : \A y \in T : <<y, x>> \notin StrictSubsetOrdering(Nat)
  <2>1. IsWellFoundedOn(StrictSubsetOrdering(Nat), FiniteSubsetsOf(Nat))
    BY FS_StrictSubsetOrderingWellFounded
  <2>2. T # {}  OBVIOUS
  <2> HIDE DEF T
  <2> QED  BY <1>1, <2>1, <2>2, WFMin
<1>3. PICK m \in S : x = 0..m  OBVIOUS
<1>4. ASSUME NEW k \in S, k < m
      PROVE  FALSE
  <2>1. 0..k \subseteq 0..m /\ 0..k # 0..m
    <3>1. m \in 0..m /\ m \notin 0..k  BY <1>4
    <3> QED  BY <1>4, <3>1
  <2>2. <<0..k, 0..m>> \in StrictSubsetOrdering(Nat)
    BY <2>1 DEF StrictSubsetOrdering
  <2> QED  BY <1>2, <1>3, <2>2
<1> QED  BY <1>4

\* _select_next_source lands on one of the sources.
LEMMA NextSource ==
  ASSUME active \in Sources, SelectNextSource
  PROVE  /\ active' \in Sources
         /\ since' \in {since, "fresh", "none"}
         /\ attempts' \in {attempts, 0}
         /\ active' # 0 => \/ since' = "fresh"
                           \/ active' = active /\ since' = since
<1>1. CASE Healthy = {}
  BY <1>1 DEF SelectNextSource
<1>2. CASE Healthy # {}
  <2> DEFINE first == CHOOSE k \in Healthy : \A j \in Healthy : k <= j
  <2>1. Healthy \in SUBSET Nat  BY NAssumption DEF Healthy
  <2>2. first \in Nat
    <3>1. \E k \in Healthy : \A j \in Healthy : k <= j
      BY <1>2, <2>1, SmallestExists
    <3> QED  BY <2>1, <3>1
  <2>3. /\ active' = (active + first) % N
        /\ since' = IF active' # 0 THEN "fresh" ELSE "none"
        /\ attempts' = 0
    BY <1>2 DEF SelectNextSource
  <2> HIDE DEF first
  <2>4. (active + first) % N \in 0..N - 1
    BY <2>2, NAssumption DEF Sources
  <2> QED  BY <2>3, <2>4 DEF Sources
<1> QED  BY <1>1, <1>2

-----------------------------------------------------------------------------
(* Types.                                                                  *)

\* The initial state has the types.
LEMMA TypeInit == Init => TypeOK
<1> SUFFICES ASSUME Init
             PROVE  TypeOK
  OBVIOUS
<1>1. /\ active \in Sources /\ saved \in Sources
      /\ attempts \in 0..SwitchAfter
      /\ inbox \in Seq(Centers) /\ Len(inbox) <= MaxInbox
  BY NAssumption, SwitchAssumption, InboxAssumption DEF Init, Sources
<1>2. missed \in BOOLEAN  BY Zenon DEF Init
<1> QED  BY <1>1, <1>2 DEF Init, TypeOK

\* Every step of stream_loop keeps the types.
LEMMA TypeLoop ==
  ASSUME TypeOK, StreamLoop
  PROVE  TypeOK'
<1> USE DEF nav
<1>1. CASE LoopEnds \/ NoProbe \/ RateLimited \/ BacksOff \/ RateWaitOver
  <2>1. CASE LoopEnds      BY <2>1 DEF TypeOK, LoopEnds
  <2>2. CASE NoProbe       BY <2>2 DEF TypeOK, NoProbe
  <2>3. CASE RateLimited   BY <2>3 DEF TypeOK, RateLimited
  <2>4. CASE BacksOff      BY <2>4 DEF TypeOK, BacksOff
  <2>5. CASE RateWaitOver  BY <2>5 DEF TypeOK, RateWaitOver
  <2> QED  BY <1>1, <2>1, <2>2, <2>3, <2>4, <2>5
<1>2. CASE ProbeStarts
  BY <1>2, NAssumption DEF TypeOK, ProbeStarts, Sources
<1>3. CASE ProbeSucceeds
  BY <1>3, NAssumption DEF TypeOK, ProbeSucceeds, Sources, Socket
<1>4. CASE ProbeFails
  BY <1>4 DEF TypeOK, ProbeFails
<1>5. CASE ConnectsAtOnce
  BY <1>5 DEF TypeOK, ConnectsAtOnce, BeginConnect
<1>6. CASE BackoffOver
  <2>1. /\ active' \in Sources
        /\ since' \in {since, "fresh", "none"}
        /\ attempts' \in {attempts, 0}
    BY <1>6, NextSource DEF TypeOK, BackoffOver
  <2> QED  BY <1>6, <2>1, SwitchAssumption DEF TypeOK, BackoffOver, BeginConnect
<1>7. CASE ConnectSucceeds
  BY <1>7 DEF TypeOK, ConnectSucceeds, Socket
<1>8. CASE ConnectFails
  BY <1>8, SwitchAssumption DEF TypeOK, ConnectFails, CountUp
<1>9. CASE ReconnectSignalled
  BY <1>9 DEF TypeOK, ReconnectSignalled, LeaveStream
<1> QED
  BY <1>1, <1>2, <1>3, <1>4, <1>5, <1>6, <1>7, <1>8, <1>9 DEF StreamLoop

\* Every step keeps the types.
LEMMA TypeNext ==
  ASSUME TypeOK, [Next]_vars
  PROVE  TypeOK'
<1> USE DEF nav, loop
<1>1. CASE StreamLoop  BY <1>1, TypeLoop
<1>2. CASE StableFrame \/ ServerCloses \/ StreamSilent
  BY <1>2, SwitchAssumption
     DEF TypeOK, StableFrame, ServerCloses, StreamSilent, LeaveStream, CountUp
<1>3. ASSUME NEW c \in Centers, Publish(c)
      PROVE  TypeOK'
  <2>1. CASE subscribed
    <3>1. /\ inbox' \in Seq(Centers)
          /\ Len(inbox') <= MaxInbox
      BY <1>3, <2>1, AppendProperties, InboxAssumption DEF TypeOK, Publish
    <3> QED  BY <1>3, <2>1, <3>1 DEF TypeOK, Publish
  <2>2. CASE ~subscribed
    BY <1>3, <2>2 DEF TypeOK, Publish
  <2> QED  BY <2>1, <2>2
<1>4. CASE HandleMission
  <2>1. /\ Head(inbox) \in Centers
        /\ inbox' \in Seq(Centers)
        /\ Len(inbox') <= MaxInbox
    BY <1>4, HeadTailProperties, InboxAssumption DEF TypeOK, HandleMission
  <2> QED  BY <1>4, <2>1 DEF TypeOK, HandleMission
<1>5. CASE DebounceElapses \/ Resubscribe
  BY <1>5, ZenonT(30) DEF TypeOK, DebounceElapses, Resubscribe
<1>6. CASE SubscriptionFails
  <2>1. inbox' \in Seq(Centers) /\ Len(inbox') <= MaxInbox
    BY <1>6, InboxAssumption DEF SubscriptionFails
  <2> QED  BY <1>6, <2>1, ZenonT(30) DEF TypeOK, SubscriptionFails
<1>7. ASSUME NEW s \in Sources, Outage(s) \/ CooldownExpires(s)
      PROVE  TypeOK'
  <2>1. cooling' \in [Sources -> BOOLEAN] /\ down' \subseteq Sources
    BY <1>7 DEF TypeOK, Outage, CooldownExpires
  <2>2. CASE Outage(s)
    BY <2>1, <2>2, ZenonT(30) DEF TypeOK, Outage
  <2>3. CASE CooldownExpires(s)
    BY <2>1, <2>3, ZenonT(30) DEF TypeOK, CooldownExpires
  <2> QED  BY <1>7, <2>2, <2>3
<1>8. CASE IntervalPasses \/ ProbeDue
  BY <1>8, ZenonT(30) DEF TypeOK, IntervalPasses, ProbeDue
<1>9. CASE Shutdown
  BY <1>9 DEF TypeOK, Shutdown
<1>10. CASE UNCHANGED vars
  BY <1>10 DEF TypeOK, vars
<1> QED
  BY <1>1, <1>2, <1>3, <1>4, <1>5, <1>6, <1>7, <1>8, <1>9, <1>10 DEF Next

\* Every variable of the poller keeps its type (service.py:232-300, 681-844).
THEOREM TypeCorrect == Spec => []TypeOK
<1> QED  BY TypeInit, TypeNext, PTL DEF Spec

-----------------------------------------------------------------------------
(* The inductive invariant.                                                *)

(* Between two attempts, and after the last, no socket is left.            *)
SocketIsClosed == pc \in {"top", "done"} => ws = NoSocket

(* A move of the center that the connection being opened does not have is  *)
(* waited for, or asked for.                                               *)
MoveIsPending == pc = "connecting" => wsCenter = center \/ debounce \/ event

(* The last mission that waits is the requested one, and only a            *)
(* subscription makes missions wait.                                       *)
NewestIsLast ==
  /\ inbox # <<>> => inbox[Len(inbox)] = requested
  /\ ~subscribed => inbox = <<>>

IInv ==
  /\ TypeOK
  /\ SocketMatchesSource /\ SocketIsClosed
  /\ FallbackIsProbeable
  /\ StreamFollowsMission /\ MoveIsPending
  /\ CenterFollowsMission /\ NewestIsLast

\* The initial state satisfies the invariant.
LEMMA InitIInv == Init => IInv
<1> SUFFICES ASSUME Init
             PROVE  IInv
  OBVIOUS
<1>1. TypeOK  BY TypeInit
<1>2. SocketMatchesSource /\ SocketIsClosed /\ FallbackIsProbeable
      /\ StreamFollowsMission /\ MoveIsPending
  BY DEF Init, SocketMatchesSource, SocketIsClosed, FallbackIsProbeable,
         StreamFollowsMission, MoveIsPending
<1>3. NewestIsLast  BY DEF Init, NewestIsLast
<1>4. CenterFollowsMission
  <2> SUFFICES ASSUME ~missed
               PROVE  ~Moved(center, requested)
    BY DEF CenterFollowsMission
  <2>1. center = requested  BY DEF Init
  <2>2. center \in Int  BY CentersAssumption DEF Init
  <2> QED  BY <2>1, <2>2, CentersAssumption DEF Moved, Distance
<1> QED  BY <1>1, <1>2, <1>3, <1>4 DEF IInv

\* The socket is the active source's while it is read, and closed between
\* two attempts.
LEMMA SocketNext ==
  ASSUME TypeOK, SocketMatchesSource, SocketIsClosed, [Next]_vars
  PROVE  SocketMatchesSource' /\ SocketIsClosed'
<1> USE DEF SocketMatchesSource, SocketIsClosed
<1>1. CASE LoopEnds  BY <1>1 DEF LoopEnds
<1>2. CASE ProbeStarts \/ NoProbe \/ ProbeSucceeds \/ ProbeFails \/ RateLimited
  BY <1>2 DEF ProbeStarts, NoProbe, ProbeSucceeds, ProbeFails, RateLimited
<1>3. CASE RateWaitOver  BY <1>3 DEF RateWaitOver
<1>4. CASE BacksOff \/ ConnectsAtOnce \/ BackoffOver
  BY <1>4 DEF BacksOff, ConnectsAtOnce, BackoffOver, BeginConnect
<1>5. CASE ConnectSucceeds  BY <1>5 DEF ConnectSucceeds
<1>6. CASE ConnectFails  BY <1>6 DEF ConnectFails
<1>7. CASE ReconnectSignalled \/ ServerCloses \/ StreamSilent
  BY <1>7 DEF ReconnectSignalled, ServerCloses, StreamSilent, LeaveStream
<1>8. CASE StableFrame  BY <1>8 DEF StableFrame
<1>9. ASSUME \/ \E c \in Centers : Publish(c)
             \/ HandleMission \/ DebounceElapses \/ SubscriptionFails \/ Resubscribe
      PROVE  SocketMatchesSource' /\ SocketIsClosed'
  <2>1. UNCHANGED <<pc, running, ws, active>>
    BY <1>9 DEF loop, Publish, HandleMission, DebounceElapses,
                SubscriptionFails, Resubscribe
  <2> QED  BY <2>1
<1>10. CASE \E s \in Sources : Outage(s) \/ CooldownExpires(s)
  BY <1>10 DEF Outage, CooldownExpires
<1>11. CASE IntervalPasses \/ ProbeDue  BY <1>11 DEF IntervalPasses, ProbeDue
<1>12. CASE Shutdown  BY <1>12 DEF Shutdown
<1>13. CASE UNCHANGED vars  BY <1>13 DEF vars
<1> QED
  BY <1>1, <1>2, <1>3, <1>4, <1>5, <1>6, <1>7, <1>8, <1>9, <1>10, <1>11, <1>12,
     <1>13 DEF Next, StreamLoop

\* A fallback that is active has the time of the switch on record.
LEMMA FallbackNext ==
  ASSUME TypeOK, FallbackIsProbeable, [Next]_vars
  PROVE  FallbackIsProbeable'
<1> USE DEF FallbackIsProbeable
<1>1. CASE BackoffOver
  <2>1. CASE SelectNextSource
    BY <2>1, NextSource DEF TypeOK
  <2>2. CASE UNCHANGED <<active, since>>  BY <2>2
  <2> QED  BY <1>1, <2>1, <2>2 DEF BackoffOver
<1>2. CASE ProbeStarts  BY <1>2 DEF ProbeStarts
<1>3. CASE ProbeFails  BY <1>3 DEF ProbeFails
<1>4. CASE ProbeDue  BY <1>4 DEF ProbeDue
<1>5. CASE UNCHANGED <<active, since>>  BY <1>5
<1>6. ASSUME StreamLoop
      PROVE  BackoffOver \/ ProbeStarts \/ ProbeFails \/ UNCHANGED <<active, since>>
  BY <1>6 DEF StreamLoop, LoopEnds, NoProbe, ProbeSucceeds, RateLimited,
              RateWaitOver, BacksOff, ConnectsAtOnce, ConnectSucceeds,
              ConnectFails, ReconnectSignalled, LeaveStream
<1>7. ASSUME Next
      PROVE  StreamLoop \/ ProbeDue \/ UNCHANGED <<active, since>>
  BY <1>7 DEF Next, StableFrame, ServerCloses, StreamSilent, LeaveStream, loop,
              Publish, HandleMission, DebounceElapses, SubscriptionFails,
              Resubscribe, Outage, CooldownExpires, IntervalPasses, Shutdown
<1> QED  BY <1>1, <1>2, <1>3, <1>4, <1>5, <1>6, <1>7 DEF vars

\* A stream is subscribed around the center, or a reconnect is under way.
LEMMA StreamNext ==
  ASSUME TypeOK, StreamFollowsMission, MoveIsPending, [Next]_vars
  PROVE  StreamFollowsMission' /\ MoveIsPending'
<1> USE DEF StreamFollowsMission, MoveIsPending, nav
<1>1. CASE ConnectsAtOnce \/ BackoffOver
  BY <1>1 DEF ConnectsAtOnce, BackoffOver, BeginConnect
<1>2. CASE ConnectSucceeds
  BY <1>2 DEF ConnectSucceeds, TypeOK
<1>3. CASE LoopEnds \/ ProbeStarts \/ NoProbe \/ ProbeSucceeds \/ ProbeFails
  BY <1>3 DEF LoopEnds, ProbeStarts, NoProbe, ProbeSucceeds, ProbeFails
<1>4. CASE RateLimited \/ RateWaitOver \/ BacksOff \/ ConnectFails
  BY <1>4 DEF RateLimited, RateWaitOver, BacksOff, ConnectFails
<1>5. CASE ReconnectSignalled \/ ServerCloses \/ StreamSilent
  BY <1>5 DEF ReconnectSignalled, ServerCloses, StreamSilent, LeaveStream
<1>6. CASE StableFrame  BY <1>6 DEF StableFrame
<1>7. CASE HandleMission
  <2>1. UNCHANGED <<pc, running, ws, wsCenter, event, wiped>>
    BY <1>7 DEF HandleMission, loop
  <2>2. debounce' \/ UNCHANGED <<center, debounce>>
    BY <1>7 DEF HandleMission
  <2> QED  BY <2>1, <2>2
<1>8. CASE DebounceElapses
  <2>1. UNCHANGED <<pc, running, ws, wsCenter, center, wiped>> /\ event'
    BY <1>8 DEF DebounceElapses, loop
  <2> QED  BY <2>1
<1>9. ASSUME \/ \E c \in Centers : Publish(c)
             \/ SubscriptionFails \/ Resubscribe
      PROVE  StreamFollowsMission' /\ MoveIsPending'
  <2>1. UNCHANGED <<pc, running, ws, wsCenter, center, debounce, event, wiped>>
    BY <1>9 DEF Publish, SubscriptionFails, Resubscribe, loop
  <2> QED  BY <2>1
<1>10. CASE \E s \in Sources : Outage(s) \/ CooldownExpires(s)
  BY <1>10 DEF Outage, CooldownExpires
<1>11. CASE IntervalPasses \/ ProbeDue  BY <1>11 DEF IntervalPasses, ProbeDue
<1>12. CASE Shutdown  BY <1>12 DEF Shutdown
<1>13. CASE UNCHANGED vars  BY <1>13 DEF vars
<1> QED
  BY <1>1, <1>2, <1>3, <1>4, <1>5, <1>6, <1>7, <1>8, <1>9, <1>10, <1>11, <1>12,
     <1>13 DEF Next, StreamLoop

\* With nothing waiting and nothing lost the center is the requested one.
LEMMA CenterNext ==
  ASSUME TypeOK, CenterFollowsMission, NewestIsLast, [Next]_vars
  PROVE  CenterFollowsMission' /\ NewestIsLast'
<1> USE DEF CenterFollowsMission, NewestIsLast
<1>1. ASSUME NEW c \in Centers, Publish(c)
      PROVE  CenterFollowsMission' /\ NewestIsLast'
  <2>1. CASE subscribed
    <3>1. inbox' = Append(inbox, c) /\ requested' = c /\ subscribed'
      BY <1>1, <2>1 DEF Publish
    <3>2. inbox' # <<>> /\ inbox'[Len(inbox')] = c
      BY <3>1, AppendProperties DEF TypeOK
    <3> QED  BY <3>1, <3>2
  <2>2. CASE ~subscribed
    <3>1. missed' /\ inbox' = inbox /\ inbox = <<>>
      BY <1>1, <2>2 DEF Publish
    <3> QED  BY <3>1
  <2> QED  BY <2>1, <2>2
<1>2. CASE HandleMission
  <2>1. /\ inbox # <<>> /\ inbox' = Tail(inbox)
        /\ UNCHANGED <<subscribed, requested>>
    BY <1>2 DEF HandleMission
  <2>2. NewestIsLast'
    <3>1. ASSUME inbox' # <<>>
          PROVE  inbox'[Len(inbox')] = inbox[Len(inbox)]
      BY <2>1, <3>1, HeadTailProperties DEF TypeOK
    <3> QED  BY <2>1, <3>1
  <2>3. CASE inbox' # <<>>  BY <2>2, <2>3
  <2>4. CASE inbox' = <<>>
    <3>1. Head(inbox) = requested
      <4>1. Len(Tail(inbox)) = 0  BY <2>1, <2>4
      <4>2. Len(inbox) = 1
        BY <2>1, <4>1, HeadTailProperties, LenProperties DEF TypeOK
      <4> QED  BY <2>1, <4>2
    <3>2. requested \in Int /\ center \in Int
      BY CentersAssumption DEF TypeOK
    <3>3. CASE Moved(Head(inbox), center)
      <4>1. center' = requested  BY <1>2, <3>1, <3>3 DEF HandleMission
      <4> QED  BY <2>1, <2>2, <3>2, <4>1, CentersAssumption DEF Moved, Distance
    <3>4. CASE ~Moved(Head(inbox), center)
      <4>1. center' = center  BY <1>2, <3>4 DEF HandleMission
      <4>2. ~Moved(center, requested)
        BY <3>1, <3>2, <3>4, CentersAssumption DEF Moved, Distance
      <4> QED  BY <2>1, <2>2, <4>1, <4>2 DEF Moved, Distance
    <3> QED  BY <3>3, <3>4
  <2> QED  BY <2>3, <2>4
<1>3. CASE SubscriptionFails
  <2>1. ~missed' => ~missed /\ inbox = <<>>
    BY <1>3 DEF SubscriptionFails
  <2>2. inbox' = <<>> /\ UNCHANGED <<center, requested>>
    BY <1>3 DEF SubscriptionFails
  <2> QED  BY <2>1, <2>2 DEF Moved, Distance
<1>4. CASE Resubscribe
  <2>1. UNCHANGED <<center, inbox, requested, missed>> /\ subscribed'
    BY <1>4 DEF Resubscribe
  <2> QED  BY <2>1 DEF Moved, Distance
<1>5. CASE UNCHANGED <<center, subscribed, inbox, requested, missed>>
  BY <1>5 DEF Moved, Distance
<1>6. ASSUME StreamLoop
      PROVE  UNCHANGED <<center, subscribed, inbox, requested, missed>>
  BY <1>6 DEF StreamLoop, nav, LoopEnds, ProbeStarts, NoProbe, ProbeSucceeds,
              ProbeFails, RateLimited, RateWaitOver, BacksOff, ConnectsAtOnce,
              BackoffOver, ConnectSucceeds, ConnectFails, ReconnectSignalled,
              LeaveStream
<1>7. ASSUME \/ StableFrame \/ ServerCloses \/ StreamSilent \/ DebounceElapses
             \/ \E s \in Sources : Outage(s) \/ CooldownExpires(s)
             \/ IntervalPasses \/ ProbeDue \/ Shutdown
             \/ UNCHANGED vars
      PROVE  UNCHANGED <<center, subscribed, inbox, requested, missed>>
  BY <1>7 DEF nav, vars, StableFrame, ServerCloses, StreamSilent, LeaveStream,
              DebounceElapses, Outage, CooldownExpires, IntervalPasses,
              ProbeDue, Shutdown
<1> QED  BY <1>1, <1>2, <1>3, <1>4, <1>5, <1>6, <1>7 DEF Next

\* The invariant of the poller: sockets, fallback, stream and center.
THEOREM Invariance == Spec => []IInv
<1>1. IInv /\ [Next]_vars => IInv'
  BY TypeNext, SocketNext, FallbackNext, StreamNext, CenterNext DEF IInv
<1> QED  BY InitIInv, <1>1, PTL DEF Spec

\* The socket that is read is the active source's, and none is left behind by
\* a shutdown, whatever the order of probes, switches, failures and timers
\* (service.py:286-300, 681-844).
THEOREM SocketsCorrect == Spec => []SocketsAreOwned
<1>1. IInv => SocketsAreOwned
  BY DEF IInv, SocketsAreOwned, SocketIsClosed, NoSocketLeft
<1> QED  BY <1>1, Invariance, PTL

\* A fallback can always be left for the primary again (service.py:105-140).
THEOREM FallbackCorrect == Spec => []FallbackIsProbeable
<1>1. IInv => FallbackIsProbeable  BY DEF IInv
<1> QED  BY <1>1, Invariance, PTL

\* The center follows the mission up to the minimum move, and the stream the
\* center, for all missions, thresholds and losses (service.py:316-364, 745).
THEOREM MissionCorrect == Spec => []MissionIsFollowed
<1>1. IInv => MissionIsFollowed  BY DEF IInv, MissionIsFollowed
<1> QED  BY <1>1, Invariance, PTL
=============================================================================
