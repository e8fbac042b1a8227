----------------------------- MODULE TrackStore -----------------------------
(***************************************************************************)
(* The tracks a browser holds (frontend/src/hooks/useEntityWorker.ts,      *)
(* hooks/useAnimationLoop.ts, engine/EntityFilterEngine.ts, alerts/, the   *)
(* maintenance effect of App.tsx and the clearing effect of                *)
(* hooks/useMissionArea.ts).                                               *)
(*                                                                         *)
(* One map from uid to track is written by the handler of decoded reports  *)
(* and thinned out by five parties: the spatial gate of that handler, the  *)
(* frame loop, a maintenance timer, a change of mission, and a reload,     *)
(* which keeps a snapshot of the ships.  Each of them forgets a different  *)
(* part of what is known of a track besides the map.                       *)
(*                                                                         *)
(* An action is one callback of the page's event loop.  Source times are   *)
(* small numbers, 0 for a report without one.  The time since a track was  *)
(* last heard is an age: within its stale threshold, beyond it, beyond the *)
(* 15 minutes of a stream outage.  A report may arrive late, twice, or in  *)
(* any order.  Positions are abstracted to places that a mission area      *)
(* covers or not; dead reckoning, trails and wording are left out.         *)
(***************************************************************************)
EXTENDS Naturals

CONSTANTS
  Air, Sea, Sats,   \* uids of aircraft, ships, satellites
  Places,           \* where a report can be from
  Missions,         \* mission areas
  NoMission,        \* none loaded yet
  Covers,           \* per mission: the places within its radius, plus 5 %
  Keys,             \* what an alert can be about: a squawk, a status of distress
  Calm,             \* no distress, or nothing said of it
  MaxTime           \* bound on source times

ASSUME KindsAssumption == Air \cap Sea = {} /\ (Air \cup Sea) \cap Sats = {}
ASSUME CoversAssumption == Covers \in [Missions -> SUBSET Places]
ASSUME NoMissionAssumption == NoMission \notin Missions
ASSUME KeysAssumption == Calm \notin Keys
ASSUME TimeAssumption == MaxTime \in Nat

Tracks == Air \cup Sea
Times == 0..MaxTime

VARIABLES
  ent,        \* entitiesRef: per uid a track, or NoTrack
  sat,        \* satellitesRef: lastSourceTime + 1 of a satellite held, else 0
  known,      \* knownUidsRef
  alerted,    \* alertedEmergencyRef: the alert a uid is under, or Calm
  mission,    \* currentMissionRef
  chosen,     \* currentMission, the state
  effectDue,  \* the effect of a change of the state has not run yet
  onStream,   \* streamConnectedRef
  drawing,    \* frames run: a map is mounted, the tab visible, no replay
  watched,    \* watchedIcaosRef
  snap,       \* localStorage: the ships last saved, within the TTL, or NoTrack
  pendingSnap,\* seaSnapshotScheduled
  open,       \* history: the feed said "new" of a uid and not "lost" since
  exempt      \* history: aircraft that have been on the watchlist

vars == <<ent, sat, known, alerted, mission, chosen, effectDue, onStream, drawing,
          watched, snap, pendingSnap, open, exempt>>

(* src: lastSourceTime.  place: the position.  said: what the last report  *)
(* said about distress.  listed: _source is the watchlist.  revived: from  *)
(* the snapshot, not heard since.                                          *)
Track == [src : Times, place : Places, said : Keys \cup {Calm},
          listed : BOOLEAN, revived : BOOLEAN, age : 0..2]
NoTrack == [src |-> 0]

Report == [uid : Tracks, time : Times, place : Places,
           said : Keys \cup {Calm}, listed : BOOLEAN]

TypeOK ==
  /\ ent \in [Tracks -> Track \cup {NoTrack}]
  /\ sat \in [Sats -> 0..MaxTime + 1]
  /\ known \subseteq Tracks \cup Sats
  /\ alerted \in [Tracks -> Keys \cup {Calm}]
  /\ mission \in Missions \cup {NoMission} /\ chosen \in Missions \cup {NoMission}
  /\ effectDue \in BOOLEAN
  /\ onStream \in BOOLEAN /\ drawing \in BOOLEAN
  /\ watched \subseteq Air
  /\ snap \in [Sea -> Track \cup {NoTrack}]
  /\ pendingSnap \in BOOLEAN
  /\ open \subseteq Tracks /\ exempt \subseteq Air

Held(u) == ent[u] # NoTrack
Gone(us) == [u \in Tracks |-> IF u \in us THEN NoTrack ELSE ent[u]]

Init ==
  /\ ent = [u \in Tracks |-> NoTrack] /\ sat = [u \in Sats |-> 0]
  /\ known = {} /\ alerted = [u \in Tracks |-> Calm]
  /\ mission = NoMission /\ chosen = NoMission /\ effectDue = FALSE
  /\ onStream = TRUE /\ drawing = TRUE
  /\ watched = {} /\ snap = [u \in Sea |-> NoTrack] /\ pendingSnap = FALSE
  /\ open = {} /\ exempt = {}

env == <<mission, chosen, effectDue, onStream, drawing, watched, exempt>>

-----------------------------------------------------------------------------
(* A decoded report: processEntityUpdate().                                *)

(* Not newer than what is held; a report without a time always passes.     *)
(* Slip: late reports are not told from new ones.                          *)
StaleSlip(held, time) == FALSE
Stale(held, time) == held > 0 /\ time > 0 /\ held >= time

SatReport(u, time) ==
  /\ sat[u] > 0 => ~Stale(sat[u] - 1, time)
  /\ sat' = [sat EXCEPT ![u] = IF time > 0 THEN time + 1
                               ELSE IF @ > 0 THEN @ ELSE 1]
  /\ known' = known \cup {u}
  /\ UNCHANGED <<ent, alerted, env, snap, pendingSnap, open>>

OutOfRange(r) ==
  /\ mission # NoMission /\ r.place \notin Covers[mission]
  /\ ~r.listed /\ r.uid \notin watched
  /\ ~(Held(r.uid) /\ ent[r.uid].listed)

(* The gate comes before the comparison of times, and says "lost".         *)
Evict(r) ==
  /\ OutOfRange(r) /\ Held(r.uid)
  /\ ent' = Gone({r.uid})
  /\ known' = known \ {r.uid}
  /\ alerted' = [alerted EXCEPT ![r.uid] = Calm]
  /\ open' = open \ {r.uid}
  /\ UNCHANGED <<sat, env, snap, pendingSnap>>

HeldTime(u) == IF Held(u) THEN ent[u].src ELSE 0

(* The feed announces a uid that is neither held nor known.                *)
Fresh(u) == ~Held(u) /\ u \notin known
OpenAfter(u) == IF Fresh(u) THEN open \cup {u} ELSE open

(* A report without a classification ends an alert as one that denies it.  *)
AlertAfter(u, said) == IF said \in Keys THEN said ELSE Calm

(* Slip: distress is looked for before late reports are rejected.          *)
AcceptSlipEarly(r) ==
  LET held == HeldTime(r.uid) IN
  /\ ~OutOfRange(r)
  /\ ent' = IF Stale(held, r.time) THEN ent ELSE [ent EXCEPT ![r.uid] =
       [src |-> IF r.time > 0 THEN r.time ELSE held, place |-> r.place,
        said |-> r.said, age |-> 0, revived |-> FALSE, listed |-> r.listed]]
  /\ known' = known \cup {r.uid}
  /\ open' = OpenAfter(r.uid)
  /\ alerted' = [alerted EXCEPT ![r.uid] = AlertAfter(r.uid, r.said)]
  /\ pendingSnap' \in IF r.uid \in Sea THEN {pendingSnap, TRUE} ELSE {pendingSnap}
  /\ UNCHANGED <<sat, env, snap>>

(* A ship schedules a write of the snapshot if the last is 30 s old.       *)
Accept(r) ==
  LET held == HeldTime(r.uid) IN
  /\ ~OutOfRange(r) /\ ~Stale(held, r.time)
  /\ ent' = [ent EXCEPT ![r.uid] =
       [src |-> IF r.time > 0 THEN r.time ELSE held, place |-> r.place,
        said |-> r.said, age |-> 0, revived |-> FALSE,
        listed |-> r.listed \/ (Held(r.uid) /\ ent[r.uid].listed)]]
  /\ known' = known \cup {r.uid}
  /\ open' = OpenAfter(r.uid)
  /\ alerted' = [alerted EXCEPT ![r.uid] = AlertAfter(r.uid, r.said)]
  /\ pendingSnap' \in IF r.uid \in Sea THEN {pendingSnap, TRUE} ELSE {pendingSnap}
  /\ UNCHANGED <<sat, env, snap>>

-----------------------------------------------------------------------------
(* The parties that remove tracks.                                         *)

Aged(us, age) == {u \in us : Held(u) /\ ent[u].age >= age}

(* One frame of the map: what is beyond its threshold is said to be lost   *)
(* and forgotten altogether, whether or not the stream is connected.       *)
Frame ==
  LET lost == Aged(Tracks, 1) IN
  /\ drawing /\ lost # {}
  /\ ent' = Gone(lost) /\ known' = known \ lost
  /\ alerted' = [u \in Tracks |-> IF u \in lost THEN Calm ELSE alerted[u]]
  /\ open' = open \ lost
  /\ UNCHANGED <<sat, env, snap, pendingSnap>>

(* Slip: a track it removes is said to be lost but stays known.            *)
MaintenanceSlip ==
  LET stale == Aged(Tracks, IF onStream THEN 1 ELSE 2) IN
  /\ stale # {}
  /\ ent' = Gone(stale)
  /\ known' = known \cup stale
  /\ open' = open \ stale
  /\ UNCHANGED <<sat, alerted, env, snap, pendingSnap>>

(* The timer of App: silent, in every view, patient during an outage.      *)
Maintenance ==
  LET stale == Aged(Tracks, IF onStream THEN 1 ELSE 2) IN
  /\ stale # {}
  /\ ent' = Gone(stale)
  /\ known' = known \ stale
  /\ UNCHANGED <<sat, alerted, env, snap, pendingSnap, open>>

(* handleSetFocus() once the server has taken a mission: the state is set, *)
(* the map emptied, and the ref follows with the effect below.             *)
SetFocus(m) ==
  /\ chosen' = m /\ effectDue' = TRUE
  /\ ent' = Gone(Tracks)
  /\ UNCHANGED <<sat, known, alerted, mission, onStream, drawing,
                 watched, exempt, snap, pendingSnap, open>>

(* loadActiveMission() finds another mission at the server.                *)
Poll(m) ==
  /\ m # mission
  /\ chosen' = m /\ effectDue' = TRUE
  /\ UNCHANGED <<ent, sat, known, alerted, mission, onStream, drawing, watched,
                 exempt, snap, pendingSnap, open>>

(* The effect of a change of mission, and of the first one loaded.         *)
MissionEffect ==
  /\ effectDue /\ effectDue' = FALSE
  /\ mission' = chosen
  /\ ent' = Gone(Tracks) /\ known' = {}
  /\ UNCHANGED <<sat, alerted, chosen, onStream, drawing, watched,
                 exempt, snap, pendingSnap, open>>

-----------------------------------------------------------------------------
(* The snapshot of the ships, and a reload of the page.                    *)

(* In idle time: what the map holds then.                                  *)
WriteSnapshot ==
  /\ pendingSnap /\ pendingSnap' = FALSE
  /\ snap' = [u \in Sea |-> ent[u]]
  /\ UNCHANGED <<ent, sat, known, alerted, env, open>>

SnapshotExpires ==
  /\ snap' = [u \in Sea |-> NoTrack]
  /\ UNCHANGED <<ent, sat, known, alerted, env, pendingSnap, open>>

(* Restored ships count as just heard and as known.  The mission is not    *)
(* known yet, and until it is nothing is out of range.                     *)
Reload ==
  LET back == {u \in Sea : snap[u] # NoTrack} IN
  /\ ent' = [u \in Tracks |-> IF u \in back
                              THEN [snap[u] EXCEPT !.age = 0, !.revived = TRUE,
                                                   !.listed = FALSE]
                              ELSE NoTrack]
  /\ known' = back
  /\ sat' = [u \in Sats |-> 0]
  /\ alerted' = [u \in Tracks |-> Calm]
  /\ onStream' = TRUE /\ watched' = {}
  /\ chosen' = NoMission /\ mission' = NoMission /\ effectDue' = FALSE
  /\ pendingSnap' = FALSE /\ open' = {} /\ exempt' = {}
  /\ UNCHANGED <<drawing, snap>>

-----------------------------------------------------------------------------
(* Time, the stream, the display, the watchlist.                           *)

Ages(u) ==
  /\ Held(u) /\ ent[u].age < 2
  /\ ent' = [ent EXCEPT ![u].age = @ + 1]
  /\ UNCHANGED <<sat, known, alerted, env, snap, pendingSnap, open>>

StreamState ==
  /\ onStream' = ~onStream
  /\ UNCHANGED <<ent, sat, known, alerted, mission, chosen, effectDue, drawing,
                 watched, exempt, snap, pendingSnap, open>>

(* The tab is hidden or shown, a view with a map left or entered, a replay *)
(* begun or ended.                                                         *)
Drawing ==
  /\ drawing' = ~drawing
  /\ UNCHANGED <<ent, sat, known, alerted, mission, chosen, effectDue, onStream, watched,
                 exempt, snap, pendingSnap, open>>

Watchlist ==
  /\ watched' \in SUBSET Air /\ watched' # watched
  /\ exempt' = exempt \cup watched'
  /\ UNCHANGED <<ent, sat, known, alerted, mission, chosen, effectDue, onStream, drawing,
                 snap, pendingSnap, open>>

Next ==
  \/ \E r \in Report : (r.listed => r.uid \in Air) /\ (Evict(r) \/ Accept(r))
  \/ \E u \in Sats, t \in Times : SatReport(u, t)
  \/ Frame \/ Maintenance \/ MissionEffect
  \/ \E m \in Missions : SetFocus(m) \/ Poll(m)
  \/ WriteSnapshot \/ SnapshotExpires \/ Reload
  \/ \E u \in Tracks : Ages(u)
  \/ StreamState \/ Drawing \/ Watchlist

Spec == Init /\ [][Next]_vars

-----------------------------------------------------------------------------
(* What is shown of an object never goes back in time while it is shown,   *)
(* in whatever order reports arrive; only a reload goes back to the        *)
(* snapshot.                                                               *)
NeverBack ==
  [][/\ \A u \in Tracks : Held(u) /\ Held(u)' =>
          ent'[u].src >= ent[u].src \/ ent'[u].revived
     /\ \A u \in Sats : sat[u] > 0 /\ sat'[u] > 0 => sat'[u] >= sat[u]]_<<ent, sat>>

(* An aircraft or a ship whose last report says distress has been alerted  *)
(* of that distress, whatever removed and brought back the track before.   *)
(* A ship restored from the snapshot has not been until it is heard.       *)
DistressIsAlerted ==
  \A u \in Tracks :
    Held(u) /\ ent[u].said \in Keys /\ ~ent[u].revived => alerted[u] = ent[u].said

(* An alert is not repeated for the reports that follow it: a track that   *)
(* was in a distress and still is stays under that alert.                  *)
AlertStands ==
  [][\A u \in Tracks :
       Held(u) /\ Held(u)' /\ ent[u].said \in Keys /\ ent'[u].said = ent[u].said
         => alerted'[u] = alerted[u] \/ ent[u].revived \/ ent'[u].revived]_<<ent, alerted>>

(* Every track held was announced as new and not announced as lost since,  *)
(* but for the ships of a snapshot: no party that empties the map leaves a *)
(* uid behind that comes back unannounced.                                 *)
HeldIsAnnounced ==
  \A u \in Tracks : Held(u) => u \in known /\ (u \in open \/ u \in Sea)

(* A track that never was on the watchlist was last seen inside the        *)
(* mission area, once the effects of a change of mission have run.         *)
TracksAreInArea ==
  (mission # NoMission /\ ~effectDue) =>
    \A u \in Tracks : Held(u) /\ ~ent[u].listed /\ ~ent[u].revived /\ u \notin exempt
      => ent[u].place \in Covers[mission]

(* The tracks held are of the area, announced, and alerted of, at once.    *)
TracksAreTruthful == TypeOK /\ DistressIsAlerted /\ HeldIsAnnounced /\ TracksAreInArea
=============================================================================
