---------------------------- MODULE MissionSync ----------------------------
(***************************************************************************)
(* The mission area as a browser tab sees it (frontend/src/hooks/          *)
(* useMissionArea.ts, useMissionLocation.ts, api/missionArea.ts,           *)
(* components/widgets/MissionNavigator.tsx, map/MapContextMenu.tsx).       *)
(*                                                                         *)
(* The server holds one mission for all operators.  The tab moves it with  *)
(* a POST and follows it with a poll; its GETs share one request and a     *)
(* cache of 5 s, which a copy in localStorage (60 s) survives a reload.    *)
(* Nothing orders the answers, and other tabs move the mission and write   *)
(* localStorage as well.                                                   *)
(***************************************************************************)
EXTENDS Naturals, Integers, Sequences, FiniteSets

CONSTANTS
  Places,      \* where a mission may be
  OnAxis,      \* the places whose latitude or longitude is 0
  Home,        \* the place of the configuration
  Radii,       \* the radii that are accepted
  DefaultRadius,
  Calls,       \* the setMissionArea() that may be under way at once
  MaxMoves,    \* bound: missions the server is given
  MaxFaults    \* bound: failures, reloads and changes of visibility

ASSUME PlacesAssumption == OnAxis \subseteq Places /\ Home \in Places \ OnAxis
ASSUME RadiiAssumption == DefaultRadius \in Radii
ASSUME BoundsAssumption == {MaxMoves, MaxFaults} \subseteq Nat

Missions == [at : Places, r : Radii]
NoMission == [at |-> "none", r |-> 0]
Callers == {"page", "panel"}
NotAsked == -1   \* get: no request; 0: the server has not read it; else what it read

VARIABLES
  log,        \* the missions the server was given; the last is the active one
  operator,   \* hasRole("operator")
  visible,    \* document.visibilityState
  cache,      \* missionCache, missionCacheTs: which mission, how old
  stored,     \* sw_mission_area_cache
  get,        \* missionRequestInFlight
  waiting,    \* who awaits it
  post,       \* the setMissionArea() under way
  current,    \* currentMission
  ref,        \* currentMissionRef, behind currentMission until the effect ran
  own,        \* history: the newest of its own moves the tab was told of
  crossed,    \* history: it asked something while something was under way
  faults

env == <<operator, visible, faults>>
net == <<cache, stored, get, waiting, post>>
page == <<current, ref>>
vars == <<log, env, net, page, own, crossed>>

Active == log[Len(log)]
Nothing == [v |-> 0, age |-> "old"]
Entry(v) == [v |-> v, age |-> "new"]
Idle == [state |-> "idle", v |-> 0, want |-> NoMission]

TypeOK ==
  /\ log \in Seq(Missions) /\ Len(log) \in 1..(MaxMoves + 1)
  /\ operator \in BOOLEAN /\ visible \in BOOLEAN
  /\ {cache, stored} \subseteq [v : 0..Len(log), age : {"new", "recent", "old"}]
  /\ get \in {NotAsked} \cup 0..Len(log)
  /\ waiting \subseteq Callers
  /\ get = NotAsked => waiting = {}
  /\ post \in [Calls -> [state : {"idle", "sent", "applied", "refused"}, v : 0..Len(log),
                         want : Missions \cup {NoMission}]]
  /\ {current, ref} \subseteq Missions \cup {NoMission}
  /\ own \in 0..Len(log) /\ crossed \in BOOLEAN
  /\ faults \in 0..MaxFaults

Init ==
  /\ log = <<[at |-> Home, r |-> DefaultRadius]>>
  /\ operator \in BOOLEAN /\ visible = TRUE
  /\ cache = Nothing /\ stored = Nothing /\ get = NotAsked /\ waiting = {}
  /\ post = [c \in Calls |-> Idle]
  /\ current = NoMission /\ ref = NoMission
  /\ own = 0 /\ crossed = FALSE /\ faults = 0

Fault == faults < MaxFaults /\ faults' = faults + 1

-----------------------------------------------------------------------------
(* Slip: only the first mission is shown.                                  *)
ReceiveSlip(callers, m) ==
  current' = IF "page" \in callers /\ m.at \notin OnAxis /\ ref = NoMission THEN m ELSE current

(* What the page does with a mission it asked for.  Places on an axis fail *)
(* the test of `mission.lat && mission.lon', and what the page shows       *)
(* already is not shown again.                                             *)

Receive(callers, m) ==
  current' = IF "page" \in callers /\ m.at \notin OnAxis /\ m # ref THEN m ELSE current

(* The effect of currentMission: the reference of the polls is updated     *)
(* (the tracks and the selection of the old area are dropped with it).     *)
MissionEffect ==
  /\ current # ref /\ ref' = current
  /\ UNCHANGED <<log, env, net, current, own, crossed>>

-----------------------------------------------------------------------------
(* getMissionArea(): the copy, the cache, the request under way, or a new  *)
(* request.                                                                *)

Cached == IF cache = Nothing /\ stored.age # "old" THEN stored ELSE cache

Ask(c) ==
  /\ cache' = Cached
  /\ IF Cached.age = "new"
     THEN /\ Receive({c}, log[Cached.v])
          /\ UNCHANGED <<get, waiting, crossed>>
     ELSE /\ get' = IF get = NotAsked THEN 0 ELSE get
          /\ waiting' = waiting \cup {c}
          /\ crossed' = (crossed \/ \E k \in Calls : post[k].state # "idle")
          /\ UNCHANGED current
  /\ UNCHANGED <<log, env, stored, post, ref, own>>

(* The call of the mount, and one per interval while the tab is visible.   *)
Poll == visible /\ Ask("page")

(* A panel that wants the place asks once, when it is mounted: it keeps    *)
(* what it is told.                                                        *)
OpenPanel == Ask("panel")

ServerReads ==
  /\ get = 0 /\ get' = Len(log)
  /\ UNCHANGED <<log, env, cache, stored, waiting, post, page, own, crossed>>

(* The answer goes to the cache, to localStorage and to all who wait,      *)
(* whatever became known in the meantime.                                  *)
GetAnswer ==
  /\ get > 0
  /\ cache' = Entry(get) /\ stored' = Entry(get)
  /\ get' = NotAsked /\ waiting' = {}
  /\ Receive(waiting, log[get])
  /\ UNCHANGED <<log, env, post, ref, own, crossed>>

GetFails ==
  /\ get # NotAsked /\ Fault
  /\ get' = NotAsked /\ waiting' = {}
  /\ UNCHANGED <<log, operator, visible, cache, stored, post, page, own, crossed>>

(* 5 s for the cache, 60 s for its copy.  Both were stamped by the same    *)
(* answer unless another tab wrote the copy.                               *)
CacheAges ==
  /\ cache.age = "new" /\ cache' = [cache EXCEPT !.age = "recent"]
  /\ UNCHANGED <<log, env, stored, get, waiting, post, page, own, crossed>>

StoredAges ==
  /\ \/ stored.age = "new" /\ stored' = [stored EXCEPT !.age = "recent"]
     \/ stored.age = "recent" /\ stored' = [stored EXCEPT !.age = "old"]
  /\ ~ (cache.age = "new" /\ cache.v = stored.v)
  /\ UNCHANGED <<log, env, cache, get, waiting, post, page, own, crossed>>

-----------------------------------------------------------------------------
(* handleSetFocus(): the POST, then the page.                              *)

SetFocus(m) ==
  /\ \E k \in Calls :
       /\ post[k].state = "idle"
       /\ post' = [post EXCEPT ![k] = [state |-> "sent", v |-> 0, want |-> m]]
  /\ crossed' = (crossed \/ get # NotAsked \/ \E k \in Calls : post[k].state # "idle")
  /\ UNCHANGED <<log, env, cache, stored, get, waiting, page, own>>

Radius == IF ref = NoMission THEN DefaultRadius ELSE ref.r

MenuSetFocus == operator /\ \E p \in Places : SetFocus([at |-> p, r |-> Radius])
PresetSelect == operator /\ ref # NoMission /\ \E r \in Radii : SetFocus([ref EXCEPT !.r = r])
SwitchMission == \E m \in Missions : SetFocus(m)
ReturnHome == SetFocus([at |-> Home, r |-> DefaultRadius])

(* The server wants an operator, and is not always there.                  *)
ServerSets(k) ==
  /\ post[k].state = "sent" /\ operator /\ Len(log) <= MaxMoves
  /\ log' = Append(log, post[k].want)
  /\ post' = [post EXCEPT ![k].state = "applied", ![k].v = Len(log) + 1]
  /\ UNCHANGED <<env, cache, stored, get, waiting, page, own, crossed>>

ServerRefuses(k) ==
  /\ post[k].state = "sent"
  /\ \/ ~ operator /\ UNCHANGED faults
     \/ Fault
  /\ post' = [post EXCEPT ![k].state = "refused"]
  /\ UNCHANGED <<log, operator, visible, cache, stored, get, waiting, page, own, crossed>>

(* Slip: the cache keeps what it held.                                     *)
SetAnswerSlip(k) ==
  /\ post[k].state = "applied"
  /\ current' = post[k].want
  /\ own' = IF post[k].v > own THEN post[k].v ELSE own
  /\ post' = [post EXCEPT ![k] = Idle]
  /\ UNCHANGED <<log, env, cache, stored, get, waiting, ref, crossed>>

SetAnswer(k) ==
  /\ post[k].state = "applied"
  /\ cache' = Entry(post[k].v) /\ stored' = Entry(post[k].v)
  /\ current' = post[k].want
  /\ own' = IF post[k].v > own THEN post[k].v ELSE own
  /\ post' = [post EXCEPT ![k] = Idle]
  /\ UNCHANGED <<log, env, get, waiting, ref, crossed>>

(* Slip: the page shows what it asked for, whatever the answer was.        *)
SetFailsSlip(k) ==
  /\ post[k].state = "refused"
  /\ current' = post[k].want
  /\ post' = [post EXCEPT ![k] = Idle]
  /\ UNCHANGED <<log, env, cache, stored, get, waiting, ref, own, crossed>>

SetFails(k) ==
  /\ post[k].state = "refused"
  /\ post' = [post EXCEPT ![k] = Idle]
  /\ UNCHANGED <<log, env, cache, stored, get, waiting, page, own, crossed>>

-----------------------------------------------------------------------------
(* The others, the tab itself, and the specification.                      *)

OthersMove ==
  /\ Len(log) <= MaxMoves /\ \E m \in Missions : log' = Append(log, m)
  /\ UNCHANGED <<env, net, page, own, crossed>>

OthersStore ==
  /\ Fault /\ \E v \in DOMAIN log : stored' = Entry(v)
  /\ UNCHANGED <<log, operator, visible, cache, get, waiting, post, page, own, crossed>>

Visibility ==
  /\ Fault /\ visible' = ~ visible
  /\ UNCHANGED <<log, operator, net, page, own, crossed>>

(* Everything but localStorage is new.  A POST the server has is answered  *)
(* to nobody.                                                              *)
Reload ==
  /\ Fault
  /\ cache' = Nothing /\ get' = NotAsked /\ waiting' = {} /\ post' = [c \in Calls |-> Idle]
  /\ current' = NoMission /\ ref' = NoMission
  /\ own' = 0 /\ crossed' = FALSE
  /\ UNCHANGED <<log, operator, visible, stored>>

Next ==
  \/ Poll \/ OpenPanel \/ ServerReads \/ GetAnswer \/ GetFails
  \/ CacheAges \/ StoredAges \/ MissionEffect
  \/ MenuSetFocus \/ PresetSelect \/ SwitchMission \/ ReturnHome
  \/ \E k \in Calls : ServerSets(k) \/ ServerRefuses(k) \/ SetAnswer(k) \/ SetFails(k)
  \/ OthersMove \/ OthersStore \/ Visibility \/ Reload

(* Timers fire, effects run, and the server answers or the request fails.  *)
Fairness ==
  /\ WF_vars(Poll) /\ WF_vars(CacheAges) /\ WF_vars(MissionEffect)
  /\ WF_vars(ServerReads) /\ WF_vars(GetAnswer)
  /\ \A k \in Calls : /\ WF_vars(ServerSets(k) \/ ServerRefuses(k))
                      /\ WF_vars(SetAnswer(k) \/ SetFails(k))

Spec == Init /\ [][Next]_vars /\ Fairness

-----------------------------------------------------------------------------
(* Properties.                                                             *)

(* What the page shows the server was given, by this tab or another: a     *)
(* refused move is not shown, and an old copy is one of an old mission.    *)
ShownWasActive == TypeOK /\ current \in {log[i] : i \in DOMAIN log} \cup {NoMission}

(* The cache answers a question of the tab with its own latest move or a   *)
(* later one, unless requests of the tab crossed (the answer of a GET that *)
(* was read before the move then goes over it, to the page, the cache and  *)
(* localStorage).                                                          *)
OwnMoveIsCached == crossed \/ cache = Nothing \/ cache.v >= own

(* Whatever crossed, failed or was reloaded: once the mission stays, a     *)
(* visible tab shows it, save a place on an axis.                          *)
PageFollows == <>[](visible /\ Active.at \notin OnAxis => current = Active)
=============================================================================
