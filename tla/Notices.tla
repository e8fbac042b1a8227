------------------------------- MODULE Notices -------------------------------
(***************************************************************************)
(* The notices of the page (frontend/src/hooks/useIntelEvents.ts,          *)
(* components/map/TacticalMap.tsx and OrbitalMap.tsx,                      *)
(* components/widgets/NWSAlertsWidget.tsx, IntelFeed.tsx,                  *)
(* AlertsWidget.tsx, alerts/, App.tsx): every poll names again what is     *)
(* going on, and each source remembers for some time what it has           *)
(* announced, in a component that may be unmounted.  The list drops what   *)
(* is not an alert if the same kind came less than a second ago, what is   *)
(* older than an hour, and what exceeds its length.                        *)
(*                                                                         *)
(* A tick is long for the second of the throttle, short for the rest.      *)
(***************************************************************************)
EXTENDS Naturals, FiniteSets, SequencesExt

CONSTANTS
  Holds,      \* aircraft that may hold
  Zones,      \* cells that may be jammed
  Storms,     \* weather alerts of the mission area
  Passes,     \* passes of intelligence satellites
  Rise,       \* when each of them rises
  Again,      \* for each source, the time before it repeats itself
  Window,     \* how early a pass is announced
  Keep,       \* the hour
  Cap,        \* 500 events
  Infra,      \* layers of infrastructure
  MaxTime,    \* bound on time
  MaxSteps    \* bound on everything else

VARIABLES
  now,
  events,     \* the list, newest first
  spoken,     \* lastEventTimesRef: the kinds, but alerts, added in this second
  announced,  \* what each source remembers: when it last announced what
  mounted,    \* the map, with the widget of the weather, is mounted
  mounts,     \* history: which mount of the map and of the widget it is
  named,      \* history: what the answers of this tick named, by source
  layers,     \* the layers of infrastructure that are on
  loaded,     \* those whose data has come
  noticed,    \* infraNotifiedRef: those announced
  was,        \* infraNotifiedRef: those that were on
  steps

vars == <<now, events, spoken, announced, mounted, mounts, named, layers, loaded,
          noticed, was, steps>>
list == <<events, spoken>>
infra == <<layers, loaded, noticed, was>>

Sources == {"hold", "jam", "storm", "pass"}
Keys == Holds \cup Zones \cup Storms \cup Passes
Nothing == [k \in {} |-> 0]
Event == [key : Keys \cup Infra, type : {"alert", "new", "lost"}, cat : {"air", "infra", "orbital"},
          at : 0..MaxTime, of : Nat]

TypeOK ==
  /\ now \in 0..MaxTime /\ Len(events) <= Cap /\ \A i \in DOMAIN events : events[i] \in Event
  /\ spoken \subseteq {"new", "lost"} \X {"air", "infra"}
  /\ \A s \in Sources : DOMAIN announced[s] \subseteq Keys
  /\ \A s \in DOMAIN named : named[s] \subseteq Keys
  /\ mounted \in BOOLEAN /\ mounts \in [map : 0..MaxSteps, widget : 0..MaxSteps] /\ steps \in 0..MaxSteps
  /\ UNION {layers, loaded, noticed, was} \subseteq Infra

Quiet == [s \in Sources \ {"hold"} |-> {}]
Init ==
  /\ now = 0 /\ events = <<>> /\ spoken = {} /\ announced = [s \in Sources |-> Nothing]
  /\ mounted = TRUE /\ mounts = [map |-> 0, widget |-> 0] /\ named = Quiet
  /\ layers \in {{}, Infra} /\ loaded = {} /\ noticed = {} /\ was = {} /\ steps = 0

Step == steps < MaxSteps /\ steps' = steps + 1

-----------------------------------------------------------------------------
(* The list.                                                               *)

Young(s) == SelectSeq(s, LAMBDA e : e.at + Keep > now)
Capped(s) == IF Len(s) > Cap THEN SubSeq(s, 1, Cap) ELSE s

Kind(e) == <<e.type, e.cat>>

(* Slip: an alert is throttled as the rest.                                *)
PassesThrottleSlip(new) ==
  {e \in new : /\ Kind(e) \notin spoken
               /\ \A i \in DOMAIN events : Kind(events[i]) = Kind(e) => events[i].at < now
               /\ e = CHOOSE f \in new : Kind(f) = Kind(e)}

(* Alerts pass the throttle, and of the others the first of its kind.      *)
PassesThrottle(new) ==
  {e \in new : \/ e.type = "alert"
               \/ /\ Kind(e) \notin spoken
                  /\ e = CHOOSE f \in new : Kind(f) = Kind(e)}

(* addEvent(), for each of some new ones.                                  *)
AddEvents(new) ==
  LET kept == PassesThrottle(new) IN
  /\ spoken' = spoken \cup {Kind(e) : e \in {f \in kept : f.type # "alert"}}
  /\ events' = IF kept = {} THEN events ELSE Capped(Young(SetToSeq(kept) \o events))

(* The panel of the alerts, and the number on its button.                  *)
Alerts == SelectSeq(events, LAMBDA e : e.type = "alert")

Notice(key, type, cat) ==
  [key |-> key, type |-> type, cat |-> cat, at |-> now,
   of |-> IF key \in Storms THEN mounts.widget ELSE mounts.map]

(* The minute of the cleanup; time goes on.                                *)
Tick ==
  /\ now < MaxTime /\ now' = now + 1 /\ named' = Quiet /\ spoken' = {}
  /\ UNCHANGED <<events, announced, mounted, mounts, infra, steps>>

Cleanup ==
  /\ Young(events) # events /\ events' = Young(events)
  /\ UNCHANGED <<now, spoken, announced, mounted, mounts, named, infra, steps>>

-----------------------------------------------------------------------------
(* What is announced again and again.                                      *)

Due(s, k) == k \in DOMAIN announced[s] => now - announced[s][k] >= Again[s]
Remember(s, keys) ==
  [k \in DOMAIN announced[s] \cup keys |-> IF k \in keys THEN now ELSE announced[s][k]]
Heard(s, keys) == named' = [named EXCEPT ![s] = keys]

(* The eviction after six hours forgets nothing that is not due.           *)
Announce(s, keys, new) ==
  /\ AddEvents(new)
  /\ announced' = [announced EXCEPT ![s] = Remember(s, keys)]

(* Holding patterns: a key, and whether it is critical.  Brief ones, and   *)
(* those without confidence, are not announced.                            *)
HoldAnswer ==
  /\ mounted
  /\ \E keys \in SUBSET Holds, critical \in SUBSET Holds :
       LET due == {k \in keys : Due("hold", k)} IN
       /\ critical \subseteq keys
       /\ Announce("hold", due, {Notice(k, IF k \in critical THEN "alert" ELSE "new", "air") : k \in due})
  /\ Step /\ UNCHANGED <<now, mounted, mounts, named, infra>>

(* Jamming, or a mixture with space weather, of some confidence.           *)
JamAnswer ==
  /\ mounted
  /\ \E keys \in SUBSET Zones :
       LET due == {k \in keys : Due("jam", k)} IN
       /\ Announce("jam", due, {Notice(k, "alert", "infra") : k \in due})
       /\ Heard("jam", keys)
  /\ Step /\ UNCHANGED <<now, mounted, mounts, infra>>

(* Severe and extreme weather in the mission area, as it is when the       *)
(* widget is rendered.  If there is no weather anywhere, a widget without  *)
(* the compact layout is unmounted, and forgets.                           *)
StormAnswer ==
  /\ mounted
  /\ \E keys \in SUBSET Storms, elsewhere \in BOOLEAN :
       LET due == {k \in keys : Due("storm", k)} IN
       /\ AddEvents({Notice(k, "alert", "infra") : k \in due})
       /\ announced' = [announced EXCEPT !["storm"] =
            IF keys = {} /\ ~ elsewhere THEN Nothing ELSE Remember("storm", due)]
       /\ mounts' = IF keys = {} /\ ~ elsewhere THEN [mounts EXCEPT !.widget = @ + 1] ELSE mounts
       /\ Heard("storm", keys)
  /\ Step /\ UNCHANGED <<now, mounted, infra>>

(* A pass is announced once, and the page remembers it for ever.           *)
PassAnswer ==
  /\ LET due == {p \in Passes : /\ p \notin DOMAIN announced["pass"]
                                /\ Rise[p] > now /\ Rise[p] - now <= Window} IN
     Announce("pass", due, {Notice(p, "alert", "orbital") : p \in due})
  /\ Heard("pass", {p \in Passes : Rise[p] > now /\ Rise[p] - now <= Window})
  /\ Step /\ UNCHANGED <<now, mounted, mounts, infra>>

-----------------------------------------------------------------------------
(* Infrastructure: the effect runs when a switch or the data has changed.  *)

On(on, have) ==
  LET new == {l \in on : l \notin noticed /\ l \in have}
      off == was \ on IN
  /\ AddEvents({Notice(l, "new", "infra") : l \in new} \cup
                {Notice(l, "lost", "infra") : l \in off})
  /\ noticed' = (noticed \cap on) \cup new
  /\ was' = on

Switch(l) ==
  /\ layers' = (layers \ {l}) \cup ({l} \ layers)
  /\ IF mounted THEN On(layers', loaded) ELSE UNCHANGED <<list, noticed, was>>
  /\ Step /\ UNCHANGED <<now, announced, mounted, mounts, named, loaded>>

DataComes(l) ==
  /\ l \notin loaded /\ loaded' = loaded \cup {l}
  /\ IF mounted THEN On(layers, loaded') ELSE UNCHANGED <<list, noticed, was>>
  /\ Step /\ UNCHANGED <<now, announced, mounted, mounts, named, layers>>

(* The view without this map, and back: what its refs held is gone.        *)
Unmount ==
  /\ mounted /\ mounted' = FALSE
  /\ announced' = [s \in Sources |-> IF s = "pass" THEN announced[s] ELSE Nothing]
  /\ named' = [Quiet EXCEPT !["pass"] = named["pass"]]
  /\ noticed' = {} /\ was' = {}
  /\ Step /\ UNCHANGED <<now, list, mounts, layers, loaded>>

Mount ==
  /\ ~ mounted /\ mounted' = TRUE /\ mounts' = [map |-> mounts.map + 1, widget |-> mounts.widget + 1]
  /\ On(layers, loaded)
  /\ Step /\ UNCHANGED <<now, announced, named, layers, loaded>>

Next ==
  \/ Tick \/ Cleanup \/ HoldAnswer \/ JamAnswer \/ StormAnswer \/ PassAnswer
  \/ \E l \in Infra : Switch(l) \/ DataComes(l)
  \/ Unmount \/ Mount

-----------------------------------------------------------------------------
(* Properties.                                                             *)

(* No source repeats itself too early, whatever its answers leave out in   *)
(* between, while what it remembers is mounted; no pass ever does.         *)
SourceOf(e) == IF e.key \in Holds THEN "hold" ELSE IF e.key \in Zones THEN "jam"
               ELSE IF e.key \in Storms THEN "storm" ELSE "pass"
NotTooOften ==
  \A i, j \in DOMAIN events :
    i < j /\ events[i].key = events[j].key /\ events[i].key \in Keys =>
      LET s == SourceOf(events[i]) IN
      /\ s # "pass"
      /\ events[i].of = events[j].of => events[i].at - events[j].at >= Again[s]

(* What an answer names that calls for an alert is among the alerts, then  *)
(* or from before, unless the list is full of newer ones; but for a        *)
(* holding pattern that has become critical since it was announced.        *)
NamedIsListed ==
  Len(events) < Cap =>
    \A s \in DOMAIN named : \A k \in named[s] :
      \E i \in DOMAIN Alerts : Alerts[i].key = k

(* The list is in order of time.                                           *)
NewestFirst == \A i, j \in DOMAIN events : i < j => events[i].at >= events[j].at

NoticesAreWhole == TypeOK /\ NotTooOften /\ NamedIsListed /\ NewestFirst
=============================================================================
