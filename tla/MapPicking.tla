----------------------------- MODULE MapPicking -----------------------------
(***************************************************************************)
(* What is under the pointer, what is selected, and what is said about it  *)
(* (frontend/src/components/map/TacticalMap.tsx, OrbitalMap.tsx,           *)
(* MapTooltip.tsx, layouts/SidebarRight.tsx, sidebar-right/InfraView.tsx,  *)
(* hooks/useEntitySelection.ts, useAnimationLoop.ts, layers/).             *)
(*                                                                         *)
(* A layer hands what was hit to one of two families of handlers.  The     *)
(* "infra" family gets a feature and guesses from the marks it carries     *)
(* what it is: once for the tooltip, once for the selection, and again in  *)
(* the other map, in MapTooltip and in InfraView, with five lists in five  *)
(* orders.  The "entity" family gets an entity with its type.              *)
(* deck.gl tells the layer the pointer left before the one it entered, but *)
(* a layer that is gone is told nothing.                                   *)
(***************************************************************************)
EXTENDS Naturals, Sequences, FiniteSets

CONSTANTS
  Things,     \* what there is to hit, of those the tables below name
  MaxClicks,  \* bound on selections
  MaxGone     \* bound on things that vanish

ASSUME PickAssumption == MaxClicks \in Nat /\ MaxGone \in Nat

Views == {"TACTICAL", "ORBITAL"}
NoThing == "none"

-----------------------------------------------------------------------------
(* The marks a builder, or the feature it draws, gives to what is hit.     *)

TowerMarks == {"fcc_id", "tower", "status"}
NwsMarks == {"event", "severity"}
OutageMarks == {"outage", "severity"}
BuoyMarks == {"buoy_id"}
IssMarks == {"iss"}
DnsMarks == {"letter", "ip"}
AirspaceMarks == {"zone_id"}
DarkMarks == {"dark", "risk_severity"}
FirmsMarks == {"firms"}
IxpMarks == {"layer_ixp"}
FacilityMarks == {"layer_facility"}

MarksOf ==
  [tower |-> TowerMarks, nws_alert |-> NwsMarks, outage |-> OutageMarks, buoy |-> BuoyMarks,
   iss |-> IssMarks, dns |-> DnsMarks, airspace |-> AirspaceMarks, dark_vessel |-> DarkMarks,
   firms_hotspot |-> FirmsMarks, ixp |-> IxpMarks, facility |-> FacilityMarks]
Marks(t) == IF t \in DOMAIN MarksOf THEN MarksOf[t] ELSE {}

InfraThings == {"tower", "nws_alert", "outage", "buoy", "iss", "dns", "airspace",
                "dark_vessel", "firms_hotspot", "ixp", "facility", "cable", "landing"}

(* The others come with a type.  A clausal state change has the uid of the *)
(* track it is about, and a holding pattern is about one, too.             *)
TrackThings == {"aircraft", "ship", "satellite"}
Cluster == {"cluster"}
Jamming == {"jamming"}
Hold == {"hold"}
Gdelt == {"gdelt"}
Clausal == {"clausal"}
RadioSite == {"repeater"}
JS8Station == {"js8"}
Ground == {"satnogs"}
EntityThings == TrackThings \cup Cluster \cup Jamming \cup Hold \cup Gdelt \cup Clausal \cup
                RadioSite \cup JS8Station \cup Ground

(* Hit, but without a tooltip: a country without an outage, which its      *)
(* layer reports as nothing, and the node of the SDR, which it does not    *)
(* report at all.                                                          *)
Country == {"country"}
KiwiNode == {"kiwi"}
Handled == InfraThings \cup EntityThings

(* Ground stations are drawn in the orbital map only, which has data for   *)
(* few other things.                                                       *)
InView(v) == IF v = "TACTICAL" THEN Things \ {"satnogs"}
             ELSE Things \cap {"satellite", "satnogs", "jamming", "iss", "cluster", "clausal"}

Uid(t) == IF t = "clausal" THEN "aircraft" ELSE t
Toggles == TrackThings \cup JS8Station

-----------------------------------------------------------------------------
(* A guess takes the first entry one of the marks belongs to.              *)

FirstOf(order, marks, otherwise) ==
  LET hits == {i \in DOMAIN order : order[i][2] \cap marks # {}} IN
  IF hits = {} THEN otherwise
  ELSE order[CHOOSE i \in hits : \A j \in hits : i <= j][1]

(* Slip: an alert has a severity, and so does an outage.                   *)
HoverOrderSlip ==
  << <<"buoy", {"buoy_id"}>>, <<"tower", {"fcc_id"}>>,
     <<"outage", {"outage", "severity"}>>, <<"nws_alert", {"event"}>>, <<"iss", {"iss"}>>,
     <<"infra", {"letter"}>>, <<"airspace", {"zone_id"}>>, <<"dark_vessel", {"dark"}>>,
     <<"firms_hotspot", {"firms"}>> >>

HoverOrder ==
  << <<"buoy", {"buoy_id"}>>, <<"tower", {"fcc_id"}>>, <<"nws_alert", {"event"}>>,
     <<"outage", {"outage", "severity"}>>, <<"iss", {"iss"}>>, <<"infra", {"letter"}>>,
     <<"airspace", {"zone_id"}>>, <<"dark_vessel", {"dark"}>>,
     <<"firms_hotspot", {"firms"}>> >>

ClickOrder ==
  << <<"buoy", {"buoy_id"}>>, <<"tower", {"tower"}>>, <<"nws_alert", {"event"}>>,
     <<"outage", {"outage", "severity"}>>, <<"iss", {"iss"}>>, <<"infra", {"ip"}>>,
     <<"airspace", {"zone_id"}>>, <<"dark_vessel", {"dark"}>>,
     <<"firms_hotspot", {"firms"}>> >>

OrbitalHoverOrder ==
  << <<"nws_alert", {"event"}>>, <<"outage", {"outage", "severity"}>> >>
OrbitalClickOrder ==
  << <<"nws_alert", {"event"}>>, <<"outage", {"outage", "severity"}>> >>

EntityType(t) == IF t = "clausal" THEN "clausal-state-change" ELSE t

HoverType(v, t) ==
  IF t \in EntityThings THEN EntityType(t)
  ELSE FirstOf(IF v = "TACTICAL" THEN HoverOrder ELSE OrbitalHoverOrder, Marks(t), "infra")
ClickType(v, t) ==
  IF t \in EntityThings THEN EntityType(t)
  ELSE FirstOf(IF v = "TACTICAL" THEN ClickOrder ELSE OrbitalClickOrder, Marks(t), "infra")

(* The card of the tooltip, by type and marks together.                    *)
TooltipOrder ==
  << <<"hold", {"hold"}>>, <<"satnogs", {"satnogs"}>>, <<"repeater", {"repeater"}>>,
     <<"tower", {"type_tower"}>>, <<"buoy", {"type_buoy"}>>, <<"ixp", {"layer_ixp"}>>,
     <<"facility", {"layer_facility"}>>, <<"iss", {"type_iss"}>>,
     <<"nws_alert", {"type_nws_alert"}>>, <<"dns", {"ip"}>>, <<"infra", {"type_infra"}>>,
     <<"outage", {"type_outage"}>>, <<"gdelt", {"gdelt"}>>, <<"cluster", {"cluster"}>>,
     <<"jamming", {"jamming"}>>, <<"airspace", {"type_airspace"}>>,
     <<"clausal", {"clausal-state-change"}>>, <<"firms_hotspot", {"type_firms_hotspot", "firms"}>>,
     <<"dark_vessel", {"type_dark_vessel", "dark"}>>, <<"satellite", {"satellite"}>>,
     <<"js8", {"js8"}>>, <<"ship", {"ship"}>> >>

SignOf ==
  [tower |-> "type_tower", buoy |-> "type_buoy", iss |-> "type_iss", nws_alert |-> "type_nws_alert",
   infra |-> "type_infra", outage |-> "type_outage", airspace |-> "type_airspace",
   firms_hotspot |-> "type_firms_hotspot", dark_vessel |-> "type_dark_vessel"]
TypeSign(as) == IF as \in DOMAIN SignOf THEN SignOf[as] ELSE as
Tooltip(v, t) == FirstOf(TooltipOrder, {TypeSign(HoverType(v, t))} \cup Marks(t), "aircraft")

(* The panel: by type, and InfraView once more by its own marks.           *)
InfraViewOrder ==
  << <<"buoy", {"buoy_id"}>>, <<"iss", {"type_iss", "iss"}>>,
     <<"nws_alert", {"type_nws_alert", "event"}>>, <<"ixp", {"layer_ixp"}>>,
     <<"facility", {"layer_facility"}>>, <<"dns", {"ip"}>>,
     <<"firms_hotspot", {"type_firms_hotspot", "firms"}>>,
     <<"dark_vessel", {"type_dark_vessel", "dark"}>>, <<"outage", {"outage", "severity"}>> >>

InfraViewTypes == {"buoy", "nws_alert", "outage", "infra", "iss", "firms_hotspot", "dark_vessel"}
Panel(v, t) ==
  LET as == ClickType(v, t) IN
  IF as \in InfraViewTypes
  THEN FirstOf(InfraViewOrder, {TypeSign(as)} \cup Marks(t), "infra")
  ELSE IF as = "clausal-state-change" THEN "clausal" ELSE as

Kind(t) == IF t \in {"cable", "landing"} THEN "infra" ELSE t

-----------------------------------------------------------------------------
VARIABLES
  view,      \* the map that is mounted
  drawn,     \* what it draws
  pointer,   \* what the pointer is over
  last,      \* what deck.gl hit last
  hovered,   \* hoveredEntity of the map
  placed,    \* hoverPosition is set
  selected,  \* selectedEntity
  type,      \* the type it was selected as
  followed,  \* followMode
  history,   \* historySegments: whose track is drawn
  asked,     \* the request for a history the mounted panel waits for
  clicks, gone

pickVars == <<view, drawn, pointer, last, hovered, placed, selected, type, followed, history,
          asked, clicks, gone>>
hover == <<pointer, last, hovered, placed>>
selection == <<selected, type, followed, history, asked>>

PickTypeOK ==
  /\ view \in Views /\ drawn \subseteq Things
  /\ {pointer, last} \subseteq Things \cup {NoThing} /\ hovered \in Handled \cup {NoThing}
  /\ placed \in BOOLEAN /\ followed \in BOOLEAN
  /\ selected \in Handled \cup {NoThing} /\ {history, asked} \subseteq {NoThing, "aircraft", "hold"}
  /\ type = NoThing <=> selected = NoThing
  /\ clicks \in 0..MaxClicks /\ gone \in 0..MaxGone

(* handleHoveredInfra(null) only takes back what it has put there.         *)
Cleared(v) == IF v = "TACTICAL"
              THEN {"infra", "outage", "tower", "buoy", "nws_alert", "iss", "firms_hotspot",
                    "dark_vessel", "airspace"}
              ELSE {"infra", "outage", "nws_alert"}

(* Slip: only the overlay takes a tooltip back.                            *)
LeaveSlip(h, t) == h

(* What the layer that was left, the layer that was entered, and the whole *)
(* overlay make of the tooltip.                                            *)
Leave(h, t) ==
  IF t = NoThing \/ t \notin drawn THEN h
  ELSE IF t \in EntityThings THEN [of |-> NoThing, placed |-> FALSE]
  ELSE IF t \in InfraThings \cup Country
  THEN [of |-> IF h.of # NoThing /\ HoverType(view, h.of) \in Cleared(view) THEN NoThing ELSE h.of,
        placed |-> view = "ORBITAL" /\ h.placed]
  ELSE h

Enter(h, t) ==
  IF t \in Handled THEN [of |-> t, placed |-> TRUE]
  ELSE IF t \in Country THEN Leave(h, t)
  ELSE IF t = NoThing THEN [of |-> NoThing, placed |-> FALSE] ELSE h

MovePointer(t) ==
  /\ t # pointer /\ t \in drawn \cup {NoThing}
  /\ pointer' = t /\ last' = t
  /\ LET h == Enter(Leave([of |-> hovered, placed |-> placed], last), t) IN
     hovered' = h.of /\ placed' = h.placed
  /\ UNCHANGED <<view, drawn, selection, clicks, gone>>

(* A switch, an expiry or a new mission takes a layer away.  The pointer   *)
(* is over nothing then, and nobody hears of it.                           *)
Vanish(t) ==
  /\ gone < MaxGone /\ gone' = gone + 1
  /\ t \in drawn /\ drawn' = drawn \ {t}
  /\ pointer' = IF pointer = t THEN NoThing ELSE pointer
  /\ UNCHANGED <<view, last, hovered, placed, selection, clicks>>

-----------------------------------------------------------------------------
(* Selection.                                                              *)

HasHistory(t) == t \in {"aircraft", "hold"}

Select(t, as) ==
  /\ selected' = t /\ type' = as
  /\ history' = NoThing /\ followed' = FALSE
  /\ asked' = NoThing

Click(t) ==
  /\ clicks < MaxClicks /\ clicks' = clicks + 1
  /\ t = pointer /\ t \in Handled
  /\ IF t \in Toggles /\ selected # NoThing /\ Uid(selected) = Uid(t) THEN Select(NoThing, NoThing)
     ELSE Select(t, ClickType(view, t))
  /\ UNCHANGED <<view, drawn, hover, gone>>

(* An entry of the feed or of the search.                                  *)
SelectFromList(t) ==
  /\ clicks < MaxClicks /\ clicks' = clicks + 1
  /\ t \in TrackThings \cap Things /\ Select(t, t)
  /\ UNCHANGED <<view, drawn, hover, gone>>

(* handleSetSelectedSatNorad() of the list of passes.                      *)
SelectPass ==
  /\ clicks < MaxClicks /\ clicks' = clicks + 1
  /\ view = "ORBITAL" /\ "satellite" \in Things
  /\ selected' = "satellite" /\ type' = "satellite" /\ asked' = NoThing
  /\ UNCHANGED <<view, drawn, hover, followed, history, gone>>

Close ==
  /\ selected # NoThing /\ Select(NoThing, NoThing)
  /\ UNCHANGED <<view, drawn, hover, clicks, gone>>

CenterMap ==
  /\ selected # NoThing /\ followed' = TRUE
  /\ UNCHANGED <<view, drawn, hover, selected, type, history, asked, clicks, gone>>

(* The user drags the map: onMove, or the frame after the grace period.    *)
Drag ==
  /\ followed /\ followed' = FALSE
  /\ UNCHANGED <<view, drawn, hover, selected, type, history, asked, clicks, gone>>

(* handleEntityLiveUpdate(): the frame finds the track with the uid of     *)
(* what is selected.                                                       *)
LiveUpdate(t) ==
  /\ t \in TrackThings \cap drawn /\ selected # NoThing /\ Uid(selected) = Uid(t)
  /\ IF type = t THEN selected' = t /\ type' = t ELSE UNCHANGED <<selected, type>>
  /\ UNCHANGED <<view, drawn, hover, followed, history, asked, clicks, gone>>

(* TrackHistoryPanel asks as soon as it is mounted, and its cleanup        *)
(* cancels.  A holding pattern asks for the track of its aircraft.         *)
AskHistory ==
  /\ asked = NoThing /\ HasHistory(selected) /\ asked' = selected
  /\ UNCHANGED <<view, drawn, hover, selected, type, followed, history, clicks, gone>>

HistoryAnswer ==
  /\ asked # NoThing /\ asked' = NoThing /\ history' = asked
  /\ UNCHANGED <<view, drawn, hover, selected, type, followed, clicks, gone>>

HistoryFails ==
  /\ asked # NoThing /\ asked' = NoThing
  /\ UNCHANGED <<view, drawn, hover, selected, type, followed, history, clicks, gone>>

(* The other map is mounted.  The effect of App.tsx clears the selection,  *)
(* and neither the history nor the mode.                                   *)
SwitchView(v) ==
  /\ v # view /\ view' = v
  /\ drawn' = InView(v)
  /\ pointer' = NoThing /\ last' = NoThing /\ hovered' = NoThing /\ placed' = FALSE
  /\ selected' = NoThing /\ type' = NoThing /\ asked' = NoThing
  /\ UNCHANGED <<followed, history, clicks, gone>>

PickInit ==
  /\ view \in Views /\ drawn = InView(view)
  /\ pointer = NoThing /\ last = NoThing /\ hovered = NoThing /\ placed = FALSE
  /\ selected = NoThing /\ type = NoThing /\ followed = FALSE /\ history = NoThing /\ asked = NoThing
  /\ clicks = 0 /\ gone = 0

PickNext ==
  \/ \E t \in Things \cup {NoThing} : MovePointer(t)
  \/ \E t \in Things : Vanish(t) \/ Click(t)
  \/ \E t \in TrackThings : LiveUpdate(t) \/ SelectFromList(t)
  \/ SelectPass \/ Close \/ CenterMap \/ Drag
  \/ AskHistory \/ HistoryAnswer \/ HistoryFails
  \/ \E v \in Views : SwitchView(v)

PickSpec == PickInit /\ [][PickNext]_pickVars

-----------------------------------------------------------------------------
(* Tooltip and panel take each thing a map can draw for what it is.  In    *)
(* the orbital map they do so for all but the ISS, whose marks its         *)
(* handlers do not know.                                                   *)
ShownAsWhatItIs ==
  \A t \in InView(view) \cap Handled :
    (t = "iss" => view = "TACTICAL") =>
      Tooltip(view, t) = Kind(t) /\ Panel(view, t) = Kind(t)

(* After the pointer moved, the tooltip is that of the thing under it, and *)
(* there is none over nothing; over something without a tooltip there is   *)
(* none, either, unless a layer was taken away under the pointer before.   *)
Shown(h, p) == IF p THEN h ELSE NoThing
TooltipStep ==
  pointer' # pointer /\ last' = pointer' =>
    IF pointer' \in Handled \cup {NoThing} THEN Shown(hovered', placed') = pointer'
    ELSE gone = 0 => Shown(hovered', placed') = NoThing

(* What is selected changes by what the user does, never by telemetry,     *)
(* even if two things share a uid.                                         *)
SelectionStep == selected' # selected => clicks' > clicks \/ selected' = NoThing

(* The track drawn behind an aircraft is its own, whatever was selected,   *)
(* asked for, and answered before.                                         *)
HistoryIsOfSelection == HasHistory(selected) /\ history # NoThing => history = selected

(* Tooltip and panel show each thing as what it is, with its own track.    *)
PickedIsTruthful == PickTypeOK /\ ShownAsWhatItIs /\ HistoryIsOfSelection

(* And both change by what the user does, and by nothing that comes late.  *)
PickingFollowsUser == [][TooltipStep /\ SelectionStep]_pickVars
=============================================================================
