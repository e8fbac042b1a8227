----------------------------- MODULE MapFilters -----------------------------
(***************************************************************************)
(* What the maps show, and what the controls say they show                 *)
(* (frontend/src/hooks/useAppFilters.ts, useMissionHash.ts, widgets/       *)
(* LayerVisibilityControls.tsx, LayerFilters.tsx, FilterPresets.tsx,       *)
(* OrbitalCategoryPills.tsx, IntelFeed.tsx, layers/composition.ts,         *)
(* utils/filters.ts, filters/).                                            *)
(*                                                                         *)
(* A filter is on, off, or missing, and every reader decides for itself    *)
(* what a missing one means.  One choice is kept in up to five places: the *)
(* page, the saved filters, a preference per layer, a preference per view  *)
(* (the risk grid), and the hash of the page's address, which is written   *)
(* 250 ms late and which the camera writes too.  A reload reads some.      *)
(*                                                                         *)
(* The tables name every filter of the program; the state holds those of   *)
(* Keys, and the others stay at their defaults.  Values of filters that    *)
(* are numbers or lists (ranges, opacity, look-back, zone types) are left  *)
(* out, and so are wording and layout.                                     *)
(***************************************************************************)
EXTENDS Naturals, Sequences, FiniteSets

CONSTANTS
  Keys,      \* the filters in play
  Views,     \* the views of the page
  MaxMoves,  \* bound on camera positions, 0 for a page without a map
  MaxClicks, \* bound on clicks
  MaxLoads   \* bound on reloads

Values == {"on", "off", "unset"}
Switch(b) == IF b THEN "on" ELSE "off"

-----------------------------------------------------------------------------
(* The filters and their defaults.                                         *)

AirKinds == {"showHelicopter", "showMilitary", "showGovernment", "showCommercial",
             "showPrivate", "showDrone"}
SeaKinds == {"showCargo", "showTanker", "showPassenger", "showFishing",
             "showSeaMilitary", "showLawEnforcement", "showSar", "showTug",
             "showPleasure", "showHsc", "showPilot", "showSpecial"}
SatKinds == {"showSatGPS", "showSatWeather", "showSatComms", "showSatSurveillance",
             "showSatOther"}

Default(k) ==
  IF k \in AirKinds \cup SeaKinds \cup
           {"showAir", "showSea", "showSatGPS", "showSatSurveillance", "showSatOther",
            "showHam", "showNoaa", "showPublicSafety", "showOutages", "showISS",
            "showNWSAlerts", "showJamming", "showTerminator", "showHoldingPatterns",
            "showClusters", "showDarkVessels"} THEN "on"
  ELSE IF k \in {"showSatellites", "showSatWeather", "showSatComms", "showSatNOGS",
                 "showRepeaters", "rfEmcommOnly", "showCables", "showLandingStations",
                 "showTowers", "showIXPs", "showFacilities",
                 "showConstellation_Starlink", "showH3Coverage", "showH3Risk",
                 "showAurora", "showGdelt", "showGdeltLabels", "showAirspaceZones",
                 "showFIRMS"} THEN "off"
  ELSE "unset"

Defaults == [k \in Keys |-> Default(k)]
RiskOfView(v) == Switch(v = "INTEL")

VARIABLES
  filters,   \* the filters of the tactical and the intelligence view
  orbital,   \* orbitalSatFilters: those of the orbital view
  saved,     \* localStorage: mapFilters, or none
  prefs,     \* localStorage: pref_<key>
  riskPref,  \* localStorage: mapFilters:showH3Risk:<view>
  preset,    \* localStorage: one custom preset, or none
  view,      \* viewMode, saved with every change
  hash,      \* the address: where the camera is (0: no hash), layers
  pending,   \* the hash the debounce timer will write, or none
  memory,    \* memoryLat/Lon/Zoom and memoryLayers of this load of the page
  at,        \* where the camera is
  clicks,    \* clicks so far
  loads      \* reloads so far

vars == <<filters, orbital, saved, prefs, riskPref, preset, view, hash, pending,
          memory, at, clicks, loads>>

None == <<>>
Address == [at : 0..MaxMoves, layers : SUBSET Keys]

TypeOK ==
  /\ filters \in [Keys -> Values] /\ orbital \in [Keys -> Values]
  /\ saved = None \/ saved \in [Keys -> Values]
  /\ prefs \in [Keys -> Values] /\ riskPref \in [Views -> Values]
  /\ preset = None \/ preset \in [Keys -> Values]
  /\ view \in Views /\ hash \in Address /\ at \in 0..MaxMoves
  /\ pending = None \/ pending \in Address
  /\ memory.at \in 0..MaxMoves /\ memory.layers \subseteq Keys /\ memory.known \in BOOLEAN
  /\ clicks \in 0..MaxClicks /\ loads \in 0..MaxLoads

-----------------------------------------------------------------------------
(* How a switch reads its filter: these are shown as on unless off, all    *)
(* the others only if on.                                                  *)

RFSwitches == {"showHam", "showNoaa", "showPublicSafety"}
CableSwitches == {"showCables", "showLandingStations"}
NetworkSwitches == {}      \* outages, towers, exchanges
SiteSwitches == {"showISS"}  \* data centres, ISS, DNS roots
EnvironmentSwitches == {}
AnalysisSwitches == {}
HazardSwitches == {"showHoldingPatterns"}
AirSwitches == AirKinds
SeaSwitches == SeaKinds
SatSwitches == SatKinds

Checked(k, v) ==
  IF k \in RFSwitches \cup CableSwitches \cup NetworkSwitches \cup SiteSwitches \cup
           EnvironmentSwitches \cup AnalysisSwitches \cup HazardSwitches \cup
           AirSwitches \cup SeaSwitches \cup SatSwitches \cup {"showConstellation_Starlink"}
  THEN v # "off" ELSE v = "on"

(* How the composition of layers, and the builders, read them.             *)
ShadingLayers == {}          \* H3, terminator, aurora, outages, weather: only if on
InfraLayers == {"showCables", "showLandingStations", "showIXPs", "showFacilities"}
ZoneLayers == {}             \* buoys, jamming, dark vessels, fires, clusters, airspace
NewsLayers == {}             \* GDELT, clausal chains
IssLayer == {"showISS"}
HoldingLayer == {"showHoldingPatterns"}

DrawnUnlessOff == ShadingLayers \cup InfraLayers \cup ZoneLayers \cup NewsLayers \cup
                  IssLayer \cup HoldingLayer \cup AirKinds \cup SeaKinds \cup SatKinds \cup
                  RFSwitches \cup {"showConstellation_Starlink"}
Drawn(k, v) == IF k \in DrawnUnlessOff THEN v # "off" ELSE v = "on"

-----------------------------------------------------------------------------
(* The five groups with a switch of their own: their members, when the     *)
(* group counts as on, and what it turns on without a preference.          *)

Infra == {"showCables", "showLandingStations", "showOutages", "showTowers", "showIXPs",
          "showFacilities", "showISS", "showDnsRoot"}
Environment == {"showAurora", "showBuoys", "showNWSAlerts", "showFIRMS", "showDarkVessels"}
Analysis == {"showH3Risk", "showClusters", "showClausalChains"}
Hazards == {"showJamming", "showHoldingPatterns", "showAirspaceZones"}
Groups == {Infra, Environment, Analysis, Hazards}

GroupIsOn(g) ==
  \E k \in g \cap Keys :
     IF k \in {"showCables", "showLandingStations", "showHoldingPatterns"}
     THEN filters[k] # "off" ELSE filters[k] = "on"

Preferred == {"showCables", "showOutages", "showISS", "showAurora", "showBuoys",
              "showNWSAlerts", "showDarkVessels", "showClusters", "showJamming",
              "showHoldingPatterns"}
Pref(k) == IF prefs[k] = "unset" THEN Switch(k \in Preferred) ELSE prefs[k]

AfterToggle(g) ==
  [k \in g \cap Keys |-> IF GroupIsOn(g) THEN "off" ELSE Pref(k)]

-----------------------------------------------------------------------------
(* The hash.  What is not given is taken from the address, not from what   *)
(* waits to be written to it.                                              *)

LayersOf(f) == {k \in Keys : f[k] = "on" /\ k # "rfEmcommOnly"}

Written(new) ==
  pending' = IF new.at > 0 /\ new # hash THEN new ELSE pending

FiltersToHash(f) ==
  LET nextAt == IF hash.at > 0 THEN hash.at ELSE memory.at IN
  /\ memory' = [at |-> nextAt, layers |-> LayersOf(f), known |-> TRUE]
  /\ Written([at |-> nextAt, layers |-> LayersOf(f)])

CameraToHash(pos) ==
  LET layers == IF memory.known /\ hash.layers = {} THEN memory.layers ELSE hash.layers IN
  /\ memory' = [memory EXCEPT !.at = pos]
  /\ Written([at |-> pos, layers |-> layers])

-----------------------------------------------------------------------------
(* One change, or several made by one click: the effect that writes the    *)
(* hash runs once, before the next event.                                  *)
Assign(f) ==
  /\ filters' = [k \in Keys |-> IF k \in DOMAIN f THEN f[k] ELSE filters[k]]
  /\ saved' = IF DOMAIN f = {} THEN saved ELSE filters'
  /\ riskPref' = IF "showH3Risk" \in DOMAIN f
                 THEN [riskPref EXCEPT ![view] = f["showH3Risk"]] ELSE riskPref
  /\ IF filters' = filters THEN UNCHANGED <<memory, pending>> ELSE FiltersToHash(filters')

Click ==
  /\ clicks < MaxClicks /\ clicks' = clicks + 1
  /\ UNCHANGED <<view, hash, at, loads>>

(* A switch of the layer panel keeps a preference; those of the feed, the  *)
(* track types, the radio services and the risk button do not.             *)
SubSwitch(k) ==
  /\ Click /\ k \in UNION Groups
  /\ Assign([j \in {k} |-> Switch(~Checked(k, filters[k]))])
  /\ prefs' = [prefs EXCEPT ![k] = Switch(~Checked(k, filters[k]))]
  /\ UNCHANGED <<orbital, preset>>

PlainSwitch(k) ==
  /\ Click /\ k \notin UNION Groups \ {"showH3Risk"}
  /\ Assign([j \in {k} |-> Switch(~Checked(k, filters[k]))])
  /\ UNCHANGED <<orbital, prefs, preset>>

ToggleGroup(g) ==
  /\ Click /\ g \cap Keys # {}
  /\ Assign(AfterToggle(g))
  /\ UNCHANGED <<orbital, prefs, preset>>

OrbitalKeys == SatKinds \cup {"showSatNOGS", "showAurora", "showJamming",
                              "showConstellation_Starlink"}
OrbitalDefault(k) == IF k \in OrbitalKeys \ {"showSatWeather", "showConstellation_Starlink"}
                     THEN "on" ELSE IF k \in OrbitalKeys THEN "off" ELSE "unset"

OrbitalSwitch(k) ==
  /\ Click /\ view = "ORBITAL" /\ k \in OrbitalKeys
  /\ orbital' = [orbital EXCEPT ![k] = Switch(~Checked(k, @))]
  /\ UNCHANGED <<filters, saved, prefs, riskPref, preset, memory, pending>>

(* What the orbital view draws: no tracks, always satellites, its own      *)
(* filters, and the rest of the others'.                                   *)
OrbitalFilters ==
  [k \in Keys |->
     IF k \in AirKinds \cup SeaKinds \cup {"showAir", "showSea", "showRepeaters",
              "showCables", "showLandingStations", "showOutages"} THEN "off"
     ELSE IF k = "showSatellites" THEN "on"
     ELSE IF k \in OrbitalKeys THEN orbital[k] ELSE filters[k]]

-----------------------------------------------------------------------------
(* Presets know some of the filters, and leave the others alone.           *)
PresetKeys == AirKinds \cup SeaKinds \cup SatKinds \cup
  {"showAir", "showSea", "showSatellites", "showConstellation_Starlink", "showRepeaters",
   "showHam", "showNoaa", "showPublicSafety", "showCables", "showLandingStations",
   "showOutages", "showTowers", "showAurora", "showJamming", "showGdelt",
   "showGdeltLabels", "showSatNOGS", "showH3Coverage", "showTerminator"}

SatellitePreset == SatKinds \cup {"showSatellites", "showConstellation_Starlink", "showSatNOGS"}
Presets == {AirKinds \cup {"showAir"}, SeaKinds \cup {"showSea"}, SatellitePreset,
            PresetKeys \ SatellitePreset, PresetKeys, {}}

Changed(wanted, ks) ==
  [k \in {k \in ks : filters[k] # wanted[k]} |-> wanted[k]]

ApplyPreset(p) ==
  /\ Click
  /\ Assign(Changed([k \in Keys |-> Switch(k \in p)], PresetKeys \cap Keys))
  /\ UNCHANGED <<orbital, prefs, preset>>

SaveCustomPreset ==
  /\ Click /\ preset' = filters
  /\ UNCHANGED <<filters, orbital, saved, prefs, riskPref, memory, pending>>

ApplyCustomPreset ==
  /\ Click /\ preset # None
  /\ Assign(Changed(preset, {k \in Keys : preset[k] # "unset"}))
  /\ UNCHANGED <<orbital, prefs, preset>>

-----------------------------------------------------------------------------
(* Views, camera, reload.                                                  *)

RiskWanted(v) == IF riskPref[v] = "unset" THEN RiskOfView(v) ELSE riskPref[v]

WithRisk(f, v) == [k \in Keys |-> IF k = "showH3Risk" THEN RiskWanted(v) ELSE f[k]]

SwitchView(v) ==
  /\ v # view /\ view' = v
  /\ filters' = WithRisk(filters, v)
  /\ IF filters' = filters THEN UNCHANGED <<saved, memory, pending>>
     ELSE saved' = filters' /\ FiltersToHash(filters')
  /\ UNCHANGED <<orbital, prefs, riskPref, preset, hash, at, clicks, loads>>

MoveCamera ==
  /\ view \notin {"RADIO", "DASHBOARD"} /\ at < MaxMoves
  /\ at' = at + 1 /\ CameraToHash(at')
  /\ UNCHANGED <<filters, orbital, saved, prefs, riskPref, preset, view, hash, clicks, loads>>

WriteHash ==
  /\ pending # None /\ hash' = pending /\ pending' = None
  /\ UNCHANGED <<filters, orbital, saved, prefs, riskPref, preset, view, memory, at, clicks, loads>>

(* A hash with layers is believed; only the five kinds of tracks and lines *)
(* it does not name are turned off, and a filter without a default cannot  *)
(* be turned on.  Otherwise the saved filters count.                       *)
HashSwitchesOff == {"showAir", "showSea", "showSatellites", "showRepeaters", "showCables"}
(* Slip: a filter the hash names gets its default.                         *)
FromHashSlip(layers) ==
  [k \in Keys |-> IF k \in HashSwitchesOff \ layers THEN "off" ELSE Default(k)]
FromHash(layers) ==
  [k \in Keys |-> IF k \in layers /\ Default(k) # "unset" THEN "on"
                  ELSE IF k \in HashSwitchesOff THEN "off" ELSE Default(k)]
FromSaved ==
  [k \in Keys |-> IF (k = "showFIRMS" /\ prefs[k] = "unset") \/ saved[k] = "unset"
                  THEN Default(k) ELSE saved[k]]
Loaded(a) ==
  WithRisk(IF a.layers # {} THEN FromHash(a.layers)
           ELSE IF saved # None THEN FromSaved ELSE Defaults, view)

(* The timer dies with the page.  The first effects write to the hash.     *)
Reload ==
  /\ loads < MaxLoads /\ loads' = loads + 1
  /\ filters' = Loaded(hash)
  /\ memory' = [at |-> hash.at, layers |-> LayersOf(filters'), known |-> TRUE]
  /\ pending' = IF hash.at > 0 /\ LayersOf(filters') # hash.layers
                THEN [at |-> hash.at, layers |-> LayersOf(filters')] ELSE None
  /\ at' = hash.at
  /\ UNCHANGED <<orbital, saved, prefs, riskPref, preset, view, hash, clicks>>

(* A first visit, perhaps by an address somebody shared.                   *)
Init ==
  /\ view \in Views
  /\ hash \in {a \in Address : a.at = 0 => a.layers = {}} /\ hash.at <= 1
  /\ at = hash.at
  /\ saved = None /\ preset = None /\ clicks = 0 /\ loads = 0
  /\ prefs = [k \in Keys |-> "unset"] /\ riskPref = [v \in Views |-> "unset"]
  /\ orbital = [k \in Keys |-> OrbitalDefault(k)]
  /\ filters = Loaded(hash)
  /\ memory = [at |-> hash.at, layers |-> LayersOf(filters), known |-> TRUE]
  /\ pending = IF hash.at > 0 /\ LayersOf(filters) # hash.layers
               THEN [at |-> hash.at, layers |-> LayersOf(filters)] ELSE None

Next ==
  \/ \E k \in Keys : SubSwitch(k) \/ PlainSwitch(k) \/ OrbitalSwitch(k)
  \/ \E g \in Groups : ToggleGroup(g)
  \/ \E p \in Presets : ApplyPreset(p)
  \/ SaveCustomPreset \/ ApplyCustomPreset
  \/ \E v \in Views : SwitchView(v)
  \/ MoveCamera \/ WriteHash \/ Reload

Spec == Init /\ [][Next]_vars

-----------------------------------------------------------------------------
(* The event feed and the map apply two copies of the filters of tracks.   *)

F(k) == IF k \in Keys THEN filters[k] ELSE Default(k)

Platforms == {"helicopter", "drone", "uav", "plane"}
Affiliations == {"military", "government", "commercial", "general_aviation", "other"}
Aircraft == [platform : Platforms, of : Affiliations]
Ships == {"cargo", "tanker", "passenger", "fishing", "military", "law_enforcement",
          "sar", "tug", "pleasure", "hsc", "pilot", "special", "unknown", "other"}

MapShowsAircraft(c) ==
  /\ F("showAir") = "on"
  /\ IF c.platform = "helicopter" THEN F("showHelicopter") # "off"
     ELSE IF c.platform \in {"drone", "uav"} THEN F("showDrone") # "off"
     ELSE /\ c.of = "military" => F("showMilitary") # "off"
          /\ c.of = "government" => F("showGovernment") # "off"
          /\ c.of = "commercial" => F("showCommercial") # "off"
          /\ c.of = "general_aviation" => F("showPrivate") # "off"

ShipFilter ==
  [cargo |-> "showCargo", tanker |-> "showTanker", passenger |-> "showPassenger",
   fishing |-> "showFishing", military |-> "showSeaMilitary",
   law_enforcement |-> "showLawEnforcement", sar |-> "showSar", tug |-> "showTug",
   pleasure |-> "showPleasure", hsc |-> "showHsc", pilot |-> "showPilot",
   special |-> "showSpecial", unknown |-> "showSpecial", other |-> "showSea"]
MapShowsShip(c) == F("showSea") = "on" /\ F(ShipFilter[c]) # "off"

FeedShowsAircraft(c) ==
  /\ F("showAir") = "on"
  /\ c.platform = "helicopter" => F("showHelicopter") # "off"
  /\ c.platform \in {"drone", "uav"} => F("showDrone") # "off"
  /\ c.platform \notin {"helicopter", "drone", "uav"} =>
       ~\E a \in {<<"military", "showMilitary">>, <<"government", "showGovernment">>,
                  <<"commercial", "showCommercial">>, <<"general_aviation", "showPrivate">>} :
            c.of = a[1] /\ F(a[2]) = "off"

FeedShowsShip(c) ==
  /\ F("showSea") = "on"
  /\ ~\E s \in Ships : c = s /\ s # "other" /\ F(ShipFilter[s]) = "off"

-----------------------------------------------------------------------------
(* A switch is shown as on exactly if its layer is drawn, although a       *)
(* missing filter is read in two ways.                                     *)
SwitchShowsLayer ==
  \A k \in Keys \ {"showTerminator"} :
     /\ Checked(k, filters[k]) = Drawn(k, filters[k])
     /\ k \in OrbitalKeys => Checked(k, orbital[k]) = Drawn(k, orbital[k])

(* The switch of a group is lit exactly if one of its layers is drawn.     *)
GroupIsTruthful ==
  \A g \in Groups : GroupIsOn(g) <=> \E k \in g \cap Keys : Drawn(k, filters[k])

(* The risk grid is what was last chosen in this view, whatever switch,    *)
(* group or preset chose it, and whatever was chosen elsewhere.            *)
RiskFollowsView == "showH3Risk" \in Keys => filters["showH3Risk"] = RiskWanted(view)

(* Map and feed agree on which aircraft and ships are shown.               *)
FeedAgreesWithMap ==
  /\ \A c \in Aircraft : MapShowsAircraft(c) = FeedShowsAircraft(c)
  /\ \A c \in Ships : MapShowsShip(c) = FeedShowsShip(c)

(* A reload at an address that is up to date keeps every layer that is on, *)
(* of those that have a default.  The choice of emergency services only is *)
(* no layer, and not in the address.                                       *)
UpToDate == hash.at > 0 /\ pending = None /\ hash.layers = LayersOf(filters)
ReloadKeeps ==
  loads' > loads /\ UpToDate =>
    \A k \in Keys \ {"rfEmcommOnly"} :
      filters[k] = "on" /\ Default(k) # "unset" => filters'[k] = "on"

=============================================================================
