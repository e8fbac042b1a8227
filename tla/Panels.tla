-------------------------------- MODULE Panels --------------------------------
(***************************************************************************)
(* The panels of the page: the radio with its listening post, the layout,  *)
(* accounts, saved missions, the watchlist, the style of the map, and the  *)
(* filters.                                                                *)
(*                                                                         *)
(* They share no state: what one does changes nothing for the others, so   *)
(* a behaviour has one of them, and the interleavings are those within it. *)
(* The variables hold that panel, in the order in which its module         *)
(* declares its own; those it has no use for are 0.                        *)
(***************************************************************************)
EXTENDS Naturals

CONSTANTS
  Hosts, Freqs, Gains, MaxSent, MaxEvents,                     \* Radio
  Knobs, MaxSettings,                                          \* Panel
  MaxSockets, MaxEffects, MaxBreaks,                           \* Listen
  Articles, MaxSteps,                                          \* Hud
  People, Administrators, MaxRequests,                         \* Accounts
  Tabs, MaxSaved, Nearest, Farthest, Start, MaxEdits,          \* SavedMissions
  Airframes, Operators, Ttl, MaxDays, MaxCalls,                 \* Watchlist
  MaxStyles,                                                   \* MapCamera
  Filters, PageViews, MaxPans, MaxClicks, MaxReloads            \* MapFilters

ASSUME PanelsAssumption ==
  /\ {MaxSent, MaxEvents, MaxSettings, MaxSockets, MaxEffects, MaxBreaks, MaxSteps} \subseteq Nat
  /\ {MaxRequests, MaxSaved, Nearest, Farthest, MaxEdits, Ttl, MaxDays, MaxCalls} \subseteq Nat
  /\ {MaxStyles, MaxPans, MaxClicks, MaxReloads} \subseteq Nat
  /\ 0 \notin Hosts /\ 0 \in Gains /\ 99 \notin Freqs \cup Gains
  /\ 0 \in Knobs /\ 0 \notin Articles
  /\ Administrators \subseteq People /\ Administrators # {}
  /\ Start \in Nearest..Farthest /\ 0 \notin Tabs

VARIABLES
  panel,
  p1, p2, p3, p4, p5, p6, p7, p8, p9, p10, p11, p12, p13, p14, p15, p16, p17, p18, p19, p20,
  p21, p22

panelsVars ==
  <<panel, p1, p2, p3, p4, p5, p6, p7, p8, p9, p10, p11, p12, p13, p14, p15, p16, p17, p18, p19,
    p20, p21, p22>>

Link == INSTANCE Radio WITH
  link <- p1, linked <- p2, known <- p3, rxGain <- p4, joining <- p5, tuning <- p6,
  gaining <- p7, queue <- p8, up <- p9, down <- p10, socket <- p11, config <- p12,
  locked <- p13, post <- p14, local <- p15, synced <- p16, gain <- p17, stopping <- p18,
  silent <- p19, missed <- p20, sent <- p21, events <- p22

Settings == INSTANCE Panel WITH
  MaxChanges <- MaxSettings, linked <- p1, shown <- p2, told <- p3, own <- p4,
  changes <- p5

Stream == INSTANCE Listen WITH
  Kinds <- {"sound", "waterfall"}, MaxRuns <- MaxEffects,
  kind <- p1, active <- p2, run <- p3, socks <- p4, current <- p5, timer <- p6, ready <- p7,
  playing <- p8, breaks <- p9

Layout == INSTANCE Hud WITH
  view <- p1, compact <- p2, panel <- p3, tools <- p4,
  menus <- p5, selected <- p6, analyst <- p7, article <- p8, content <- p9, fetching <- p10,
  loading <- p11, resized <- p12, steps <- p13

Admin == INSTANCE Accounts WITH
  Users <- People, Panels <- Administrators, accounts <- p1, requests <- p2,
  list <- p3, loading <- p4, creating <- p5, raced <- p6, asked <- p7

Missions == INSTANCE SavedMissions WITH
  Pages <- Tabs, operator <- p1, saved <- p2, disk <- p3, writer <- p4, form <- p5, made <- p6, edits <- p7

Watch == INSTANCE Watchlist WITH
  Craft <- Airframes, Panels <- Operators, MaxTime <- MaxDays, MaxAsks <- MaxCalls, now <- p1,
  expiry <- p2, asks <- p3, shown <- p4, loading <- p5, adding <- p6, crossed <- p7,
  changed <- p8, asked <- p9

Style == INSTANCE MapCamera WITH
  MaxChanges <- MaxStyles, tactical <- p1, token <- p2, globe <- p3, style <- p4, enable3d <- p5,
  loaded <- p6, map <- p7, heard <- p8, timers <- p9, missed <- p10, changes <- p11

Layers == INSTANCE MapFilters WITH
  Keys <- Filters, Views <- PageViews, MaxMoves <- MaxPans, MaxLoads <- MaxReloads,
  filters <- p1, orbital <- p2, saved <- p3, prefs <- p4, riskPref <- p5, preset <- p6,
  view <- p7, hash <- p8, pending <- p9, memory <- p10, at <- p11, clicks <- p12,
  loads <- p13

-----------------------------------------------------------------------------
PanelsInit ==
  \/ /\ panel = "radio" /\ Link!Init
  \/ /\ panel = "panel" /\ Settings!Init
     /\ p6 = 0 /\ p7 = 0 /\ p8 = 0 /\ p9 = 0 /\ p10 = 0 /\ p11 = 0 /\ p12 = 0 /\ p13 = 0
     /\ p14 = 0 /\ p15 = 0 /\ p16 = 0 /\ p17 = 0 /\ p18 = 0 /\ p19 = 0 /\ p20 = 0 /\ p21 = 0
     /\ p22 = 0
  \/ /\ panel = "listen" /\ Stream!Init
     /\ p10 = 0 /\ p11 = 0 /\ p12 = 0 /\ p13 = 0 /\ p14 = 0 /\ p15 = 0 /\ p16 = 0 /\ p17 = 0
     /\ p18 = 0 /\ p19 = 0 /\ p20 = 0 /\ p21 = 0 /\ p22 = 0
  \/ /\ panel = "hud" /\ Layout!Init
     /\ p14 = 0 /\ p15 = 0 /\ p16 = 0 /\ p17 = 0 /\ p18 = 0 /\ p19 = 0 /\ p20 = 0 /\ p21 = 0
     /\ p22 = 0
  \/ /\ panel = "accounts" /\ Admin!Init
     /\ p8 = 0 /\ p9 = 0 /\ p10 = 0 /\ p11 = 0 /\ p12 = 0 /\ p13 = 0 /\ p14 = 0 /\ p15 = 0
     /\ p16 = 0 /\ p17 = 0 /\ p18 = 0 /\ p19 = 0 /\ p20 = 0 /\ p21 = 0 /\ p22 = 0
  \/ /\ panel = "saved" /\ Missions!Init
     /\ p8 = 0 /\ p9 = 0 /\ p10 = 0 /\ p11 = 0 /\ p12 = 0 /\ p13 = 0 /\ p14 = 0 /\ p15 = 0
     /\ p16 = 0 /\ p17 = 0 /\ p18 = 0 /\ p19 = 0 /\ p20 = 0 /\ p21 = 0 /\ p22 = 0
  \/ /\ panel = "watchlist" /\ Watch!Init
     /\ p10 = 0 /\ p11 = 0 /\ p12 = 0 /\ p13 = 0 /\ p14 = 0 /\ p15 = 0 /\ p16 = 0 /\ p17 = 0
     /\ p18 = 0 /\ p19 = 0 /\ p20 = 0 /\ p21 = 0 /\ p22 = 0
  \/ /\ panel = "camera" /\ Style!Init
     /\ p12 = 0 /\ p13 = 0 /\ p14 = 0 /\ p15 = 0 /\ p16 = 0 /\ p17 = 0 /\ p18 = 0 /\ p19 = 0
     /\ p20 = 0 /\ p21 = 0 /\ p22 = 0
  \/ /\ panel = "filters" /\ Layers!Init
     /\ p14 = 0 /\ p15 = 0 /\ p16 = 0 /\ p17 = 0 /\ p18 = 0 /\ p19 = 0 /\ p20 = 0 /\ p21 = 0
     /\ p22 = 0

PanelsNext ==
  /\ UNCHANGED panel
  /\ \/ /\ panel = "radio" /\ Link!Next
     \/ /\ panel = "panel" /\ Settings!Next
        /\ UNCHANGED <<p6, p7, p8, p9, p10, p11, p12, p13, p14, p15, p16, p17, p18, p19,
                        p20, p21, p22>>
     \/ /\ panel = "listen" /\ Stream!Next
        /\ UNCHANGED <<p10, p11, p12, p13, p14, p15, p16, p17, p18, p19, p20, p21, p22>>
     \/ /\ panel = "hud" /\ Layout!Next
        /\ UNCHANGED <<p14, p15, p16, p17, p18, p19, p20, p21, p22>>
     \/ /\ panel = "accounts" /\ Admin!Next
        /\ UNCHANGED <<p8, p9, p10, p11, p12, p13, p14, p15, p16, p17, p18, p19, p20, p21,
                        p22>>
     \/ /\ panel = "saved" /\ Missions!Next
        /\ UNCHANGED <<p8, p9, p10, p11, p12, p13, p14, p15, p16, p17, p18, p19, p20, p21,
                        p22>>
     \/ /\ panel = "watchlist" /\ Watch!Next
        /\ UNCHANGED <<p10, p11, p12, p13, p14, p15, p16, p17, p18, p19, p20, p21, p22>>
     \/ /\ panel = "camera" /\ Style!Next
        /\ UNCHANGED <<p12, p13, p14, p15, p16, p17, p18, p19, p20, p21, p22>>
     \/ /\ panel = "filters" /\ Layers!Next
        /\ UNCHANGED <<p14, p15, p16, p17, p18, p19, p20, p21, p22>>

PanelsSpec == PanelsInit /\ [][PanelsNext]_panelsVars

-----------------------------------------------------------------------------
(* Properties: what the modules say of the panels.                         *)

(* What is shown is what is the case, or what was chosen: the link and the *)
(* settings of the receiver, once everything said has been heard; a filter *)
(* that was told to it; one stream of sound and of the waterfall; one      *)
(* drawer, tool or menu at a time; the style of the map; the layers whose  *)
(* switches are on, and the tracks of the filters.                         *)
ShownIsTrue ==
  /\ panel = "radio" => Link!TypeOK /\ Link!ShownIsLinked /\ Link!PostIsTruthful
  /\ panel = "panel" => Settings!TypeOK /\ Settings!FiltersAsShown
  /\ panel = "listen" => Stream!TypeOK /\ Stream!OneStream
  /\ panel = "hud" => Layout!TypeOK /\ Layout!OneSurface /\ Layout!ShownTogether
  /\ panel = "camera" => Style!MapShowsChoice
  /\ panel = "filters" => /\ Layers!TypeOK /\ Layers!SwitchShowsLayer /\ Layers!GroupIsTruthful
                          /\ Layers!RiskFollowsView /\ Layers!FeedAgreesWithMap

(* Lists that several pages or sources write stay usable: somebody remains *)
(* who can administer the accounts, unless changes raced; the saved        *)
(* missions are in order and within bounds; a panel shows the watchlist,   *)
(* unless its own requests crossed.                                        *)
SharedListsAreWhole ==
  /\ panel = "accounts" => Admin!TypeOK /\ Admin!AnAdminRemains
  /\ panel = "saved" => Missions!ListsAreWhole
  /\ panel = "watchlist" => Watch!TypeOK /\ Watch!PanelsShowList

(* A reload at an address that is up to date keeps every layer that is on, *)
(* of those that have a default.                                           *)
ReloadKeepsShown == [][panel = "filters" => Layers!ReloadKeeps]_panelsVars
=============================================================================
