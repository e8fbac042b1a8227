------------------------------ MODULE MapCamera ------------------------------
(***************************************************************************)
(* Globe, basemap and 3D of a map view (frontend/src/hooks/useMapCamera.ts *)
(* and useMapBase.ts).  The globe and the flat map are two maps, built one *)
(* after the other; effects of React change the map at once when its style *)
(* and tiles are loaded, and otherwise wait for a load of the style.       *)
(***************************************************************************)
EXTENDS Naturals, Sequences

CONSTANTS
  MaxChanges  \* bound on what the operator changes

VARIABLES
  tactical,   \* TacticalMap or OrbitalMap
  token,      \* a valid Mapbox token
  globe, style, enable3d,   \* globeMode, mapStyleMode, enable3d
  loaded,     \* mapLoaded
  map,        \* the map, or NoMap until it is built
  heard,      \* the closures that listen to style.load, by effect
  timers,     \* closures of sync3D() due in a timeout
  missed,     \* what an effect left to a load of the style
  changes

vars == <<tactical, token, globe, style, enable3d, loaded, map, heard, timers, missed, changes>>

Styles == {"dark", "satellite"}
Closures == [globe : BOOLEAN, style : Styles, d3 : BOOLEAN]
NoMap == [idle |-> FALSE, reloading |-> FALSE, lines |-> "none", terrain |-> FALSE, built |-> FALSE]
Silence == [once |-> <<>>, lines |-> <<>>, sync |-> <<>>]

TypeOK ==
  /\ {tactical, token, globe, enable3d, loaded} \subseteq BOOLEAN /\ style \in Styles
  /\ map \in [idle : BOOLEAN, reloading : BOOLEAN, lines : Styles \cup {"none"}, terrain : BOOLEAN,
              built : BOOLEAN]
  /\ \A k \in DOMAIN heard : \A i \in DOMAIN heard[k] : heard[k][i] \in Closures
  /\ \A i \in DOMAIN timers : timers[i] \in Closures
  /\ missed \subseteq {"flight", "lines", "terrain"}
  /\ changes \in 0..MaxChanges

Init ==
  /\ tactical \in BOOLEAN /\ token \in BOOLEAN /\ globe \in BOOLEAN /\ style = "dark"
  /\ enable3d = FALSE /\ loaded = FALSE /\ map = NoMap /\ heard = Silence /\ timers = <<>>
  /\ missed = {} /\ changes = 0

Change == changes < MaxChanges /\ changes' = changes + 1
Now == [globe |-> globe, style |-> style, d3 |-> enable3d]

(* add() and remove().                                                     *)
Graticule(c) == IF c.globe THEN c.style ELSE "none"
(* Terrain is of Mapbox, and Mapbox shows no globe.                        *)
Mapbox(c) == token /\ ~ c.globe
Terrain(c, before) == IF ~ c.d3 THEN FALSE ELSE Mapbox(c) \/ before

(* The key of the map changes: it is built anew.  TacticalMap goes back to *)
(* the dark style, OrbitalMap keeps the one it has.                        *)
ToggleGlobe ==
  /\ Change /\ globe' = ~ globe /\ style' = (IF tactical /\ globe THEN "dark" ELSE style)
  /\ loaded' = FALSE /\ map' = NoMap /\ heard' = Silence /\ timers' = <<>> /\ missed' = {}
  /\ UNCHANGED <<tactical, token, enable3d>>

(* handleMapLoad(), and the three effects.  Style and tiles are loaded, or *)
(* tiles are under way again when the effects run: then the projection and *)
(* the lines wait for a style.load, and the last one has been.  With the   *)
(* projection 3D ends, and its effect runs twice.                          *)
MapLoads ==
  /\ ~ map.built /\ loaded' = TRUE
  /\ \E idle \in BOOLEAN :
       LET flat == idle /\ globe IN
       LET after == [Now EXCEPT !.d3 = enable3d /\ ~ flat] IN
       /\ enable3d' = after.d3
       /\ map' = [map EXCEPT !.built = TRUE, !.idle = idle,
                             !.lines = IF idle THEN Graticule(Now) ELSE @]
       /\ heard' = [once |-> IF idle THEN <<>> ELSE <<Now>>, lines |-> <<Now>>, sync |-> <<after>>]
       /\ timers' = (IF ~ idle THEN <<>> ELSE IF after = Now THEN <<Now>> ELSE <<Now, after>>)
       /\ missed' = (IF idle THEN {} ELSE {"flight", "lines", "terrain"})
  /\ UNCHANGED <<tactical, token, globe, style, changes>>

(* The effects of a change of style: the listeners are replaced, and wait. *)
Rewire == heard' = [heard EXCEPT !.lines = <<Now'>>, !.sync = <<Now'>>]

(* The picker of styles, on the globe only.                                *)
SetStyleMode ==
  /\ globe /\ Change /\ \E s \in Styles \ {style} : style' = s
  /\ UNCHANGED <<tactical, token, globe, enable3d, loaded, timers, missed>>
  /\ IF map.built
     THEN Rewire /\ map' = [map EXCEPT !.idle = FALSE, !.reloading = TRUE, !.lines = "none",
                                      !.terrain = FALSE]
     ELSE UNCHANGED <<map, heard>>

(* style.load: who waited once, then the listeners of the effects.         *)
StyleLoads ==
  /\ map.reloading
  /\ LET flat == \E i \in DOMAIN heard.once : heard.once[i].globe
         after == [Now EXCEPT !.d3 = enable3d /\ ~ flat]
         sync == heard.sync[Len(heard.sync)]
         lines == heard.lines[Len(heard.lines)]
         synced == Terrain(sync, map.terrain) IN
     /\ enable3d' = after.d3
     /\ map' = [map EXCEPT !.reloading = FALSE, !.idle = TRUE, !.lines = Graticule(lines),
                           !.terrain = IF after = Now THEN synced ELSE Terrain(after, synced)]
     /\ heard' = [heard EXCEPT !.once = <<>>, !.sync = <<after>>]
  /\ missed' = {}
  /\ UNCHANGED <<tactical, token, globe, style, loaded, timers, changes>>

(* setViewMode(), whose buttons the globe hides: the effect runs when the  *)
(* switch changed.                                                         *)
SetViewMode(on) ==
  /\ ~ globe /\ map.built /\ on # enable3d /\ Change /\ enable3d' = on
  /\ heard' = [heard EXCEPT !.sync = <<[Now EXCEPT !.d3 = on]>>]
  /\ timers' = (IF map.idle THEN Append(timers, [Now EXCEPT !.d3 = on]) ELSE timers)
  /\ missed' = (IF map.idle THEN missed \ {"terrain"} ELSE missed \cup {"terrain"})
  /\ UNCHANGED <<tactical, token, globe, style, loaded, map>>

Sync3D ==
  /\ timers # <<>> /\ timers' = Tail(timers)
  /\ map' = [map EXCEPT !.terrain = Terrain(Head(timers), @)]
  /\ UNCHANGED <<tactical, token, globe, style, enable3d, loaded, heard, missed, changes>>

(* isStyleLoaded() is false while tiles come in after every move.          *)
Tiles ==
  /\ map.built /\ ~ map.reloading /\ map' = [map EXCEPT !.idle = ~ @]
  /\ UNCHANGED <<tactical, token, globe, style, enable3d, loaded, heard, timers, missed, changes>>

Next ==
  \/ ToggleGlobe \/ MapLoads \/ SetStyleMode \/ StyleLoads \/ Sync3D \/ Tiles
  \/ \E on \in BOOLEAN : SetViewMode(on)

Spec == Init /\ [][Next]_vars

-----------------------------------------------------------------------------
(* Properties.                                                             *)

(* Whoever hears a load of the style is the effect of what is chosen now,  *)
(* once; and where no effect found tiles under way, the map shows what is  *)
(* chosen: the lines of the globe in the colour of its style, the terrain  *)
(* of 3D, and no 3D on the globe.                                          *)
MapShowsChoice ==
  /\ TypeOK
  /\ map.built => loaded /\ heard.sync = <<Now>>
                  /\ Len(heard.lines) = 1 /\ heard.lines[1].globe = globe
                  /\ heard.lines[1].style = style
  /\ (map.built /\ ~ map.reloading /\ timers = <<>>) =>
       /\ "lines" \notin missed => map.lines = Graticule(Now)
       /\ "terrain" \notin missed => map.terrain = (enable3d /\ token /\ ~ globe)
       /\ "flight" \notin missed => ~ (globe /\ enable3d)
=============================================================================
