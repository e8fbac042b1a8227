-------------------------------- MODULE Follow --------------------------------
(***************************************************************************)
(* Follow mode: the page asks for it (frontend/src/App.tsx), each map      *)
(* keeps a copy it can end at once (components/map/TacticalMap.tsx), and   *)
(* the frame loop moves the camera (hooks/useAnimationLoop.ts).            *)
(***************************************************************************)
EXTENDS Naturals

CONSTANTS
  Targets,    \* the tracks that can be selected
  Places,     \* where tracks and the camera can be, 0 is elsewhere
  MaxMoves    \* bound on moves of the tracks and deeds of the user

VARIABLES
  at,         \* where each track is drawn, 0: it is not
  selected,   \* selectedEntity, or none
  follow,     \* followMode, the state of the page
  ending,     \* setFollowMode(false) is not yet rendered
  following,  \* followModeRef
  grace,      \* less than three seconds since it was enabled
  touching,   \* a gesture is active
  easing,     \* a flight of the camera is under way, to this place
  camera,     \* the middle of the map
  taken,      \* the user moved the map since following was last asked for
  lost,       \* history: it was asked for before an end was rendered
  moves

vars == <<at, selected, follow, ending, following, grace, touching, easing, camera, taken, lost,
          moves>>

None == 0
Nothing == 99     \* no flight

TypeOK ==
  /\ at \in [Targets -> Places] /\ selected \in Targets \cup {None} /\ camera \in Places
  /\ {follow, following, grace, touching, taken, ending, lost} \subseteq BOOLEAN
  /\ easing \in Places \cup {Nothing} /\ moves \in 0..MaxMoves

Init ==
  /\ at \in [Targets -> Places] /\ selected = None /\ follow = FALSE /\ ending = FALSE
  /\ following = FALSE /\ grace = FALSE /\ touching = FALSE /\ easing = Nothing /\ camera = None
  /\ taken = FALSE /\ lost = FALSE /\ moves = 0

Move == moves < MaxMoves /\ moves' = moves + 1

(* Reports, the stale cleaners, replay: a track moves, goes or comes back. *)
TargetMoves ==
  /\ Move /\ \E t \in Targets, p \in Places : p # at[t] /\ at' = [at EXCEPT ![t] = p]
  /\ UNCHANGED <<selected, follow, ending, following, grace, touching, easing, camera, taken, lost>>

(* handleEntitySelect() ends following; choosing a pass does not.          *)
Select(t) ==
  /\ Move /\ t # selected /\ selected' = t /\ ending' = TRUE
  /\ UNCHANGED <<at, follow, following, grace, touching, easing, camera, taken, lost>>
SelectPass(t) ==
  /\ Move /\ t # selected /\ selected' = t
  /\ UNCHANGED <<at, follow, ending, following, grace, touching, easing, camera, taken, lost>>

(* The button renders at once: following begins, with a flight to the      *)
(* track.  Where an end was still to be rendered the state is TRUE before  *)
(* and after, and the copy of the map stays as it is.                      *)
CenterMap ==
  /\ selected # None /\ Move /\ follow' = TRUE /\ ending' = FALSE
  /\ following' = (following \/ ~ follow) /\ grace' = (grace \/ (~ follow /\ ~ following))
  /\ easing' = at[selected] /\ taken' = FALSE /\ lost' = (follow /\ ~ following)
  /\ UNCHANGED <<at, selected, touching, camera>>

(* The state is rendered, and the effect of a change copies it.            *)
Render ==
  /\ ending /\ ending' = FALSE /\ follow' = FALSE
  /\ following' = (IF follow THEN FALSE ELSE following) /\ lost' = FALSE
  /\ UNCHANGED <<at, selected, grace, touching, easing, camera, taken, moves>>

Touch ==
  /\ Move /\ touching' = ~ touching
  /\ UNCHANGED <<at, selected, follow, ending, following, grace, easing, camera, taken, lost>>

(* onMove() with an event of the user: no frame comes before it.           *)
UserMoves ==
  /\ touching /\ Move /\ camera' = None /\ easing' = Nothing /\ taken' = TRUE
  /\ following' = FALSE /\ ending' = (ending \/ following)
  /\ UNCHANGED <<at, selected, follow, grace, touching, lost>>

Centred(f) == IF f /\ selected # None /\ easing = Nothing /\ at[selected] # 0 THEN at[selected] ELSE camera

(* A frame: a gesture ends following after the grace, else the camera goes *)
(* where the followed track is drawn, unless it is still flying.           *)
Frame ==
  LET ends == touching /\ following /\ ~ grace IN
  /\ following' = (following /\ ~ ends) /\ ending' = (ends \/ ending)
  /\ camera' = Centred(following')
  /\ UNCHANGED <<at, selected, follow, grace, touching, easing, taken, lost, moves>>

Lands ==
  /\ easing # Nothing /\ camera' = easing /\ easing' = Nothing
  /\ UNCHANGED <<at, selected, follow, ending, following, grace, touching, taken, lost, moves>>

GraceEnds ==
  /\ grace /\ grace' = FALSE
  /\ UNCHANGED <<at, selected, follow, ending, following, touching, easing, camera, taken, lost, moves>>

(* Another view, with what was asked rendered: its map copies the state,   *)
(* without a grace.                                                        *)
SwitchView ==
  /\ Move /\ ~ ending /\ following' = follow /\ grace' = FALSE /\ touching' = FALSE
  /\ easing' = Nothing /\ camera' = None /\ selected' = None
  /\ UNCHANGED <<at, follow, ending, taken, lost>>

Next ==
  \/ TargetMoves \/ CenterMap \/ Render \/ Touch \/ UserMoves \/ Frame \/ Lands \/ GraceEnds
  \/ SwitchView \/ \E t \in Targets \cup {None} : Select(t) \/ SelectPass(t)

FollowFairness == WF_vars(Render) /\ WF_vars(Frame) /\ WF_vars(Lands) /\ WF_vars(GraceEnds)

Spec == Init /\ [][Next]_vars /\ FollowFairness

-----------------------------------------------------------------------------
(* Properties.                                                             *)

(* Once the user has moved the map, no frame takes it away, not even one   *)
(* that comes before the page has rendered, until following is asked for;  *)
(* unless it was asked for before an end of it was rendered: the page then *)
(* believes it follows, its map does not, and the map of another view      *)
(* copies what the page believes.                                          *)
UserWins == TypeOK /\ (taken /\ ~ lost => ~ following)

(* Why: while the page asks to follow and the map does not, an end is to   *)
(* be rendered, unless it was lost; and no map follows but for the page.   *)
FollowInv ==
  /\ UserWins
  /\ following => follow
  /\ follow /\ ~ following /\ ~ lost => ending

(* A track that is followed and drawn is in the middle of the map in the   *)
(* end, unless following ends, by the user, by a selection, or by a view.  *)
Follows(t, p) == following /\ selected = t /\ at[t] = p
There(t, p) == camera = p \/ ~ Follows(t, p)
Followed ==
  \A t \in Targets, p \in Places \ {0} : Follows(t, p) ~> There(t, p)
=============================================================================
