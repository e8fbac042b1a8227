-------------------------------- MODULE Page --------------------------------
(***************************************************************************)
(* The parts of the page in which something under way has to end: the      *)
(* session, replay, the analyst, the tracker of the space station, the     *)
(* search, the assessments, the camera that follows.                       *)
(*                                                                         *)
(* They share no state: what one does changes nothing for the others, so   *)
(* a behaviour has one of them, and the interleavings are those within it. *)
(* The variables hold that part, in the order in which its module declares *)
(* its own; those it has no use for are 0.                                 *)
(***************************************************************************)
EXTENDS Naturals

CONSTANTS
  Users, MaxTokens, MaxSessionFaults,                        \* Session
  Replayed, Durations, Speeds, Stale, Now, MaxLoads, MaxInputs,  \* Replay
  Craft, Reports, Sitrep, MaxRuns, MaxOpens,                 \* Analyst
  Delays, TrackLength, MaxPositions, MaxCloses, MaxToggles,  \* IssTracker
  Tracks, Queries, Matches, MaxTyped, MaxTrackMoves,         \* Search
  Regions, MaxAsks,                                          \* Assessment
  Targets, Spots, MaxMoves                                   \* Follow

ASSUME PageAssumption ==
  /\ {MaxTokens, MaxSessionFaults, MaxRuns, MaxOpens, Delays, TrackLength} \subseteq Nat
  /\ {MaxPositions, MaxCloses, MaxToggles, MaxTyped, MaxTrackMoves, MaxAsks, MaxMoves} \subseteq Nat
  /\ "nobody" \notin Users
  /\ MaxPositions > 0 /\ 0 \in Spots /\ Sitrep \in Reports
  /\ 0 \notin Queries /\ Matches \in [Queries -> SUBSET Tracks]

VARIABLES
  part,
  s1, s2, s3, s4, s5, s6, s7, s8, s9, s10, s11, s12, s13, s14, s15

pageVars == <<part, s1, s2, s3, s4, s5, s6, s7, s8, s9, s10, s11, s12, s13, s14, s15>>

Auth == INSTANCE Session WITH
  MaxFaults <- MaxSessionFaults, owner <- s1, valid <- s2, accounts <- s3, memory <- s4,
  stored <- s5, status <- s6, user <- s7, setup <- s8, asking <- s9, call <- s10,
  calls401 <- s11, requests <- s12, reloading <- s13, stranded <- s14, faults <- s15

Clock == INSTANCE Replay WITH
  Records <- Replayed, mode <- s1, playing <- s2, time <- s3, range <- s4, speed <- s5,
  duration <- s6, ref <- s7, cache <- s8, frame <- s9, loop <- s10, effect <- s11,
  loads <- s12, asked <- s13, inputs <- s14

Report == INSTANCE Analyst WITH
  Places <- Reports, open <- s1, selected <- s2, runs <- s3, reader <- s4, text <- s5,
  streaming <- s6, started <- s7, opens <- s8, left <- s9

Station == INSTANCE IssTracker WITH
  MaxMoves <- MaxPositions, MaxFaults <- MaxCloses, now <- s1, enabled <- s2,
  connecting <- s3, open <- s4, timer <- s5, delay <- s6, rest <- s7, asks <- s8,
  position <- s9, track <- s10, connected <- s11, faults <- s12, toggles <- s13

Finder == INSTANCE Search WITH
  MaxMoves <- MaxTrackMoves, at <- s1, query <- s2, debounced <- s3, loading <- s4,
  results <- s5, asks <- s6, current <- s7, typed <- s8

Risk == INSTANCE Assessment WITH
  Places <- Regions, region <- s1, domain <- s2, asks <- s3, asked <- s4

Camera == INSTANCE Follow WITH
  Places <- Spots, at <- s1, selected <- s2, follow <- s3, ending <- s4, following <- s5,
  grace <- s6, touching <- s7, easing <- s8, camera <- s9, taken <- s10, lost <- s11,
  moves <- s12

-----------------------------------------------------------------------------
PageInit ==
  \/ /\ part = "session" /\ Auth!Init
  \/ /\ part = "replay" /\ Clock!Init
     /\ s15 = 0
  \/ /\ part = "analyst" /\ Report!Init
     /\ s10 = 0 /\ s11 = 0 /\ s12 = 0 /\ s13 = 0 /\ s14 = 0 /\ s15 = 0
  \/ /\ part = "iss" /\ Station!Init
     /\ s14 = 0 /\ s15 = 0
  \/ /\ part = "search" /\ Finder!Init
     /\ s9 = 0 /\ s10 = 0 /\ s11 = 0 /\ s12 = 0 /\ s13 = 0 /\ s14 = 0 /\ s15 = 0
  \/ /\ part = "assessment" /\ Risk!Init
     /\ s5 = 0 /\ s6 = 0 /\ s7 = 0 /\ s8 = 0 /\ s9 = 0 /\ s10 = 0 /\ s11 = 0 /\ s12 = 0
     /\ s13 = 0 /\ s14 = 0 /\ s15 = 0
  \/ /\ part = "follow" /\ Camera!Init
     /\ s13 = 0 /\ s14 = 0 /\ s15 = 0

PageNext ==
  /\ UNCHANGED part
  /\ \/ /\ part = "session" /\ Auth!Next
     \/ /\ part = "replay" /\ Clock!Next
        /\ UNCHANGED <<s15>>
     \/ /\ part = "analyst" /\ Report!Next
        /\ UNCHANGED <<s10, s11, s12, s13, s14, s15>>
     \/ /\ part = "iss" /\ Station!Next
        /\ UNCHANGED <<s14, s15>>
     \/ /\ part = "search" /\ Finder!Next
        /\ UNCHANGED <<s9, s10, s11, s12, s13, s14, s15>>
     \/ /\ part = "assessment" /\ Risk!Next
        /\ UNCHANGED <<s5, s6, s7, s8, s9, s10, s11, s12, s13, s14, s15>>
     \/ /\ part = "follow" /\ Camera!Next
        /\ UNCHANGED <<s13, s14, s15>>

(* Of each part the fairness its code has: timers fire, frames are drawn,  *)
(* requests are answered or refused, sockets open or close, views poll.    *)
AuthVars == Auth!vars
ClockVars == Clock!vars
ReportVars == Report!vars
StationVars == Station!vars
FinderVars == Finder!vars
RiskVars == Risk!vars
CameraVars == Camera!vars

PageFairness ==
  /\ WF_AuthVars(part = "session" /\ Auth!Request)
  /\ WF_AuthVars(part = "session" /\ Auth!Reload)
  /\ SF_AuthVars(part = "session" /\ Auth!InitAnswer)
  /\ WF_AuthVars(part = "session" /\ Auth!LogoutEnds)
  /\ \A t \in 1..MaxTokens :
       /\ SF_AuthVars(part = "session" /\ Auth!RequestAnswer(t))
       /\ WF_AuthVars(part = "session" /\ Auth!WrapperLogout(t))
  /\ WF_ClockVars(part = "replay" /\ Clock!Frame(1))
  /\ WF_ClockVars(part = "replay" /\ Clock!LoopEffect)
  /\ WF_ReportVars(part = "analyst" /\ \E r \in s3 :
                       Report!DomainAnswer(r) \/ Report!StreamOpens(r))
  /\ WF_ReportVars(part = "analyst" /\ \E r \in s3 : Report!Fails(r))
  /\ WF_StationVars(part = "iss" /\ Station!Opens)
  /\ WF_StationVars(part = "iss" /\ Station!Message)
  /\ WF_StationVars(part = "iss" /\ Station!Reconnect)
  /\ WF_StationVars(part = "iss" /\ Station!RestTick)
  /\ WF_StationVars(part = "iss" /\ \E a \in s8 : Station!Served(a))
  /\ WF_StationVars(part = "iss" /\ \E a \in s8 : Station!Answer(a))
  /\ WF_FinderVars(part = "search" /\ Finder!Debounce)
  /\ WF_FinderVars(part = "search" /\ \E a \in s6 : Finder!Answer(a))
  /\ \A n \in 1..MaxAsks :
       /\ WF_RiskVars(part = "assessment" /\ \E a \in s3 : a.n = n /\ Risk!TimesOut(a))
       /\ WF_RiskVars(part = "assessment" /\ \E a \in s3 : a.n = n /\ Risk!CellsAnswer(a))
       /\ WF_RiskVars(part = "assessment" /\ \E a \in s3 : a.n = n /\ Risk!Evaluated(a))
       /\ WF_RiskVars(part = "assessment" /\ \E a \in s3 :
                         a.n = n /\ (Risk!Analyzed(a) \/ Risk!DomainFails(a)))
  /\ WF_CameraVars(part = "follow" /\ Camera!Render)
  /\ WF_CameraVars(part = "follow" /\ Camera!Frame)
  /\ WF_CameraVars(part = "follow" /\ Camera!Lands)
  /\ WF_CameraVars(part = "follow" /\ Camera!GraceEnds)

PageSpec == PageInit /\ [][PageNext]_pageVars

PageFairSpec == PageSpec /\ PageFairness

-----------------------------------------------------------------------------
(* Properties: what the modules say of the parts.                          *)

(* A page is shown to the owner of the token it uses, and the login form   *)
(* is over no session that a reload would bring back, unless a login       *)
(* failed half-way.                                                        *)
SessionIsOwned == Auth!TypeOK /\ Auth!UserOwnsToken /\ Auth!NoTokenLeftBehind

(* What is shown is of what was asked: the page of the user whose token it *)
(* uses, one run of the analyst, rows of the query, the risk of a region;  *)
(* the station is tracked by one socket or by requests; and the camera is  *)
(* left where the user moved it.                                           *)
ShownIsOfAsked ==
  /\ part = "session" => SessionIsOwned
  /\ part = "analyst" => Report!TypeOK /\ Report!OneRun
  /\ part = "search" => Finder!ResultsAreOfQuery
  /\ part = "assessment" => Risk!TypeOK /\ Risk!SaidOfPlace
  /\ part = "iss" => Station!TypeOK /\ Station!OneSource
  /\ part = "follow" => Camera!UserWins

(* A replay shows the newest record of those loaded that is not later than *)
(* its time, and not stale, and its controls span what is loaded.          *)
ReplayIsTruthful ==
  part = "replay" => Clock!TypeOK /\ Clock!FrameIsTruthful /\ Clock!RangeIsOfCache
=============================================================================
