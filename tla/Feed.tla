-------------------------------- MODULE Feed --------------------------------
(***************************************************************************)
(* The hooks and widgets that fetch what they show from the backend        *)
(* (frontend/src/hooks, frontend/src/components): an effect asks when it   *)
(* runs and, often, on an interval; its cleanup stops the interval and     *)
(* does or does not see to the requests under way.                         *)
(*                                                                         *)
(* They are one state machine with the details of each hook in a record,   *)
(* its policy.  Which answers come, late, crossed or not at all, is left   *)
(* open.  An answer that will be ignored is dropped at once.               *)
(***************************************************************************)
EXTENDS Naturals, FiniteSets

CONSTANTS
  Subjects,      \* what a view can be about: places, bounds, entities, windows
  MaxVersion,    \* bound on what the server has of them
  MaxRequests,   \* bound on the requests under way
  MaxTurns,      \* bound on changes of subject
  MaxFaults      \* bound on failures

ASSUME SubjectsAssumption == Subjects \subseteq Nat \ {0}
ASSUME BoundsAssumption ==
  {MaxVersion, MaxRequests, MaxTurns, MaxFaults} \subseteq Nat /\ MaxVersion > 0

Off == 0
None == 0
Nothing == [of |-> Off, at |-> None]

-----------------------------------------------------------------------------
(* The policies: the flags that hold, and the requests a cleanup makes     *)
(* void: none, all of them ("flag": a flag looked at when the answer is    *)
(* there, or an abort), or those still without their headers ("early").    *)

Flags == {"moves", "offs", "rerun", "bounds", "skips", "debounced", "poll", "cached",
          "clearAsk", "clearTurn", "clearOff", "clearRefused", "clearLost"}

Policy(drop, on) == [drop |-> drop, on |-> on]
Policies == [drop : {"none", "flag", "early"}, on : SUBSET Flags]

Fallback == {"clearRefused", "clearLost"}

(* useInfraData: what fails is replaced by a fallback, but for the last two *)
Cables == Policy("none", Fallback)
Outages == Policy("none", {"poll"} \cup Fallback)
DarkVessels == Policy("none", {"poll"} \cup Fallback)
Firms == Policy("none", {"poll"} \cup Fallback)
DnsRoot == Policy("none", {"poll"})
PeeringDb == Policy("none", {"poll"})

(* The hooks of the map, the mission and the selection.                    *)
RFSites == Policy("flag", {"moves", "offs", "rerun", "skips", "cached", "clearOff"})
Towers == Policy("none", {"moves", "offs", "rerun", "bounds", "debounced", "clearOff"})
Buoys == Policy("none", {"moves", "offs", "rerun", "bounds", "skips", "debounced", "poll",
                         "clearOff"})
SatNOGS == Policy("flag", {"offs", "clearOff"})
Passes == Policy("flag", {"moves", "offs", "rerun", "poll", "clearAsk", "clearOff"})
MaritimeRisk == Policy("flag", {"moves", "offs", "rerun", "clearOff"})
Health == Policy("none", {"poll"} \cup Fallback)
KiwiNodes == Policy("none", {"moves", "offs", "rerun", "poll"})
WebSDRNodes == Policy("none", {"moves", "offs", "rerun", "poll"})

(* useAnimationLoop: the mission of clusters and chains is read when they  *)
(* ask, and does not run the effect again.                                 *)
Coverage == Policy("none", {"offs", "poll"})
MapRisk == Policy("flag", {"offs", "poll", "clearOff"} \cup Fallback)
Clusters == Policy("flag", {"moves", "offs", "poll", "clearOff"} \cup Fallback)
Chains == Policy("early", {"moves", "offs", "poll", "clearOff"})

(* Widgets about no subject.                                               *)
News == Policy("none", {"poll"})
Threats == Policy("none", {"poll"})
Kp == Policy("none", {"poll"})
Ticker == Policy("none", {"poll"})
Conflicts == Policy("none", {"poll"})
OutagePanel == Policy("none", {"poll"})
Streams == Policy("none", {"poll"})
Operations == Policy("none", {"poll"})
GlobeActors == Policy("none", {"poll"})
Features == Policy("none", {})
SpaceWeather == Policy("none", {"offs", "debounced", "poll"})
Aurora == Policy("early", {"poll"})
MiniHazards == Policy("early", {"poll"})
GlobeRisk == Policy("flag", {"offs", "poll", "clearOff"} \cup Fallback)
HealthPanel == Policy("flag", {"offs", "clearTurn"} \cup Fallback)

(* Panels about the selection, the mission or a window of time.            *)
Trajectory == Policy("flag", {"moves", "rerun", "clearTurn"} \cup Fallback)
Badge == Policy("flag", {"moves", "rerun"})
JammingHistory == Policy("flag", {"moves", "rerun", "poll", "clearLost"})
Observations == Policy("flag", {"moves", "rerun", "clearRefused"})
MiniRisk == Policy("flag", {"moves", "rerun", "poll"} \cup Fallback)
MiniClusters == Policy("flag", {"moves", "rerun", "poll"} \cup Fallback)
Actors == Policy("none", {"moves", "rerun", "poll"})
Stats == Policy("none", {"moves", "rerun", "poll"})
EmComm == Policy("none", {"moves", "offs", "rerun"})
Verification == Policy("none", {"moves", "rerun"})

Feeds == {Cables, Outages, DarkVessels, Firms, DnsRoot, PeeringDb, RFSites, Towers, Buoys,
          SatNOGS, Passes, MaritimeRisk, Health, KiwiNodes, WebSDRNodes, Coverage, MapRisk,
          Clusters, Chains, News, Threats, Kp, Ticker, Conflicts, OutagePanel, Streams,
          Operations, GlobeActors, Features, SpaceWeather, Aurora, MiniHazards, GlobeRisk,
          HealthPanel, Trajectory, Badge, JammingHistory, Observations, MiniRisk,
          MiniClusters, Actors, Stats, EmComm, Verification}

-----------------------------------------------------------------------------
VARIABLES
  feed,       \* the hook this is; does not change
  subject,    \* what the view is about; Off: not mounted, not enabled, nothing chosen
  version,    \* what the server has
  shown,      \* the answer shown
  requests,   \* under way; at: the version the answer holds, None: not read yet;
              \* passed: the headers were there before a cleanup
  due,        \* the timer of a debounced effect runs
  polling,    \* the interval runs
  done,       \* the subject of the last answer (lastFetchRef, lastBoundsRef)
  kept,       \* localStorage: per subject, what it was answered with
  turns, faults

feedVars == <<feed, subject, version, shown, requests, due, polling, done, kept, turns, faults>>

Is(flag) == flag \in feed.on
Versions == 1..MaxVersion
Request == [of : Subjects, at : Versions \cup {None}, passed : BOOLEAN]
Ask(s) == [of |-> s, at |-> None, passed |-> FALSE]

FeedTypeOK ==
  /\ feed \in Policies
  /\ subject \in Subjects \cup {Off} /\ version \in Versions
  /\ shown \in [of : Subjects, at : Versions] \cup {Nothing}
  /\ requests \subseteq Request
  /\ due \in BOOLEAN /\ polling \in BOOLEAN
  /\ done \in Subjects \cup {None}
  /\ kept \in [Subjects -> Versions \cup {None}]
  /\ turns \in 0..MaxTurns /\ faults \in 0..MaxFaults

FeedInit ==
  /\ feed \in Feeds
  /\ subject = Off /\ version = 1 /\ shown = Nothing /\ requests = {}
  /\ due = FALSE /\ polling = FALSE /\ done = None /\ kept = [s \in Subjects |-> None]
  /\ turns = 0 /\ faults = 0

Room == Cardinality(requests) < MaxRequests

-----------------------------------------------------------------------------
(* Effects.                                                                *)

(* Slip: the cleanup leaves the requests alone.                            *)
SurvivorsSlip == requests

Survivors ==
  CASE feed.drop = "none" -> requests
    [] feed.drop = "flag" -> {}
    [] feed.drop = "early" -> {r \in requests : r.passed}

(* The body of an effect that goes on to ask; some hooks look into         *)
(* localStorage before.                                                    *)
Asked(s, old) ==
  IF Is("cached") /\ kept[s] # None
  THEN /\ requests' = old /\ due' = FALSE /\ polling' = FALSE
       /\ shown' = [of |-> s, at |-> kept[s]] /\ done' = s
  ELSE /\ requests' = old \cup (IF Is("debounced") THEN {} ELSE {Ask(s)})
       /\ due' = Is("debounced") /\ polling' = Is("poll")
       /\ shown' = (IF Is("clearTurn") \/ Is("clearAsk") THEN Nothing ELSE shown)
       /\ UNCHANGED done

(* Mounted, enabled, or something was chosen.                              *)
SwitchOn(s) ==
  /\ subject = Off /\ subject' = s /\ Room
  /\ Asked(s, requests)
  /\ UNCHANGED <<feed, version, kept, turns, faults>>

SwitchOff ==
  /\ subject # Off /\ Is("offs") /\ turns < MaxTurns /\ turns' = turns + 1
  /\ subject' = Off /\ requests' = Survivors /\ due' = FALSE /\ polling' = FALSE
  /\ done' = None /\ shown' = IF Is("clearOff") THEN Nothing ELSE shown
  /\ UNCHANGED <<feed, version, kept, faults>>

(* The effect runs for s, after its own cleanup.  One that compares with   *)
(* the last answer returns when it is the same, and with the cleanup done  *)
(* there is no interval any more.                                          *)
Rerun(s) ==
  IF Is("skips") /\ done = s
  THEN /\ requests' = Survivors /\ due' = FALSE /\ polling' = FALSE
       /\ UNCHANGED <<shown, done>>
  ELSE Asked(s, Survivors)

Turn(s) ==
  /\ subject # Off /\ s # subject /\ Is("moves") /\ turns < MaxTurns /\ Room
  /\ turns' = turns + 1 /\ subject' = s
  /\ IF Is("rerun") THEN Rerun(s) ELSE UNCHANGED <<shown, requests, due, polling, done>>
  /\ UNCHANGED <<feed, version, kept, faults>>

(* A move event of the map in place: the same bounds in another object.    *)
Renew ==
  /\ subject # Off /\ Is("bounds") /\ turns < MaxTurns /\ turns' = turns + 1 /\ Room
  /\ Rerun(subject)
  /\ UNCHANGED <<feed, subject, version, kept, faults>>

-----------------------------------------------------------------------------
(* Timers and answers.                                                     *)

Debounced ==
  /\ due /\ Room /\ due' = FALSE /\ requests' = requests \cup {Ask(subject)}
  /\ UNCHANGED <<feed, subject, version, shown, polling, done, kept, turns, faults>>

(* Slip: with an answer there, the interval does not ask.                  *)
TickSlip ==
  /\ polling /\ Room /\ shown = Nothing /\ requests' = requests \cup {Ask(subject)}
  /\ UNCHANGED <<feed, subject, version, shown, due, polling, done, kept, turns, faults>>

Tick ==
  /\ polling /\ Room /\ requests' = requests \cup {Ask(subject)}
  /\ shown' = IF Is("clearAsk") THEN Nothing ELSE shown
  /\ UNCHANGED <<feed, subject, version, due, polling, done, kept, turns, faults>>

Publish ==
  /\ version < MaxVersion /\ version' = version + 1
  /\ UNCHANGED <<feed, subject, shown, requests, due, polling, done, kept, turns, faults>>

Read(r) ==
  /\ r \in requests /\ r.at = None
  /\ requests' = (requests \ {r}) \cup {[r EXCEPT !.at = version]}
  /\ UNCHANGED <<feed, subject, version, shown, due, polling, done, kept, turns, faults>>

(* The headers are there, the flag is looked at, and the body awaited.     *)
Pass(r) ==
  /\ r \in requests /\ r.at # None /\ feed.drop = "early" /\ ~ r.passed
  /\ requests' = (requests \ {r}) \cup {[r EXCEPT !.passed = TRUE]}
  /\ UNCHANGED <<feed, subject, version, shown, due, polling, done, kept, turns, faults>>

(* Slip: the answer is kept as one about what the view is about now.       *)
AnswerSlip(r) ==
  /\ r \in requests /\ r.at # None /\ (feed.drop = "early" => r.passed)
  /\ requests' = requests \ {r}
  /\ shown' = [of |-> subject, at |-> r.at] /\ done' = r.of
  /\ kept' = IF Is("cached") THEN [kept EXCEPT ![r.of] = r.at] ELSE kept
  /\ UNCHANGED <<feed, subject, version, due, polling, turns, faults>>

Answer(r) ==
  /\ r \in requests /\ r.at # None /\ (feed.drop = "early" => r.passed)
  /\ requests' = requests \ {r}
  /\ shown' = [of |-> r.of, at |-> r.at] /\ done' = r.of
  /\ kept' = IF Is("cached") THEN [kept EXCEPT ![r.of] = r.at] ELSE kept
  /\ UNCHANGED <<feed, subject, version, due, polling, turns, faults>>

(* Refused by the server, or lost on the way.                              *)
Fail(r, how) ==
  /\ r \in requests /\ faults < MaxFaults /\ faults' = faults + 1
  /\ requests' = requests \ {r}
  /\ shown' = IF Is(how) THEN Nothing ELSE shown
  /\ UNCHANGED <<feed, subject, version, due, polling, done, kept, turns>>

(* An hour has passed.                                                     *)
KeptExpires(s) ==
  /\ kept[s] # None /\ kept' = [kept EXCEPT ![s] = None]
  /\ UNCHANGED <<feed, subject, version, shown, requests, due, polling, done, turns, faults>>

FeedNext ==
  \/ SwitchOff \/ Renew \/ Debounced \/ Tick \/ Publish
  \/ \E s \in Subjects : SwitchOn(s) \/ Turn(s) \/ KeptExpires(s)
  \/ \E r \in requests :
       Read(r) \/ Pass(r) \/ Answer(r) \/ \E how \in Fallback : Fail(r, how)

(* Timers run, and what is asked is answered.                              *)
Fairness ==
  /\ WF_feedVars(Tick) /\ WF_feedVars(Debounced)
  /\ \A r \in Request : WF_feedVars(Read(r)) /\ WF_feedVars(Pass(r)) /\ WF_feedVars(Answer(r))

FeedSpec == FeedInit /\ [][FeedNext]_feedVars

FairSpec == FeedSpec /\ Fairness

-----------------------------------------------------------------------------
(* Properties.                                                             *)

(* A hook that makes the requests of its cleanup void, and whose subject   *)
(* runs its effect, asks for nothing but what is wanted.                   *)
Guarded == feed.drop = "flag" /\ (Is("moves") => Is("rerun"))

(* And with neither interval nor cache it has one request at a time.       *)
InOrder == Guarded /\ {"poll", "cached", "debounced"} \cap feed.on = {}

(* What is shown after a cleanup that clears is about the subject: an      *)
(* answer that comes late does not bring back what was switched off or     *)
(* turned away from.                                                       *)
NothingComesBack ==
  Guarded /\ shown # Nothing =>
    /\ Is("clearOff") => subject # Off
    /\ Is("clearTurn") \/ Is("clearAsk") => subject \in {shown.of, Off}

(* The view of a polling hook comes to what the server has, through        *)
(* failures, late and crossing answers, as long as its interval runs.      *)
CatchesUp ==
  []<>(subject = Off \/ ~ polling \/ (~ Is("moves") /\ shown.at = version)
       \/ shown = [of |-> subject, at |-> version])

(* What the policy of a hook lets it promise.                              *)
Promise == IF InOrder THEN "in order" ELSE IF Guarded THEN "wanted" ELSE "any"

S == INSTANCE Screen WITH promise <- Promise

(* Every hook is a screen: guarded ones show answers about the subject     *)
(* only, those in order never an older one than before.                    *)
IsScreen == S!Spec
=============================================================================
