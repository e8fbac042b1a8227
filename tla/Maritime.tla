------------------------------ MODULE Maritime ------------------------------
(***************************************************************************)
(* The AIS poller (backend/ingestion/maritime_poller/service.py and        *)
(* sources/base.py): one task keeps a WebSocket to one of several upstream *)
(* sources open, another follows the mission area published in Redis.      *)
(*                                                                         *)
(* stream_loop: probe the primary when on a fallback for long enough, wait *)
(* out the minimum reconnect interval, back off after failures, switch to  *)
(* the next healthy source after SwitchAfter of them, connect, and read    *)
(* until the server closes, the stream falls silent, or the mission has    *)
(* moved.  navigation_listener: a mission that moves the center starts a   *)
(* debounce timer, at whose end reconnect_event asks for a reconnect.      *)
(*                                                                         *)
(* Durations are abstracted to facts that become true at some time: an     *)
(* interval has passed, a cooldown has expired.  A center is a number;     *)
(* moves shorter than MinMove are the ones below MIN_LAT_LON_CHANGE_DEG.   *)
(* The frames themselves (parsing, static cache, distance filter) are not  *)
(* modelled.                                                               *)
(***************************************************************************)
EXTENDS Integers, Sequences, FiniteSets

CONSTANTS
  N,            \* number of sources; source 0 is the primary
  SwitchAfter,  \* SOURCE_SWITCH_AFTER_ATTEMPTS
  Centers,      \* mission centers, a set of integers
  MinMove,      \* MIN_LAT_LON_CHANGE_DEG
  MaxInbox      \* bound on missions published and not yet handled

ASSUME NAssumption == N \in Nat \ {0}
ASSUME SwitchAssumption == SwitchAfter \in Nat \ {0}
ASSUME CentersAssumption == Centers \subseteq Int /\ MinMove \in Nat \ {0}
ASSUME InboxAssumption == MaxInbox \in Nat

VARIABLES
  pc,            \* where stream_loop stands
  running,       \* self.running
  active,        \* self._active_source_idx
  saved,         \* saved_idx of the probe under way
  since,         \* self._on_fallback_since: none, fresh, or due for a probe
  cooling,       \* per source: now < cooldown_until
  attempts,      \* self.reconnect_attempts, counted up to SwitchAfter
  recent,        \* last_reconnect_time is within the minimum interval
  ws,            \* self.ws: source and center of its subscription, or NoSocket
  wsCenter,      \* the center the connection being opened subscribes to
  center,        \* self.center_lat, self.center_lon
  debounce,      \* self._bbox_debounce_task is pending
  event,         \* self.reconnect_event is set
  subscribed,    \* the pub/sub connection of navigation_listener
  inbox,         \* missions published and not yet handled
  requested,     \* mission:active, the last mission published
  down,          \* environment: sources that refuse connections
  missed,        \* history: the newest mission was lost with the subscription
  wiped          \* history: the last connect cleared a reconnect it had not made

nav == <<center, debounce, subscribed, inbox, requested, missed>>
vars == <<pc, running, active, saved, since, cooling, attempts, recent, ws,
          wsCenter, center, debounce, event, subscribed, inbox, requested,
          down, missed, wiped>>

Sources == 0..N - 1
Socket == [source : Sources, center : Centers]
NoSocket == [source |-> -1, center |-> 0]

TypeOK ==
  /\ pc \in {"top", "probing", "pace", "ratewait", "backoff", "connecting",
             "streaming", "done"}
  /\ running \in BOOLEAN
  /\ active \in Sources /\ saved \in Sources
  /\ since \in {"none", "fresh", "due"}
  /\ cooling \in [Sources -> BOOLEAN]
  /\ attempts \in 0..SwitchAfter
  /\ recent \in BOOLEAN
  /\ ws \in Socket \cup {NoSocket}
  /\ wsCenter \in Centers /\ center \in Centers /\ requested \in Centers
  /\ debounce \in BOOLEAN /\ event \in BOOLEAN /\ subscribed \in BOOLEAN
  /\ inbox \in Seq(Centers) /\ Len(inbox) <= MaxInbox
  /\ down \subseteq Sources
  /\ missed \in BOOLEAN /\ wiped \in BOOLEAN

Distance(a, b) == IF a < b THEN b - a ELSE a - b
Moved(a, b) == Distance(a, b) >= MinMove

(* After setup(): the mission has been loaded, or reading it failed.       *)
Init ==
  /\ pc = "top" /\ running = TRUE
  /\ active = 0 /\ saved = 0 /\ since = "none"
  /\ cooling = [s \in Sources |-> FALSE]
  /\ attempts = 0 /\ recent = FALSE
  /\ ws = NoSocket
  /\ center \in Centers /\ requested \in Centers /\ wsCenter = center
  /\ missed = (center # requested)
  /\ debounce = FALSE /\ event = FALSE
  /\ subscribed = TRUE /\ inbox = <<>>
  /\ down \in SUBSET Sources
  /\ wiped = FALSE

-----------------------------------------------------------------------------
(* stream_loop.                                                            *)

CountUp(n) == IF n < SwitchAfter THEN n + 1 ELSE n

ShouldProbe == active # 0 /\ since = "due"

LoopEnds ==
  /\ pc = "top" /\ ~running
  /\ pc' = "done"
  /\ UNCHANGED <<running, active, saved, since, cooling, attempts, recent, ws,
                 wsCenter, nav, event, down, wiped>>

(* A connection subscribes to the center of the moment it is begun.        *)
ProbeStarts ==
  /\ pc = "top" /\ running /\ ShouldProbe
  /\ pc' = "probing"
  /\ saved' = active /\ active' = 0
  /\ wsCenter' = center
  /\ UNCHANGED <<running, since, cooling, attempts, recent, ws, nav, event,
                 down, wiped>>

NoProbe ==
  /\ pc = "top" /\ running /\ ~ShouldProbe
  /\ pc' = "pace"
  /\ UNCHANGED <<running, active, saved, since, cooling, attempts, recent, ws,
                 wsCenter, nav, event, down, wiped>>

(* _restore_primary finds _active_source_idx = 0, set for the probe, and   *)
(* returns: _on_fallback_since and reconnect_attempts stay as they were.   *)
ProbeSucceeds ==
  /\ pc = "probing" /\ 0 \notin down
  /\ ws' = [source |-> 0, center |-> wsCenter]
  /\ cooling' = [cooling EXCEPT ![0] = FALSE]
  /\ pc' = "pace"
  /\ UNCHANGED <<running, active, saved, since, attempts, recent, wsCenter, nav,
                 event, down, wiped>>

ProbeFails ==
  /\ pc = "probing" /\ 0 \in down
  /\ cooling' = [cooling EXCEPT ![0] = TRUE]
  /\ active' = saved /\ since' = "fresh"
  /\ pc' = "pace"
  /\ UNCHANGED <<running, saved, attempts, recent, ws, wsCenter, nav, event,
                 down, wiped>>

(* Too soon after the last attempt: sleep, and start over.                 *)
RateLimited ==
  /\ pc = "pace" /\ recent
  /\ pc' = "ratewait"
  /\ UNCHANGED <<running, active, saved, since, cooling, attempts, recent, ws,
                 wsCenter, nav, event, down, wiped>>

(* "continue" runs the finally block, which closes self.ws.                *)
RateWaitOver ==
  /\ pc = "ratewait"
  /\ recent' = FALSE
  /\ ws' = NoSocket
  /\ pc' = "top"
  /\ UNCHANGED <<running, active, saved, since, cooling, attempts, wsCenter, nav,
                 event, down, wiped>>

BacksOff ==
  /\ pc = "pace" /\ ~recent /\ attempts > 0
  /\ pc' = "backoff"
  /\ UNCHANGED <<running, active, saved, since, cooling, attempts, recent, ws,
                 wsCenter, nav, event, down, wiped>>

BeginConnect ==
  /\ recent' = TRUE
  /\ wsCenter' = center
  /\ pc' = "connecting"

ConnectsAtOnce ==
  /\ pc = "pace" /\ ~recent /\ attempts = 0
  /\ BeginConnect
  /\ UNCHANGED <<running, active, saved, since, cooling, attempts, ws, nav,
                 event, down, wiped>>

(* _select_next_source: the sources after the active one, in turn.         *)
Healthy == {k \in 1..N - 1 : ~cooling[(active + k) % N]}

\* Slip: the switch does not note when the fallback began.
SelectNextSourceSlipSince ==
  IF Healthy = {} THEN UNCHANGED <<active, since, attempts>>
  ELSE LET first == CHOOSE k \in Healthy : \A j \in Healthy : k <= j IN
       /\ active' = (active + first) % N
       /\ attempts' = 0
       /\ UNCHANGED since

SelectNextSource ==
  IF Healthy = {} THEN UNCHANGED <<active, since, attempts>>
  ELSE LET first == CHOOSE k \in Healthy : \A j \in Healthy : k <= j IN
       /\ active' = (active + first) % N
       /\ since' = IF active' # 0 THEN "fresh" ELSE "none"
       /\ attempts' = 0

BackoffOver ==
  /\ pc = "backoff"
  /\ IF attempts >= SwitchAfter /\ N > 1 THEN SelectNextSource
                                         ELSE UNCHANGED <<active, since, attempts>>
  /\ BeginConnect
  /\ UNCHANGED <<running, saved, cooling, ws, nav, event, down, wiped>>

\* Slip: the connection a probe has opened is used, whatever is active now.
ConnectSucceedsSlip ==
  /\ pc = "connecting" /\ active \notin down
  /\ ws' = IF ws # NoSocket THEN ws ELSE [source |-> active, center |-> wsCenter]
  /\ cooling' = [cooling EXCEPT ![active] = FALSE]
  /\ event' = FALSE
  /\ wiped' = (event /\ wsCenter # center)
  /\ pc' = "streaming"
  /\ UNCHANGED <<running, active, saved, since, attempts, recent, wsCenter, nav,
                 down>>

(* reconnect_event is cleared once the connection is up, whatever was      *)
(* asked for while it was being opened.                                    *)
ConnectSucceeds ==
  /\ pc = "connecting" /\ active \notin down
  /\ ws' = [source |-> active, center |-> wsCenter]
  /\ cooling' = [cooling EXCEPT ![active] = FALSE]
  /\ event' = FALSE
  /\ wiped' = (event /\ wsCenter # center)
  /\ pc' = "streaming"
  /\ UNCHANGED <<running, active, saved, since, attempts, recent, wsCenter, nav,
                 down>>

ConnectFails ==
  /\ pc = "connecting" /\ active \in down
  /\ cooling' = [cooling EXCEPT ![active] = TRUE]
  /\ attempts' = CountUp(attempts)
  /\ ws' = NoSocket
  /\ pc' = "top"
  /\ UNCHANGED <<running, active, saved, since, recent, wsCenter, nav, event,
                 down, wiped>>

(* A frame of a connection that has lasted resets the failure count.       *)
StableFrame ==
  /\ pc = "streaming" /\ running /\ attempts > 0
  /\ attempts' = 0
  /\ UNCHANGED <<pc, running, active, saved, since, cooling, recent, ws,
                 wsCenter, nav, event, down, wiped>>

LeaveStream ==
  /\ pc = "streaming"
  /\ ws' = NoSocket
  /\ pc' = "top"
  /\ UNCHANGED <<running, active, saved, since, cooling, recent, wsCenter, nav,
                 event, down, wiped>>

ServerCloses == LeaveStream /\ running /\ UNCHANGED attempts

StreamSilent == LeaveStream /\ running /\ ~event /\ attempts' = CountUp(attempts)

ReconnectSignalled == LeaveStream /\ (event \/ ~running) /\ UNCHANGED attempts

-----------------------------------------------------------------------------
(* navigation_listener and its debounce task.                              *)

loop == <<pc, running, active, saved, since, cooling, attempts, recent, ws,
          wsCenter, down, wiped>>

(* set_mission_location stores the mission, then publishes it.             *)
Publish(c) ==
  /\ c # requested
  /\ requested' = c
  /\ IF subscribed THEN /\ Len(inbox) < MaxInbox
                        /\ inbox' = Append(inbox, c)
                        /\ UNCHANGED missed
                   ELSE missed' = TRUE /\ UNCHANGED inbox
  /\ UNCHANGED <<loop, center, debounce, event, subscribed>>

\* Slip: the pending reconnect is cancelled before the threshold is looked at.
HandleMissionSlipCancel ==
  /\ running /\ inbox # <<>>
  /\ inbox' = Tail(inbox)
  /\ missed' = FALSE
  /\ debounce' = Moved(Head(inbox), center)
  /\ center' = IF Moved(Head(inbox), center) THEN Head(inbox) ELSE center
  /\ UNCHANGED <<loop, event, subscribed, requested>>

HandleMission ==
  /\ running /\ inbox # <<>>
  /\ inbox' = Tail(inbox)
  /\ missed' = FALSE
  /\ IF Moved(Head(inbox), center) THEN center' = Head(inbox) /\ debounce' = TRUE
                                   ELSE UNCHANGED <<center, debounce>>
  /\ UNCHANGED <<loop, event, subscribed, requested>>

DebounceElapses ==
  /\ debounce
  /\ debounce' = FALSE
  /\ event' = TRUE
  /\ UNCHANGED <<loop, center, subscribed, inbox, requested, missed>>

SubscriptionFails ==
  /\ running /\ subscribed
  /\ subscribed' = FALSE
  /\ inbox' = <<>>
  /\ missed' = (missed \/ inbox # <<>>)
  /\ UNCHANGED <<loop, center, debounce, event, requested>>

(* Subscribes again; mission:active is read by setup() only.               *)
Resubscribe ==
  /\ running /\ ~subscribed
  /\ subscribed' = TRUE
  /\ UNCHANGED <<loop, center, debounce, event, inbox, requested, missed>>

-----------------------------------------------------------------------------
(* Environment, clocks, shutdown.                                          *)

Outage(s) ==
  /\ down' = IF s \in down THEN down \ {s} ELSE down \cup {s}
  /\ UNCHANGED <<pc, running, active, saved, since, cooling, attempts, recent,
                 ws, wsCenter, nav, event, wiped>>

CooldownExpires(s) ==
  /\ cooling[s]
  /\ cooling' = [cooling EXCEPT ![s] = FALSE]
  /\ UNCHANGED <<pc, running, active, saved, since, attempts, recent, ws,
                 wsCenter, nav, event, down, wiped>>

IntervalPasses ==
  /\ recent
  /\ recent' = FALSE
  /\ UNCHANGED <<pc, running, active, saved, since, cooling, attempts, ws,
                 wsCenter, nav, event, down, wiped>>

ProbeDue ==
  /\ since = "fresh"
  /\ since' = "due"
  /\ UNCHANGED <<pc, running, active, saved, cooling, attempts, recent, ws,
                 wsCenter, nav, event, down, wiped>>

(* shutdown() closes the socket of the moment; one that is being opened is *)
(* closed by the loop.                                                     *)
Shutdown ==
  /\ running
  /\ running' = FALSE
  /\ ws' = NoSocket
  /\ pc' = IF pc = "streaming" THEN "top" ELSE pc
  /\ UNCHANGED <<active, saved, since, cooling, attempts, recent, wsCenter, nav,
                 event, down, wiped>>

StreamLoop ==
  \/ LoopEnds \/ ProbeStarts \/ NoProbe \/ ProbeSucceeds \/ ProbeFails
  \/ RateLimited \/ RateWaitOver \/ BacksOff \/ ConnectsAtOnce \/ BackoffOver
  \/ ConnectSucceeds \/ ConnectFails \/ ReconnectSignalled

Next ==
  \/ StreamLoop
  \/ StableFrame \/ ServerCloses \/ StreamSilent
  \/ (\E c \in Centers : Publish(c)) \/ HandleMission \/ DebounceElapses
  \/ SubscriptionFails \/ Resubscribe
  \/ (\E s \in Sources : Outage(s) \/ CooldownExpires(s))
  \/ IntervalPasses \/ ProbeDue \/ Shutdown

Spec == Init /\ [][Next]_vars

(* The loop and the listener run when they can, sleeps end, and clocks     *)
(* advance.  Nothing makes a stream end or a source recover.               *)
FairSpec ==
  /\ Spec
  /\ WF_vars(StreamLoop) /\ WF_vars(HandleMission) /\ WF_vars(DebounceElapses)
  /\ WF_vars(ProbeDue)
  /\ \A s \in Sources : WF_vars(CooldownExpires(s))
-----------------------------------------------------------------------------
(* Properties.                                                             *)

(* While a stream is read, the open socket is the active source's: frames  *)
(* are decoded in the format of the source that sent them                  *)
(* (service.py:743, 786).                                                  *)
SocketMatchesSource == pc = "streaming" /\ running => ws.source = active

(* On a fallback the time since the switch is on record, whichever way it  *)
(* became active: the primary can be probed again (service.py:121, 134).   *)
FallbackIsProbeable == active # 0 => since # "none"

(* However shutdown meets the loop, no socket it knows of stays open       *)
(* (service.py:286, 841).                                                  *)
NoSocketLeft == pc = "done" => ws = NoSocket

(* A stream with no reconnect pending or asked for is subscribed around    *)
(* the current center, unless its own connect cleared the request          *)
(* (service.py:358-364, 745, 760).                                         *)
StreamFollowsMission ==
  pc = "streaming" /\ running /\ ~debounce /\ ~event /\ ~wiped => ws.center = center

(* With every mission handled and none lost, the center is the requested   *)
(* one up to the minimum change: small moves do not add up                 *)
(* (service.py:332-349).                                                   *)
CenterFollowsMission ==
  inbox = <<>> /\ ~missed => ~Moved(center, requested)

(* The socket is of the source and of the area the poller is on, and ends  *)
(* with it.                                                                *)
SocketsAreOwned == TypeOK /\ SocketMatchesSource /\ NoSocketLeft

(* A mission that moves far enough reaches the center, and the stream.     *)
MissionIsFollowed == StreamFollowsMission /\ CenterFollowsMission
=============================================================================
