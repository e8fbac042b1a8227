------------------------------ MODULE IssTracker ------------------------------
(***************************************************************************)
(* The position of the station (frontend/src/hooks/useISSTracker.ts): a    *)
(* socket that reconnects with a growing delay, requests while it is away, *)
(* and the ground track, asked once.                                       *)
(***************************************************************************)
EXTENDS Naturals, Sequences

CONSTANTS
  Delays,     \* the delays of a reconnect, in steps: 0 is the first, the last is 30 s
  TrackLength,\* positions of the track
  MaxMoves,   \* bound on the positions the station takes
  MaxFaults,  \* bound on closes and failed requests
  MaxToggles  \* bound on the switch

VARIABLES
  now,        \* the position of the station, by number
  enabled,    \* showISS
  connecting, open,  \* sockets, whose close is heard
  timer,      \* the reconnect timer is set
  delay,      \* reconnectDelayRef
  rest,       \* the interval of requests
  asks,       \* requests under way, in none, one or more answers: positions and tracks
  position, track, connected,
  faults, toggles

vars == <<now, enabled, connecting, open, timer, delay, rest, asks, position, track, connected,
          faults, toggles>>

Positions == 0..MaxMoves      \* 0: none
Ask(what, by) == [what |-> what, by |-> by]

TypeOK ==
  /\ {now, position} \subseteq Positions /\ {enabled, timer, rest, connected} \subseteq BOOLEAN
  /\ connecting \in Nat /\ open \in Nat /\ delay \in 0..Delays
  /\ Len(track) <= TrackLength /\ \A i \in DOMAIN track : track[i] \in Positions \ {0}
  /\ faults \in 0..MaxFaults /\ toggles \in 0..MaxToggles

Init ==
  /\ now = 1 /\ enabled = FALSE /\ connecting = 0 /\ open = 0 /\ timer = FALSE /\ delay = 0
  /\ rest = FALSE /\ asks = {} /\ position = 0 /\ track = <<>> /\ connected = FALSE
  /\ faults = 0 /\ toggles = 0

Moves ==
  /\ now < MaxMoves /\ now' = now + 1
  /\ UNCHANGED <<enabled, connecting, open, timer, delay, rest, asks, position, track, connected,
                 faults, toggles>>

(* appendPosition()                                                        *)
Take(p) ==
  /\ position' = p
  /\ track' = SubSeq(<<p>> \o track, 1, IF Len(track) < TrackLength THEN Len(track) + 1
                                        ELSE TrackLength)

Enable ==
  /\ ~ enabled /\ toggles < MaxToggles /\ toggles' = toggles + 1 /\ enabled' = TRUE
  /\ asks' = asks \cup {Ask("track", 0), Ask("position", 0)}
  /\ connecting' = connecting + 1
  /\ UNCHANGED <<now, open, timer, delay, rest, position, track, connected, faults>>

(* The cleanup, and what the effect does when it is off.  Requests under   *)
(* way are not withdrawn.                                                  *)
Disable ==
  /\ enabled /\ enabled' = FALSE
  /\ timer' = FALSE /\ rest' = FALSE /\ connecting' = 0 /\ open' = 0
  /\ position' = 0 /\ track' = <<>> /\ connected' = FALSE
  /\ UNCHANGED <<now, delay, asks, faults, toggles>>

Opens ==
  /\ connecting > 0 /\ connecting' = connecting - 1 /\ open' = open + 1
  /\ connected' = TRUE /\ delay' = 0 /\ rest' = FALSE
  /\ UNCHANGED <<now, enabled, timer, asks, position, track, faults, toggles>>

Message ==
  /\ open > 0 /\ Take(now)
  /\ UNCHANGED <<now, enabled, connecting, open, timer, delay, rest, asks, connected, faults,
                 toggles>>

(* Requests take over, and a reconnect is due after the delay.             *)
Closed ==
  /\ connected' = FALSE /\ rest' = TRUE
  /\ asks' = (IF rest THEN asks ELSE asks \cup {Ask("position", 0)})
  /\ timer' = TRUE /\ delay' = (IF delay < Delays THEN delay + 1 ELSE delay)

(* Refused, or lost.                                                       *)
Closes ==
  /\ faults < MaxFaults /\ faults' = faults + 1
  /\ \/ connecting > 0 /\ connecting' = connecting - 1 /\ UNCHANGED open
     \/ open > 0 /\ open' = open - 1 /\ UNCHANGED connecting
  /\ Closed
  /\ UNCHANGED <<now, enabled, position, track, toggles>>

Reconnect ==
  /\ timer /\ timer' = FALSE
  /\ connecting' = (IF enabled THEN connecting + 1 ELSE connecting)
  /\ UNCHANGED <<now, enabled, open, delay, rest, asks, position, track, connected, faults, toggles>>

RestTick ==
  /\ rest /\ asks' = asks \cup {Ask("position", 0)}
  /\ UNCHANGED <<now, enabled, connecting, open, timer, delay, rest, position, track, connected,
                 faults, toggles>>

(* The server reads, the answer arrives later.                             *)
Served(a) ==
  /\ a.by = 0 /\ asks' = (asks \ {a}) \cup {[a EXCEPT !.by = now]}
  /\ UNCHANGED <<now, enabled, connecting, open, timer, delay, rest, position, track, connected,
                 faults, toggles>>

(* Nobody asks whether the tracker is still on.                            *)
Answer(a) ==
  /\ a.by # 0 /\ asks' = asks \ {a}
  /\ \/ a.what = "position" /\ Take(a.by)
     \/ /\ a.what = "track" /\ UNCHANGED position
        /\ track' = [i \in 1..(IF a.by < TrackLength THEN a.by ELSE TrackLength) |-> a.by + 1 - i]
  /\ UNCHANGED <<now, enabled, connecting, open, timer, delay, rest, connected, faults, toggles>>

AskFails(a) ==
  /\ faults < MaxFaults /\ faults' = faults + 1 /\ asks' = asks \ {a}
  /\ UNCHANGED <<now, enabled, connecting, open, timer, delay, rest, position, track, connected,
                 toggles>>

Next ==
  \/ Moves \/ Enable \/ Disable \/ Opens \/ Message \/ Closes \/ Reconnect \/ RestTick
  \/ \E a \in asks : Served(a) \/ Answer(a) \/ AskFails(a)

(* Timers fire, sockets open or close, the poller publishes every five     *)
(* seconds, requests are answered.                                         *)
IssFairness ==
  /\ WF_vars(Opens) /\ WF_vars(Message) /\ WF_vars(Reconnect) /\ WF_vars(RestTick)
  /\ WF_vars(\E a \in asks : Served(a)) /\ WF_vars(\E a \in asks : Answer(a))

Spec == Init /\ [][Next]_vars /\ IssFairness

-----------------------------------------------------------------------------
(* Properties.                                                             *)

(* While it is on there is one socket, or the timer for the next, and with *)
(* no socket open after the first there are requests; while it is off      *)
(* there is nothing of this, however often and quickly it was switched.    *)
OneSource ==
  /\ connecting + open + (IF timer THEN 1 ELSE 0) = (IF enabled THEN 1 ELSE 0)
  /\ connected <=> open > 0
  /\ rest => enabled /\ open = 0
  /\ timer => rest

(* A position the station has taken is shown, or a later one, unless the   *)
(* tracker is switched off.                                                *)
Taken(p) == enabled /\ now >= p
Reached(p) == ~ enabled \/ position >= p
Followed == \A p \in Positions : Taken(p) ~> Reached(p)
=============================================================================
