-------------------------------- MODULE Listen --------------------------------
(***************************************************************************)
(* The sockets of the listening post                                       *)
(* (frontend/src/hooks/useListenAudio.ts: the sound;                       *)
(*  components/js8call/ListeningPost.tsx: the waterfall).                  *)
(*                                                                         *)
(* Both are effects that open a socket, reconnect three seconds after its  *)
(* close, and are cleaned up; the close of a socket arrives later, when    *)
(* the effect may have run again.  They differ in what a cleanup does with *)
(* a socket that is still connecting and in what its close may say.        *)
(***************************************************************************)
EXTENDS Naturals, Sequences

CONSTANTS
  Kinds,      \* "sound", "waterfall"
  MaxSockets, \* bound on sockets
  MaxRuns,    \* bound on runs of the effect
  MaxBreaks   \* bound on the closes nobody asked for

VARIABLES
  kind,       \* which of the two
  active,     \* the post is shown, in the mode that needs the socket
  run,        \* the run of the effect: the others are disposed
  socks,      \* the sockets ever opened: their run and state
  current,    \* wsRef, or 0
  timer,      \* runs with a reconnect timer
  ready,      \* isConnected, waterfallReady
  playing,    \* isPlaying
  breaks

vars == <<kind, active, run, socks, current, timer, ready, playing, breaks>>

Sockets == DOMAIN socks
Live(r) == active /\ r = run

TypeOK ==
  /\ kind \in Kinds /\ {active, ready, playing} \subseteq BOOLEAN
  /\ run \in 0..MaxRuns /\ breaks \in 0..MaxBreaks
  /\ Len(socks) <= MaxSockets
  /\ \A s \in Sockets : socks[s] \in
       [run : 1..MaxRuns, state : {"connecting", "open", "closing", "closed"}]
  /\ current \in Sockets \cup {0} /\ timer \subseteq 1..MaxRuns

Init ==
  /\ kind \in Kinds /\ active = FALSE /\ run = 0 /\ socks = <<>> /\ current = 0 /\ timer = {}
  /\ ready = FALSE /\ playing = FALSE /\ breaks = 0

(* connect()                                                               *)
Connected(ss, r) == Append(ss, [run |-> r, state |-> "connecting"])

(* The sound closes its socket at once; the waterfall lets one that is     *)
(* connecting open first.                                                  *)
CleanedUp ==
  IF current = 0 \/ socks[current].state \in {"closing", "closed"}
     \/ (kind = "waterfall" /\ socks[current].state = "connecting")
  THEN socks
  ELSE [socks EXCEPT ![current].state = "closing"]

Activate ==
  /\ ~ active /\ run < MaxRuns /\ Len(socks) < MaxSockets
  /\ active' = TRUE /\ run' = run + 1
  /\ socks' = Connected(socks, run') /\ current' = Len(socks')
  /\ UNCHANGED <<kind, timer, ready, playing, breaks>>

Deactivate ==
  /\ active /\ active' = FALSE
  /\ socks' = CleanedUp /\ current' = 0 /\ timer' = {}
  /\ ready' = (ready /\ kind = "waterfall") /\ playing' = FALSE
  /\ UNCHANGED <<kind, run, breaks>>

(* The sound is enabled: the waterfall's effect runs again.                *)
AnalyserChanges ==
  /\ kind = "waterfall" /\ active /\ run < MaxRuns /\ Len(socks) < MaxSockets
  /\ run' = run + 1 /\ timer' = {}
  /\ socks' = Connected(CleanedUp, run') /\ current' = Len(socks')
  /\ UNCHANGED <<kind, active, ready, playing, breaks>>

(* A socket of a run that is over is closed.                               *)
Opens(s) ==
  /\ socks[s].state = "connecting"
  /\ IF Live(socks[s].run)
     THEN /\ socks' = [socks EXCEPT ![s].state = "open"]
          /\ ready' = (ready \/ kind = "sound")
     ELSE socks' = [socks EXCEPT ![s].state = "closing"] /\ UNCHANGED ready
  /\ UNCHANGED <<kind, active, run, current, timer, playing, breaks>>

(* The close of a socket of the sound says "not connected" whatever run it *)
(* is of; only the run that is not disposed reconnects.                    *)
Closed(s) ==
  /\ socks' = [socks EXCEPT ![s].state = "closed"]
  /\ ready' = (ready /\ kind = "waterfall" /\ ~ Live(socks[s].run))
  /\ playing' = (playing /\ kind = "waterfall")
  /\ timer' = timer \cup {r \in {socks[s].run} : Live(r)}

Closes(s) ==
  /\ socks[s].state = "closing" /\ Closed(s)
  /\ UNCHANGED <<kind, active, run, current, breaks>>

(* Refused, or closed by the bridge, or lost.                              *)
Breaks(s) ==
  /\ breaks < MaxBreaks /\ breaks' = breaks + 1
  /\ socks[s].state \in {"connecting", "open"} /\ Closed(s)
  /\ UNCHANGED <<kind, active, run, current>>

Reconnect(r) ==
  /\ r \in timer /\ Len(socks) < MaxSockets
  /\ timer' = timer \ {r} /\ socks' = Connected(socks, r) /\ current' = Len(socks')
  /\ UNCHANGED <<kind, active, run, ready, playing, breaks>>

(* The first chunk plays, the first row makes the waterfall ready.         *)
Data(s) ==
  /\ socks[s].state = "open"
  /\ \/ kind = "sound" /\ playing' = TRUE /\ UNCHANGED ready
     \/ kind = "waterfall" /\ Live(socks[s].run) /\ ready' = TRUE /\ UNCHANGED playing
  /\ UNCHANGED <<kind, active, run, socks, current, timer, breaks>>

(* A second, or three, without data.                                       *)
Watchdog ==
  /\ IF kind = "sound"
     THEN /\ \E s \in Sockets : socks[s].state # "closed"
          /\ playing' = FALSE /\ UNCHANGED ready
     ELSE active /\ ready' = FALSE /\ UNCHANGED playing
  /\ UNCHANGED <<kind, active, run, socks, current, timer, breaks>>

Next ==
  \/ Activate \/ Deactivate \/ AnalyserChanges \/ Watchdog
  \/ \E s \in Sockets : Opens(s) \/ Closes(s) \/ Breaks(s) \/ Data(s)
  \/ \E r \in timer : Reconnect(r)

-----------------------------------------------------------------------------
(* Properties.                                                             *)

(* Leaving the post or a new run of the effect leaves no stream behind,    *)
(* however late its sockets open and close: what is open is the socket of  *)
(* the run there is, a run has one socket or one timer, and the sound is   *)
(* said to be connected or to play only over an open one.                  *)
OneStream ==
  LET mine == {s \in Sockets : socks[s].run = run /\ socks[s].state # "closed"} IN
  /\ \A s \in Sockets : socks[s].state = "open" => active /\ s = current
  /\ timer \subseteq {r \in {run} : active}
  /\ active => (timer = {} <=> \E s \in mine : s = current)
  /\ active => mine \subseteq {current}
  /\ (kind = "sound" /\ (ready \/ playing)) => (current # 0 /\ socks[current].state = "open")
=============================================================================
