---------------------------- MODULE TrackStream ----------------------------
(***************************************************************************)
(* The browser's end of the track stream                                   *)
(* (frontend/src/workers/WorkerProtocol.ts, tak.worker.ts, batchFraming.ts *)
(* and the socket callback of hooks/useEntityWorker.ts).                   *)
(*                                                                         *)
(* The page keeps one variable for its WebSocket, one for its heartbeat    *)
(* interval and one for its reconnect timer.  The handlers of a socket     *)
(* live as long as the socket, which may be longer than the variable       *)
(* points to it: a nudge while a connection is being made, or being        *)
(* closed, opens another.  Frames go to a web worker, which decodes them   *)
(* and posts what it decoded in batches, by size or after a delay.         *)
(*                                                                         *)
(* An action is one callback of the event loop of the page or of the       *)
(* worker.  A slot is a WebSocket object; one whose close event has been   *)
(* handled can be used again.  Frames are counted, not told apart.         *)
(***************************************************************************)
EXTENDS Naturals, FiniteSets

CONSTANTS
  Slots,        \* WebSocket objects that can exist at a time, positive numbers
  Cap,          \* attempts after which the backoff delay no longer grows
  BatchSize,    \* BATCH_SIZE of the worker
  MaxInbox,     \* bound on frames posted to the worker and not yet decoded
  MaxTimers,    \* bound on flush timers pending at a time
  MaxNudges,    \* bound on online and visibilitychange events
  MaxFaults,    \* bound on failures of the network and of the server
  MaxServed     \* bound on changes of the watchlist at the server

ASSUME SlotsAssumption == Slots \subseteq Nat \ {0} /\ IsFiniteSet(Slots)
ASSUME SizesAssumption == BatchSize \in Nat \ {0} /\ MaxTimers \in Nat \ {0}
ASSUME BoundsAssumption ==
  Cap \in Nat /\ MaxInbox \in Nat /\ MaxNudges \in Nat /\ MaxFaults \in Nat /\ MaxServed \in Nat

VARIABLES
  schema,      \* takType in the worker: loading, ready, failed, or ended with it
  workerReady, \* the page has heard that the schema is loaded
  sock,        \* per slot: none, connecting, open, closing
  ws,          \* the slot the page's variable points to, or 0
  silent,      \* environment: open sockets that no longer carry anything
  heartbeat,   \* heartbeatInterval is set
  reconnect,   \* reconnectTimeout is pending
  attempts,    \* reconnectAttempts, counted up to Cap
  quiet,       \* more than 15 s have passed since lastMessageTs
  cleaning,    \* isCleaningUp
  connected,   \* streamConnectedRef, as last reported
  inbox,       \* frames posted to the worker
  batch,       \* decoded entities the worker has not posted
  flushTimer,  \* the worker's flushTimer is not null
  timers,      \* flush timers that will fire
  served,      \* the watchlist at the server, as a version
  asks,        \* answers to watchlist requests under way
  watched,     \* the watchlist the page goes by, 0 for the empty one
  overlapped,  \* history: a socket was opened before the last one had closed
  late,        \* history: a message reached the application after cleanup
  nudges, faults

link == <<sock, ws, silent, heartbeat, reconnect, attempts, quiet, connected,
          overlapped, late>>
decoder == <<inbox, batch, flushTimer, timers>>
list == <<served, asks, watched>>
vars == <<schema, workerReady, link, cleaning, decoder, list, nudges, faults>>

TypeOK ==
  /\ schema \in {"loading", "ready", "failed", "ended"}
  /\ workerReady \in BOOLEAN
  /\ sock \in [Slots -> {"none", "connecting", "open", "closing"}]
  /\ ws \in Slots \cup {0}
  /\ silent \subseteq {s \in Slots : sock[s] # "none"}
  /\ heartbeat \in BOOLEAN /\ reconnect \in BOOLEAN
  /\ attempts \in 0..Cap
  /\ quiet \in BOOLEAN /\ cleaning \in BOOLEAN /\ connected \in BOOLEAN
  /\ inbox \in 0..MaxInbox
  /\ batch \in 0..BatchSize - 1
  /\ flushTimer \in BOOLEAN
  /\ timers \in 0..MaxTimers
  /\ served \in 0..MaxServed /\ watched \in 0..MaxServed
  /\ asks \subseteq 0..MaxServed
  /\ overlapped \in BOOLEAN /\ late \in BOOLEAN
  /\ nudges \in 0..MaxNudges /\ faults \in 0..MaxFaults

Init ==
  /\ schema = "loading" /\ workerReady = FALSE
  /\ sock = [s \in Slots |-> "none"] /\ ws = 0 /\ silent = {}
  /\ heartbeat = FALSE /\ reconnect = FALSE /\ attempts = 0
  /\ quiet = FALSE /\ connected = TRUE /\ cleaning = FALSE
  /\ inbox = 0 /\ batch = 0 /\ flushTimer = FALSE /\ timers = 0
  /\ served = 0 /\ asks = {0} /\ watched = 0
  /\ overlapped = FALSE /\ late = FALSE
  /\ nudges = 0 /\ faults = 0

Open(s) == s # 0 /\ sock[s] = "open"
Free == {s \in Slots : sock[s] = "none"}

-----------------------------------------------------------------------------
(* The schema.                                                             *)

SchemaLoads ==
  /\ schema = "loading" /\ schema' = "ready"
  /\ UNCHANGED <<workerReady, link, cleaning, decoder, list, nudges, faults>>

SchemaFails ==
  /\ schema = "loading" /\ faults < MaxFaults
  /\ schema' = "failed" /\ faults' = faults + 1
  /\ UNCHANGED <<workerReady, link, cleaning, decoder, list, nudges>>

(* connect(): nothing is done while the current socket is open; one that   *)
(* is connecting or closing is left to itself.                             *)
Connect ==
  IF Open(ws)
  THEN UNCHANGED <<sock, ws, overlapped>> /\ reconnect' = FALSE
  ELSE \E s \in Free :
         /\ \A t \in Free : s <= t
         /\ sock' = [sock EXCEPT ![s] = "connecting"]
         /\ ws' = s /\ reconnect' = FALSE
         /\ overlapped' = (overlapped \/ \E t \in Slots : sock[t] # "none")

WorkerReady ==
  /\ schema = "ready" /\ ~workerReady /\ ~cleaning
  /\ workerReady' = TRUE
  /\ Connect
  /\ UNCHANGED <<schema, silent, heartbeat, attempts, quiet, connected, late,
                 cleaning, decoder, list, nudges, faults>>

-----------------------------------------------------------------------------
(* The handlers of a socket, whether or not ws still points to it.         *)

Opened(s) ==
  /\ sock[s] = "connecting"
  /\ sock' = [sock EXCEPT ![s] = "open"]
  /\ attempts' = 0 /\ quiet' = FALSE /\ heartbeat' = TRUE
  /\ connected' = TRUE
  /\ UNCHANGED <<schema, workerReady, ws, silent, reconnect, overlapped, late,
                 cleaning, decoder, list, nudges, faults>>

(* A binary frame goes to the worker if there still is one.                *)
Frame(s) ==
  /\ Open(s) /\ s \notin silent
  /\ inbox < MaxInbox
  /\ quiet' = FALSE
  /\ inbox' = IF cleaning THEN inbox ELSE inbox + 1
  /\ UNCHANGED <<schema, workerReady, sock, ws, silent, heartbeat, reconnect,
                 attempts, connected, overlapped, late, cleaning, batch,
                 flushTimer, timers, list, nudges, faults>>

(* A text frame is an alert, handed to onWsMessage at once.                *)
Alert(s) ==
  /\ Open(s) /\ s \notin silent
  /\ quiet' = FALSE
  /\ late' = (late \/ cleaning)
  /\ UNCHANGED <<schema, workerReady, sock, ws, silent, heartbeat, reconnect,
                 attempts, connected, overlapped, cleaning, decoder, list,
                 nudges, faults>>

(* Slip: the reconnect timer is not set once the backoff is at its longest. *)
ClosedSlip(s, next) ==
  /\ sock' = next /\ silent' = silent \ {s}
  /\ IF cleaning THEN UNCHANGED <<heartbeat, reconnect, attempts, connected>>
     ELSE /\ heartbeat' = FALSE /\ connected' = FALSE
          /\ attempts' = IF attempts < Cap THEN attempts + 1 ELSE attempts
          /\ reconnect' = (attempts < Cap)

(* onclose: the heartbeat and the timer are shared by all sockets.         *)
Closed(s, next) ==
  /\ sock' = next /\ silent' = silent \ {s}
  /\ IF cleaning THEN UNCHANGED <<heartbeat, reconnect, attempts, connected>>
     ELSE /\ heartbeat' = FALSE /\ connected' = FALSE
          /\ attempts' = IF attempts < Cap THEN attempts + 1 ELSE attempts
          /\ reconnect' = TRUE

CloseEvent(s) ==
  /\ sock[s] = "closing"
  /\ Closed(s, [sock EXCEPT ![s] = "none"])
  /\ UNCHANGED <<schema, workerReady, ws, quiet, overlapped, late, cleaning,
                 decoder, list, nudges, faults>>

(* The server closes or refuses a connection, or the network loses it.     *)
Drop(s) ==
  /\ sock[s] \in {"connecting", "open"} /\ faults < MaxFaults
  /\ faults' = faults + 1
  /\ Closed(s, [sock EXCEPT ![s] = "none"])
  /\ UNCHANGED <<schema, workerReady, ws, quiet, overlapped, late, cleaning,
                 decoder, list, nudges>>

(* A connection is lost without either end being told.                     *)
GoesSilent(s) ==
  /\ Open(s) /\ s \notin silent /\ faults < MaxFaults
  /\ silent' = silent \cup {s} /\ faults' = faults + 1
  /\ UNCHANGED <<schema, workerReady, sock, ws, heartbeat, reconnect, attempts,
                 quiet, connected, overlapped, late, cleaning, decoder, list,
                 nudges>>

-----------------------------------------------------------------------------
(* Timers and events of the page.                                          *)

QuietFor15s ==
  /\ ~quiet /\ (\E s \in Slots : Open(s))
  /\ quiet' = TRUE
  /\ UNCHANGED <<schema, workerReady, sock, ws, silent, heartbeat, reconnect,
                 attempts, connected, overlapped, late, cleaning, decoder, list,
                 nudges, faults>>

(* The interval looks at ws, which need not be the socket that set it.     *)
Heartbeat ==
  /\ heartbeat /\ Open(ws) /\ quiet
  /\ sock' = [sock EXCEPT ![ws] = "closing"]
  /\ UNCHANGED <<schema, workerReady, ws, silent, heartbeat, reconnect, attempts,
                 quiet, connected, overlapped, late, cleaning, decoder, list,
                 nudges, faults>>

Reconnect ==
  /\ reconnect
  /\ Connect
  /\ UNCHANGED <<schema, workerReady, silent, heartbeat, attempts, quiet,
                 connected, late, cleaning, decoder, list, nudges, faults>>

(* Slip: a nudge does not look whether the socket is open.                 *)
NudgeSlip ==
  /\ workerReady /\ ~cleaning /\ nudges < MaxNudges
  /\ nudges' = nudges + 1 /\ attempts' = 0
  /\ \E s \in Free :
       /\ sock' = [sock EXCEPT ![s] = "connecting"] /\ ws' = s
  /\ reconnect' = FALSE
  /\ UNCHANGED <<schema, workerReady, silent, heartbeat, quiet, connected, late,
                 overlapped, cleaning, decoder, list, faults>>

(* The page is online again, or visible again.                             *)
Nudge ==
  /\ workerReady /\ ~cleaning /\ ~Open(ws) /\ nudges < MaxNudges
  /\ nudges' = nudges + 1
  /\ attempts' = 0
  /\ Connect
  /\ UNCHANGED <<schema, workerReady, silent, heartbeat, quiet, connected, late,
                 cleaning, decoder, list, faults>>

(* The function startWorkerProtocol() returns.                             *)
Cleanup ==
  /\ ~cleaning /\ cleaning' = TRUE
  /\ reconnect' = FALSE /\ heartbeat' = FALSE
  /\ schema' = "ended" /\ inbox' = 0 /\ batch' = 0 /\ flushTimer' = FALSE
  /\ timers' = 0
  /\ sock' = IF ws # 0 /\ sock[ws] \in {"connecting", "open"}
             THEN [sock EXCEPT ![ws] = "closing"] ELSE sock
  /\ UNCHANGED <<workerReady, ws, silent, attempts, quiet, connected,
                 overlapped, late, list, nudges, faults>>

-----------------------------------------------------------------------------
(* The worker.                                                             *)

(* What it holds after one more entity: flushed when that fills the batch, *)
(* and otherwise sure to have a timer.                                     *)
Pushed(h) ==
  IF h.batch + 1 >= BatchSize
  THEN [batch |-> 0, flushTimer |-> FALSE, timers |-> h.timers]
  ELSE [batch |-> h.batch + 1, flushTimer |-> TRUE,
        timers |-> IF h.flushTimer THEN h.timers ELSE h.timers + 1]

(* Records of a frame: none that decodes, one, or several (a batch frame). *)
Records == 0..2

Decode ==
  /\ schema = "ready" /\ inbox > 0 /\ timers < MaxTimers
  /\ inbox' = inbox - 1
  /\ LET held == [batch |-> batch, flushTimer |-> flushTimer, timers |-> timers]
         after(n) == CASE n = 0 -> held [] n = 1 -> Pushed(held)
                       [] OTHER -> Pushed(Pushed(held))
     IN \E n \in Records :
          /\ after(n).timers <= MaxTimers
          /\ batch' = after(n).batch /\ flushTimer' = after(n).flushTimer
          /\ timers' = after(n).timers
  /\ UNCHANGED <<schema, workerReady, link, cleaning, list, nudges, faults>>

Flush ==
  /\ timers > 0
  /\ timers' = timers - 1
  /\ batch' = 0 /\ flushTimer' = FALSE
  /\ UNCHANGED <<schema, workerReady, link, cleaning, inbox, list, nudges,
                 faults>>

-----------------------------------------------------------------------------
(* The watchlist: asked for at the start and every 10 s, whether or not    *)
(* the request before has been answered.                                   *)

(* Slip: nothing is asked again after a failure.                           *)
SyncWatchlistSlip ==
  /\ ~cleaning /\ faults = 0
  /\ asks' = asks \cup {served}
  /\ UNCHANGED <<schema, workerReady, link, cleaning, decoder, served, watched,
                 nudges, faults>>

SyncWatchlist ==
  /\ ~cleaning
  /\ asks' = asks \cup {served}
  /\ UNCHANGED <<schema, workerReady, link, cleaning, decoder, served, watched,
                 nudges, faults>>

WatchlistAnswer(v) ==
  /\ v \in asks /\ asks' = asks \ {v}
  /\ watched' = v
  /\ UNCHANGED <<schema, workerReady, link, cleaning, decoder, served, nudges,
                 faults>>

WatchlistFails(v) ==
  /\ v \in asks /\ asks' = asks \ {v} /\ faults < MaxFaults
  /\ faults' = faults + 1
  /\ UNCHANGED <<schema, workerReady, link, cleaning, decoder, served, watched,
                 nudges>>

(* Somebody edits the watchlist.                                           *)
WatchlistEdited ==
  /\ served < MaxServed /\ served' = served + 1
  /\ UNCHANGED <<schema, workerReady, link, cleaning, decoder, asks, watched,
                 nudges, faults>>

-----------------------------------------------------------------------------
Versions == 0..MaxServed

SocketNext ==
  \E s \in Slots :
    \/ Opened(s) \/ Frame(s) \/ Alert(s) \/ CloseEvent(s) \/ Drop(s)
    \/ GoesSilent(s)

ListNext ==
  \/ SyncWatchlist \/ WatchlistEdited
  \/ \E v \in Versions : WatchlistAnswer(v) \/ WatchlistFails(v)

Next ==
  \/ SchemaLoads \/ SchemaFails \/ WorkerReady
  \/ SocketNext
  \/ QuietFor15s \/ Heartbeat \/ Reconnect \/ Nudge \/ Cleanup
  \/ Decode \/ Flush
  \/ ListNext

Spec == Init /\ [][Next]_vars

(* Timers fire, messages between page and worker arrive, a connection is   *)
(* made or refused, a close completes and a request is answered.           *)
Fairness ==
  /\ WF_vars(SchemaLoads \/ SchemaFails) /\ WF_vars(WorkerReady)
  /\ \A s \in Slots :
       /\ WF_vars(Opened(s) \/ Drop(s))
       /\ WF_vars(CloseEvent(s))
  /\ WF_vars(QuietFor15s) /\ WF_vars(Heartbeat) /\ WF_vars(Reconnect)
  /\ WF_vars(Decode) /\ WF_vars(Flush)
  /\ WF_vars(SyncWatchlist)
  /\ \A v \in Versions : WF_vars(WatchlistAnswer(v) \/ WatchlistFails(v))

FairSpec == Spec /\ Fairness

-----------------------------------------------------------------------------
Live == Open(ws) /\ ws \notin silent

(* As long as no second socket was opened beside a first, the connection   *)
(* state the page goes by (which keeps tracks alive through an outage) is  *)
(* the state of the socket, an open socket is watched by the heartbeat,    *)
(* and one that is neither open nor on its way has a timer to replace it.  *)
StateIsTruthful ==
  (workerReady /\ ~cleaning /\ ~overlapped) =>
    /\ (Open(ws) => connected /\ heartbeat /\ ~reconnect)
    /\ (sock[ws] = "none" => ~connected /\ ~heartbeat /\ reconnect)

(* After the cleanup nothing of the protocol is left: no socket that stays *)
(* open, no timer that runs, no message that still reaches the application *)
(* (as long as sockets did not overlap).                                   *)
TornDown ==
  /\ \A s \in Slots : sock[s] \in {"none", "closing"}
  /\ ~heartbeat /\ ~reconnect /\ ~late
CleanupIsComplete == (cleaning /\ ~overlapped) => TornDown

(* A decoded entity never waits for another: some flush timer is pending,  *)
(* although a flush by size forgets the timer without clearing it.         *)
DecodedIsFlushed == batch > 0 => timers > 0

(* The schema is loaded before the first frame can arrive, so the snapshot *)
(* the server sends at once is not thrown away undecoded.                  *)
SchemaBeforeFrames == inbox > 0 => schema = "ready"

(* The stream comes back from every outage, refusal and silent loss, once  *)
(* they stop, with neither a retry budget nor the backoff in the way.      *)
StreamRecovers == []<>(overlapped \/ cleaning \/ schema = "failed" \/ Live)

(* In the end the page goes by the watchlist the server holds, though      *)
(* answers may arrive in another order than the requests were sent.        *)
WatchlistConverges == <>(cleaning \/ [](cleaning \/ watched = served))

(* The state of the connection is the one shown, nothing survives a        *)
(* cleanup, and no frame is decoded too early or left undecoded.           *)
StreamIsTruthful ==
  TypeOK /\ StateIsTruthful /\ CleanupIsComplete /\ DecodedIsFlushed /\ SchemaBeforeFrames
=============================================================================
