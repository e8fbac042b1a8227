------------------------------ MODULE Aviation ------------------------------
(* The mission area and the aviation poller's H3 queue: the endpoint that  *)
(* stores and announces a mission (api/routers/system.py), the listener    *)
(* that pivots the poller, the priority queue of cells in Redis            *)
(* (h3_sharding.py) and the loops, one per source, that peek at it, poll   *)
(* the cell and reschedule it (aviation_poller/service.py).                *)
(*                                                                         *)
(* Redis outlives the poller.  A cell is a number, in the order in which   *)
(* the sorted set breaks ties.  What a poll returns is only whether it had *)
(* aircraft: publishing them, and the cooldown of a source, which these    *)
(* loops write and never read, are left out.                               *)
EXTENDS Integers, Sequences, FiniteSets

CONSTANTS
  Sources,          \* ADS-B networks, one loop each
  Missions,         \* mission areas an operator may ask for
  Default,          \* the area of the environment variables
  Cells,            \* H3 cells, as numbers
  Region(_),        \* grid_disk of an area
  Requests,         \* POST /api/config/location requests of a behaviour
  Active, Empty,    \* INTERVAL_ACTIVE, INTERVAL_EMPTY in ticks
  Watched,          \* the cell whose waiting is measured
  MaxNow,           \* bound on the clock
  MaxFaults         \* bound on errors, lost subscriptions and restarts

ASSUME AreasAssumption ==
  /\ IsFiniteSet(Sources) /\ IsFiniteSet(Cells) /\ Cells \subseteq Nat
  /\ Default \in Missions /\ Watched \in Cells
  /\ \A m \in Missions : Region(m) \subseteq Cells

ASSUME BoundsAssumption ==
  /\ Active \in Nat /\ Empty \in Nat /\ 0 < Active /\ Active < Empty
  /\ MaxNow \in Nat /\ MaxFaults \in Nat

NotQueued == -1
Idle == -1

VARIABLES
  mission,     \* mission:active; the default area while the key is missing
  request,     \* request -> [state, area]
  poller,      \* "down", "subscribed", "loaded", "up"
  subscribed,  \* the subscription to navigation-updates is alive
  inbox,       \* announcements received and not yet handled
  area,        \* center and radius of the poller
  nav,         \* the listener: "listening", or "flushed" between two calls
  queue,       \* h3:poll_queue: cell -> time of its next poll
  counts,      \* h3:aircraft_counts: cell -> "none", "empty", "busy"
  held,        \* source -> the cell its loop is polling
  now, faults,
  missed,      \* history: the last announcement to arrive is not of `mission'
  seeded,      \* history: the queue was seeded for the area
  carried,     \* history: cells held, or left, when the area was last set
  passed       \* history: polls of others while Watched was due, since the last
               \* flush, restart or refused reschedule

apiVars   == <<mission, request>>
pollerVars == <<poller, subscribed, inbox, area, nav>>
queueVars == <<queue, counts>>
historyVars == <<missed, seeded, carried, passed>>
vars == <<apiVars, pollerVars, queueVars, held, now, faults, historyVars>>

Queued == {c \in Cells : queue[c] # NotQueued}
HeldCells == {held[s] : s \in Sources} \ {Idle}
Due(c) == queue[c] # NotQueued /\ queue[c] <= now
Fault == faults < MaxFaults /\ faults' = faults + 1

TypeOK ==
  /\ mission \in Missions
  /\ request \in [Requests -> [state : {"new", "stored", "done"}, area : Missions]]
  /\ poller \in {"down", "subscribed", "loaded", "up"}
  /\ inbox \in Seq(Missions)
  /\ area \in Missions
  /\ nav \in {"listening", "flushed"}
  /\ queue \in [Cells -> Nat \cup {NotQueued}]
  /\ counts \in [Cells -> {"none", "empty", "busy"}]
  /\ held \in [Sources -> Cells \cup {Idle}]
  /\ now \in 0..MaxNow /\ faults \in 0..MaxFaults
  /\ carried \subseteq Cells /\ passed \in Nat
  /\ subscribed \in BOOLEAN /\ missed \in BOOLEAN /\ seeded \in BOOLEAN

Init ==
  /\ mission = Default
  /\ request = [r \in Requests |-> [state |-> "new", area |-> Default]]
  /\ poller = "down" /\ subscribed = FALSE /\ inbox = <<>> /\ area = Default
  /\ nav = "listening"
  /\ queue = [c \in Cells |-> NotQueued]
  /\ counts = [c \in Cells |-> "none"]
  /\ held = [s \in Sources |-> Idle]
  /\ now = 0 /\ faults = 0
  /\ missed = FALSE /\ seeded = FALSE /\ carried = {} /\ passed = 0

-----------------------------------------------------------------------------
(* The queue.                                                              *)

(* zadd nx of every cell of the region, due now.                           *)
InitializeRegion(m) ==
  queue' = [c \in Cells |-> IF c \in Region(m) /\ queue[c] = NotQueued
                            THEN now ELSE queue[c]]

(* Slip: the queue is not among the deleted keys.                          *)
FlushRegionSlipQueue ==
  /\ counts' = [c \in Cells |-> "none"]
  /\ UNCHANGED queue

(* One DEL of all keys.                                                    *)
FlushRegion ==
  /\ queue' = [c \in Cells |-> NotQueued]
  /\ counts' = [c \in Cells |-> "none"]

(* The lowest score; the cell stays in the queue.                          *)
IsNext(c) ==
  /\ c \in Queued
  /\ \A d \in Queued \ {c} : queue[c] < queue[d] \/ (queue[c] = queue[d] /\ c < d)

(* Slip: a reschedule that keeps the score a queued cell has (nx).         *)
UpdatePrioritySlip(c, n) ==
  /\ queue' = [queue EXCEPT ![c] = IF @ # NotQueued THEN @
                                   ELSE now + (IF n = "busy" THEN Active ELSE Empty)]
  /\ counts' = [counts EXCEPT ![c] = n]

(* Score and count, in one transaction.                                    *)
UpdatePriority(c, n) ==
  /\ queue' = [queue EXCEPT ![c] = now + (IF n = "busy" THEN Active ELSE Empty)]
  /\ counts' = [counts EXCEPT ![c] = n]

-----------------------------------------------------------------------------
(* The endpoint: SET, then PUBLISH, with other requests in between.        *)

StoreMission(r, m) ==
  /\ request[r].state = "new"
  /\ request' = [request EXCEPT ![r] = [state |-> "stored", area |-> m]]
  /\ mission' = m
  /\ UNCHANGED <<pollerVars, queueVars, held, now, faults, historyVars>>

Announce(r) ==
  /\ request[r].state = "stored"
  /\ request' = [request EXCEPT ![r].state = "done"]
  /\ IF subscribed
     THEN inbox' = Append(inbox, request[r].area) /\ missed' = (request[r].area # mission)
     ELSE missed' = (missed \/ poller = "up") /\ UNCHANGED inbox
  /\ UNCHANGED <<mission, poller, subscribed, area, nav, queueVars, held, now,
                 faults, seeded, carried, passed>>

(* PUBLISH raises: the request fails, the mission stays stored.            *)
AnnounceFails(r) ==
  /\ Fault
  /\ request[r].state = "stored"
  /\ request' = [request EXCEPT ![r].state = "done"]
  /\ missed' = TRUE
  /\ UNCHANGED <<mission, pollerVars, queueVars, held, now, seeded, carried, passed>>

-----------------------------------------------------------------------------
(* setup(): subscribe, read the mission, seed without a flush.             *)

(* Slip: the subscription is made only once the poller runs.               *)
SubscribeSlip ==
  /\ poller = "down"
  /\ poller' = "subscribed"
  /\ UNCHANGED <<apiVars, subscribed, inbox, area, nav, queueVars, held, now,
                 faults, historyVars>>

Subscribe ==
  /\ poller = "down"
  /\ poller' = "subscribed"
  /\ subscribed' = TRUE
  /\ UNCHANGED <<apiVars, inbox, area, nav, queueVars, held, now, faults, historyVars>>

LoadActiveMission ==
  /\ poller = "subscribed"
  /\ poller' = "loaded"
  /\ area' = mission
  /\ missed' = (inbox # <<>> /\ inbox[Len(inbox)] # mission)
  /\ UNCHANGED <<apiVars, subscribed, inbox, nav, queueVars, held, now, faults,
                 seeded, carried, passed>>

SeedAtStart ==
  /\ poller = "loaded"
  /\ poller' = "up"
  /\ InitializeRegion(area)
  /\ seeded' = TRUE
  /\ carried' = Queued
  /\ UNCHANGED <<apiVars, subscribed, inbox, area, nav, counts, held, now, faults,
                 missed, passed>>

(* Killed or shut down; the queue stays in Redis.                          *)
Stop ==
  /\ Fault
  /\ poller # "down"
  /\ poller' = "down"
  /\ subscribed' = FALSE
  /\ inbox' = <<>>
  /\ nav' = "listening"
  /\ area' = Default
  /\ held' = [s \in Sources |-> Idle]
  /\ seeded' = FALSE
  /\ passed' = 0
  /\ UNCHANGED <<apiVars, queueVars, now, missed, carried>>

-----------------------------------------------------------------------------
(* navigation_listener().                                                  *)

(* The area is set, then the three keys are deleted in one call.           *)
Pivot ==
  /\ poller = "up" /\ nav = "listening" /\ inbox # <<>>
  /\ area' = Head(inbox)
  /\ inbox' = Tail(inbox)
  /\ FlushRegion
  /\ nav' = "flushed"
  /\ carried' = HeldCells
  /\ passed' = 0
  /\ UNCHANGED <<apiVars, poller, subscribed, held, now, faults, missed, seeded>>

(* Slip: a queue that is not empty is taken to be seeded.                  *)
SeedForAreaSlip ==
  /\ nav = "flushed"
  /\ IF Queued = {} THEN InitializeRegion(area) ELSE UNCHANGED queue
  /\ nav' = "listening"
  /\ seeded' = TRUE
  /\ UNCHANGED <<apiVars, poller, subscribed, inbox, area, counts, held, now,
                 faults, missed, carried, passed>>

SeedForArea ==
  /\ nav = "flushed"
  /\ InitializeRegion(area)
  /\ nav' = "listening"
  /\ seeded' = TRUE
  /\ UNCHANGED <<apiVars, poller, subscribed, inbox, area, counts, held, now,
                 faults, missed, carried, passed>>

(* Redis refuses the flush: logged, and the old cells stay.                *)
FlushFails ==
  /\ Fault
  /\ poller = "up" /\ nav = "listening" /\ inbox # <<>>
  /\ area' = Head(inbox)
  /\ inbox' = Tail(inbox)
  /\ seeded' = FALSE
  /\ carried' = Queued \cup HeldCells
  /\ UNCHANGED <<apiVars, poller, subscribed, nav, queueVars, held, now, missed, passed>>

(* Redis refuses the seed: logged, and the queue stays flushed.            *)
SeedFails ==
  /\ Fault
  /\ nav = "flushed"
  /\ nav' = "listening"
  /\ seeded' = FALSE
  /\ UNCHANGED <<apiVars, poller, subscribed, inbox, area, queueVars, held, now,
                 missed, carried, passed>>

SubscriptionFails ==
  /\ Fault
  /\ poller = "up" /\ nav = "listening" /\ subscribed
  /\ subscribed' = FALSE
  /\ inbox' = <<>>
  /\ missed' = (missed \/ inbox # <<>>)
  /\ UNCHANGED <<apiVars, poller, area, nav, queueVars, held, now, seeded, carried, passed>>

(* The mission stored meanwhile is not read.                               *)
Resubscribe ==
  /\ poller = "up" /\ ~subscribed
  /\ subscribed' = TRUE
  /\ UNCHANGED <<apiVars, poller, inbox, area, nav, queueVars, held, now, faults, historyVars>>

-----------------------------------------------------------------------------
(* source_loop().                                                          *)

(* get_next_batch(1): no claim, and no comparison of the score with the    *)
(* clock.                                                                  *)
Peek(s) ==
  /\ poller = "up" /\ held[s] = Idle
  /\ \E c \in Cells :
       /\ IsNext(c)
       /\ held' = [held EXCEPT ![s] = c]
       /\ passed' = IF c = Watched THEN 0
                    ELSE IF Due(Watched) THEN passed + 1 ELSE passed
  /\ UNCHANGED <<apiVars, pollerVars, queueVars, now, faults, missed, seeded, carried>>

(* The poll is over.  No aircraft, a 429 and an error count as empty.      *)
Reschedule(s, n) ==
  /\ held[s] # Idle
  /\ held' = [held EXCEPT ![s] = Idle]
  /\ UpdatePriority(held[s], n)
  /\ passed' = IF held[s] = Watched THEN 0 ELSE passed
  /\ UNCHANGED <<apiVars, pollerVars, now, faults, missed, seeded, carried>>

(* Redis refuses the reschedule, and the one as empty that is tried after  *)
(* it: the loop sleeps and starts again.                                   *)
RescheduleFails(s) ==
  /\ Fault
  /\ held[s] # Idle
  /\ held' = [held EXCEPT ![s] = Idle]
  /\ passed' = 0
  /\ UNCHANGED <<apiVars, pollerVars, queueVars, now, missed, seeded, carried>>

Tick ==
  /\ now < MaxNow
  /\ now' = now + 1
  /\ UNCHANGED <<apiVars, pollerVars, queueVars, held, faults, historyVars>>

Next ==
  \/ (\E r \in Requests : \/ (\E m \in Missions : StoreMission(r, m))
                          \/ Announce(r) \/ AnnounceFails(r))
  \/ Subscribe \/ LoadActiveMission \/ SeedAtStart \/ Stop
  \/ Pivot \/ SeedForArea \/ FlushFails \/ SeedFails
  \/ SubscriptionFails \/ Resubscribe
  \/ (\E s \in Sources : \/ Peek(s) \/ RescheduleFails(s)
                         \/ (\E n \in {"empty", "busy"} : Reschedule(s, n)))
  \/ Tick

Spec == Init /\ [][Next]_vars
-----------------------------------------------------------------------------
(* Properties.                                                             *)

Settled == poller = "up" /\ nav = "listening"

(* Once seeded, every cell of the area is in the queue, whatever the loops *)
(* do between the flush and the seed and after it: a peek takes nothing    *)
(* out (h3_sharding.py:79, 90, 105).                                       *)
RegionCovered == Settled /\ seeded => Region(area) \subseteq Queued

(* The cells of another area that survive a pivot are those that a loop    *)
(* held when the queue was flushed, one per source at most; without a      *)
(* flush, those that were queued (service.py:251, 326).                    *)
StraysWereHeld == Settled => Queued \ Region(area) \subseteq carried

(* With every announcement handled, none lost and none overtaken by the    *)
(* mission stored last, the poller covers the stored mission, even when    *)
(* the mission changes while it starts: it subscribes before it reads      *)
(* (service.py:141-144, 241-243).                                          *)
AreaFollowsMission ==
  Settled /\ inbox = <<>> /\ ~missed /\ (\A r \in Requests : request[r].state # "stored")
    => area = mission

(* The counts shown are of queued cells: one transaction writes both, one  *)
(* call deletes both (h3_sharding.py:85, 104-116).                         *)
CountsAreQueued == \A c \in Cells : counts[c] # "none" => c \in Queued

(* No cell starves: while a cell is due, each other cell is polled at most *)
(* once by each source before it, however the loops interleave and         *)
(* although they all may hold the same cell (h3_sharding.py:90, 102).      *)
DueCellIsServed == passed <= (Cardinality(Cells) - 1) * Cardinality(Sources)

(* What is counted and what is due is served.                              *)
CellsAreServed == CountsAreQueued /\ DueCellIsServed
=============================================================================
