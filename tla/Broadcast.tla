------------------------------ MODULE Broadcast ------------------------------
(***************************************************************************)
(* The live fan-out of the backend (backend/api/services/broadcast.py) and *)
(* the WebSocket endpoint that uses it (backend/api/routers/tracks.py).    *)
(*                                                                         *)
(* Two loops, one reading Kafka (live TAK frames) and one reading Redis    *)
(* pub/sub (alerts), append every message to a bounded queue per client    *)
(* and drop the oldest entry of a full queue.  A worker task per client    *)
(* first replays a snapshot of the last-value cache and then drains the    *)
(* queue in batches.  All of it runs on one asyncio event loop: an action  *)
(* is the code between two awaits.                                         *)
(*                                                                         *)
(* Abstraction of the data: the n-th message of the run is the number n;   *)
(* log[n] is the entity it updates.  An alert, or a frame without a uid,   *)
(* updates NoUid: it is delivered and never cached.  Messages arrive in    *)
(* the order of their receive times, so that "older than the TTL" is a     *)
(* prefix 1..expired of the log.                                           *)
(***************************************************************************)
EXTENDS Integers, Sequences, FiniteSets

CONSTANTS
  Clients,      \* WebSocket objects; each connects at most once
  Uids,         \* entities a frame may be about
  NoUid,        \* frame without uid, or alert
  QueueSize,    \* _CLIENT_QUEUE_SIZE
  BatchMsgs,    \* _MAX_BATCH_MSGS
  MaxEntities,  \* settings.LIVE_SNAPSHOT_MAX_ENTITIES
  MaxLog        \* bound on the messages of one run

ASSUME NoUidAssumption == NoUid \notin Uids
ASSUME SizesAssumption ==
  /\ QueueSize \in Nat \ {0}
  /\ BatchMsgs \in Nat \ {0}
  /\ MaxEntities \in Nat
  /\ MaxLog \in Nat

VARIABLES
  service,    \* where start()/stop() stand
  running,    \* self.running
  task,       \* the loop tasks: consumer_task and redis_task
  toClose,    \* per loop: sockets its exception handler has still to close
  stopList,   \* clients stop() has still to disconnect
  stopJoin,   \* clients stop() is disconnecting: it awaits the worker
  clients,    \* keys of self._clients
  endpoint,   \* the websocket_endpoint coroutine of each client
  ws,         \* the socket of each client
  worker,     \* the _client_worker task of each client
  queue,      \* its asyncio.Queue
  unsent,     \* snapshot frames not yet sent
  batch,      \* drained messages not yet sent
  lvc,        \* self._lvc: the cached frame of each entity, 0 for none
  expired,    \* frames 1..expired are older than LIVE_SNAPSHOT_TTL_SECONDS
  log,        \* history: what the loops have broadcast
  view,       \* history: last frame of each entity the client received
  dropped,    \* history: frames dropped from the queue after the snapshot
  bootAt,     \* history: length of the log when the snapshot was taken
  loopFailed  \* history: a loop has ended in its exception handler

taskVars   == <<service, running, task, toClose, stopList, stopJoin, loopFailed>>
cacheVars  == <<lvc, expired, log>>
clientVars == <<view, dropped, bootAt>>
vars == <<service, running, task, toClose, stopList, stopJoin, clients,
          endpoint, ws, worker, queue, unsent, batch, lvc, expired, log,
          view, dropped, bootAt, loopFailed>>

Loops == {"kafka", "redis"}
Entities == Uids \cup {NoUid}
Elements(s) == {s[i] : i \in 1..Len(s)}

TypeOK ==
  /\ service \in {"new", "redis", "up", "stopRedis", "stopClients", "stopped",
                 "failed"}
  /\ running \in BOOLEAN
  /\ task \in [Loops -> {"off", "running", "failing", "ended"}]
  /\ toClose \in [Loops -> SUBSET Clients]
  /\ stopList \subseteq Clients
  /\ stopJoin \subseteq Clients
  /\ clients \subseteq Clients
  /\ endpoint \in [Clients -> {"idle", "receiving", "joining", "done"}]
  /\ ws \in [Clients -> {"none", "open", "stalled", "closed"}]
  /\ worker \in [Clients -> {"none", "new", "snapshot", "waiting", "sending",
                             "cancelled", "closing", "done"}]
  /\ queue \in [Clients -> Seq(Nat)]
  /\ unsent \in [Clients -> SUBSET Nat]
  /\ batch \in [Clients -> Seq(Nat)]
  /\ lvc \in [Uids -> Nat]
  /\ expired \in Nat
  /\ log \in Seq(Entities)
  /\ view \in [Clients -> [Uids -> Nat]]
  /\ dropped \in [Clients -> SUBSET Nat]
  /\ bootAt \in [Clients -> Nat]
  /\ loopFailed \in BOOLEAN

Init ==
  /\ service = "new"
  /\ running = FALSE
  /\ task = [t \in Loops |-> "off"]
  /\ toClose = [t \in Loops |-> {}]
  /\ stopList = {}
  /\ stopJoin = {}
  /\ clients = {}
  /\ endpoint = [c \in Clients |-> "idle"]
  /\ ws = [c \in Clients |-> "none"]
  /\ worker = [c \in Clients |-> "none"]
  /\ queue = [c \in Clients |-> <<>>]
  /\ unsent = [c \in Clients |-> {}]
  /\ batch = [c \in Clients |-> <<>>]
  /\ lvc = [u \in Uids |-> 0]
  /\ expired = 0
  /\ log = <<>>
  /\ view = [c \in Clients |-> [u \in Uids |-> 0]]
  /\ dropped = [c \in Clients |-> {}]
  /\ bootAt = [c \in Clients |-> 0]
  /\ loopFailed = FALSE

-----------------------------------------------------------------------------
(* The last-value cache.                                                   *)

Cached(cache) == {u \in Uids : cache[u] # 0}

\* _maybe_prune's sweep: drop the stale entries and, if there are still too
\* many, keep the MaxEntities freshest.
Sweep(cache) ==
  LET live == {u \in Uids : cache[u] > expired}
      kept == {u \in live :
                 Cardinality({v \in live : cache[v] > cache[u]}) < MaxEntities}
  IN  [u \in Uids |-> IF u \in kept THEN cache[u] ELSE 0]

\* Slip: the cache is filled only while somebody is watching.
RecordLiveSlip(cache, u, n, due) ==
  IF u = NoUid \/ clients = {} THEN cache ELSE [cache EXCEPT ![u] = n]

\* _record_live.  `due` says whether _LVC_PRUNE_INTERVAL_S has passed since
\* the last sweep.
RecordLive(cache, u, n, due) ==
  LET cache1 == [cache EXCEPT ![u] = n]
  IN  IF u = NoUid THEN cache
      ELSE IF due \/ Cardinality(Cached(cache1)) > MaxEntities
           THEN Sweep(cache1)
           ELSE cache1

\* _snapshot_frames: what a client that starts now is bootstrapped with.
SnapshotFrames == {lvc[u] : u \in {v \in Uids : lvc[v] > expired}}

-----------------------------------------------------------------------------
(* The loops.                                                              *)

\* Slip: a full queue refuses the new message.
OfferSlipNewest(q, n) == IF Len(q) >= QueueSize THEN q ELSE Append(q, n)

\* Slip: the queue is a stack.
OfferSlipLifo(q, n) == <<n>> \o q

\* Enqueue to one client, dropping the oldest entry of a full queue.
Offer(q, n) == Append(IF Len(q) >= QueueSize THEN Tail(q) ELSE q, n)

\* Slip: live messages are queued only once the bootstrap is over.
EnqueueSlip(u) ==
  LET n == Len(log) + 1
      ready == {c \in clients : worker[c] \notin {"new", "snapshot"}}
  IN  /\ log' = Append(log, u)
      /\ queue' = [c \in Clients |->
                     IF c \in ready THEN Offer(queue[c], n) ELSE queue[c]]
      /\ dropped' = dropped

\* The fan-out part of both loops: no await, every registered client at once.
Enqueue(u) ==
  LET n == Len(log) + 1
  IN  /\ log' = Append(log, u)
      /\ queue' = [c \in Clients |->
                     IF c \in clients THEN Offer(queue[c], n) ELSE queue[c]]
      /\ dropped' = [c \in Clients |->
                       IF /\ c \in clients
                          /\ Len(queue[c]) >= QueueSize
                          /\ worker[c] # "new"
                       THEN dropped[c] \cup {Head(queue[c])}
                       ELSE dropped[c]]

\* _consume: a decodable record arrives while the service is running.  (A
\* record that fails to decode changes nothing.)
Consume(u, due) ==
  /\ task["kafka"] = "running"
  /\ running
  /\ Len(log) < MaxLog
  /\ lvc' = RecordLive(lvc, u, Len(log) + 1, due)
  /\ Enqueue(u)
  /\ UNCHANGED <<expired, taskVars, clients, endpoint, ws, worker, unsent,
                 batch, view, bootAt>>

\* _consume_redis_alerts: an alert goes to the same queues.
Alert ==
  /\ task["redis"] = "running"
  /\ running
  /\ Len(log) < MaxLog
  /\ Enqueue(NoUid)
  /\ UNCHANGED <<lvc, expired, taskVars, clients, endpoint, ws, worker,
                 unsent, batch, view, bootAt>>

\* Either loop leaves at its next message once `running` is false.
LoopBreak(t) ==
  /\ task[t] = "running"
  /\ ~running
  /\ task' = [task EXCEPT ![t] = "ended"]
  /\ UNCHANGED <<service, running, toClose, stopList, stopJoin, loopFailed,
                 clients, endpoint, ws, worker, queue, unsent, batch,
                 cacheVars, clientVars>>

\* The iteration raises (broker or Redis connection lost): the handler takes
\* the list of sockets it is going to close ...
LoopFail(t) ==
  /\ task[t] = "running"
  /\ loopFailed' = TRUE
  /\ running' = FALSE
  /\ task' = [task EXCEPT ![t] = IF clients = {} THEN "ended" ELSE "failing"]
  /\ toClose' = [toClose EXCEPT ![t] = clients]
  /\ UNCHANGED <<service, stopList, stopJoin, clients, endpoint, ws, worker,
                 queue, unsent, batch, cacheVars, clientVars>>

\* ... closes them one by one (each close is awaited) ...
LoopClose(t) ==
  /\ task[t] = "failing"
  /\ \E c \in toClose[t] :
       /\ ws' = [ws EXCEPT ![c] = "closed"]
       /\ toClose' = [toClose EXCEPT ![t] = @ \ {c}]
  /\ UNCHANGED <<service, running, task, stopList, stopJoin, loopFailed,
                 clients, endpoint, worker, queue, unsent, batch, cacheVars,
                 clientVars>>

\* ... and then forgets every client, those that connected meanwhile included.
LoopClear(t) ==
  /\ task[t] = "failing"
  /\ toClose[t] = {}
  /\ task' = [task EXCEPT ![t] = "ended"]
  /\ clients' = {}
  /\ UNCHANGED <<service, running, toClose, stopList, stopJoin, loopFailed,
                 endpoint, ws, worker, queue, unsent, batch, cacheVars,
                 clientVars>>

\* The clock moves: older frames pass LIVE_SNAPSHOT_TTL_SECONDS.
Age ==
  /\ \E e \in (expired + 1)..Len(log) : expired' = e
  /\ UNCHANGED <<taskVars, clients, endpoint, ws, worker, queue, unsent,
                 batch, lvc, log, clientVars>>

-----------------------------------------------------------------------------
(* One client: the endpoint coroutine and the worker task.                 *)

\* connect(): registers the queue and creates the worker, with no await.
Connect(c) ==
  /\ service = "up"
  /\ endpoint[c] = "idle"
  /\ endpoint' = [endpoint EXCEPT ![c] = "receiving"]
  /\ ws' = [ws EXCEPT ![c] = "open"]
  /\ clients' = clients \cup {c}
  /\ worker' = [worker EXCEPT ![c] = "new"]
  /\ queue' = [queue EXCEPT ![c] = <<>>]
  /\ UNCHANGED <<taskVars, unsent, batch, cacheVars, clientVars>>

\* External: the peer stops reading, or goes away.
PeerStalls(c) ==
  /\ ws[c] = "open"
  /\ ws' = [ws EXCEPT ![c] = "stalled"]
  /\ UNCHANGED <<taskVars, clients, endpoint, worker, queue, unsent, batch,
                 cacheVars, clientVars>>

PeerLeaves(c) ==
  /\ ws[c] \in {"open", "stalled"}
  /\ ws' = [ws EXCEPT ![c] = "closed"]
  /\ UNCHANGED <<taskVars, clients, endpoint, worker, queue, unsent, batch,
                 cacheVars, clientVars>>

\* The first step of the worker: the snapshot is computed when it starts.
WorkerStart(c) ==
  /\ worker[c] = "new"
  /\ unsent' = [unsent EXCEPT ![c] = SnapshotFrames]
  /\ worker' = [worker EXCEPT
                  ![c] = IF SnapshotFrames = {} THEN "waiting" ELSE "snapshot"]
  /\ bootAt' = [bootAt EXCEPT ![c] = Len(log)]
  /\ UNCHANGED <<taskVars, clients, endpoint, ws, queue, batch, cacheVars,
                 view, dropped>>

\* One WebSocket frame of the snapshot: up to BatchMsgs cached frames, in the
\* order of the dictionary (any order here: one frame per entity).
SendSnapshot(c) ==
  /\ worker[c] = "snapshot"
  /\ ws[c] = "open"
  /\ \E sent \in SUBSET unsent[c] :
       /\ sent # {}
       /\ Cardinality(sent) <= BatchMsgs
       /\ view' = [view EXCEPT ![c] = [u \in Uids |->
                     IF \E n \in sent : log[n] = u
                     THEN CHOOSE n \in sent : log[n] = u
                     ELSE view[c][u]]]
       /\ unsent' = [unsent EXCEPT ![c] = @ \ sent]
       /\ worker' = [worker EXCEPT
                       ![c] = IF sent = unsent[c] THEN "waiting" ELSE @]
  /\ UNCHANGED <<taskVars, clients, endpoint, ws, queue, batch, cacheVars,
                 dropped, bootAt>>

\* q.get() and the opportunistic get_nowait() calls: no await in between once
\* the first message is there.
Drain(c) ==
  /\ worker[c] = "waiting"
  /\ queue[c] # <<>>
  /\ LET k == IF Len(queue[c]) < BatchMsgs THEN Len(queue[c]) ELSE BatchMsgs
     IN  /\ batch' = [batch EXCEPT ![c] = SubSeq(queue[c], 1, k)]
         /\ queue' = [queue EXCEPT ![c] = SubSeq(@, k + 1, Len(@))]
  /\ worker' = [worker EXCEPT ![c] = "sending"]
  /\ UNCHANGED <<taskVars, clients, endpoint, ws, unsent, cacheVars,
                 clientVars>>

\* Nothing after position i of the frames s is about the entity u of s[i].
IsLast(s, i, u) ==
  log[s[i]] = u /\ \A j \in (i + 1)..Len(s) : log[s[j]] # u

\* The frame of entity u a client is left with after the frames s, applied in
\* order, when it showed `old` before.
LastOf(s, u, old) ==
  LET lasts == {i \in 1..Len(s) : IsLast(s, i, u)}
  IN  IF lasts = {} THEN old ELSE s[CHOOSE i \in lasts : TRUE]

\* One WebSocket send of the drained batch.  coalesce_outgoing keeps the order
\* of the messages and decides the frame boundaries: any non-empty prefix.
SendBatch(c) ==
  /\ worker[c] = "sending"
  /\ ws[c] = "open"
  /\ \E k \in 1..Len(batch[c]) :
       /\ view' = [view EXCEPT ![c] = [u \in Uids |->
                     LastOf(SubSeq(batch[c], 1, k), u, view[c][u])]]
       /\ batch' = [batch EXCEPT ![c] = SubSeq(@, k + 1, Len(@))]
       /\ worker' = [worker EXCEPT
                       ![c] = IF k = Len(batch[c]) THEN "waiting" ELSE @]
  /\ UNCHANGED <<taskVars, clients, endpoint, ws, queue, unsent, cacheVars,
                 dropped, bootAt>>

\* Slip: a send waits for the peer without a timeout.
SendErrorsSlip == {"closed"}

\* A send raises on a closed socket and times out after 3 s on a stalled one.
SendErrors == {"stalled", "closed"}

\* The worker's finally block: it removes its own entry and, if there was
\* one, goes on to close the socket.
WorkerExit(c) ==
  /\ worker' = [worker EXCEPT ![c] = IF c \in clients THEN "closing" ELSE "done"]
  /\ clients' = clients \ {c}

SendFail(c) ==
  /\ worker[c] \in {"snapshot", "sending"}
  /\ ws[c] \in SendErrors
  /\ WorkerExit(c)
  /\ UNCHANGED <<taskVars, endpoint, ws, queue, unsent, batch, cacheVars,
                 clientVars>>

WorkerClose(c) ==
  /\ worker[c] = "closing"
  /\ worker' = [worker EXCEPT ![c] = "done"]
  /\ ws' = [ws EXCEPT ![c] = "closed"]
  /\ UNCHANGED <<taskVars, clients, endpoint, queue, unsent, batch, cacheVars,
                 clientVars>>

\* Slip: the send loop's handler swallows the cancellation and goes on.
WorkerCancelledSlip(c) ==
  /\ worker[c] = "cancelled"
  /\ worker' = [worker EXCEPT ![c] = "waiting"]
  /\ UNCHANGED <<taskVars, clients, endpoint, ws, queue, unsent, batch,
                 cacheVars, clientVars>>

\* CancelledError is delivered; the finally block finds no entry.
WorkerCancelled(c) ==
  /\ worker[c] = "cancelled"
  /\ worker' = [worker EXCEPT ![c] = "done"]
  /\ UNCHANGED <<taskVars, clients, endpoint, ws, queue, unsent, batch,
                 cacheVars, clientVars>>

\* Slip: the entry is popped and its worker is not cancelled.
UnregisterSlip(c) == clients' = clients \ {c} /\ worker' = worker

\* disconnect(c) up to its first await: pop the entry and cancel its worker.
Unregister(c) ==
  /\ clients' = clients \ {c}
  /\ worker' = [worker EXCEPT ![c] = IF c \in clients THEN "cancelled" ELSE @]

\* Slip: the endpoint returns without disconnect().
EndpointDisconnectSlip(c) ==
  /\ endpoint[c] = "receiving"
  /\ ws[c] = "closed"
  /\ endpoint' = [endpoint EXCEPT ![c] = "done"]
  /\ UNCHANGED <<taskVars, clients, ws, worker, queue, unsent, batch,
                 cacheVars, clientVars>>

\* The endpoint's receive_text raises, and its finally block disconnects.
EndpointDisconnect(c) ==
  /\ endpoint[c] = "receiving"
  /\ ws[c] = "closed"
  /\ Unregister(c)
  /\ endpoint' = [endpoint EXCEPT ![c] = IF c \in clients THEN "joining" ELSE "done"]
  /\ UNCHANGED <<taskVars, ws, queue, unsent, batch, cacheVars, clientVars>>

EndpointJoin(c) ==
  /\ endpoint[c] = "joining"
  /\ worker[c] = "done"
  /\ endpoint' = [endpoint EXCEPT ![c] = "done"]
  /\ UNCHANGED <<taskVars, clients, ws, worker, queue, unsent, batch,
                 cacheVars, clientVars>>

-----------------------------------------------------------------------------
(* start() and stop(), called once each by the lifespan of the application. *)

StartKafka(ok) ==
  /\ service = "new"
  /\ service' = "redis"
  /\ running' = ok
  /\ task' = [task EXCEPT !["kafka"] = IF ok THEN "running" ELSE "off"]
  /\ UNCHANGED <<toClose, stopList, stopJoin, loopFailed, clients, endpoint,
                 ws, worker, queue, unsent, batch, cacheVars, clientVars>>

StartRedis(ok) ==
  /\ service = "redis"
  /\ service' = "up"
  /\ task' = [task EXCEPT !["redis"] = IF ok THEN "running" ELSE "off"]
  /\ UNCHANGED <<running, toClose, stopList, stopJoin, loopFailed, clients,
                 endpoint, ws, worker, queue, unsent, batch, cacheVars,
                 clientVars>>

\* A loop that is cancelled in its exception handler does not reach clear().
CancelLoop(t) ==
  /\ task' = [task EXCEPT ![t] = IF @ = "off" THEN @ ELSE "ended"]
  /\ toClose' = [toClose EXCEPT ![t] = {}]

StopKafka ==
  /\ service = "up"
  /\ service' = "stopRedis"
  /\ running' = FALSE
  /\ CancelLoop("kafka")
  /\ UNCHANGED <<stopList, stopJoin, loopFailed, clients, endpoint, ws, worker,
                 queue, unsent, batch, cacheVars, clientVars>>

StopRedis ==
  /\ service = "stopRedis"
  /\ service' = "stopClients"
  /\ CancelLoop("redis")
  /\ stopList' = clients
  /\ UNCHANGED <<running, stopJoin, loopFailed, clients, endpoint, ws, worker,
                 queue, unsent, batch, cacheVars, clientVars>>

\* The consumer, or then the subscription, raises as it is closed: stop() ends
\* here, with its clients connected.
StopRaises ==
  /\ service = "stopRedis"
  /\ service' = "failed"
  /\ CancelLoop("redis") \/ UNCHANGED <<task, toClose>>
  /\ UNCHANGED <<running, stopList, stopJoin, loopFailed, clients, endpoint, ws,
                 worker, queue, unsent, batch, cacheVars, clientVars>>

\* `await self.disconnect(ws)` for the next client of the list.
StopDisconnect(c) ==
  /\ service = "stopClients"
  /\ stopJoin = {}
  /\ c \in stopList
  /\ stopList' = stopList \ {c}
  /\ stopJoin' = {c} \cap clients
  /\ Unregister(c)
  /\ UNCHANGED <<service, running, task, toClose, loopFailed, endpoint, ws,
                 queue, unsent, batch, cacheVars, clientVars>>

StopJoin(c) ==
  /\ c \in stopJoin
  /\ worker[c] = "done"
  /\ stopJoin' = {}
  /\ ws' = [ws EXCEPT ![c] = "closed"]
  /\ UNCHANGED <<service, running, task, toClose, stopList, loopFailed,
                 clients, endpoint, worker, queue, unsent, batch, cacheVars,
                 clientVars>>

StopEnd ==
  /\ service = "stopClients"
  /\ stopList = {}
  /\ stopJoin = {}
  /\ service' = "stopped"
  /\ lvc' = [u \in Uids |-> 0]
  /\ UNCHANGED <<running, task, toClose, stopList, stopJoin, loopFailed,
                 clients, endpoint, ws, worker, queue, unsent, batch, expired,
                 log, clientVars>>

-----------------------------------------------------------------------------
Worker(c) ==
  \/ WorkerStart(c)
  \/ SendSnapshot(c)
  \/ Drain(c)
  \/ SendBatch(c)
  \/ SendFail(c)
  \/ WorkerClose(c)
  \/ WorkerCancelled(c)

Endpoint(c) == EndpointDisconnect(c) \/ EndpointJoin(c)

LoopCleanup(t) == LoopClose(t) \/ LoopClear(t)

Stopping ==
  \/ StopRedis
  \/ \E c \in Clients : StopDisconnect(c) \/ StopJoin(c)
  \/ StopEnd

Next ==
  \/ \E ok \in BOOLEAN : StartKafka(ok) \/ StartRedis(ok)
  \/ \E u \in Entities, due \in BOOLEAN : Consume(u, due)
  \/ Alert
  \/ \E t \in Loops : LoopBreak(t) \/ LoopFail(t) \/ LoopCleanup(t)
  \/ Age
  \/ \E c \in Clients :
       \/ Connect(c)
       \/ PeerStalls(c)
       \/ PeerLeaves(c)
       \/ Worker(c)
       \/ Endpoint(c)
  \/ StopKafka \/ StopRaises
  \/ Stopping

Spec == Init /\ [][Next]_vars

\* A ready task of the event loop is run, and a send ends within its timeout;
\* nothing makes a peer connect, a message arrive or the service stop.
Fairness ==
  /\ \A c \in Clients : WF_vars(Worker(c)) /\ WF_vars(Endpoint(c))
  /\ \A t \in Loops : WF_vars(LoopCleanup(t))
  /\ WF_vars(Stopping)

FairSpec == Spec /\ Fairness

-----------------------------------------------------------------------------
(* Properties.                                                             *)

\* s is the last Len(s) of the messages 1..n, in order.
IsSuffix(s, n) ==
  /\ Len(s) <= n
  /\ \A i \in 1..Len(s) : s[i] = n - Len(s) + i

SuffixQueue(c) == Len(queue[c]) <= QueueSize /\ IsSuffix(queue[c], Len(log))

\* The queue of a registered client is a contiguous suffix of the stream and
\* never exceeds its bound: drop-oldest loses a prefix, never a message from
\* the middle, and _consume and _consume_redis_alerts interleave in order.
QueueIsSuffix == \A c \in clients : SuffixQueue(c)

\* The last-value cache never holds a frame that a later one of the same
\* entity has replaced, whatever was pruned and whoever was connected.
CacheIsLatest ==
  \A u \in Uids : lvc[u] # 0 =>
    /\ lvc[u] \in 1..Len(log)
    /\ log[lvc[u]] = u
    /\ \A m \in (lvc[u] + 1)..Len(log) : log[m] # u

InFlight(c) == unsent[c] \cup Elements(batch[c]) \cup Elements(queue[c])

\* The latest frame of u is on its way to c, or is what c shows with nothing
\* about u behind it, or was dropped from c's full queue.
Covered(c, u) ==
  \/ lvc[u] \in InFlight(c)
  \/ view[c][u] = lvc[u] /\ \A m \in InFlight(c) : log[m] # u
  \/ lvc[u] \in dropped[c]

\* Bootstrap and live stream leave no gap: every fresh cached entity is
\* covered for every registered client.  (The replay sends frames that the
\* queue may hold too, and older ones after newer ones: what the client shows
\* may go back, but it ends right.)
ClientConverges ==
  \A c \in clients : worker[c] # "new" =>
    \A u \in Uids : lvc[u] > expired => Covered(c, u)

\* An entry of _clients always has a live worker behind it: no client stays
\* registered, and is enqueued to, after its worker has gone.
Live == {"new", "snapshot", "waiting", "sending"}

RegisteredHasWorker == \A c \in clients : worker[c] \in Live

\* As long as no loop has failed, a client whose endpoint has returned leaves
\* nothing behind: not registered, and its worker over or about to be.
NothingLeftBehind ==
  ~loopFailed =>
    \A c \in Clients : endpoint[c] = "done" =>
      c \notin clients /\ worker[c] \in {"cancelled", "closing", "done"}

\* What a client shows of an entity goes back in time only while it receives
\* messages that were queued before its snapshot was taken.
NoRegressionAfterBootstrap ==
  [][\A c \in Clients, u \in Uids :
       view'[c][u] < view[c][u] => view'[c][u] <= bootAt[c]]_vars

\* A slow client is never waited for without end: what is queued for a
\* registered client is drained, or the client is dropped.
QueueDrains ==
  \A c \in Clients :
    (c \in clients /\ queue[c] # <<>> /\ worker[c] # "cancelled")
      ~> (worker[c] \in {"sending", "closing", "done"} \/ c \notin clients)

\* A registered client whose peer has stopped reading, while there is a frame
\* to send to it, or has gone away, is deregistered.
DeadPeerIsReaped ==
  \A c \in Clients :
    (ws[c] = "closed" \/ (ws[c] = "stalled" /\ InFlight(c) # {}))
      ~> (c \notin clients)

\* stop() comes to its end, and no client is registered then, unless closing
\* the consumer or the subscription has raised.
StopCompletes ==
  (service = "stopRedis")
    ~> ((service = "stopped" /\ clients = {}) \/ service = "failed")
-----------------------------------------------------------------------------
(* The inductive invariant behind the safety properties (BroadcastProofs). *)

\* A drained batch is in order and older than everything still queued.
BatchInOrder(c) ==
  /\ \A i \in 1..Len(batch[c]) :
       batch[c][i] \in 1..(Len(log) - Len(queue[c]))
  /\ \A i, j \in 1..Len(batch[c]) : i < j => batch[c][i] < batch[c][j]

\* The rest of a snapshot holds at most one frame of each entity.
OneFramePerEntity(c) ==
  \A m, n \in unsent[c] :
    m \in 1..Len(log) /\ (log[m] = log[n] => m = n)

\* A client that has not connected holds nothing; a registered one has a live
\* worker, whose leftovers belong to the stage it is in.
Stages(c) ==
  /\ endpoint[c] = "idle" =>
       worker[c] = "none" /\ unsent[c] = {} /\ batch[c] = <<>>
  /\ c \in clients =>
       /\ endpoint[c] # "idle"
       /\ worker[c] \in Live
       /\ worker[c] # "snapshot" => unsent[c] = {}
       /\ worker[c] # "sending" => batch[c] = <<>>

ClientInv(c) ==
  /\ Stages(c)
  /\ c \in clients =>
       /\ SuffixQueue(c)
       /\ BatchInOrder(c)
       /\ OneFramePerEntity(c)
       /\ worker[c] # "new" =>
            \A u \in Uids : lvc[u] > expired => Covered(c, u)

IInv == TypeOK /\ CacheIsLatest /\ \A c \in Clients : ClientInv(c)
=============================================================================
