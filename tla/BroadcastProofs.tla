--------------------------- MODULE BroadcastProofs ---------------------------
(* Theorems about Broadcast, for all constants allowed by its assumptions.  *)
EXTENDS Broadcast, SequenceTheorems, TLAPS

-----------------------------------------------------------------------------
(* Types.                                                                  *)

\* Offering a message to a queue gives a queue.
LEMMA OfferType ==
  ASSUME NEW q \in Seq(Nat), NEW n \in Nat
  PROVE  Offer(q, n) \in Seq(Nat)
<1>1. CASE Len(q) >= QueueSize
  <2>1. q # <<>>  BY <1>1, SizesAssumption
  <2>2. Tail(q) \in Seq(Nat)  BY <2>1
  <2> QED  BY <1>1, <2>2 DEF Offer
<1>2. CASE ~(Len(q) >= QueueSize)  BY <1>2 DEF Offer
<1> QED  BY <1>1, <1>2

\* Recording a frame in the last-value cache, sweep included, gives a cache.
LEMMA RecordLiveType ==
  ASSUME NEW cache \in [Uids -> Nat], NEW u \in Entities, NEW n \in Nat,
         NEW due \in BOOLEAN
  PROVE  RecordLive(cache, u, n, due) \in [Uids -> Nat]
<1>1. [cache EXCEPT ![u] = n] \in [Uids -> Nat]  OBVIOUS
<1>2. \A d \in [Uids -> Nat] : Sweep(d) \in [Uids -> Nat]
  BY DEF Sweep
<1> QED  BY <1>1, <1>2 DEF RecordLive

\* The fan-out of both loops keeps the types of what it assigns.
LEMMA EnqueueType ==
  ASSUME TypeOK, NEW u \in Entities, Enqueue(u)
  PROVE  /\ log' \in Seq(Entities)
         /\ queue' \in [Clients -> Seq(Nat)]
         /\ dropped' \in [Clients -> SUBSET Nat]
<1>1. Len(log) + 1 \in Nat  BY DEF TypeOK
<1>2. log' \in Seq(Entities)  BY DEF TypeOK, Enqueue
<1>3. queue' \in [Clients -> Seq(Nat)]
  BY <1>1, OfferType DEF TypeOK, Enqueue
<1>4. ASSUME NEW c \in Clients, Len(queue[c]) >= QueueSize
      PROVE  Head(queue[c]) \in Nat
  <2>1. queue[c] \in Seq(Nat) /\ queue[c] # <<>>
    BY <1>4, SizesAssumption DEF TypeOK
  <2> QED  BY <2>1
<1>5. dropped' \in [Clients -> SUBSET Nat]
  BY <1>4 DEF TypeOK, Enqueue
<1> QED  BY <1>2, <1>3, <1>5

\* A frame's last occurrence in a sequence of frames, or the old one.
LEMMA LastOfType ==
  ASSUME NEW s \in Seq(Nat), NEW u, NEW old \in Nat
  PROVE  LastOf(s, u, old) \in Nat
<1> DEFINE lasts == {i \in 1..Len(s) : IsLast(s, i, u)}
<1>1. CASE lasts = {}  BY <1>1 DEF LastOf
<1>2. CASE lasts # {}
  <2>1. (CHOOSE i \in lasts : TRUE) \in 1..Len(s)  BY <1>2
  <2> QED  BY <1>2, <2>1 DEF LastOf
<1> QED  BY <1>1, <1>2

\* Cutting a prefix off a sequence of frames.
LEMMA CutType ==
  ASSUME NEW s \in Seq(Nat), NEW k \in Nat, k <= Len(s)
  PROVE  /\ SubSeq(s, 1, k) \in Seq(Nat)
         /\ SubSeq(s, k + 1, Len(s)) \in Seq(Nat)
         /\ Len(SubSeq(s, 1, k)) = k
         /\ \A i \in 1..k : SubSeq(s, 1, k)[i] = s[i]
         /\ Len(SubSeq(s, k + 1, Len(s))) = Len(s) - k
         /\ \A i \in 1..(Len(s) - k) :
              SubSeq(s, k + 1, Len(s))[i] = s[k + i]
<1>1. \A i \in 1..k : s[i] \in Nat  OBVIOUS
<1>2. \A i \in (k + 1)..Len(s) : s[i] \in Nat  OBVIOUS
<1>3. k \in Int /\ k + 1 \in Int /\ Len(s) \in Int  OBVIOUS
<1>4. /\ SubSeq(s, 1, k) \in Seq(Nat)
      /\ Len(SubSeq(s, 1, k)) = k
      /\ \A i \in 1..k : SubSeq(s, 1, k)[i] = s[i]
  BY <1>1, <1>3, SubSeqProperties
<1>5. /\ SubSeq(s, k + 1, Len(s)) \in Seq(Nat)
      /\ Len(SubSeq(s, k + 1, Len(s))) = Len(s) - k
      /\ \A i \in 1..(Len(s) - k) :
           SubSeq(s, k + 1, Len(s))[i] = s[k + i]
  BY <1>2, <1>3, SubSeqProperties
<1> QED  BY <1>4, <1>5

\* The entries a snapshot is taken of have numbered frames.
LEMMA SnapshotType ==
  ASSUME TypeOK
  PROVE  SnapshotFrames \in SUBSET Nat
  BY DEF TypeOK, SnapshotFrames

\* Every step keeps the types.
LEMMA TypeNext ==
  ASSUME TypeOK, [Next]_vars
  PROVE  TypeOK'
<1> USE DEF taskVars, cacheVars, clientVars
<1>1. ASSUME NEW ok \in BOOLEAN, StartKafka(ok) \/ StartRedis(ok)
      PROVE  TypeOK'
  BY <1>1 DEF TypeOK, StartKafka, StartRedis, Loops
<1>2. ASSUME NEW u \in Entities, NEW due \in BOOLEAN, Consume(u, due)
      PROVE  TypeOK'
  <2>1. Len(log) + 1 \in Nat  BY DEF TypeOK
  <2>2. lvc' \in [Uids -> Nat]
    BY <1>2, <2>1, RecordLiveType DEF TypeOK, Consume
  <2> QED  BY <1>2, <2>2, EnqueueType DEF TypeOK, Consume
<1>3. CASE Alert
  BY <1>3, EnqueueType DEF TypeOK, Alert, Entities
<1>4. ASSUME NEW t \in Loops, LoopBreak(t) \/ LoopFail(t) \/ LoopCleanup(t)
      PROVE  TypeOK'
  <2>1. CASE LoopBreak(t)  BY <2>1 DEF TypeOK, LoopBreak
  <2>2. CASE LoopFail(t)  BY <2>2 DEF TypeOK, LoopFail
  <2>3. CASE LoopClose(t)
    <3>1. PICK c \in toClose[t] :
            /\ ws' = [ws EXCEPT ![c] = "closed"]
            /\ toClose' = [toClose EXCEPT ![t] = toClose[t] \ {c}]
      BY <2>3 DEF LoopClose
    <3>2. ws' \in [Clients -> {"none", "open", "stalled", "closed"}]
      BY <3>1 DEF TypeOK
    <3>3. toClose' \in [Loops -> SUBSET Clients]
      BY <3>1 DEF TypeOK
    <3> QED  BY <2>3, <3>2, <3>3 DEF TypeOK, LoopClose
  <2>4. CASE LoopClear(t)  BY <2>4 DEF TypeOK, LoopClear
  <2> QED  BY <1>4, <2>1, <2>2, <2>3, <2>4 DEF LoopCleanup
<1>5. CASE Age
  BY <1>5 DEF TypeOK, Age
<1>6. ASSUME NEW c \in Clients, Connect(c) \/ PeerStalls(c) \/ PeerLeaves(c)
      PROVE  TypeOK'
  <2>1. CASE Connect(c)  BY <2>1 DEF TypeOK, Connect
  <2>2. CASE PeerStalls(c)  BY <2>2 DEF TypeOK, PeerStalls
  <2>3. CASE PeerLeaves(c)  BY <2>3 DEF TypeOK, PeerLeaves
  <2> QED  BY <1>6, <2>1, <2>2, <2>3
<1>7. ASSUME NEW c \in Clients, Worker(c)
      PROVE  TypeOK'
  <2>1. CASE WorkerStart(c)
    BY <2>1, SnapshotType DEF TypeOK, WorkerStart
  <2>2. CASE SendSnapshot(c)
    <3>1. PICK sent \in SUBSET unsent[c] :
            view' = [view EXCEPT ![c] = [u \in Uids |->
                       IF \E n \in sent : log[n] = u
                       THEN CHOOSE n \in sent : log[n] = u
                       ELSE view[c][u]]]
      BY <2>2 DEF SendSnapshot
    <3>2. \A u \in Uids : (\E n \in sent : log[n] = u) =>
            (CHOOSE n \in sent : log[n] = u) \in Nat
      BY DEF TypeOK
    <3> DEFINE newest(u) == CHOOSE n \in sent : log[n] = u
               has(u) == \E n \in sent : log[n] = u
               shown == [u \in Uids |-> IF has(u) THEN newest(u)
                                                  ELSE view[c][u]]
    <3>3. view' = [view EXCEPT ![c] = shown]
      BY <3>1
    <3>4. \A u \in Uids : has(u) => newest(u) \in Nat
      BY <3>2
    <3> HIDE DEF newest, has
    <3>5. shown \in [Uids -> Nat]
      BY <3>4 DEF TypeOK
    <3> HIDE DEF shown
    <3>6. view' \in [Clients -> [Uids -> Nat]]
      BY <3>3, <3>5 DEF TypeOK
    <3>7. PICK gone \in SUBSET unsent[c] :
            unsent' = [unsent EXCEPT ![c] = unsent[c] \ gone]
      BY <2>2 DEF SendSnapshot
    <3>8. unsent' \in [Clients -> SUBSET Nat]
      BY <3>7 DEF TypeOK
    <3> QED  BY <2>2, <3>6, <3>8 DEF TypeOK, SendSnapshot
  <2>3. CASE Drain(c)
    <3> DEFINE k == IF Len(queue[c]) < BatchMsgs THEN Len(queue[c]) ELSE BatchMsgs
    <3>1. k \in Nat /\ k <= Len(queue[c]) /\ queue[c] \in Seq(Nat)
      BY SizesAssumption DEF TypeOK
    <3>2. /\ SubSeq(queue[c], 1, k) \in Seq(Nat)
          /\ SubSeq(queue[c], k + 1, Len(queue[c])) \in Seq(Nat)
      BY <3>1, CutType
    <3> HIDE DEF k
    <3>3. /\ batch' = [batch EXCEPT ![c] = SubSeq(queue[c], 1, k)]
          /\ queue' = [queue EXCEPT
                         ![c] = SubSeq(queue[c], k + 1, Len(queue[c]))]
      BY <2>3 DEF Drain, k
    <3>4. batch' \in [Clients -> Seq(Nat)] /\ queue' \in [Clients -> Seq(Nat)]
      BY <3>2, <3>3 DEF TypeOK
    <3> QED  BY <2>3, <3>4 DEF TypeOK, Drain
  <2>4. CASE SendBatch(c)
    <3>1. PICK k \in 1..Len(batch[c]) :
            /\ view' = [view EXCEPT ![c] = [u \in Uids |->
                          LastOf(SubSeq(batch[c], 1, k), u, view[c][u])]]
            /\ batch' = [batch EXCEPT
                           ![c] = SubSeq(batch[c], k + 1, Len(batch[c]))]
      BY <2>4 DEF SendBatch
    <3>2. batch[c] \in Seq(Nat) /\ k \in Nat /\ k <= Len(batch[c])
      BY DEF TypeOK
    <3>3. /\ SubSeq(batch[c], 1, k) \in Seq(Nat)
          /\ SubSeq(batch[c], k + 1, Len(batch[c])) \in Seq(Nat)
      BY <3>2, CutType
    <3>4. \A u \in Uids : LastOf(SubSeq(batch[c], 1, k), u, view[c][u]) \in Nat
      BY <3>3, LastOfType DEF TypeOK
    <3>5. view' \in [Clients -> [Uids -> Nat]] /\ batch' \in [Clients -> Seq(Nat)]
      BY <3>1, <3>3, <3>4 DEF TypeOK
    <3> QED  BY <2>4, <3>5 DEF TypeOK, SendBatch
  <2>5. CASE SendFail(c)  BY <2>5 DEF TypeOK, SendFail, WorkerExit
  <2>6. CASE WorkerClose(c)  BY <2>6 DEF TypeOK, WorkerClose
  <2>7. CASE WorkerCancelled(c)  BY <2>7 DEF TypeOK, WorkerCancelled, WorkerExit
  <2> QED  BY <1>7, <2>1, <2>2, <2>3, <2>4, <2>5, <2>6, <2>7 DEF Worker
<1>8. ASSUME NEW c \in Clients, Endpoint(c)
      PROVE  TypeOK'
  <2>1. CASE EndpointDisconnect(c)
    BY <2>1 DEF TypeOK, EndpointDisconnect, Unregister
  <2>2. CASE EndpointJoin(c)  BY <2>2 DEF TypeOK, EndpointJoin
  <2> QED  BY <1>8, <2>1, <2>2 DEF Endpoint
<1>9. CASE StopKafka \/ StopRaises
  <2>1. CASE StopKafka  BY <2>1 DEF TypeOK, StopKafka, CancelLoop
  <2>2. CASE StopRaises  BY <2>2 DEF TypeOK, StopRaises, CancelLoop
  <2> QED  BY <1>9, <2>1, <2>2
<1>10. CASE Stopping
  <2>1. CASE StopRedis  BY <2>1 DEF TypeOK, StopRedis, CancelLoop
  <2>2. ASSUME NEW c \in Clients, StopDisconnect(c)
        PROVE  TypeOK'
    BY <2>2 DEF TypeOK, StopDisconnect, Unregister
  <2>3. ASSUME NEW c \in Clients, StopJoin(c)
        PROVE  TypeOK'
    BY <2>3 DEF TypeOK, StopJoin
  <2>4. CASE StopEnd  BY <2>4 DEF TypeOK, StopEnd
  <2> QED  BY <1>10, <2>1, <2>2, <2>3, <2>4 DEF Stopping
<1>11. CASE UNCHANGED vars
  BY <1>11 DEF TypeOK, vars
<1> QED
  BY <1>1, <1>2, <1>3, <1>4, <1>5, <1>6, <1>7, <1>8, <1>9, <1>10, <1>11,
     ZenonT(60) DEF Next

\* The initial state has the types.
LEMMA TypeInit ==
  ASSUME Init
  PROVE  TypeOK
<1>1. /\ queue \in [Clients -> Seq(Nat)]
      /\ batch \in [Clients -> Seq(Nat)]
      /\ log \in Seq(Entities)
  BY DEF Init
<1>2. view \in [Clients -> [Uids -> Nat]]  BY DEF Init
<1>3. /\ dropped \in [Clients -> SUBSET Nat]
      /\ unsent \in [Clients -> SUBSET Nat]
  BY DEF Init
<1>4. toClose \in [Loops -> SUBSET Clients]  BY DEF Init
<1> QED  BY <1>1, <1>2, <1>3, <1>4 DEF Init, TypeOK

\* Every variable keeps its type.
THEOREM TypeCorrect == Spec => []TypeOK
<1>1. Init => TypeOK  BY TypeInit
<1>2. TypeOK /\ [Next]_vars => TypeOK'  BY TypeNext
<1> QED  BY <1>1, <1>2, PTL DEF Spec

-----------------------------------------------------------------------------
(* The stream.                                                             *)

\* A client is not disturbed by a step that leaves its queue, batch, snapshot
\* and picture alone, registers nobody, and only ages or empties the cache.
LEMMA ClientFrame ==
  ASSUME NEW d \in Clients, ClientInv(d),
         d \in clients' => d \in clients /\ worker'[d] = worker[d],
         endpoint'[d] = "idle" => endpoint[d] = "idle" /\ worker'[d] = worker[d],
         queue'[d] = queue[d], unsent'[d] = unsent[d], batch'[d] = batch[d],
         view'[d] = view[d], dropped'[d] = dropped[d], log' = log,
         \A u \in Uids : lvc'[u] > expired' => lvc[u] > expired /\ lvc'[u] = lvc[u]
  PROVE  ClientInv(d)'
<1>1. Stages(d)'  BY DEF ClientInv, Stages
<1>2. ASSUME d \in clients'
      PROVE  SuffixQueue(d)' /\ BatchInOrder(d)' /\ OneFramePerEntity(d)'
  BY <1>2 DEF ClientInv, SuffixQueue, BatchInOrder, OneFramePerEntity
<1>3. InFlight(d)' = InFlight(d)  BY DEF InFlight, Elements
<1>4. ASSUME d \in clients', worker'[d] # "new",
             NEW u \in Uids, lvc'[u] > expired'
      PROVE  Covered(d, u)'
  <2>1. Covered(d, u)  BY <1>4 DEF ClientInv
  <2>2. lvc'[u] = lvc[u]  BY <1>4
  <2> QED  BY <1>3, <2>1, <2>2 DEF Covered
<1> QED  BY <1>1, <1>2, <1>4 DEF ClientInv

\* Whatever is swept, the cache entry of the entity of the new frame n is that
\* frame or gone, and another entry is what it was or gone.
LEMMA RecordLiveValue ==
  ASSUME NEW cache \in [Uids -> Nat], NEW u \in Entities, NEW n \in Nat,
         NEW due \in BOOLEAN, NEW v \in Uids
  PROVE  \/ v # u /\ RecordLive(cache, u, n, due)[v] \in {0, cache[v]}
         \/ v = u /\ RecordLive(cache, u, n, due)[v] \in {0, n}
<1> DEFINE cache1 == [cache EXCEPT ![u] = n]
<1>1. \A d \in [Uids -> Nat] : Sweep(d)[v] \in {0, d[v]}  BY DEF Sweep
<1>2. cache1 \in [Uids -> Nat]  OBVIOUS
<1>3. v # u => cache1[v] = cache[v]  OBVIOUS
<1>4. v = u => cache1[v] = n  OBVIOUS
<1>5. CASE u = NoUid  BY <1>5, NoUidAssumption DEF RecordLive
<1>6. CASE u # NoUid
  <2>1. RecordLive(cache, u, n, due)[v] \in {0, cache1[v]}
    <3> HIDE DEF cache1
    <3>1. \/ RecordLive(cache, u, n, due) = Sweep(cache1)
          \/ RecordLive(cache, u, n, due) = cache1
      BY <1>6 DEF RecordLive, cache1
    <3> QED  BY <1>1, <1>2, <3>1
  <2> QED  BY <1>3, <1>4, <2>1
<1> QED  BY <1>5, <1>6

\* The cache stays the latest when the log grows by a message about u.
LEMMA EnqueueCache ==
  ASSUME TypeOK, CacheIsLatest, NEW u \in Entities, Enqueue(u),
         \A v \in Uids :
           \/ v # u /\ lvc'[v] \in {0, lvc[v]}
           \/ v = u /\ lvc'[v] \in {0, Len(log) + 1}
  PROVE  CacheIsLatest'
<1>1. /\ log \in Seq(Entities) /\ Len(log) \in Nat
      /\ log' = Append(log, u)
      /\ Len(log') = Len(log) + 1
      /\ \A m \in 1..Len(log) : log'[m] = log[m]
      /\ log'[Len(log) + 1] = u
  BY DEF TypeOK, Enqueue
<1>2. SUFFICES ASSUME NEW v \in Uids, lvc'[v] # 0
               PROVE  /\ lvc'[v] \in 1..Len(log')
                      /\ log'[lvc'[v]] = v
                      /\ \A m \in (lvc'[v] + 1)..Len(log') : log'[m] # v
  BY DEF CacheIsLatest
<1>3. CASE v # u /\ lvc'[v] = lvc[v]
  <2>1. /\ lvc[v] \in 1..Len(log)
        /\ log[lvc[v]] = v
        /\ \A m \in (lvc[v] + 1)..Len(log) : log[m] # v
    BY <1>2, <1>3 DEF CacheIsLatest
  <2>2. \A m \in (lvc[v] + 1)..(Len(log) + 1) :
           \/ m = Len(log) + 1
           \/ m \in (lvc[v] + 1)..Len(log) /\ m \in 1..Len(log)
    <3>1. Len(log) \in Nat /\ lvc[v] \in 1..Len(log)  BY <1>1, <2>1
    <3> QED  BY <3>1
  <2>3. lvc'[v] = lvc[v] /\ v # u  BY <1>3
  <2>4. lvc'[v] \in 1..Len(log') /\ log'[lvc'[v]] = v  BY <1>1, <2>1, <2>3
  <2>5. ASSUME NEW m \in (lvc'[v] + 1)..Len(log')
        PROVE  log'[m] # v
    <3>1. m \in (lvc[v] + 1)..(Len(log) + 1)  BY <1>1, <2>3
    <3>2. CASE m = Len(log) + 1  BY <1>1, <2>3, <3>2
    <3>3. CASE m \in (lvc[v] + 1)..Len(log) /\ m \in 1..Len(log)
      BY <1>1, <2>1, <3>3
    <3> QED  BY <2>2, <3>1, <3>2, <3>3
  <2> QED  BY <2>4, <2>5
<1>4. CASE v = u /\ lvc'[v] = Len(log) + 1
  BY <1>1, <1>4
<1> QED  BY <1>2, <1>3, <1>4

\* Dropping the oldest entry of a full queue leaves a shorter suffix.
LEMMA TailSuffix ==
  ASSUME NEW q \in Seq(Nat), NEW n \in Nat, q # <<>>, IsSuffix(q, n)
  PROVE  /\ Tail(q) \in Seq(Nat)
         /\ Len(Tail(q)) = Len(q) - 1
         /\ IsSuffix(Tail(q), n)
         /\ Elements(q) \subseteq Elements(Tail(q)) \cup {Head(q)}
         /\ Elements(Tail(q)) \subseteq Elements(q)
<1> DEFINE s == Tail(q)
<1>1. /\ s \in Seq(Nat) /\ Len(s) = Len(q) - 1
      /\ \A i \in 1..Len(s) : s[i] = q[i + 1]
  BY HeadTailProperties
<1>2. Len(q) \in Nat \ {0} /\ Head(q) = q[1]  OBVIOUS
<1> HIDE DEF s
<1>3. ASSUME NEW i \in 1..Len(s)
      PROVE  s[i] = n - Len(s) + i
  <2>1. i + 1 \in 1..Len(q)  BY <1>1, <1>2
  <2>2. s[i] = n - Len(q) + (i + 1)  BY <1>1, <2>1 DEF IsSuffix
  <2>3. n - Len(q) + (i + 1) = n - Len(s) + i  BY <1>1, <1>2
  <2> QED  BY <2>2, <2>3
<1>4. ASSUME NEW i \in 1..Len(q), i # 1
      PROVE  q[i] \in Elements(s)
  <2>1. i - 1 \in 1..Len(s) /\ s[i - 1] = q[i]  BY <1>1, <1>2, <1>4
  <2> QED  BY <2>1 DEF Elements
<1>5. Elements(q) \subseteq Elements(s) \cup {Head(q)}
  BY <1>2, <1>4 DEF Elements
<1>6. \A i \in 1..Len(s) : i + 1 \in 1..Len(q) /\ s[i] = q[i + 1]
  BY <1>1, <1>2
<1>7. ASSUME NEW m \in Elements(s)
      PROVE  m \in Elements(q)
  <2>1. PICK i \in 1..Len(s) : m = s[i]  BY DEF Elements
  <2>2. i + 1 \in 1..Len(q) /\ m = q[i + 1]  BY <1>6, <2>1
  <2> QED  BY <2>2 DEF Elements
<1>8. IsSuffix(s, n)  BY <1>1, <1>2, <1>3 DEF IsSuffix
<1> QED  BY <1>1, <1>5, <1>7, <1>8 DEF s

\* Appending the next message of the stream to a suffix of it.
LEMMA AppendSuffix ==
  ASSUME NEW s \in Seq(Nat), NEW n \in Nat, IsSuffix(s, n),
         NEW r, r = Append(s, n + 1)
  PROVE  /\ Len(r) = Len(s) + 1
         /\ IsSuffix(r, n + 1)
         /\ Elements(r) = Elements(s) \cup {n + 1}
<1>1. /\ Len(s) \in Nat
      /\ Len(r) = Len(s) + 1
      /\ \A i \in 1..Len(s) : r[i] = s[i]
      /\ r[Len(s) + 1] = n + 1
  OBVIOUS
<1>2. IsSuffix(r, n + 1)  BY <1>1 DEF IsSuffix
<1>3. Elements(r) = Elements(s) \cup {n + 1}
  <2>1. ASSUME NEW m \in Elements(s) PROVE m \in Elements(r)
    <3>1. PICK i \in 1..Len(s) : m = s[i]  BY DEF Elements
    <3>2. i \in 1..Len(r) /\ m = r[i]  BY <1>1, <3>1
    <3> QED  BY <3>2 DEF Elements
  <2>2. n + 1 \in Elements(r)
    <3>1. Len(s) + 1 \in 1..Len(r)  BY <1>1
    <3> QED  BY <1>1, <3>1 DEF Elements
  <2>3. ASSUME NEW m \in Elements(r) PROVE m \in Elements(s) \cup {n + 1}
    <3>1. PICK i \in 1..Len(r) : m = r[i]  BY DEF Elements
    <3>2. i \in 1..Len(s) \/ i = Len(s) + 1  BY <1>1
    <3> QED  BY <1>1, <3>1, <3>2 DEF Elements
  <2> QED  BY <2>1, <2>2, <2>3
<1> QED  BY <1>1, <1>2, <1>3

\* Offering the next message of the stream to a queue that is a suffix of it.
LEMMA OfferSuffix ==
  ASSUME NEW q \in Seq(Nat), NEW n \in Nat, Len(q) <= QueueSize, IsSuffix(q, n),
         NEW r, r = Offer(q, n + 1)
  PROVE  /\ Len(r) <= QueueSize
         /\ Len(r) <= Len(q) + 1
         /\ IsSuffix(r, n + 1)
         /\ \A m \in Elements(q) :
              m \in Elements(r) \/ (Len(q) >= QueueSize /\ m = Head(q))
         /\ n + 1 \in Elements(r)
         /\ Elements(r) \subseteq Elements(q) \cup {n + 1}
<1>1. CASE Len(q) >= QueueSize
  <2> DEFINE s == Tail(q)
  <2>1. q # <<>> /\ r = Append(s, n + 1)
    BY <1>1, SizesAssumption DEF Offer
  <2>2. /\ s \in Seq(Nat) /\ Len(s) = Len(q) - 1
        /\ IsSuffix(s, n)
        /\ Elements(q) \subseteq Elements(s) \cup {Head(q)}
        /\ Elements(s) \subseteq Elements(q)
    BY <2>1, TailSuffix
  <2> HIDE DEF s
  <2>3. Len(q) \in Nat  OBVIOUS
  <2>4. /\ Len(r) = Len(s) + 1
        /\ IsSuffix(r, n + 1)
        /\ Elements(r) = Elements(s) \cup {n + 1}
    BY <2>1, <2>2, AppendSuffix
  <2>5. Len(r) <= QueueSize /\ Len(r) <= Len(q) + 1
    BY <2>2, <2>3, <2>4, SizesAssumption
  <2> QED  BY <1>1, <2>2, <2>4, <2>5
<1>2. CASE ~(Len(q) >= QueueSize)
  <2>1. r = Append(q, n + 1)  BY <1>2 DEF Offer
  <2>2. /\ Len(r) = Len(q) + 1
        /\ IsSuffix(r, n + 1)
        /\ Elements(r) = Elements(q) \cup {n + 1}
    BY <2>1, AppendSuffix
  <2>3. Len(q) \in Nat  OBVIOUS
  <2>4. Len(r) <= QueueSize /\ Len(r) <= Len(q) + 1
    BY <1>2, <2>2, <2>3, SizesAssumption
  <2> QED  BY <2>2, <2>4
<1> QED  BY <1>1, <1>2

\* Every message a registered client still has to be sent is a message of the
\* log.
LEMMA InFlightInLog ==
  ASSUME TypeOK, NEW c \in clients, ClientInv(c)
  PROVE  InFlight(c) \subseteq 1..Len(log)
<1>0. /\ c \in Clients /\ Len(log) \in Nat
      /\ queue[c] \in Seq(Nat) /\ batch[c] \in Seq(Nat)
  BY DEF TypeOK
<1>1. unsent[c] \subseteq 1..Len(log)
  BY DEF ClientInv, OneFramePerEntity
<1>2. \A i \in 1..Len(queue[c]) : queue[c][i] \in 1..Len(log)
  <2>1. /\ Len(queue[c]) <= Len(log)
        /\ \A i \in 1..Len(queue[c]) : queue[c][i] = Len(log) - Len(queue[c]) + i
    BY DEF ClientInv, SuffixQueue, IsSuffix
  <2>2. Len(queue[c]) \in Nat  BY <1>0
  <2>3. SUFFICES ASSUME NEW i \in 1..Len(queue[c])
                 PROVE  Len(log) - Len(queue[c]) + i \in 1..Len(log)
    BY <2>1
  <2> QED  BY <1>0, <2>1, <2>2
<1>3. \A i \in 1..Len(batch[c]) : batch[c][i] \in 1..Len(log)
  <2>1. \A i \in 1..Len(batch[c]) :
          batch[c][i] \in 1..(Len(log) - Len(queue[c]))
    BY DEF ClientInv, BatchInOrder
  <2>2. Len(queue[c]) \in Nat  BY <1>0
  <2> QED  BY <1>0, <2>1, <2>2
<1> QED  BY <1>1, <1>2, <1>3 DEF InFlight, Elements

\* The fan-out keeps the invariant of every client.
LEMMA EnqueueClient ==
  ASSUME TypeOK, NEW d \in Clients, ClientInv(d),
         NEW u \in Entities, Enqueue(u),
         UNCHANGED <<clients, endpoint, worker, unsent, batch, view, expired>>,
         \A v \in Uids :
           \/ v # u /\ lvc'[v] \in {0, lvc[v]}
           \/ v = u /\ lvc'[v] \in {0, Len(log) + 1}
  PROVE  ClientInv(d)'
<1> DEFINE L == Len(log)
           q == queue[d]
           r == queue'[d]
<1>1. Stages(d)'  BY DEF ClientInv, Stages
<1>2. CASE d \notin clients  BY <1>1, <1>2 DEF ClientInv
<1>3. CASE d \in clients
  <2>1. /\ L \in Nat /\ log \in Seq(Entities) /\ q \in Seq(Nat)
        /\ batch[d] \in Seq(Nat)
        /\ Len(log') = L + 1
        /\ \A m \in 1..L : log'[m] = log[m]
        /\ log'[L + 1] = u
    BY DEF TypeOK, Enqueue
  <2>2. r = Offer(q, L + 1)  BY <1>3 DEF TypeOK, Enqueue
  <2>3. Len(q) <= QueueSize /\ IsSuffix(q, L)
    BY <1>3 DEF ClientInv, SuffixQueue
  <2>4. /\ Len(r) <= QueueSize
        /\ Len(r) <= Len(q) + 1
        /\ IsSuffix(r, L + 1)
        /\ \A m \in Elements(q) :
             m \in Elements(r) \/ (Len(q) >= QueueSize /\ m = Head(q))
        /\ L + 1 \in Elements(r)
        /\ Elements(r) \subseteq Elements(q) \cup {L + 1}
    <3> HIDE DEF q, r, L
    <3> QED  BY <2>1, <2>2, <2>3, OfferSuffix
  <2>5. SuffixQueue(d)'  BY <2>1, <2>4 DEF SuffixQueue
  <2>6. r \in Seq(Nat)
    BY EnqueueType
  <2>7. BatchInOrder(d)'
    <3>1. Len(q) \in Nat /\ Len(r) \in Nat  BY <2>1, <2>6
    <3>2. \A m \in 1..(L - Len(q)) : m \in 1..((L + 1) - Len(r))
      <4> HIDE DEF L, q, r
      <4> QED  BY <2>1, <2>4, <3>1
    <3>3. /\ \A i \in 1..Len(batch[d]) : batch[d][i] \in 1..(L - Len(q))
          /\ \A i, j \in 1..Len(batch[d]) : i < j => batch[d][i] < batch[d][j]
      BY <1>3 DEF ClientInv, BatchInOrder
    <3>4. \A i \in 1..Len(batch[d]) : batch[d][i] \in 1..((L + 1) - Len(r))
      BY <3>2, <3>3
    <3> QED  BY <2>1, <3>3, <3>4 DEF BatchInOrder
  <2>8. OneFramePerEntity(d)'
    <3>1. \A m \in unsent[d] : m \in 1..L
      BY <1>3 DEF ClientInv, OneFramePerEntity
    <3>2. \A m \in 1..L : m \in 1..(L + 1)  BY <2>1
    <3> QED  BY <1>3, <2>1, <3>1, <3>2 DEF ClientInv, OneFramePerEntity
  <2>9. ASSUME worker'[d] # "new", NEW v \in Uids, lvc'[v] > expired'
        PROVE  Covered(d, v)'
    <3>0. expired \in Nat /\ expired' = expired  BY DEF TypeOK
    <3>1. CASE lvc'[v] = L + 1
      BY <2>4, <3>1 DEF Covered, InFlight
    <3>2. CASE v # u /\ lvc'[v] = lvc[v]
      <4>1. Covered(d, v)  BY <1>3, <2>9, <3>0, <3>2 DEF ClientInv
      <4>2. InFlight(d)' \subseteq InFlight(d) \cup {L + 1}
        BY <2>4 DEF InFlight
      <4>3. \A m \in InFlight(d) :
              m \in InFlight(d)' \/ (Len(q) >= QueueSize /\ m = Head(q))
        BY <2>4 DEF InFlight
      <4>4. /\ dropped[d] \subseteq dropped'[d]
            /\ Len(q) >= QueueSize => Head(q) \in dropped'[d]
        BY <1>3, <2>9 DEF TypeOK, Enqueue
      <4>5. CASE lvc[v] \in InFlight(d)
        BY <3>2, <4>3, <4>4, <4>5 DEF Covered
      <4>6. CASE view[d][v] = lvc[v] /\ \A m \in InFlight(d) : log[m] # v
        <5>1. \A m \in InFlight(d) : m \in 1..L
          BY <1>3, InFlightInLog
        <5>2. \A m \in InFlight(d)' : log'[m] # v
          BY <2>1, <3>2, <4>2, <4>6, <5>1
        <5> QED  BY <3>2, <4>6, <5>2 DEF Covered
      <4>7. CASE lvc[v] \in dropped[d]
        BY <3>2, <4>4, <4>7 DEF Covered
      <4> QED  BY <4>1, <4>5, <4>6, <4>7 DEF Covered
    <3> QED  BY <2>9, <3>0, <3>1, <3>2
  <2> QED
    BY <1>1, <2>5, <2>7, <2>8, <2>9 DEF ClientInv
<1> QED  BY <1>2, <1>3

\* The worker starts and takes its snapshot.
LEMMA WorkerStartClient ==
  ASSUME TypeOK, CacheIsLatest, NEW c \in Clients, ClientInv(c), WorkerStart(c)
  PROVE  ClientInv(c)'
<1> USE DEF taskVars, cacheVars, clientVars
<1>1. /\ unsent'[c] = SnapshotFrames
      /\ worker'[c] = IF SnapshotFrames = {} THEN "waiting" ELSE "snapshot"
      /\ UNCHANGED <<clients, endpoint, queue, batch, lvc, expired, log, view,
                     dropped>>
      /\ worker[c] = "new"
  BY DEF WorkerStart, TypeOK
<1>2. Stages(c)'  BY <1>1 DEF ClientInv, Stages, Live
<1>3. ASSUME c \in clients
      PROVE  SuffixQueue(c)' /\ BatchInOrder(c)'
  BY <1>1, <1>3 DEF ClientInv, SuffixQueue, BatchInOrder
<1>4. OneFramePerEntity(c)'
  <2>1. \A m \in SnapshotFrames :
          \E u \in Uids : m = lvc[u] /\ m \in 1..Len(log) /\ log[m] = u
    BY DEF SnapshotFrames, CacheIsLatest, TypeOK
  <2> QED  BY <1>1, <2>1 DEF OneFramePerEntity
<1>5. ASSUME NEW u \in Uids, lvc[u] > expired
      PROVE  Covered(c, u)'
  BY <1>1, <1>5 DEF Covered, InFlight, SnapshotFrames
<1> QED  BY <1>1, <1>2, <1>3, <1>4, <1>5 DEF ClientInv

\* A fresh frame that is the latest of its entity, and any queued frame of that
\* entity: the latest one is queued too.
LEMMA LatestIsQueued ==
  ASSUME TypeOK, CacheIsLatest, NEW c \in clients, SuffixQueue(c),
         NEW u \in Uids, lvc[u] # 0,
         NEW m \in Elements(queue[c]), log[m] = u
  PROVE  lvc[u] \in Elements(queue[c])
<1> DEFINE L == Len(log)
           k == Len(queue[c])
           n == lvc[u]
<1>0. queue[c] \in Seq(Nat) /\ L \in Nat  BY DEF TypeOK
<1>1. /\ L \in Nat /\ k \in Nat /\ k <= L
      /\ \A i \in 1..k : queue[c][i] = L - k + i
  <2>1. IsSuffix(queue[c], L)  BY DEF SuffixQueue
  <2>2. k \in Nat  BY <1>0
  <2> QED  BY <1>0, <2>1, <2>2 DEF IsSuffix
<1>2. PICK i \in 1..k : m = queue[c][i]  BY DEF Elements
<1>3. m \in 1..L /\ m >= L - k + 1
  <2>1. m = L - k + i  BY <1>1, <1>2
  <2> HIDE DEF L, k, n
  <2> QED  BY <1>1, <2>1
<1>4. n \in 1..L /\ \A j \in (n + 1)..L : log[j] # u  BY DEF CacheIsLatest
<1>5. m <= n
  <2>1. m \notin (n + 1)..L  BY <1>4
  <2> HIDE DEF L, k, n
  <2> QED  BY <1>1, <1>3, <1>4, <2>1
<1> HIDE DEF L, k, n
<1>6. n - (L - k) \in 1..k /\ L - k + (n - (L - k)) = n
  BY <1>1, <1>3, <1>4, <1>5
<1>7. queue[c][n - (L - k)] = n  BY <1>1, <1>6
<1> QED  BY <1>6, <1>7 DEF Elements, k, n

\* One frame of the snapshot is sent.
LEMMA SendSnapshotClient ==
  ASSUME TypeOK, CacheIsLatest, NEW c \in Clients, ClientInv(c), SendSnapshot(c)
  PROVE  ClientInv(c)'
<1> USE DEF taskVars, cacheVars, clientVars
<1>1. PICK sent \in SUBSET unsent[c] :
        /\ view' = [view EXCEPT ![c] = [u \in Uids |->
                      IF \E n \in sent : log[n] = u
                      THEN CHOOSE n \in sent : log[n] = u
                      ELSE view[c][u]]]
        /\ unsent' = [unsent EXCEPT ![c] = unsent[c] \ sent]
        /\ worker' = [worker EXCEPT
                        ![c] = IF sent = unsent[c] THEN "waiting" ELSE worker[c]]
  BY DEF SendSnapshot
<1>2. /\ worker[c] = "snapshot"
      /\ UNCHANGED <<clients, endpoint, queue, batch, lvc, expired, log, dropped>>
  BY DEF SendSnapshot
<1>3. /\ unsent'[c] = unsent[c] \ sent
      /\ worker'[c] = IF sent = unsent[c] THEN "waiting" ELSE "snapshot"
      /\ \A u \in Uids : view'[c][u] = IF \E n \in sent : log[n] = u
                                       THEN CHOOSE n \in sent : log[n] = u
                                       ELSE view[c][u]
  <2>1. /\ unsent'[c] = unsent[c] \ sent
        /\ worker'[c] = IF sent = unsent[c] THEN "waiting" ELSE "snapshot"
    BY <1>1, <1>2 DEF TypeOK
  <2>2. view'[c] = [u \in Uids |-> IF \E n \in sent : log[n] = u
                                   THEN CHOOSE n \in sent : log[n] = u
                                   ELSE view[c][u]]
    BY <1>1 DEF TypeOK
  <2> QED  BY <2>1, <2>2
<1>4. Stages(c)'
  <2>1. worker'[c] # "snapshot" => unsent'[c] = {}  BY <1>3
  <2> QED  BY <1>2, <1>3, <2>1 DEF ClientInv, Stages, Live
<1>5. CASE c \notin clients  BY <1>2, <1>4, <1>5 DEF ClientInv
<1>6. CASE c \in clients
  <2>1. SuffixQueue(c)' /\ BatchInOrder(c)'
    BY <1>2, <1>6 DEF ClientInv, SuffixQueue, BatchInOrder
  <2>2. OneFramePerEntity(c)
    BY <1>6 DEF ClientInv
  <2>3. OneFramePerEntity(c)'
    BY <1>2, <1>3, <2>2 DEF OneFramePerEntity
  <2>4. batch[c] = <<>>  BY <1>2, <1>6 DEF ClientInv, Stages
  <2>5. InFlight(c) = unsent[c] \cup Elements(queue[c])
    BY <2>4 DEF InFlight, Elements
  <2>6. InFlight(c)' = (unsent[c] \ sent) \cup Elements(queue[c])
    BY <1>2, <1>3, <2>4 DEF InFlight, Elements
  <2>7. ASSUME NEW u \in Uids, lvc[u] > expired
        PROVE  Covered(c, u)'
    <3>0. lvc[u] # 0  BY <2>7 DEF TypeOK
    <3>1. Covered(c, u)  BY <1>2, <1>6, <2>7 DEF ClientInv
    <3>2. CASE lvc[u] \in InFlight(c)'
      BY <1>2, <3>2 DEF Covered
    <3>3. CASE lvc[u] \in sent /\ lvc[u] \notin InFlight(c)'
      <4>1. log[lvc[u]] = u  BY <3>0 DEF CacheIsLatest
      <4>2. \A n \in unsent[c] : log[n] = u => n = lvc[u]
        BY <1>1, <2>2, <3>3, <4>1 DEF OneFramePerEntity
      <4>3. view'[c][u] = lvc[u]
        BY <1>3, <3>3, <4>1, <4>2
      <4>4. \A m \in Elements(queue[c]) : log[m] # u
        BY <1>6, <2>6, <3>0, <3>3, LatestIsQueued DEF ClientInv
      <4>5. \A m \in InFlight(c)' : log'[m] # u
        BY <1>2, <2>6, <3>3, <4>2, <4>4
      <4> QED  BY <1>2, <4>3, <4>5 DEF Covered
    <3>4. CASE view[c][u] = lvc[u] /\ \A m \in InFlight(c) : log[m] # u
      <4>1. view'[c][u] = lvc[u]  BY <1>3, <2>5, <3>4
      <4>2. \A m \in InFlight(c)' : log'[m] # u  BY <1>2, <2>5, <2>6, <3>4
      <4> QED  BY <1>2, <4>1, <4>2 DEF Covered
    <3>5. CASE lvc[u] \in dropped[c]
      BY <1>2, <3>5 DEF Covered
    <3> QED  BY <2>5, <2>6, <3>1, <3>2, <3>3, <3>4, <3>5 DEF Covered
  <2> QED  BY <1>2, <1>4, <2>1, <2>3, <2>7 DEF ClientInv
<1> QED  BY <1>5, <1>6

\* The worker drains what is queued into a batch.
LEMMA DrainClient ==
  ASSUME TypeOK, NEW c \in Clients, ClientInv(c), Drain(c)
  PROVE  ClientInv(c)'
<1> USE DEF taskVars, cacheVars, clientVars
<1> DEFINE q == queue[c]
           L == Len(log)
<1>1. q \in Seq(Nat) /\ Len(q) \in Nat /\ L \in Nat  BY DEF TypeOK
<1>2. PICK k \in Nat :
        /\ k <= Len(q)
        /\ batch' = [batch EXCEPT ![c] = SubSeq(q, 1, k)]
        /\ queue' = [queue EXCEPT ![c] = SubSeq(q, k + 1, Len(q))]
  <2> DEFINE j == IF Len(queue[c]) < BatchMsgs THEN Len(queue[c]) ELSE BatchMsgs
  <2>1. j \in Nat /\ j <= Len(q)  BY <1>1, SizesAssumption
  <2>2. /\ batch' = [batch EXCEPT ![c] = SubSeq(q, 1, j)]
        /\ queue' = [queue EXCEPT ![c] = SubSeq(q, j + 1, Len(q))]
    BY DEF Drain
  <2> HIDE DEF j
  <2> QED  BY <2>1, <2>2
<1>3. /\ worker[c] = "waiting" /\ worker'[c] = "sending"
      /\ UNCHANGED <<clients, endpoint, unsent, lvc, expired, log, view, dropped>>
      /\ batch'[c] = SubSeq(q, 1, k)
      /\ queue'[c] = SubSeq(q, k + 1, Len(q))
  BY <1>2 DEF Drain, TypeOK
<1>4. /\ Len(batch'[c]) = k
      /\ \A i \in 1..k : batch'[c][i] = q[i]
      /\ Len(queue'[c]) = Len(q) - k
      /\ \A i \in 1..(Len(q) - k) : queue'[c][i] = q[k + i]
  BY <1>1, <1>2, <1>3, CutType
<1>5. Stages(c)'  BY <1>3 DEF ClientInv, Stages, Live
<1>6. CASE c \notin clients  BY <1>3, <1>5, <1>6 DEF ClientInv
<1>7. CASE c \in clients
  <2>1. /\ Len(q) <= QueueSize /\ Len(q) <= L
        /\ \A i \in 1..Len(q) : q[i] = L - Len(q) + i
    BY <1>7 DEF ClientInv, SuffixQueue, IsSuffix
  <2>2. /\ unsent[c] = {} /\ batch[c] = <<>>
    BY <1>3, <1>7 DEF ClientInv, Stages
  <2> HIDE DEF q, L
  <2>3. \A i \in 1..(Len(q) - k) : q[k + i] = L - (Len(q) - k) + i
    BY <1>1, <1>2, <2>1
  <2>4. Len(q) - k <= QueueSize /\ Len(q) - k <= L
    BY <1>1, <1>2, <2>1, SizesAssumption
  <2>5. SuffixQueue(c)'
    BY <1>3, <1>4, <2>3, <2>4 DEF SuffixQueue, IsSuffix, L
  <2>6. \A i \in 1..k : q[i] = L - Len(q) + i /\ q[i] \in 1..(L - (Len(q) - k))
    BY <1>1, <1>2, <2>1
  <2>7. BatchInOrder(c)'
    <3>1. \A i \in 1..k : batch'[c][i] \in 1..(L - (Len(q) - k))
      BY <1>4, <2>6
    <3>2. \A i, j \in 1..k : i < j => batch'[c][i] < batch'[c][j]
      BY <1>1, <1>2, <1>4, <2>6
    <3> QED  BY <1>3, <1>4, <3>1, <3>2 DEF BatchInOrder, L
  <2>8. OneFramePerEntity(c)'  BY <1>3, <2>2 DEF OneFramePerEntity
  <2>9. InFlight(c)' = InFlight(c)
    <3>1. \A i \in 1..Len(q) :
            i \in 1..k \/ (i - k \in 1..(Len(q) - k) /\ q[k + (i - k)] = q[i])
      BY <1>1, <1>2
    <3>2. ASSUME NEW i \in 1..Len(q)
          PROVE  q[i] \in Elements(batch'[c]) \cup Elements(queue'[c])
      <4>1. CASE i \in 1..k  BY <1>4, <4>1 DEF Elements
      <4>2. CASE i - k \in 1..(Len(q) - k) /\ q[k + (i - k)] = q[i]
        <5>1. queue'[c][i - k] = q[i]  BY <1>4, <4>2
        <5> QED  BY <1>4, <4>2, <5>1 DEF Elements
      <4> QED  BY <3>1, <4>1, <4>2
    <3>3. \A i \in 1..k : i \in 1..Len(q)  BY <1>1, <1>2
    <3>4. \A i \in 1..(Len(q) - k) : k + i \in 1..Len(q)  BY <1>1, <1>2
    <3>5. Elements(batch'[c]) \subseteq Elements(q)
      BY <1>4, <3>3 DEF Elements
    <3>6. Elements(queue'[c]) \subseteq Elements(q)
      BY <1>4, <3>4 DEF Elements
    <3>7. Elements(q) \subseteq Elements(batch'[c]) \cup Elements(queue'[c])
      BY <3>2 DEF Elements
    <3>8. Elements(batch[c]) = {}  BY <2>2 DEF Elements
    <3> QED  BY <1>3, <3>5, <3>6, <3>7, <3>8 DEF InFlight, q
  <2>10. ASSUME NEW u \in Uids, lvc[u] > expired
         PROVE  Covered(c, u)'
    <3>1. Covered(c, u)  BY <1>3, <1>7, <2>10 DEF ClientInv
    <3> QED  BY <1>3, <2>9, <3>1 DEF Covered
  <2> QED  BY <1>3, <1>5, <2>5, <2>7, <2>8, <2>10 DEF ClientInv
<1> QED  BY <1>6, <1>7

\* A prefix of the batch is sent: if it ends with the latest frame of u as far
\* as u is concerned, that is what the client shows.
LEMMA LastOfLatest ==
  ASSUME NEW s \in Seq(Nat), NEW u, NEW old,
         NEW i \in 1..Len(s), IsLast(s, i, u)
  PROVE  LastOf(s, u, old) = s[i]
<1> DEFINE lasts == {k \in 1..Len(s) : IsLast(s, k, u)}
<1>1. i \in lasts  OBVIOUS
<1>2. ASSUME NEW k \in lasts PROVE k = i
  <2>1. k \in 1..Len(s) /\ IsLast(s, k, u)
    OBVIOUS
  <2>2. ~(k > i)
    <3>1. k > i => k \in (i + 1)..Len(s)  BY <2>1
    <3> QED  BY <2>1, <3>1 DEF IsLast
  <2>3. ~(i > k)
    <3>1. i > k => i \in (k + 1)..Len(s)  BY <2>1
    <3> QED  BY <2>1, <3>1 DEF IsLast
  <2> QED  BY <2>1, <2>2, <2>3
<1>3. (CHOOSE k \in lasts : TRUE) = i  BY <1>1, <1>2
<1> HIDE DEF lasts
<1>4. lasts # {}  BY <1>1
<1> QED  BY <1>3, <1>4 DEF LastOf, lasts

\* With nothing about u in the prefix, the client shows what it showed.
LEMMA LastOfNone ==
  ASSUME NEW s \in Seq(Nat), NEW u, NEW old, \A i \in 1..Len(s) : log[s[i]] # u
  PROVE  LastOf(s, u, old) = old
  BY DEF LastOf, IsLast

\* A batch is sent: what the client shows catches up with the batch, entity by
\* entity, and the invariant of that client survives.
LEMMA SendBatchClient ==
  ASSUME TypeOK, CacheIsLatest, NEW c \in Clients, ClientInv(c), SendBatch(c)
  PROVE  ClientInv(c)'
<1> USE DEF taskVars, cacheVars, clientVars
<1> DEFINE b == batch[c]
           L == Len(log)
<1>1. b \in Seq(Nat) /\ Len(b) \in Nat /\ L \in Nat /\ queue[c] \in Seq(Nat)
  BY DEF TypeOK
<1>2. PICK k \in 1..Len(b) :
        /\ view' = [view EXCEPT ![c] = [u \in Uids |->
                      LastOf(SubSeq(b, 1, k), u, view[c][u])]]
        /\ batch' = [batch EXCEPT ![c] = SubSeq(b, k + 1, Len(b))]
        /\ worker' = [worker EXCEPT
                        ![c] = IF k = Len(b) THEN "waiting" ELSE worker[c]]
  BY DEF SendBatch
<1> DEFINE p == SubSeq(b, 1, k)
           r == SubSeq(b, k + 1, Len(b))
<1>3. /\ worker[c] = "sending"
      /\ UNCHANGED <<clients, endpoint, queue, unsent, lvc, expired, log, dropped>>
  BY DEF SendBatch
<1>4. /\ batch'[c] = r
      /\ worker'[c] = IF k = Len(b) THEN "waiting" ELSE "sending"
  BY <1>2, <1>3 DEF TypeOK
<1>5. \A u \in Uids : view'[c][u] = LastOf(p, u, view[c][u])
  <2>1. view'[c] = [u \in Uids |-> LastOf(p, u, view[c][u])]
    BY <1>2 DEF TypeOK
  <2> QED  BY <2>1
<1>6. /\ k \in Nat /\ k <= Len(b)
      /\ p \in Seq(Nat) /\ r \in Seq(Nat)
      /\ Len(p) = k /\ \A i \in 1..k : p[i] = b[i]
      /\ Len(r) = Len(b) - k /\ \A i \in 1..(Len(b) - k) : r[i] = b[k + i]
  <2>1. k \in Nat /\ k <= Len(b)  BY <1>1
  <2> QED  BY <1>1, <2>1, CutType
<1> HIDE DEF p, r
<1>7. Stages(c)'
  <2>1. worker'[c] # "sending" => r = <<>>
    BY <1>1, <1>4, <1>6
  <2> QED  BY <1>3, <1>4, <2>1 DEF ClientInv, Stages, Live
<1>8. CASE c \notin clients  BY <1>3, <1>7, <1>8 DEF ClientInv
<1>9. CASE c \in clients
  <2>1. /\ \A i \in 1..Len(b) : b[i] \in 1..(L - Len(queue[c]))
        /\ \A i, j \in 1..Len(b) : i < j => b[i] < b[j]
        /\ SuffixQueue(c)
        /\ unsent[c] = {}
    BY <1>3, <1>9 DEF ClientInv, BatchInOrder, Stages
  <2>2. SuffixQueue(c)'  BY <1>3, <2>1 DEF SuffixQueue
  <2>3. \A i \in 1..(Len(b) - k) : k + i \in 1..Len(b)
    <3>1. k \in Nat /\ Len(b) \in Nat /\ k <= Len(b)  BY <1>1, <1>6
    <3> HIDE DEF b
    <3> QED  BY <3>1
  <2>4. BatchInOrder(c)'
    <3>1. \A i \in 1..Len(r) : r[i] \in 1..(L - Len(queue[c]))
      BY <1>6, <2>1, <2>3
    <3>2. \A i, j \in 1..Len(r) : i < j => r[i] < r[j]
      <4>1. \A i, j \in 1..(Len(b) - k) : i < j => k + i < k + j
        BY <1>1, <1>6
      <4> QED  BY <1>6, <2>1, <2>3, <4>1
    <3> QED  BY <1>3, <1>4, <3>1, <3>2 DEF BatchInOrder
  <2>5. OneFramePerEntity(c)'  BY <1>3, <2>1 DEF OneFramePerEntity
  <2>6. InFlight(c)' = Elements(r) \cup Elements(queue[c])
    BY <1>3, <1>4, <2>1 DEF InFlight
  <2>7. InFlight(c) = Elements(b) \cup Elements(queue[c])
    BY <2>1 DEF InFlight
  <2>8. Elements(r) \subseteq Elements(b)
    <3>1. \A i \in 1..Len(r) : k + i \in 1..Len(b) /\ r[i] = b[k + i]
      BY <1>6, <2>3
    <3> QED  BY <3>1 DEF Elements
  <2>9. ASSUME NEW u \in Uids, lvc[u] > expired
        PROVE  Covered(c, u)'
    <3>0. lvc[u] # 0  BY <2>9 DEF TypeOK
    <3>1. Covered(c, u)  BY <1>3, <1>9, <2>9 DEF ClientInv
    <3>2. CASE lvc[u] \in InFlight(c)'
      BY <1>3, <3>2 DEF Covered
    <3>3. CASE lvc[u] \in Elements(b) /\ lvc[u] \notin InFlight(c)'
      <4>1. /\ lvc[u] \in 1..L /\ log[lvc[u]] = u
            /\ \A m \in (lvc[u] + 1)..L : log[m] # u
        BY <3>0 DEF CacheIsLatest
      <4>2. PICK i \in 1..Len(b) : lvc[u] = b[i]
        BY <3>3 DEF Elements
      <4>3. Len(queue[c]) \in Nat  BY <1>1
      <4>4. \A j \in 1..Len(b) : j > i => log[b[j]] # u
        <5>1. ASSUME NEW j \in 1..Len(b), j > i
              PROVE  b[j] \in (lvc[u] + 1)..L
          <6>1. b[i] < b[j]  BY <2>1, <5>1
          <6>2. b[j] \in 1..(L - Len(queue[c]))  BY <2>1
          <6>3. lvc[u] \in Int /\ lvc[u] < b[j]  BY <4>1, <4>2, <6>1
          <6> HIDE DEF b, L
          <6> QED  BY <1>1, <4>3, <6>2, <6>3, SMTT(30)
        <5> QED  BY <4>1, <5>1
      <4>5. i <= k
        <5>1. SUFFICES ASSUME i > k PROVE FALSE  BY <1>6
        <5>2. i - k \in 1..(Len(b) - k) /\ k + (i - k) = i
          BY <1>1, <1>6, <5>1
        <5>3. r[i - k] = b[i]  BY <1>6, <5>2
        <5>4. b[i] \in Elements(r)  BY <1>6, <5>2, <5>3 DEF Elements
        <5> QED  BY <2>6, <3>3, <4>2, <5>4
      <4>6. view'[c][u] = lvc[u]
        <5>1. i \in 1..Len(p) /\ p[i] = lvc[u] /\ log[p[i]] = u
          BY <1>6, <4>1, <4>2, <4>5
        <5>2. \A j \in (i + 1)..Len(p) : j \in 1..Len(b) /\ j > i /\ p[j] = b[j]
          <6>1. k \in Nat /\ Len(b) \in Nat /\ k <= Len(b) /\ Len(p) = k
            BY <1>1, <1>6
          <6>2. \A j \in (i + 1)..k : j \in 1..k /\ j \in 1..Len(b) /\ j > i
            <7> HIDE DEF b
            <7> QED  BY <4>2, <6>1
          <6> QED  BY <1>6, <6>1, <6>2
        <5>3. \A j \in (i + 1)..Len(p) : log[p[j]] # u
          BY <4>4, <5>2
        <5>4. p \in Seq(Nat)  BY <1>6
        <5>5. IsLast(p, i, u)  BY <5>1, <5>3 DEF IsLast
        <5>6. LastOf(p, u, view[c][u]) = p[i]
          BY <5>1, <5>4, <5>5, LastOfLatest
        <5> QED  BY <1>5, <5>1, <5>6
      <4>7. \A m \in Elements(r) : log[m] # u
        <5>1. \A j \in 1..Len(r) : k + j \in 1..Len(b) /\ k + j > i /\ r[j] = b[k + j]
          BY <1>1, <1>6, <2>3, <4>5, SMTT(30)
        <5> QED  BY <4>4, <5>1 DEF Elements
      <4>8. \A m \in Elements(queue[c]) : log[m] # u
        BY <1>9, <2>1, <2>6, <3>0, <3>3, LatestIsQueued
      <4> QED  BY <1>3, <2>6, <4>6, <4>7, <4>8 DEF Covered
    <3>4. CASE view[c][u] = lvc[u] /\ \A m \in InFlight(c) : log[m] # u
      <4>1. \A i \in 1..Len(p) : p[i] = b[i] /\ i \in 1..Len(b)
        BY <1>1, <1>6
      <4>2. \A i \in 1..Len(p) : p[i] \in InFlight(c)
        BY <2>7, <4>1 DEF Elements
      <4>3. view'[c][u] = lvc[u]
        BY <1>5, <1>6, <3>4, <4>2, LastOfNone, SMTT(30)
      <4>4. \A m \in InFlight(c)' : log'[m] # u
        BY <1>3, <2>6, <2>7, <2>8, <3>4
      <4> QED  BY <1>3, <4>3, <4>4 DEF Covered
    <3>5. CASE lvc[u] \in dropped[c]
      BY <1>3, <3>5 DEF Covered
    <3> QED  BY <2>6, <2>7, <3>1, <3>2, <3>3, <3>4, <3>5 DEF Covered
  <2> QED  BY <1>3, <1>4, <1>7, <2>2, <2>4, <2>5, <2>9 DEF ClientInv
<1> QED  BY <1>8, <1>9

\* The steps of connections, loop failures, timers and stop(): none touches a
\* stream, and the cache only ages or is emptied.
LEMMA LifecycleClient ==
  ASSUME TypeOK, CacheIsLatest, NEW d \in Clients, ClientInv(d), TypeOK',
         \/ \E ok \in BOOLEAN : StartKafka(ok) \/ StartRedis(ok)
         \/ \E t \in Loops : LoopBreak(t) \/ LoopFail(t) \/ LoopCleanup(t)
         \/ Age
         \/ \E c \in Clients : \/ PeerStalls(c) \/ PeerLeaves(c)
                               \/ SendFail(c) \/ WorkerClose(c)
                               \/ WorkerCancelled(c) \/ Endpoint(c)
         \/ StopKafka \/ StopRaises
         \/ Stopping
  PROVE  ClientInv(d)' /\ CacheIsLatest'
<1> USE DEF taskVars, cacheVars, clientVars
<1> DEFINE Same == /\ UNCHANGED <<queue, unsent, batch, view, dropped, log>>
                   /\ d \in clients' => d \in clients /\ worker'[d] = worker[d]
                   /\ endpoint'[d] = "idle" =>
                        endpoint[d] = "idle" /\ worker'[d] = worker[d]
           SameCache == UNCHANGED <<lvc, expired>>
<1>0. /\ endpoint[d] = "idle" => worker[d] = "none" /\ d \notin clients
      /\ d \in clients => worker[d] \in Live
  BY DEF ClientInv, Stages
<1>1. ASSUME Same, SameCache
      PROVE  ClientInv(d)' /\ CacheIsLatest'
  BY <1>1, ClientFrame DEF CacheIsLatest
<1>2. ASSUME NEW ok \in BOOLEAN, StartKafka(ok) \/ StartRedis(ok)
      PROVE  Same /\ SameCache
  BY <1>2 DEF StartKafka, StartRedis
<1>3. ASSUME NEW t \in Loops, LoopBreak(t) \/ LoopFail(t) \/ LoopCleanup(t)
      PROVE  Same /\ SameCache
  BY <1>3 DEF LoopBreak, LoopFail, LoopCleanup, LoopClose, LoopClear
<1>4. ASSUME NEW c \in Clients, PeerStalls(c) \/ PeerLeaves(c)
      PROVE  Same /\ SameCache
  BY <1>4 DEF PeerStalls, PeerLeaves
<1>5. ASSUME NEW c \in Clients,
             SendFail(c) \/ WorkerClose(c) \/ WorkerCancelled(c)
      PROVE  Same /\ SameCache
  BY <1>0, <1>5, SMTT(30) DEF TypeOK, SendFail, WorkerExit, WorkerClose, WorkerCancelled, Live
<1>6. ASSUME NEW c \in Clients, Endpoint(c)
      PROVE  Same /\ SameCache
  BY <1>0, <1>6 DEF TypeOK, Endpoint, EndpointDisconnect, EndpointJoin, Unregister
<1>7. ASSUME StopKafka \/ StopRaises
      PROVE  Same /\ SameCache
  BY <1>7 DEF StopKafka, StopRaises
<1>8. ASSUME StopRedis \/ \E c \in Clients : StopDisconnect(c) \/ StopJoin(c)
      PROVE  Same /\ SameCache
  BY <1>0, <1>8 DEF TypeOK, StopRedis, StopDisconnect, StopJoin, Unregister
<1>9. CASE Age
  <2>1. expired' \in Nat /\ expired' > expired /\ lvc' = lvc /\ Same
    BY <1>9 DEF Age, TypeOK
  <2>2. \A u \in Uids : lvc'[u] > expired' => lvc[u] > expired /\ lvc'[u] = lvc[u]
    BY <2>1 DEF TypeOK
  <2> QED  BY <2>1, <2>2, ClientFrame DEF CacheIsLatest
<1>10. CASE StopEnd
  <2>1. Same /\ lvc' = [u \in Uids |-> 0] /\ expired' = expired
    BY <1>10 DEF StopEnd
  <2>2. \A u \in Uids : ~(lvc'[u] > expired')
    BY <2>1 DEF TypeOK
  <2>3. CacheIsLatest'  BY <2>1 DEF CacheIsLatest
  <2> QED  BY <2>1, <2>2, <2>3, ClientFrame
<1> HIDE DEF Same, SameCache
<1> QED
  BY <1>1, <1>2, <1>3, <1>4, <1>5, <1>6, <1>7, <1>8, <1>9, <1>10 DEF Stopping

\* Everybody but c is undisturbed by a step of c's worker or c's connection.
LEMMA OtherClient ==
  ASSUME TypeOK, NEW c \in Clients, NEW d \in Clients, d # c, ClientInv(d),
         \/ Connect(c) \/ WorkerStart(c) \/ SendSnapshot(c) \/ Drain(c)
         \/ SendBatch(c)
  PROVE  ClientInv(d)'
<1> USE DEF taskVars, cacheVars, clientVars
<1>1. /\ UNCHANGED <<lvc, expired, log, dropped>>
      /\ d \in clients' => d \in clients
      /\ worker'[d] = worker[d] /\ endpoint'[d] = endpoint[d]
      /\ queue'[d] = queue[d] /\ unsent'[d] = unsent[d]
      /\ batch'[d] = batch[d] /\ view'[d] = view[d]
  <2>1. CASE Connect(c)  BY <2>1 DEF TypeOK, Connect
  <2>2. CASE WorkerStart(c)  BY <2>2 DEF TypeOK, WorkerStart
  <2>3. CASE SendSnapshot(c)  BY <2>3 DEF TypeOK, SendSnapshot
  <2>4. CASE Drain(c)  BY <2>4 DEF TypeOK, Drain
  <2>5. CASE SendBatch(c)  BY <2>5 DEF TypeOK, SendBatch
  <2> QED  BY <2>1, <2>2, <2>3, <2>4, <2>5
<1>2. \A u \in Uids : lvc'[u] > expired' => lvc[u] > expired /\ lvc'[u] = lvc[u]
  BY <1>1
<1> QED  BY <1>1, <1>2, ClientFrame

\* A client that connects starts with nothing.
LEMMA ConnectClient ==
  ASSUME TypeOK, NEW c \in Clients, ClientInv(c), Connect(c)
  PROVE  ClientInv(c)'
<1> USE DEF taskVars, cacheVars, clientVars
<1>1. /\ endpoint[c] = "idle" /\ endpoint'[c] = "receiving"
      /\ worker'[c] = "new" /\ queue'[c] = <<>>
      /\ UNCHANGED <<unsent, batch, lvc, expired, log>>
  BY DEF TypeOK, Connect
<1>2. unsent[c] = {} /\ batch[c] = <<>>  BY <1>1 DEF ClientInv, Stages
<1>3. Len(log) \in Nat /\ Len(queue'[c]) = 0  BY <1>1 DEF TypeOK
<1>4. SuffixQueue(c)'
  BY <1>1, <1>3, SizesAssumption DEF SuffixQueue, IsSuffix
<1>5. Stages(c)' /\ BatchInOrder(c)' /\ OneFramePerEntity(c)'
  BY <1>1, <1>2 DEF Stages, BatchInOrder, OneFramePerEntity, Live
<1> QED  BY <1>1, <1>4, <1>5 DEF ClientInv

\* The strengthened invariant is preserved by every step, one client at a time.
LEMMA IInvNext ==
  ASSUME IInv, [Next]_vars
  PROVE  IInv'
<1> USE DEF taskVars, cacheVars, clientVars
<1>1. TypeOK'  BY TypeNext DEF IInv
<1>2. TypeOK /\ CacheIsLatest /\ \A d \in Clients : ClientInv(d)  BY DEF IInv
<1>3. ASSUME NEW u \in Entities, NEW due \in BOOLEAN, Consume(u, due)
      PROVE  CacheIsLatest' /\ \A d \in Clients : ClientInv(d)'
  <2>1. \A v \in Uids :
          \/ v # u /\ lvc'[v] \in {0, lvc[v]}
          \/ v = u /\ lvc'[v] \in {0, Len(log) + 1}
    <3>1. Len(log) + 1 \in Nat /\ lvc \in [Uids -> Nat]  BY <1>2 DEF TypeOK
    <3>2. lvc' = RecordLive(lvc, u, Len(log) + 1, due)  BY <1>3 DEF Consume
    <3> QED  BY <3>1, <3>2, RecordLiveValue
  <2>2. Enqueue(u) /\ UNCHANGED <<clients, endpoint, worker, unsent, batch, view,
                                  expired>>
    BY <1>3 DEF Consume
  <2>3. CacheIsLatest'  BY <1>2, <2>1, <2>2, EnqueueCache
  <2> QED  BY <1>2, <2>1, <2>2, <2>3, EnqueueClient
<1>4. ASSUME Alert
      PROVE  CacheIsLatest' /\ \A d \in Clients : ClientInv(d)'
  <2>1. \A v \in Uids :
          \/ v # NoUid /\ lvc'[v] \in {0, lvc[v]}
          \/ v = NoUid /\ lvc'[v] \in {0, Len(log) + 1}
    BY <1>4, NoUidAssumption DEF Alert
  <2>2. Enqueue(NoUid) /\ UNCHANGED <<clients, endpoint, worker, unsent, batch,
                                      view, expired>>
    BY <1>4 DEF Alert
  <2>3. NoUid \in Entities  BY DEF Entities
  <2>4. CacheIsLatest'  BY <1>2, <2>1, <2>2, <2>3, EnqueueCache
  <2> QED  BY <1>2, <2>1, <2>2, <2>3, <2>4, EnqueueClient
<1>5. ASSUME NEW c \in Clients,
             \/ Connect(c) \/ WorkerStart(c) \/ SendSnapshot(c) \/ Drain(c)
             \/ SendBatch(c)
      PROVE  CacheIsLatest' /\ \A d \in Clients : ClientInv(d)'
  <2>1. CacheIsLatest'
    BY <1>2, <1>5 DEF CacheIsLatest, Connect, WorkerStart, SendSnapshot, Drain,
                      SendBatch
  <2>2. ClientInv(c)'
    BY <1>2, <1>5, ConnectClient, WorkerStartClient, SendSnapshotClient,
       DrainClient, SendBatchClient
  <2> QED  BY <1>2, <1>5, <2>1, <2>2, OtherClient
<1>6. CASE \/ \E ok \in BOOLEAN : StartKafka(ok) \/ StartRedis(ok)
           \/ \E t \in Loops : LoopBreak(t) \/ LoopFail(t) \/ LoopCleanup(t)
           \/ Age
           \/ \E c \in Clients : \/ PeerStalls(c) \/ PeerLeaves(c)
                                 \/ SendFail(c) \/ WorkerClose(c)
                                 \/ WorkerCancelled(c) \/ Endpoint(c)
           \/ StopKafka \/ StopRaises
           \/ Stopping
  <2>1. \A d \in Clients : ClientInv(d)' /\ CacheIsLatest'
    BY <1>1, <1>2, <1>6, LifecycleClient
  <2>2. Clients = {} => CacheIsLatest'
    <3>1. SUFFICES ASSUME Clients = {} PROVE CacheIsLatest'  OBVIOUS
    <3>2. log' = log /\ (lvc' = lvc \/ lvc' = [u \in Uids |-> 0])
      BY <1>6 DEF StartKafka, StartRedis, LoopBreak, LoopFail, LoopCleanup,
         LoopClose, LoopClear, Age, PeerStalls, PeerLeaves, SendFail,
         WorkerClose, WorkerCancelled, Endpoint, EndpointDisconnect,
         EndpointJoin, StopKafka, StopRaises, Stopping, StopRedis, StopDisconnect,
         StopJoin, StopEnd
    <3> QED  BY <1>2, <3>2 DEF CacheIsLatest
  <2> QED  BY <1>1, <2>1, <2>2 DEF IInv
<1>7. CASE UNCHANGED vars
  <2>1. CacheIsLatest'  BY <1>2, <1>7 DEF vars, CacheIsLatest
  <2>2. \A d \in Clients : ClientInv(d)'
    BY <1>2, <1>7, ClientFrame DEF vars
  <2> QED  BY <1>1, <2>1, <2>2 DEF IInv
<1> QED
  BY <1>1, <1>3, <1>4, <1>5, <1>6, <1>7, ZenonT(60) DEF IInv, Next, Worker

\* The inductive invariant holds initially and is preserved, hence always.
THEOREM Invariance == Spec => []IInv
<1>1. Init => IInv
  <2>1. Init => TypeOK  BY TypeInit
  <2>2. Init => CacheIsLatest  BY DEF Init, CacheIsLatest
  <2>3. Init => \A c \in Clients : ClientInv(c)
    BY DEF Init, ClientInv, Stages
  <2> QED  BY <2>1, <2>2, <2>3 DEF IInv
<1>2. IInv /\ [Next]_vars => IInv'  BY IInvNext
<1> QED  BY <1>1, <1>2, PTL DEF Spec

\* What a registered client has not been sent yet is a gapless suffix of the
\* stream, of at most QueueSize messages.
THEOREM QueueCorrect == Spec => []QueueIsSuffix
<1>1. IInv => QueueIsSuffix  BY DEF IInv, ClientInv, QueueIsSuffix, TypeOK
<1> QED  BY <1>1, Invariance, PTL

\* The last-value cache never holds a superseded frame.
THEOREM CacheCorrect == Spec => []CacheIsLatest
<1>1. IInv => CacheIsLatest  BY DEF IInv
<1> QED  BY <1>1, Invariance, PTL

\* Snapshot and stream together leave a client with the latest frame of every
\* fresh entity, except for what drop-oldest took.
THEOREM Convergence == Spec => []ClientConverges
<1>1. IInv => ClientConverges  BY DEF IInv, ClientInv, ClientConverges, TypeOK
<1> QED  BY <1>1, Invariance, PTL

\* Whoever is registered has a worker that serves it.
THEOREM RegistrationCorrect == Spec => []RegisteredHasWorker
<1>1. IInv => RegisteredHasWorker
  BY DEF IInv, ClientInv, Stages, RegisteredHasWorker, TypeOK
<1> QED  BY <1>1, Invariance, PTL

-----------------------------------------------------------------------------
(* Nothing left behind.  A client leaves _clients by a handler that has    *)
(* ended its worker or is about to, or by a loop that failed.              *)

Leaving == {"cancelled", "closing", "done"}

LeavesInOrder(c) ==
  /\ endpoint[c] \in {"joining", "done"} => c \notin clients
  /\ ~loopFailed /\ endpoint[c] # "idle" /\ c \notin clients => worker[c] \in Leaving

FailureIsKnown == \A t \in Loops : task[t] = "failing" => loopFailed

LeftInv == FailureIsKnown /\ \A c \in Clients : LeavesInOrder(c)

\* A loop that closes its sockets has failed, and stays so.
LEMMA FailureNext ==
  ASSUME TypeOK, FailureIsKnown, [Next]_vars
  PROVE  FailureIsKnown' /\ (loopFailed => loopFailed')
<1> USE DEF taskVars, cacheVars, clientVars, Loops, FailureIsKnown
<1>1. CASE UNCHANGED <<task, loopFailed>>
  BY <1>1
<1>2. ASSUME NEW ok \in BOOLEAN, StartKafka(ok) \/ StartRedis(ok)
      PROVE  FailureIsKnown' /\ (loopFailed => loopFailed')
  BY <1>2 DEF TypeOK, StartKafka, StartRedis
<1>3. ASSUME NEW t \in Loops, LoopBreak(t) \/ LoopFail(t) \/ LoopCleanup(t)
      PROVE  FailureIsKnown' /\ (loopFailed => loopFailed')
  BY <1>3 DEF TypeOK, LoopBreak, LoopFail, LoopCleanup, LoopClose, LoopClear
<1>4. CASE StopKafka \/ StopRedis \/ StopRaises
  BY <1>4 DEF TypeOK, StopKafka, StopRedis, StopRaises, CancelLoop
<1>5. ASSUME NEW u \in Entities, NEW due \in BOOLEAN, Consume(u, due)
      PROVE  UNCHANGED <<task, loopFailed>>
  BY <1>5 DEF Consume
<1>6. ASSUME NEW c \in Clients, Connect(c) \/ PeerStalls(c) \/ PeerLeaves(c)
      PROVE  UNCHANGED <<task, loopFailed>>
  BY <1>6 DEF Connect, PeerStalls, PeerLeaves
<1>7. ASSUME NEW c \in Clients, Worker(c) \/ Endpoint(c)
      PROVE  UNCHANGED <<task, loopFailed>>
  BY <1>7 DEF Worker, WorkerStart, SendSnapshot, Drain, SendBatch, SendFail, WorkerClose,
     WorkerCancelled, Endpoint, EndpointDisconnect, EndpointJoin
<1>8. ASSUME NEW c \in Clients, StopDisconnect(c) \/ StopJoin(c)
      PROVE  UNCHANGED <<task, loopFailed>>
  BY <1>8 DEF StopDisconnect, StopJoin
<1>9. CASE Alert \/ Age \/ StopEnd \/ UNCHANGED vars
  BY <1>9 DEF Alert, Age, StopEnd, vars
<1> QED
  BY <1>1, <1>2, <1>3, <1>4, <1>5, <1>6, <1>7, <1>8, <1>9, ZenonT(60) DEF Next, Stopping

\* A client that leaves takes its worker with it.
LEMMA LeavesNext ==
  ASSUME IInv, FailureIsKnown, NEW d \in Clients, LeavesInOrder(d), [Next]_vars
  PROVE  LeavesInOrder(d)'
<1> USE DEF taskVars, cacheVars, clientVars, LeavesInOrder
<1>0. TypeOK /\ Stages(d) /\ (loopFailed => loopFailed')
  BY FailureNext DEF IInv, ClientInv
<1>a. /\ endpoint \in [Clients -> {"idle", "receiving", "joining", "done"}]
      /\ worker \in [Clients -> {"none", "new", "snapshot", "waiting", "sending",
                               "cancelled", "closing", "done"}]
      /\ task \in [Loops -> {"off", "running", "failing", "ended"}]
      /\ clients \subseteq Clients
  BY <1>0 DEF TypeOK
<1>b. /\ endpoint[d] = "idle" => worker[d] = "none"
      /\ d \in clients => worker[d] \in Live /\ endpoint[d] # "idle"
  BY <1>0 DEF Stages
<1>1. CASE UNCHANGED <<clients, endpoint, worker>>
  BY <1>0, <1>1
<1>2. ASSUME NEW t \in Loops, LoopBreak(t) \/ LoopFail(t) \/ LoopClose(t)
      PROVE  UNCHANGED <<clients, endpoint, worker>>
  BY <1>2 DEF LoopBreak, LoopFail, LoopClose
<1>3. ASSUME NEW t \in Loops, LoopClear(t)
      PROVE  LeavesInOrder(d)'
  <2>1. loopFailed  BY <1>3 DEF FailureIsKnown, LoopClear
  <2>2. clients' = {} /\ loopFailed' = loopFailed /\ endpoint' = endpoint
    BY <1>3 DEF LoopClear
  <2> QED  BY <2>1, <2>2
<1>4. ASSUME NEW c \in Clients, Connect(c)
      PROVE  LeavesInOrder(d)'
  <2>1. CASE c = d
    BY <1>a, <1>4, <2>1 DEF Connect
  <2>2. CASE c # d
    <3>1. endpoint'[d] = endpoint[d] /\ worker'[d] = worker[d] /\ (d \in clients' <=> d \in clients)
          /\ loopFailed' = loopFailed
      BY <1>a, <1>4, <2>2 DEF Connect
    <3> QED  BY <3>1
  <2> QED  BY <2>1, <2>2
<1>5. ASSUME NEW c \in Clients, Worker(c)
      PROVE  LeavesInOrder(d)'
  <2>1. loopFailed' = loopFailed /\ endpoint' = endpoint
    BY <1>5 DEF Worker, WorkerStart, SendSnapshot, Drain, SendBatch, SendFail, WorkerClose,
       WorkerCancelled
  <2>2. CASE c # d
    <3>1. worker'[d] = worker[d] /\ (d \in clients' <=> d \in clients)
      BY <1>a, <1>5, <2>2 DEF Worker, WorkerStart, SendSnapshot, Drain, SendBatch, SendFail,
         WorkerExit, WorkerClose, WorkerCancelled
    <3> QED  BY <2>1, <3>1
  <2>3. CASE c = d
    <3>1. CASE WorkerStart(d) \/ SendSnapshot(d) \/ Drain(d) \/ SendBatch(d)
      <4>1. clients' = clients /\ worker[d] \in Live
        BY <3>1 DEF WorkerStart, SendSnapshot, Drain, SendBatch, Live
      <4> QED  BY <2>1, <4>1, <1>b DEF Leaving, Live
    <3>2. CASE SendFail(d)
      <4>1. d \notin clients' /\ worker'[d] \in {"closing", "done"}
        BY <1>a, <3>2 DEF SendFail, WorkerExit
      <4> QED  BY <2>1, <4>1 DEF Leaving
    <3>3. CASE WorkerClose(d) \/ WorkerCancelled(d)
      <4>1. clients' = clients /\ worker'[d] = "done"
        BY <1>a, <3>3 DEF WorkerClose, WorkerCancelled
      <4> QED  BY <2>1, <4>1 DEF Leaving
    <3> QED  BY <1>5, <2>3, <3>1, <3>2, <3>3 DEF Worker
  <2> QED  BY <2>2, <2>3
<1>6. ASSUME NEW c \in Clients, EndpointDisconnect(c) \/ StopDisconnect(c)
      PROVE  LeavesInOrder(d)'
  <2>1. Unregister(c) /\ loopFailed' = loopFailed
    BY <1>6 DEF EndpointDisconnect, StopDisconnect
  <2>2. CASE c # d
    <3>1. worker'[d] = worker[d] /\ (d \in clients' <=> d \in clients)
      BY <1>a, <2>1, <2>2 DEF Unregister
    <3>2. endpoint'[d] = endpoint[d]
      BY <1>a, <1>6, <2>2 DEF EndpointDisconnect, StopDisconnect
    <3> QED  BY <2>1, <3>1, <3>2
  <2>3. CASE c = d
    <3>1. d \notin clients' /\ worker'[d] = (IF d \in clients THEN "cancelled" ELSE worker[d])
      BY <1>a, <2>1, <2>3 DEF Unregister
    <3>2. endpoint'[d] # "idle" => endpoint[d] # "idle"
      BY <1>a, <1>6, <2>3 DEF EndpointDisconnect, StopDisconnect
    <3> QED  BY <2>1, <3>1, <3>2 DEF Leaving
  <2> QED  BY <2>2, <2>3
<1>7. ASSUME NEW c \in Clients, EndpointJoin(c)
      PROVE  LeavesInOrder(d)'
  <2>1. endpoint[c] = "joining" /\ endpoint' = [endpoint EXCEPT ![c] = "done"]
        /\ UNCHANGED <<clients, worker, loopFailed>>
    BY <1>7 DEF EndpointJoin
  <2>2. endpoint'[d] = endpoint[d] \/ (endpoint[d] = "joining" /\ endpoint'[d] = "done")
    BY <1>a, <2>1
  <2> QED  BY <2>1, <2>2
<1>8. ASSUME NEW u \in Entities, NEW due \in BOOLEAN, Consume(u, due)
      PROVE  UNCHANGED <<clients, endpoint, worker>>
  BY <1>8 DEF Consume
<1>9. ASSUME NEW c \in Clients, PeerStalls(c) \/ PeerLeaves(c) \/ StopJoin(c)
      PROVE  UNCHANGED <<clients, endpoint, worker>>
  BY <1>9 DEF PeerStalls, PeerLeaves, StopJoin
<1>10. CASE Alert \/ Age \/ StopKafka \/ StopRedis \/ StopRaises \/ StopEnd \/ UNCHANGED vars
  BY <1>1, <1>10 DEF Alert, Age, StopKafka, StopRedis, StopRaises, StopEnd, vars
<1>11. ASSUME NEW ok \in BOOLEAN, StartKafka(ok) \/ StartRedis(ok)
      PROVE  UNCHANGED <<clients, endpoint, worker>>
  BY <1>11 DEF StartKafka, StartRedis
<1> QED
  BY <1>1, <1>2, <1>3, <1>4, <1>5, <1>6, <1>7, <1>8, <1>9, <1>10, <1>11, ZenonT(60)
     DEF Next, Endpoint, LoopCleanup, Stopping

\* As long as no loop fails, a client whose endpoint has returned is not
\* registered, and its worker is over or about to be.
THEOREM LeavingCorrect == Spec => []NothingLeftBehind
<1>1. Init => LeftInv
  <2> SUFFICES ASSUME Init
               PROVE  LeftInv
    OBVIOUS
  <2>1. FailureIsKnown  BY DEF Init, FailureIsKnown
  <2>2. \A c \in Clients : endpoint[c] = "idle"  BY DEF Init
  <2> QED  BY <2>1, <2>2 DEF LeftInv, LeavesInOrder
<1>2. IInv /\ LeftInv /\ [Next]_vars => LeftInv'
  <2> SUFFICES ASSUME IInv, LeftInv, [Next]_vars
               PROVE  LeftInv'
    OBVIOUS
  <2>1. FailureIsKnown'  BY FailureNext DEF IInv, LeftInv
  <2>2. \A c \in Clients : LeavesInOrder(c)'  BY LeavesNext DEF LeftInv
  <2> QED  BY <2>1, <2>2 DEF LeftInv
<1>3. LeftInv => NothingLeftBehind
  BY DEF LeftInv, LeavesInOrder, NothingLeftBehind, Leaving
<1> QED  BY <1>1, <1>2, <1>3, Invariance, PTL DEF Spec

-----------------------------------------------------------------------------
(* No regression.  What is drained and what is queued is in the order of   *)
(* the stream, and newer than what the client shows from the stream.       *)

Increasing(s) == \A i, j \in 1..Len(s) : i < j => s[i] < s[j]
Within(s, n) == \A i \in 1..Len(s) : s[i] <= n
Above(s, n) == \A i \in 1..Len(s) : n < s[i]

InOrder(c) ==
  /\ Increasing(batch[c]) /\ Within(batch[c], Len(log))
  /\ Increasing(queue[c]) /\ Within(queue[c], Len(log))
  /\ \A i \in 1..Len(batch[c]) : Above(queue[c], batch[c][i])

SnapshotIsOld(c) == bootAt[c] <= Len(log) /\ \A n \in unsent[c] : n <= bootAt[c]

ShownIsOlder(c) ==
  \A u \in Uids :
    /\ view[c][u] <= Len(log)
    /\ \/ view[c][u] <= bootAt[c]
       \/ Above(batch[c], view[c][u]) /\ Above(queue[c], view[c][u])

OrderInv == \A c \in Clients : InOrder(c) /\ SnapshotIsOld(c) /\ ShownIsOlder(c)

OrderOf(c) == InOrder(c) /\ SnapshotIsOld(c) /\ ShownIsOlder(c)

\* Types of one client's part of the stream.
LEMMA ClientTypes ==
  ASSUME TypeOK, NEW c \in Clients
  PROVE  /\ queue[c] \in Seq(Nat) /\ batch[c] \in Seq(Nat)
         /\ Len(queue[c]) \in Nat /\ Len(batch[c]) \in Nat
         /\ \A i \in 1..Len(queue[c]) : queue[c][i] \in Nat
         /\ \A i \in 1..Len(batch[c]) : batch[c][i] \in Nat
         /\ unsent[c] \in SUBSET Nat /\ bootAt[c] \in Nat
         /\ \A u \in Uids : view[c][u] \in Nat
         /\ Len(log) \in Nat
  BY DEF TypeOK

\* Offering message n + 1 to a queue of messages up to n keeps the queue in
\* order: what it holds it held before, or is the new one.
LEMMA OfferOrder ==
  ASSUME NEW q \in Seq(Nat), NEW n \in Nat, Increasing(q), Within(q, n)
  PROVE  /\ Increasing(Offer(q, n + 1)) /\ Within(Offer(q, n + 1), n + 1)
         /\ \A m \in Nat : m <= n /\ Above(q, m) => Above(Offer(q, n + 1), m)
<1> DEFINE r == IF Len(q) >= QueueSize THEN Tail(q) ELSE q
<1>1. r \in Seq(Nat) /\ Len(r) \in Nat
      /\ \E k \in {0, 1} : Len(r) = Len(q) - k /\ \A i \in 1..Len(r) : r[i] = q[i + k]
  <2>1. CASE Len(q) >= QueueSize
    <3>1. q # <<>>  BY <2>1, SizesAssumption
    <3>2. Tail(q) \in Seq(Nat) /\ Len(Tail(q)) = Len(q) - 1
          /\ \A i \in 1..Len(Tail(q)) : Tail(q)[i] = q[i + 1]
      BY <3>1, HeadTailProperties
    <3> QED  BY <2>1, <3>2
  <2>2. CASE ~(Len(q) >= QueueSize)
    <3>1. r = q  BY <2>2
    <3>2. Len(q) = Len(q) - 0 /\ \A i \in 1..Len(q) : q[i] = q[i + 0]  OBVIOUS
    <3> HIDE DEF r
    <3> QED  BY <3>1, <3>2
  <2> QED  BY <2>1, <2>2
<1> HIDE DEF r
<1>2. PICK k \in {0, 1} : Len(r) = Len(q) - k /\ \A i \in 1..Len(r) : r[i] = q[i + k]
  BY <1>1
<1>3. Offer(q, n + 1) = Append(r, n + 1)  BY DEF Offer, r
<1>4. /\ Len(Append(r, n + 1)) = Len(r) + 1
      /\ \A i \in 1..Len(r) : Append(r, n + 1)[i] = r[i]
      /\ Append(r, n + 1)[Len(r) + 1] = n + 1
  BY <1>1, AppendProperties
<1> DEFINE a == Append(r, n + 1)
<1>5. \A i \in 1..Len(r) : i + k \in 1..Len(q) /\ a[i] = q[i + k] /\ a[i] \in Nat /\ a[i] <= n
  <2>1. \A i \in 1..Len(r) : i + k \in 1..Len(q)  BY <1>1, <1>2
  <2>2. \A i \in 1..Len(q) : q[i] \in Nat /\ q[i] <= n  BY DEF Within
  <2> QED  BY <1>2, <1>4, <2>1, <2>2
<1>6. Len(a) = Len(r) + 1 /\ a[Len(r) + 1] = n + 1  BY <1>4
<1> HIDE DEF a
<1>7. \A i \in 1..Len(a) : i \in 1..Len(r) \/ i = Len(r) + 1  BY <1>1, <1>6
<1>8. Within(a, n + 1)
  BY <1>5, <1>6, <1>7 DEF Within
<1>9. Increasing(a)
  <2>1. SUFFICES ASSUME NEW i \in 1..Len(a), NEW j \in 1..Len(a), i < j
                 PROVE  a[i] < a[j]
    BY DEF Increasing
  <2>2. i \in 1..Len(r)  BY <1>1, <1>6, <2>1
  <2>3. CASE j = Len(r) + 1  BY <1>5, <1>6, <2>2, <2>3
  <2>4. CASE j \in 1..Len(r)
    <3>1. i + k < j + k  BY <1>1, <2>1, <2>2, <2>4
    <3> QED  BY <1>5, <2>2, <2>4, <3>1 DEF Increasing
  <2> QED  BY <1>7, <2>3, <2>4
<1>10. ASSUME NEW m \in Nat, m <= n, Above(q, m)
       PROVE  Above(a, m)
  <2>1. \A i \in 1..Len(r) : m < a[i]  BY <1>5, <1>10 DEF Above
  <2>2. m < a[Len(r) + 1]  BY <1>6, <1>10
  <2> QED  BY <1>7, <2>1, <2>2 DEF Above
<1> QED  BY <1>3, <1>8, <1>9, <1>10 DEF a

\* A frame a client is left with is the one it showed or one of those applied.
LEMMA LastOfIn ==
  ASSUME NEW s \in Seq(Nat), NEW u, NEW old
  PROVE  LastOf(s, u, old) = old \/ \E i \in 1..Len(s) : LastOf(s, u, old) = s[i]
<1> DEFINE lasts == {i \in 1..Len(s) : IsLast(s, i, u)}
<1>1. CASE lasts = {}  BY <1>1 DEF LastOf
<1>2. CASE lasts # {}
  <2>1. (CHOOSE i \in lasts : TRUE) \in 1..Len(s)  BY <1>2
  <2> QED  BY <1>2, <2>1 DEF LastOf
<1> QED  BY <1>1, <1>2

\* The order of one client survives whatever leaves its stream alone.
LEMMA OrderFrame ==
  ASSUME NEW d \in Clients, OrderOf(d),
         queue'[d] = queue[d], unsent'[d] = unsent[d], batch'[d] = batch[d],
         view'[d] = view[d], bootAt'[d] = bootAt[d], log' = log
  PROVE  OrderOf(d)'
  BY DEF OrderOf, InOrder, SnapshotIsOld, ShownIsOlder, Increasing, Within, Above

\* A message is fanned out: it is newer than all there is.
LEMMA EnqueueOrder ==
  ASSUME TypeOK, NEW d \in Clients, OrderOf(d), NEW u \in Entities, Enqueue(u),
         UNCHANGED <<unsent, batch, view, bootAt>>
  PROVE  OrderOf(d)'
<1> DEFINE L == Len(log)
<1>1. L \in Nat /\ Len(log') = L + 1  BY DEF TypeOK, Enqueue
<1>2. queue'[d] = IF d \in clients THEN Offer(queue[d], L + 1) ELSE queue[d]
  BY DEF Enqueue
<1>3. /\ Increasing(queue[d]) /\ Within(queue[d], L)
      /\ Increasing(batch[d]) /\ Within(batch[d], L)
      /\ \A i \in 1..Len(batch[d]) : Above(queue[d], batch[d][i])
      /\ bootAt[d] <= L /\ \A n \in unsent[d] : n <= bootAt[d]
      /\ ShownIsOlder(d)
  BY DEF OrderOf, InOrder, SnapshotIsOld
<1>4. /\ queue[d] \in Seq(Nat) /\ bootAt[d] \in Nat
      /\ \A i \in 1..Len(batch[d]) : batch[d][i] \in Nat
      /\ \A i \in 1..Len(queue[d]) : queue[d][i] \in Nat
      /\ \A v \in Uids : view[d][v] \in Nat
  BY ClientTypes
<1> HIDE DEF L
<1>5. /\ Increasing(queue'[d]) /\ Within(queue'[d], L + 1)
      /\ \A m \in Nat : m <= L /\ Above(queue[d], m) => Above(queue'[d], m)
  <2>1. CASE d \in clients
    BY <1>1, <1>2, <1>3, <1>4, <2>1, OfferOrder
  <2>2. CASE d \notin clients
    <3>1. queue'[d] = queue[d]  BY <1>2, <2>2
    <3>2. Within(queue[d], L + 1)  BY <1>1, <1>3, <1>4 DEF Within
    <3> QED  BY <1>3, <3>1, <3>2
  <2> QED  BY <2>1, <2>2
<1>6. Within(batch[d], L + 1)  BY <1>1, <1>3, <1>4 DEF Within
<1>7. \A i \in 1..Len(batch[d]) : Above(queue'[d], batch[d][i])
  BY <1>3, <1>4, <1>5 DEF Within
<1>8. InOrder(d)'
  BY <1>1, <1>3, <1>5, <1>6, <1>7 DEF InOrder, L
<1>9. SnapshotIsOld(d)'
  BY <1>1, <1>3, <1>4 DEF SnapshotIsOld, L
<1>10. ShownIsOlder(d)'
  <2>1. SUFFICES ASSUME NEW v \in Uids
                 PROVE  /\ view[d][v] <= L + 1
                        /\ \/ view[d][v] <= bootAt[d]
                           \/ Above(batch[d], view[d][v]) /\ Above(queue'[d], view[d][v])
    BY <1>1 DEF ShownIsOlder, L
  <2>2. view[d][v] \in Nat /\ view[d][v] <= L  BY <1>3, <1>4 DEF ShownIsOlder, L
  <2>3. \/ view[d][v] <= bootAt[d]
        \/ Above(batch[d], view[d][v]) /\ Above(queue[d], view[d][v])
    BY <1>3 DEF ShownIsOlder
  <2> QED  BY <1>1, <1>5, <2>2, <2>3
<1> QED  BY <1>8, <1>9, <1>10 DEF OrderOf

\* The worker starts: what it shows is not newer than the snapshot.
LEMMA StartOrder ==
  ASSUME TypeOK, CacheIsLatest, NEW d \in Clients, OrderOf(d), WorkerStart(d)
  PROVE  OrderOf(d)'
<1>1. /\ unsent'[d] = SnapshotFrames /\ bootAt'[d] = Len(log)
      /\ UNCHANGED <<queue, batch, view, log>>
  BY DEF WorkerStart, TypeOK, cacheVars
<1>2. InOrder(d)'  BY <1>1 DEF OrderOf, InOrder, Increasing, Within, Above
<1>3. SnapshotIsOld(d)'
  <2>1. Len(log) \in Nat  BY ClientTypes
  <2>2. ASSUME NEW n \in SnapshotFrames
        PROVE  n <= Len(log)
    <3>1. PICK u \in Uids : lvc[u] > expired /\ n = lvc[u]  BY DEF SnapshotFrames
    <3>2. lvc[u] # 0  BY <3>1 DEF TypeOK
    <3> QED  BY <3>1, <3>2 DEF CacheIsLatest
  <2> QED  BY <1>1, <2>1, <2>2 DEF SnapshotIsOld
<1>4. ShownIsOlder(d)'  BY <1>1 DEF OrderOf, ShownIsOlder
<1> QED  BY <1>2, <1>3, <1>4 DEF OrderOf

\* A part of the snapshot is sent: it is not newer than the snapshot.
LEMMA SnapshotOrder ==
  ASSUME TypeOK, NEW d \in Clients, OrderOf(d), SendSnapshot(d)
  PROVE  /\ OrderOf(d)'
         /\ \A u \in Uids : view'[d][u] = view[d][u] \/ view'[d][u] <= bootAt[d]
<1>1. PICK sent \in SUBSET unsent[d] :
        /\ view' = [view EXCEPT ![d] = [u \in Uids |->
                      IF \E n \in sent : log[n] = u
                      THEN CHOOSE n \in sent : log[n] = u
                      ELSE view[d][u]]]
        /\ unsent' = [unsent EXCEPT ![d] = unsent[d] \ sent]
  BY DEF SendSnapshot
<1>2. UNCHANGED <<queue, batch, bootAt, log>>  BY DEF SendSnapshot, cacheVars
<1>3. unsent'[d] \subseteq unsent[d]  BY <1>1 DEF TypeOK
<1>4. \A n \in unsent[d] : n <= bootAt[d]  BY DEF OrderOf, SnapshotIsOld
<1>5. \A u \in Uids : view'[d][u] = view[d][u] \/ view'[d][u] \in unsent[d]
  <2>1. SUFFICES ASSUME NEW u \in Uids
                 PROVE  view'[d][u] = view[d][u] \/ view'[d][u] \in unsent[d]
    OBVIOUS
  <2>2. view'[d][u] = IF \E n \in sent : log[n] = u
                      THEN CHOOSE n \in sent : log[n] = u ELSE view[d][u]
    BY <1>1 DEF TypeOK
  <2>3. (\E n \in sent : log[n] = u) => (CHOOSE n \in sent : log[n] = u) \in sent
    OBVIOUS
  <2> QED  BY <2>2, <2>3
<1>6. \A u \in Uids : view'[d][u] = view[d][u] \/ view'[d][u] <= bootAt[d]
  BY <1>4, <1>5
<1>7. InOrder(d)'  BY <1>2 DEF OrderOf, InOrder, Increasing, Within, Above
<1>8. SnapshotIsOld(d)'  BY <1>2, <1>3 DEF OrderOf, SnapshotIsOld
<1>9. ShownIsOlder(d)'
  <2>1. SUFFICES ASSUME NEW u \in Uids
                 PROVE  /\ view'[d][u] <= Len(log)
                        /\ \/ view'[d][u] <= bootAt[d]
                           \/ Above(batch[d], view'[d][u]) /\ Above(queue[d], view'[d][u])
    BY <1>2 DEF ShownIsOlder
  <2>2. CASE view'[d][u] = view[d][u]  BY <2>2 DEF OrderOf, ShownIsOlder
  <2>3. CASE view'[d][u] \in unsent[d]
    <3>1. view'[d][u] \in Nat /\ bootAt[d] \in Nat /\ Len(log) \in Nat
      BY <2>3, ClientTypes
    <3>2. view'[d][u] <= bootAt[d] /\ bootAt[d] <= Len(log)
      BY <1>4, <2>3 DEF OrderOf, SnapshotIsOld
    <3> QED  BY <3>1, <3>2
  <2> QED  BY <1>5, <2>2, <2>3
<1> QED  BY <1>6, <1>7, <1>8, <1>9 DEF OrderOf

\* A batch is drained: what it takes is older than what it leaves.
LEMMA DrainOrder ==
  ASSUME TypeOK, NEW d \in Clients, OrderOf(d), Drain(d)
  PROVE  OrderOf(d)'
<1> DEFINE q == queue[d]
           k == IF Len(q) < BatchMsgs THEN Len(q) ELSE BatchMsgs
           p == SubSeq(q, 1, k)
           r == SubSeq(q, k + 1, Len(q))
<1>1. /\ batch'[d] = p /\ queue'[d] = r
      /\ UNCHANGED <<unsent, view, bootAt, log>>
  BY DEF Drain, TypeOK, cacheVars, clientVars
<1>2. q \in Seq(Nat) /\ Len(q) \in Nat /\ \A i \in 1..Len(q) : q[i] \in Nat
  BY ClientTypes
<1>3. k \in Nat /\ k <= Len(q)
  BY <1>2, SizesAssumption
<1> HIDE DEF k, q
<1>4. /\ Len(p) = k /\ \A i \in 1..k : p[i] = q[i]
      /\ Len(r) = Len(q) - k /\ \A i \in 1..(Len(q) - k) : r[i] = q[k + i]
  BY <1>2, <1>3, CutType
<1> HIDE DEF p, r
<1>5. \A i \in 1..Len(p) : i \in 1..Len(q) /\ p[i] = q[i]  BY <1>2, <1>3, <1>4
<1>6. \A i \in 1..Len(r) : k + i \in 1..Len(q) /\ r[i] = q[k + i]
  <2>1. \A i \in 1..(Len(q) - k) : k + i \in 1..Len(q)  BY <1>2, <1>3
  <2> QED  BY <1>4, <2>1
<1>7. Increasing(q) /\ Within(q, Len(log))  BY DEF OrderOf, InOrder, q
<1>8. Increasing(p) /\ Within(p, Len(log)) /\ Within(r, Len(log))
  BY <1>5, <1>6, <1>7 DEF Increasing, Within
<1>9. Increasing(r)
  <2>1. \A i, j \in 1..Len(r) : i < j => k + i < k + j  BY <1>2, <1>3, <1>4
  <2> QED  BY <1>6, <1>7, <2>1 DEF Increasing
<1>10. \A i \in 1..Len(p) : Above(r, p[i])
  <2>1. \A i \in 1..Len(p), j \in 1..Len(r) : i < k + j  BY <1>2, <1>3, <1>4
  <2> QED  BY <1>5, <1>6, <1>7, <2>1 DEF Increasing, Above
<1>11. \A m : Above(q, m) => Above(p, m) /\ Above(r, m)
  BY <1>5, <1>6 DEF Above
<1>12. InOrder(d)'  BY <1>1, <1>8, <1>9, <1>10 DEF InOrder
<1>13. SnapshotIsOld(d)'  BY <1>1 DEF OrderOf, SnapshotIsOld
<1>14. ShownIsOlder(d)'
  <2>1. \A u \in Uids : view[d][u] <= Len(log) /\ (view[d][u] <= bootAt[d] \/ Above(q, view[d][u]))
    BY DEF OrderOf, ShownIsOlder, q
  <2> QED  BY <1>1, <1>11, <2>1 DEF ShownIsOlder
<1> QED  BY <1>12, <1>13, <1>14 DEF OrderOf

\* A prefix of the batch is sent: it is newer than what came from the stream.
LEMMA BatchOrder ==
  ASSUME TypeOK, NEW d \in Clients, OrderOf(d), SendBatch(d)
  PROVE  /\ OrderOf(d)'
         /\ \A u \in Uids :
              view'[d][u] >= view[d][u] \/ view[d][u] <= bootAt[d]
<1> DEFINE b == batch[d]
<1>1. PICK k \in 1..Len(b) :
        /\ view' = [view EXCEPT ![d] = [u \in Uids |->
                      LastOf(SubSeq(b, 1, k), u, view[d][u])]]
        /\ batch' = [batch EXCEPT ![d] = SubSeq(b, k + 1, Len(b))]
  BY DEF SendBatch
<1> DEFINE p == SubSeq(b, 1, k)
           r == SubSeq(b, k + 1, Len(b))
<1>2. UNCHANGED <<queue, unsent, bootAt, log>>  BY DEF SendBatch, cacheVars
<1>3. batch'[d] = r /\ \A u \in Uids : view'[d][u] = LastOf(p, u, view[d][u])
  BY <1>1 DEF TypeOK
<1>4. b \in Seq(Nat) /\ Len(b) \in Nat /\ \A i \in 1..Len(b) : b[i] \in Nat
  BY ClientTypes
<1> HIDE DEF b
<1>5. k \in Nat /\ k <= Len(b)  BY <1>4
<1>6. /\ p \in Seq(Nat)
      /\ Len(p) = k /\ \A i \in 1..k : p[i] = b[i]
      /\ Len(r) = Len(b) - k /\ \A i \in 1..(Len(b) - k) : r[i] = b[k + i]
  BY <1>4, <1>5, CutType
<1> HIDE DEF p, r
<1>7. \A i \in 1..Len(p) : i \in 1..Len(b) /\ p[i] = b[i]  BY <1>4, <1>5, <1>6
<1>8. \A i \in 1..Len(r) : k + i \in 1..Len(b) /\ r[i] = b[k + i]
  <2>1. \A i \in 1..(Len(b) - k) : k + i \in 1..Len(b)  BY <1>4, <1>5
  <2> QED  BY <1>6, <2>1
<1>9. /\ Increasing(b) /\ Within(b, Len(log)) /\ Increasing(queue[d]) /\ Within(queue[d], Len(log))
      /\ \A i \in 1..Len(b) : Above(queue[d], b[i])
  BY DEF OrderOf, InOrder, b
<1>10. Increasing(r) /\ Within(r, Len(log)) /\ \A i \in 1..Len(r) : Above(queue[d], r[i])
  <2>1. \A i, j \in 1..Len(r) : i < j => k + i < k + j  BY <1>4, <1>5, <1>6
  <2> QED  BY <1>8, <1>9, <2>1 DEF Increasing, Within
<1>11. \A i \in 1..Len(p) : Above(r, p[i]) /\ Above(queue[d], p[i]) /\ p[i] \in Nat /\ p[i] <= Len(log)
  <2>1. \A i \in 1..Len(p), j \in 1..Len(r) : i < k + j  BY <1>4, <1>5, <1>6
  <2> QED  BY <1>4, <1>7, <1>8, <1>9, <2>1 DEF Increasing, Above, Within
<1>12. \A m : Above(b, m) => Above(p, m) /\ Above(r, m)
  BY <1>7, <1>8 DEF Above
<1>13. \A u \in Uids : view'[d][u] = view[d][u] \/ \E i \in 1..Len(p) : view'[d][u] = p[i]
  BY <1>3, <1>6, LastOfIn
<1>14. \A u \in Uids : /\ view[d][u] \in Nat /\ view[d][u] <= Len(log)
                       /\ \/ view[d][u] <= bootAt[d]
                          \/ Above(b, view[d][u]) /\ Above(queue[d], view[d][u])
  BY ClientTypes DEF OrderOf, ShownIsOlder, b
<1>15. InOrder(d)'  BY <1>2, <1>3, <1>9, <1>10 DEF InOrder
<1>16. SnapshotIsOld(d)'  BY <1>2 DEF OrderOf, SnapshotIsOld
<1>17. ShownIsOlder(d)'
  <2>1. SUFFICES ASSUME NEW u \in Uids
                 PROVE  /\ view'[d][u] <= Len(log)
                        /\ \/ view'[d][u] <= bootAt[d]
                           \/ Above(r, view'[d][u]) /\ Above(queue[d], view'[d][u])
    BY <1>2, <1>3 DEF ShownIsOlder
  <2>2. CASE view'[d][u] = view[d][u]  BY <1>12, <1>14, <2>2
  <2>3. CASE \E i \in 1..Len(p) : view'[d][u] = p[i]  BY <1>11, <2>3
  <2> QED  BY <1>13, <2>2, <2>3
<1>18. ASSUME NEW u \in Uids, ~(view[d][u] <= bootAt[d])
       PROVE  view'[d][u] >= view[d][u]
  <2>1. Above(p, view[d][u]) /\ view[d][u] \in Nat  BY <1>12, <1>14, <1>18
  <2>2. CASE view'[d][u] = view[d][u]  BY <2>1, <2>2
  <2>3. ASSUME NEW i \in 1..Len(p), view'[d][u] = p[i]
        PROVE  view'[d][u] >= view[d][u]
    <3>1. view[d][u] < p[i] /\ p[i] \in Nat  BY <1>11, <2>1 DEF Above
    <3> QED  BY <2>1, <2>3, <3>1
  <2> QED  BY <1>13, <2>2, <2>3
<1> QED  BY <1>15, <1>16, <1>17, <1>18 DEF OrderOf

\* A client that connects has an empty queue.
LEMMA ConnectOrder ==
  ASSUME TypeOK, NEW d \in Clients, OrderOf(d), Connect(d)
  PROVE  OrderOf(d)'
<1>1. queue'[d] = <<>> /\ UNCHANGED <<unsent, batch, view, bootAt, log>>
  BY DEF Connect, TypeOK, cacheVars, clientVars
<1>2. Increasing(<<>>) /\ \A m : Within(<<>>, m) /\ Above(<<>>, m)
  BY DEF Increasing, Within, Above
<1>3. InOrder(d)'  BY <1>1, <1>2 DEF OrderOf, InOrder
<1>4. SnapshotIsOld(d)'  BY <1>1 DEF OrderOf, SnapshotIsOld
<1>5. ShownIsOlder(d)'  BY <1>1, <1>2 DEF OrderOf, ShownIsOlder
<1> QED  BY <1>3, <1>4, <1>5 DEF OrderOf

\* One step of anybody: the order of client d survives, and what it shows goes
\* back only if it is not newer than its snapshot.
LEMMA OrderNext ==
  ASSUME IInv, NEW d \in Clients, OrderOf(d), [Next]_vars
  PROVE  /\ OrderOf(d)'
         /\ \A u \in Uids : \/ view'[d][u] >= view[d][u]
                            \/ view'[d][u] <= bootAt[d] \/ view[d][u] <= bootAt[d]
<1> DEFINE Forward == \A u \in Uids : \/ view'[d][u] >= view[d][u]
                                      \/ view'[d][u] <= bootAt[d] \/ view[d][u] <= bootAt[d]
           Same == /\ queue'[d] = queue[d] /\ unsent'[d] = unsent[d] /\ batch'[d] = batch[d]
                   /\ view'[d] = view[d] /\ bootAt'[d] = bootAt[d] /\ log' = log
<1> USE DEF taskVars, cacheVars, clientVars
<1>0. TypeOK /\ CacheIsLatest  BY DEF IInv
<1>a. \A u \in Uids : view[d][u] \in Nat  BY <1>0, ClientTypes
<1>b. view'[d] = view[d] => Forward  BY <1>a
<1>1. Same => OrderOf(d)' /\ Forward  BY <1>b, OrderFrame
<1>2. ASSUME NEW u \in Entities, NEW due \in BOOLEAN, Consume(u, due)
      PROVE  OrderOf(d)' /\ Forward
  <2>1. Enqueue(u) /\ UNCHANGED <<unsent, batch, view, bootAt>>  BY <1>2 DEF Consume
  <2> QED  BY <1>0, <1>b, <2>1, EnqueueOrder
<1>3. ASSUME Alert
      PROVE  OrderOf(d)' /\ Forward
  <2>1. Enqueue(NoUid) /\ UNCHANGED <<unsent, batch, view, bootAt>>  BY <1>3 DEF Alert
  <2>2. NoUid \in Entities  BY DEF Entities
  <2> QED  BY <1>0, <1>b, <2>1, <2>2, EnqueueOrder
<1>4. ASSUME NEW c \in Clients, Connect(c) \/ WorkerStart(c) \/ SendSnapshot(c) \/ Drain(c)
                               \/ SendBatch(c)
      PROVE  OrderOf(d)' /\ Forward
  <2>1. CASE c # d
    <3>1. Same
      BY <1>0, <1>4, <2>1 DEF TypeOK, Connect, WorkerStart, SendSnapshot, Drain, SendBatch
    <3> QED  BY <1>1, <3>1
  <2>2. CASE Connect(d)
    <3>1. view' = view  BY <2>2 DEF Connect
    <3> QED  BY <1>0, <1>b, <2>2, <3>1, ConnectOrder
  <2>3. CASE WorkerStart(d)
    <3>1. view' = view  BY <2>3 DEF WorkerStart
    <3> QED  BY <1>0, <1>b, <2>3, <3>1, StartOrder
  <2>4. CASE SendSnapshot(d)
    <3>1. OrderOf(d)' /\ \A u \in Uids : view'[d][u] = view[d][u] \/ view'[d][u] <= bootAt[d]
      BY <1>0, <2>4, SnapshotOrder
    <3> QED  BY <1>a, <3>1
  <2>5. CASE Drain(d)
    <3>1. view' = view  BY <2>5 DEF Drain
    <3> QED  BY <1>0, <1>b, <2>5, <3>1, DrainOrder
  <2>6. CASE SendBatch(d)
    BY <1>0, <2>6, BatchOrder
  <2> QED  BY <1>4, <2>1, <2>2, <2>3, <2>4, <2>5, <2>6
<1>5. ASSUME \/ \E ok \in BOOLEAN : StartKafka(ok) \/ StartRedis(ok)
             \/ \E t \in Loops : LoopBreak(t) \/ LoopFail(t) \/ LoopCleanup(t)
             \/ Age
             \/ \E c \in Clients : \/ PeerStalls(c) \/ PeerLeaves(c)
                                   \/ SendFail(c) \/ WorkerClose(c)
                                   \/ WorkerCancelled(c) \/ Endpoint(c)
             \/ StopKafka \/ StopRaises
             \/ Stopping \/ UNCHANGED vars
      PROVE  OrderOf(d)' /\ Forward
  <2>1. Same
    BY <1>5 DEF StartKafka, StartRedis, LoopBreak, LoopFail, LoopCleanup, LoopClose, LoopClear,
       Age, PeerStalls, PeerLeaves, SendFail, WorkerClose, WorkerCancelled, Endpoint,
       EndpointDisconnect, EndpointJoin, StopKafka, StopRaises, Stopping, StopRedis,
       StopDisconnect, StopJoin, StopEnd, vars
  <2> QED  BY <1>1, <2>1
<1> HIDE DEF Forward, Same
<1>6. OrderOf(d)' /\ Forward
  BY <1>2, <1>3, <1>4, <1>5, ZenonT(60) DEF Next, Worker
<1> QED  BY <1>6 DEF Forward

\* What a client shows of an entity goes back in time only to frames that are
\* not newer than its snapshot, however the stream and the replay interleave.
THEOREM RegressionBounded == Spec => NoRegressionAfterBootstrap
<1>1. Init => OrderInv
  <2> SUFFICES ASSUME Init, NEW c \in Clients
               PROVE  OrderOf(c)
    BY DEF OrderInv, OrderOf
  <2>1. /\ queue[c] = <<>> /\ batch[c] = <<>> /\ unsent[c] = {} /\ bootAt[c] = 0
        /\ \A u \in Uids : view[c][u] = 0
        /\ Len(log) = 0
    BY DEF Init
  <2> QED
    BY <2>1 DEF OrderOf, InOrder, SnapshotIsOld, ShownIsOlder, Increasing, Within, Above
<1>2. IInv /\ OrderInv /\ [Next]_vars => OrderInv'
  BY OrderNext DEF OrderInv, OrderOf
<1>3. IInv /\ OrderInv /\ [Next]_vars =>
        [\A c \in Clients, u \in Uids :
           view'[c][u] < view[c][u] => view'[c][u] <= bootAt[c]]_vars
  <2> SUFFICES ASSUME IInv, IInv', OrderInv, [Next]_vars, NEW c \in Clients, NEW u \in Uids,
                      view'[c][u] < view[c][u]
               PROVE  view'[c][u] <= bootAt[c]
    BY IInvNext
  <2>1. view[c][u] \in Nat /\ bootAt[c] \in Nat /\ view'[c][u] \in Nat
    BY DEF IInv, TypeOK
  <2>2. OrderOf(c)  BY DEF OrderInv, OrderOf
  <2>3. \/ view'[c][u] >= view[c][u]
        \/ view'[c][u] <= bootAt[c] \/ view[c][u] <= bootAt[c]
    BY <2>2, OrderNext
  <2> QED  BY <2>1, <2>3
<1> QED  BY <1>1, <1>2, <1>3, Invariance, PTL DEF Spec, NoRegressionAfterBootstrap

=============================================================================
