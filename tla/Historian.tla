----------------------------- MODULE Historian -----------------------------
(***************************************************************************)
(* The Kafka-to-TimescaleDB writer (backend/api/services/historian.py) and *)
(* the supervisor that restarts it (backend/api/main.py).                  *)
(*                                                                         *)
(* One task consumes every topic.  Aircraft and ship positions collect in  *)
(* a list, RF sites and SatNOGS transmitters in a dict per topic that      *)
(* keeps the newest record of each key; each buffer is written when it is  *)
(* full or its flush interval has passed, but only when a message of its   *)
(* own kind arrives.  Orbital elements are upserted unless their hash is   *)
(* the cached one; observations and GDELT events are inserted at once.     *)
(* The consumer commits its position in the background, whether or not     *)
(* what it has read is in the database.                                    *)
(*                                                                         *)
(* Every await on the database may succeed, be refused, or fail after the  *)
(* server has applied it.  The process may be killed at any point.         *)
(*                                                                         *)
(* Message i of the run is log[i]; the topics share one log.  db.pool is   *)
(* set before the task is created and cleared after it has ended           *)
(* (main.py:94, 152): the branches for a missing pool are dead and not     *)
(* modelled.                                                               *)
(***************************************************************************)
EXTENDS Integers, Sequences, FiniteSets

CONSTANTS
  Keys,       \* site ids, transmitter uuids, NORAD ids
  Hashes,     \* hashes of orbital elements
  NoHash,     \* key absent from _tle_hash_cache
  Messages,   \* the messages that may arrive, a subset of MessageType
  BatchSize,  \* BATCH_SIZE
  MaxLog,     \* bound on the messages of one run
  MaxFaults   \* bound on refused writes, crashes and restarts of one run

Tables == {"rf", "tx"}
Kinds == {"track", "tle", "event", "skip"} \cup Tables

(* ok: the database accepts the row (position, site, transmitter); the     *)
(* observation is not a failure verdict (event).  A "skip" is a binary     *)
(* orbital frame or anything the parser rejects.                           *)
MessageType == [kind : Kinds, key : Keys, hash : Hashes \cup {NoHash}, ok : BOOLEAN]

ASSUME MessagesAssumption ==
  Messages \subseteq {m \in MessageType : m.kind = "tle" => m.hash \in Hashes}
ASSUME HashAssumption == NoHash \notin Hashes
ASSUME BoundsAssumption ==
  BatchSize \in Nat \ {0} /\ MaxLog \in Nat /\ MaxFaults \in Nat

VARIABLES
  pc,        \* where the supervisor and the task it awaits stand
  cancelled, \* the lifespan shutdown has called handle.cancel()
  log,       \* what the topics contain
  committed, \* the offset the group has committed
  pos,       \* the consumer's position: messages handed to the task
  batch,     \* batch: positions not yet written
  buffer,    \* rf_batch and satnogs_tx_batch: newest message per key, or 0
  due,       \* FLUSH_INTERVAL has passed since the last flush, per buffer
  cache,     \* _tle_hash_cache
  tracks,    \* table tracks: copies of each message
  sites,     \* tables rf_sites, satnogs_transmitters: message last written
  catalogue, \* table satellites: hash of the stored elements
  events,    \* tables satnogs_observations, gdelt_events: messages stored
  signals,   \* table satnogs_signal_events: messages stored
  base,      \* history: the offset this session started from
  raised,    \* history: messages of this session whose last write raised
  cutOff,    \* history: the message cancelled before it was looked at, or 0
  doubt,     \* history: keys whose upsert may have been applied unseen
  attempts,  \* history: sessions begun, plus writes whose outcome is unknown
  faults     \* bound: refused writes, crashes and restarts so far

local == <<batch, buffer, due, cache>>
db == <<tracks, sites, catalogue, events, signals>>
marks == <<base, cutOff>>
vars == <<pc, cancelled, log, committed, pos, batch, buffer, due, cache,
          tracks, sites, catalogue, events, signals,
          base, raised, cutOff, doubt, attempts, faults>>

Index == 1..MaxLog
Elements(s) == {s[i] : i \in 1..Len(s)}

Flushing == {"tracks", "rf", "tx"}
Writing == Flushing \cup {"tle", "event", "signal"}
Final == {"finTracks", "finRf", "finTx", "finStop"}
Session == {"poll", "metrics"} \cup Writing \cup Final

TypeOK ==
  /\ pc \in {"down", "starting", "backoff", "ended"} \cup Session
  /\ cancelled \in BOOLEAN
  /\ log \in Seq(Messages) /\ Len(log) <= MaxLog
  /\ committed \in 0..Len(log)
  /\ pos \in 0..Len(log)
  /\ base \in 0..Len(log)
  /\ batch \in Seq(Index)
  /\ buffer \in [Tables -> [Keys -> 0..MaxLog]]
  /\ due \in [Flushing -> BOOLEAN]
  /\ cache \in [Keys -> Hashes \cup {NoHash}]
  /\ tracks \in [Index -> Nat]
  /\ sites \in [Tables -> [Keys -> 0..MaxLog]]
  /\ catalogue \in [Keys -> Hashes \cup {NoHash}]
  /\ events \subseteq Index
  /\ signals \subseteq Index
  /\ raised \subseteq Index
  /\ cutOff \in 0..MaxLog
  /\ doubt \subseteq Keys
  /\ attempts \in Nat
  /\ faults \in 0..MaxFaults

NoLocals ==
  /\ batch' = <<>>
  /\ buffer' = [t \in Tables |-> [k \in Keys |-> 0]]
  /\ due' = [b \in Flushing |-> FALSE]
  /\ cache' = [k \in Keys |-> NoHash]

Init ==
  /\ pc = "down" /\ cancelled = FALSE
  /\ log = <<>> /\ committed = 0 /\ pos = 0 /\ base = 0
  /\ batch = <<>>
  /\ buffer = [t \in Tables |-> [k \in Keys |-> 0]]
  /\ due = [b \in Flushing |-> FALSE]
  /\ cache = [k \in Keys |-> NoHash]
  /\ tracks = [i \in Index |-> 0]
  /\ sites = [t \in Tables |-> [k \in Keys |-> 0]]
  /\ catalogue = [k \in Keys |-> NoHash]
  /\ events = {} /\ signals = {}
  /\ raised = {} /\ cutOff = 0 /\ doubt = {} /\ attempts = 0 /\ faults = 0

Fault == faults < MaxFaults /\ faults' = faults + 1

-----------------------------------------------------------------------------
(* Starting.                                                               *)

Boot ==
  /\ pc = "down"
  /\ pc' = "starting"
  /\ UNCHANGED <<cancelled, log, committed, pos, local, db, marks, raised, doubt,
                 attempts, faults>>

(* The locals are created after consumer.start() has returned.             *)
StartOk ==
  /\ pc = "starting"
  /\ pc' = "poll" /\ pos' = committed /\ base' = committed
  /\ NoLocals
  /\ raised' = {} /\ cutOff' = 0 /\ attempts' = attempts + 1
  /\ UNCHANGED <<cancelled, log, committed, db, doubt, faults>>

(* consumer.start() raises, or is cancelled.  The finally block then reads *)
(* "batch", which has no value yet: an UnboundLocalError replaces the      *)
(* exception in flight, be it CancelledError, and the supervisor sleeps.   *)
StartRaises ==
  /\ pc = "starting"
  /\ \/ Fault /\ UNCHANGED cancelled
     \/ ~cancelled /\ cancelled' = TRUE /\ UNCHANGED faults
  /\ pc' = "backoff"
  /\ UNCHANGED <<log, committed, pos, local, db, marks, raised, doubt, attempts>>

BackoffOver ==
  /\ pc = "backoff"
  /\ pc' = "starting"
  /\ UNCHANGED <<cancelled, log, committed, pos, local, db, marks, raised,
                 doubt, attempts, faults>>

CancelBackoff ==
  /\ pc = "backoff" /\ ~cancelled
  /\ pc' = "ended" /\ cancelled' = TRUE
  /\ UNCHANGED <<log, committed, pos, local, db, marks, raised, doubt,
                 attempts, faults>>

-----------------------------------------------------------------------------
(* One message.                                                            *)

(* The next message: the one the log already has, or a new one.            *)
Arrives(m) ==
  /\ pc = "poll" /\ pos < MaxLog
  /\ IF pos < Len(log) THEN m = log[pos + 1] /\ UNCHANGED log
                       ELSE m \in Messages /\ log' = Append(log, m)
  /\ pos' = pos + 1

Buffered(t) == {k \in Keys : buffer[t][k] # 0}

(* Once a second the metrics are written to Redis before the message is    *)
(* looked at: the one await between its arrival and its handling.          *)
Metrics(m) ==
  /\ Arrives(m)
  /\ pc' = "metrics"
  /\ UNCHANGED <<cancelled, committed, local, db, marks, raised, doubt, attempts,
                 faults>>

(* A message to handle: one that arrives, or the one that has waited.      *)
Deliver(m) ==
  /\ Arrives(m) \/ (pc = "metrics" /\ m = log[pos] /\ UNCHANGED <<log, pos>>)
  /\ UNCHANGED <<cancelled, committed, db, marks, raised, doubt, attempts, faults>>

(* The interval of buffer b may have passed; once it has, only a flush     *)
(* that succeeds restarts it.                                              *)
Elapsed(b) == due' \in {due, [due EXCEPT ![b] = TRUE]}

Position(m) ==
  /\ m.kind = "track"
  /\ Deliver(m)
  /\ batch' = Append(batch, pos')
  /\ Elapsed("tracks")
  /\ pc' = IF Len(batch) + 1 >= BatchSize \/ due'["tracks"] THEN "tracks" ELSE "poll"
  /\ UNCHANGED <<buffer, cache>>

\* Slip: the first record of a key is kept, not the newest.
KeyedSlip(m) ==
  /\ m.kind \in Tables
  /\ Deliver(m)
  /\ buffer' = [buffer EXCEPT ![m.kind][m.key] = IF @ = 0 THEN pos' ELSE @]
  /\ Elapsed(m.kind)
  /\ pc' = IF Cardinality(Buffered(m.kind) \cup {m.key}) >= BatchSize \/ due'[m.kind]
             THEN m.kind ELSE "poll"
  /\ UNCHANGED <<batch, cache>>

Keyed(m) ==
  /\ m.kind \in Tables
  /\ Deliver(m)
  /\ buffer' = [buffer EXCEPT ![m.kind][m.key] = pos']
  /\ Elapsed(m.kind)
  /\ pc' = IF Cardinality(Buffered(m.kind) \cup {m.key}) >= BatchSize \/ due'[m.kind]
             THEN m.kind ELSE "poll"
  /\ UNCHANGED <<batch, cache>>

OrbitalElements(m) ==
  /\ m.kind = "tle"
  /\ Deliver(m)
  /\ pc' = IF cache[m.key] = m.hash THEN "poll" ELSE "tle"
  /\ UNCHANGED local

Event(m) ==
  /\ m.kind = "event"
  /\ Deliver(m)
  /\ pc' = "event"
  /\ UNCHANGED local

Skip(m) ==
  /\ m.kind = "skip"
  /\ Deliver(m)
  /\ pc' = "poll"
  /\ UNCHANGED local

(* aiokafka's auto-commit: the position, not what has been written.        *)
AutoCommit ==
  /\ pc \in Session /\ committed # pos
  /\ committed' = pos
  /\ UNCHANGED <<pc, cancelled, log, pos, local, db, marks, raised, doubt,
                 attempts, faults>>

-----------------------------------------------------------------------------
(* Writes.  "ok": applied and seen; "refused": rolled back; "unsure":      *)
(* applied, and the call raises.                                           *)

Outcomes == {"ok", "refused", "unsure"}

(* accepted: no row of the statement is one the database always refuses.   *)
Outcome(out, accepted) ==
  \/ /\ out = "ok" /\ accepted
     /\ UNCHANGED <<cancelled, attempts, faults>>
  \/ /\ out = "refused" /\ ~accepted
     /\ UNCHANGED <<cancelled, attempts, faults>>
  \/ /\ out = "refused" /\ accepted /\ Fault
     /\ UNCHANGED <<cancelled, attempts>>
  \/ /\ out = "unsure" /\ accepted /\ Fault
     /\ attempts' = attempts + 1 /\ UNCHANGED cancelled

(* The CancelledError of handle.cancel() is thrown at the await.           *)
Interrupted(out, accepted) ==
  /\ ~cancelled /\ cancelled' = TRUE
  /\ \/ out = "refused" /\ UNCHANGED attempts
     \/ out = "unsure" /\ accepted /\ attempts' = attempts + 1
  /\ UNCHANGED faults

BatchAccepted == \A i \in Elements(batch) : log[i].ok
KeyedRows(t) == {buffer[t][k] : k \in Buffered(t)}
BufferAccepted(t) == \A i \in KeyedRows(t) : log[i].ok

InsertTracks(out) ==
  /\ tracks' = IF out = "refused" THEN tracks
               ELSE [i \in Index |-> IF i \in Elements(batch) THEN tracks[i] + 1
                                                              ELSE tracks[i]]
  /\ raised' = IF out = "ok" THEN raised \ Elements(batch)
                             ELSE raised \cup Elements(batch)

UpsertSites(t, out) ==
  /\ sites' = IF out = "refused" THEN sites
              ELSE [sites EXCEPT ![t] = [k \in Keys |->
                      IF buffer[t][k] # 0 THEN buffer[t][k] ELSE @[k]]]
  /\ raised' = IF out = "ok" THEN raised \ KeyedRows(t)
                             ELSE raised \cup KeyedRows(t)

\* Slip: the batch is emptied before the write.
FlushTracksSlipEarly(out) ==
  /\ pc = "tracks"
  /\ Outcome(out, BatchAccepted)
  /\ tracks' = IF out = "refused" THEN tracks
               ELSE [i \in Index |-> IF i \in Elements(batch) THEN tracks[i] + 1
                                                              ELSE tracks[i]]
  /\ batch' = <<>> /\ due' = [due EXCEPT !["tracks"] = FALSE]
  /\ pc' = "poll"
  /\ UNCHANGED <<log, committed, pos, buffer, cache, sites, catalogue, events,
                 signals, marks, doubt, raised>>

\* Slip: the batch is never emptied.
FlushTracksSlipKeep(out) ==
  /\ pc = "tracks"
  /\ Outcome(out, BatchAccepted)
  /\ InsertTracks(out)
  /\ due' = [due EXCEPT !["tracks"] = FALSE]
  /\ pc' = "poll"
  /\ UNCHANGED <<log, committed, pos, batch, buffer, cache, sites, catalogue,
                 events, signals, marks, doubt>>

(* The batch is reset only after the write has returned.                   *)
FlushTracks(out) ==
  /\ pc = "tracks"
  /\ Outcome(out, BatchAccepted)
  /\ InsertTracks(out)
  /\ IF out = "ok" THEN batch' = <<>> /\ due' = [due EXCEPT !["tracks"] = FALSE]
                   ELSE UNCHANGED <<batch, due>>
  /\ pc' = "poll"
  /\ UNCHANGED <<log, committed, pos, buffer, cache, sites, catalogue, events,
                 signals, marks, doubt>>

FlushKeyed(t, out) ==
  /\ pc = t
  /\ Outcome(out, BufferAccepted(t))
  /\ UpsertSites(t, out)
  /\ IF out = "ok" THEN /\ buffer' = [buffer EXCEPT ![t] = [k \in Keys |-> 0]]
                        /\ due' = [due EXCEPT ![t] = FALSE]
                   ELSE UNCHANGED <<buffer, due>>
  /\ pc' = "poll"
  /\ UNCHANGED <<log, committed, pos, batch, cache, tracks, catalogue, events,
                 signals, marks, doubt>>

Current == log[pos]

StoreElements(out) ==
  /\ catalogue' = IF out = "refused" THEN catalogue
                  ELSE [catalogue EXCEPT ![Current.key] = Current.hash]
  /\ doubt' = CASE out = "ok" -> doubt \ {Current.key}
                [] out = "unsure" -> doubt \cup {Current.key}
                [] out = "refused" -> doubt
  /\ raised' = IF out = "ok" THEN raised ELSE raised \cup {pos}

UpsertElements(out) ==
  /\ pc = "tle"
  /\ Outcome(out, TRUE)
  /\ StoreElements(out)
  /\ cache' = IF out = "ok" THEN [cache EXCEPT ![Current.key] = Current.hash]
                            ELSE cache
  /\ pc' = "poll"
  /\ UNCHANGED <<log, committed, pos, batch, buffer, due, tracks, sites, events,
                 signals, marks>>

InsertEvent(out) ==
  /\ events' = IF out = "refused" THEN events ELSE events \cup {pos}
  /\ raised' = IF out = "ok" THEN raised ELSE raised \cup {pos}

(* A failure verdict is stored a second time, as a signal event, once the  *)
(* observation is in.                                                      *)
StoreEvent(out) ==
  /\ pc = "event"
  /\ Outcome(out, TRUE)
  /\ InsertEvent(out)
  /\ pc' = IF out = "ok" /\ ~Current.ok THEN "signal" ELSE "poll"
  /\ UNCHANGED <<log, committed, pos, local, tracks, sites, catalogue, signals,
                 marks, doubt>>

InsertSignal(out) ==
  /\ signals' = IF out = "refused" THEN signals ELSE signals \cup {pos}
  /\ raised' = IF out = "ok" THEN raised ELSE raised \cup {pos}

StoreSignal(out) ==
  /\ pc = "signal"
  /\ Outcome(out, TRUE)
  /\ InsertSignal(out)
  /\ pc' = "poll"
  /\ UNCHANGED <<log, committed, pos, local, tracks, sites, catalogue, events,
                 marks, doubt>>

-----------------------------------------------------------------------------
(* Leaving the loop: the consumer raises, or the task is cancelled.  The   *)
(* finally block writes what is buffered, then stops the consumer.         *)

(* The next buffer that is not empty, in the order of the block.           *)
AfterRf == IF Buffered("tx") # {} THEN "finTx" ELSE "finStop"
AfterTracks == IF Buffered("rf") # {} THEN "finRf" ELSE AfterRf
Cleanup == IF batch # <<>> THEN "finTracks" ELSE AfterTracks

LeavePoll ==
  /\ pc = "poll"
  /\ \/ Fault /\ UNCHANGED cancelled
     \/ ~cancelled /\ cancelled' = TRUE /\ UNCHANGED faults
  /\ pc' = Cleanup
  /\ UNCHANGED <<log, committed, pos, local, db, marks, raised, doubt, attempts>>

(* Cancelled while the metrics are written: the message is not looked at,  *)
(* and the consumer has moved past it.                                     *)
LeaveMetrics ==
  /\ pc = "metrics"
  /\ ~cancelled /\ cancelled' = TRUE
  /\ cutOff' = pos
  /\ pc' = Cleanup
  /\ UNCHANGED <<log, committed, pos, local, db, base, raised, doubt, attempts,
                 faults>>

(* Cancelled inside a write: no handler of the loop catches it.            *)
LeaveWrite(out) ==
  /\ pc \in Writing
  /\ \/ /\ pc = "tracks" /\ Interrupted(out, BatchAccepted) /\ InsertTracks(out)
        /\ UNCHANGED <<sites, catalogue, events, signals, doubt>>
     \/ \E t \in Tables :
          /\ pc = t /\ Interrupted(out, BufferAccepted(t)) /\ UpsertSites(t, out)
          /\ UNCHANGED <<tracks, catalogue, events, signals, doubt>>
     \/ /\ pc = "tle" /\ Interrupted(out, TRUE) /\ StoreElements(out)
        /\ UNCHANGED <<tracks, sites, events, signals>>
     \/ /\ pc = "event" /\ Interrupted(out, TRUE) /\ InsertEvent(out)
        /\ UNCHANGED <<tracks, sites, catalogue, signals, doubt>>
     \/ /\ pc = "signal" /\ Interrupted(out, TRUE) /\ InsertSignal(out)
        /\ UNCHANGED <<tracks, sites, catalogue, events, doubt>>
  /\ pc' = Cleanup
  /\ UNCHANGED <<log, committed, pos, local, marks>>

FinalTracks(out) ==
  /\ pc = "finTracks"
  /\ Outcome(out, BatchAccepted)
  /\ InsertTracks(out)
  /\ pc' = AfterTracks
  /\ UNCHANGED <<log, committed, pos, local, sites, catalogue, events, signals,
                 marks, doubt>>

FinalKeyed(t, out) ==
  /\ pc = (IF t = "rf" THEN "finRf" ELSE "finTx")
  /\ Outcome(out, BufferAccepted(t))
  /\ UpsertSites(t, out)
  /\ pc' = IF t = "rf" THEN AfterRf ELSE "finStop"
  /\ UNCHANGED <<log, committed, pos, local, tracks, catalogue, events, signals,
                 marks, doubt>>

\* Slip: the supervisor takes the cancellation for a crash.
FinalStopSlip ==
  /\ pc = "finStop"
  /\ committed' = pos
  /\ pc' = "backoff"
  /\ NoLocals
  /\ UNCHANGED <<cancelled, log, pos, db, marks, raised, doubt, attempts, faults>>

(* consumer.stop() commits the position, unless Kafka is unreachable.  The *)
(* exception that ended the loop then reaches the supervisor.              *)
FinalStop ==
  /\ pc = "finStop"
  /\ \/ committed' = pos /\ UNCHANGED faults
     \/ Fault /\ UNCHANGED committed
  /\ pc' = IF cancelled THEN "ended" ELSE "backoff"
  /\ NoLocals
  /\ UNCHANGED <<cancelled, log, pos, db, marks, raised, doubt, attempts>>

(* The server applies the statement whose answer nobody will see.          *)
InFlightApplied ==
  \/ /\ pc \in {"tracks", "finTracks"} /\ BatchAccepted
     /\ tracks' = [i \in Index |-> IF i \in Elements(batch) THEN tracks[i] + 1
                                                            ELSE tracks[i]]
     /\ UNCHANGED <<sites, catalogue, events, signals>>
  \/ /\ \E t \in Tables :
          /\ pc \in {t, IF t = "rf" THEN "finRf" ELSE "finTx"}
          /\ BufferAccepted(t)
          /\ sites' = [sites EXCEPT ![t] = [k \in Keys |->
                         IF buffer[t][k] # 0 THEN buffer[t][k] ELSE @[k]]]
     /\ UNCHANGED <<tracks, catalogue, events, signals>>
  \/ /\ pc = "tle" /\ catalogue' = [catalogue EXCEPT ![Current.key] = Current.hash]
     /\ UNCHANGED <<tracks, sites, events, signals>>
  \/ /\ pc = "event" /\ events' = events \cup {pos}
     /\ UNCHANGED <<tracks, sites, catalogue, signals>>
  \/ /\ pc = "signal" /\ signals' = signals \cup {pos}
     /\ UNCHANGED <<tracks, sites, catalogue, events>>

(* Cancelled while cleaning up after a crash: the rest is abandoned.       *)
CancelFinal ==
  /\ pc \in Final /\ ~cancelled
  /\ cancelled' = TRUE /\ pc' = "ended"
  /\ \/ UNCHANGED <<db, attempts>>
     \/ InFlightApplied /\ attempts' = attempts + 1
  /\ raised' = raised \cup Elements(batch) \cup KeyedRows("rf") \cup KeyedRows("tx")
  /\ NoLocals
  /\ UNCHANGED <<log, committed, pos, marks, doubt, faults>>

-----------------------------------------------------------------------------
(* The process is killed; a write in flight may have been applied.         *)
Kill ==
  /\ pc # "down" /\ Fault
  /\ pc' = "down" /\ cancelled' = FALSE
  /\ NoLocals /\ base' = pos /\ raised' = {} /\ cutOff' = 0
  /\ UNCHANGED db \/ InFlightApplied
  /\ UNCHANGED <<log, committed, pos, doubt, attempts>>

(* The lifespan has awaited the handle and the process exits.              *)
Exit ==
  /\ pc = "ended" /\ Fault
  /\ pc' = "down" /\ cancelled' = FALSE
  /\ UNCHANGED <<log, committed, pos, local, db, marks, raised, doubt, attempts>>

Handle ==
  \E m \in Messages :
    Metrics(m) \/ Position(m) \/ Keyed(m) \/ OrbitalElements(m) \/ Event(m) \/ Skip(m)

Write ==
  \E out \in Outcomes :
    \/ FlushTracks(out)
    \/ \E t \in Tables : FlushKeyed(t, out)
    \/ UpsertElements(out)
    \/ StoreEvent(out)
    \/ StoreSignal(out)

Finish ==
  \/ \E out \in Outcomes :
       FinalTracks(out) \/ \E t \in Tables : FinalKeyed(t, out)
  \/ FinalStop

Next ==
  \/ Boot \/ StartOk \/ StartRaises \/ BackoffOver \/ CancelBackoff
  \/ Handle \/ Write \/ Finish
  \/ AutoCommit
  \/ LeavePoll \/ LeaveMetrics \/ (\E out \in Outcomes : LeaveWrite(out))
  \/ CancelFinal \/ Kill \/ Exit

Spec == Init /\ [][Next]_vars

-----------------------------------------------------------------------------
(* Properties.                                                             *)

(* The messages of this session that the task has looked at.               *)
Consumed ==
  (base + 1 .. pos) \ ({cutOff} \cup IF pc = "metrics" THEN {pos} ELSE {})
SameSeries(i, j) == log[i].kind = log[j].kind /\ log[i].key = log[j].key
Newest(i) == \A j \in Consumed : j > i => ~SameSeries(i, j)

(* What message i asks for is in the database, or newer data is.           *)
Recorded(i) ==
  LET m == log[i] IN
  CASE m.kind = "track"  -> tracks[i] > 0
    [] m.kind \in Tables -> Newest(i) => sites[m.kind][m.key] >= i
    [] m.kind = "tle"    -> Newest(i) => catalogue[m.key] = m.hash \/ m.key \in doubt
    [] m.kind = "event"  -> i \in events /\ (m.ok \/ i \in signals)
    [] OTHER             -> TRUE

(* Message i is still in the task's hands.                                 *)
Pending(i) ==
  LET m == log[i] IN
  \/ i \in Elements(batch)
  \/ m.kind \in Tables /\ buffer[m.kind][m.key] >= i
  \/ i = pos /\ pc \in {"tle", "event", "signal"}

(* Nothing the task has looked at is forgotten: until the session ends     *)
(* each message is stored, buffered or being written, and afterwards       *)
(* stored, or its last write raised (and was logged).  A failed flush      *)
(* keeps its rows and the finally block writes them (historian.py:551-555, *)
(* 581-654).  The one message that a cancellation may strike before it is  *)
(* looked at, in the await on the metrics, is lost (historian.py:233).     *)
NothingForgotten ==
  pc \in Session \cup {"backoff", "ended"} =>
    \A i \in Consumed : Recorded(i) \/ Pending(i) \/ i \in raised

(* For each site and transmitter the newest record consumed is the one     *)
(* buffered, or nothing is buffered and it is the one stored: neither a    *)
(* failed flush nor a redelivery leaves an older record on top             *)
(* (historian.py:80-84, 253, 298).                                         *)
NewestRecordWins ==
  pc \in Session =>
    \A i \in Consumed : log[i].kind \in Tables /\ Newest(i) =>
      LET t == log[i].kind  k == log[i].key IN
      buffer[t][k] = i \/ (buffer[t][k] = 0 /\ sites[t][k] = i)

(* A cached hash is the hash of the stored elements, so that skipping the  *)
(* upsert is safe; the one exception is an upsert that was applied and     *)
(* raised all the same (historian.py:72-77, 497, 523).                     *)
CacheTruthful ==
  pc \in Session =>
    \A k \in Keys : cache[k] # NoHash => catalogue[k] = cache[k] \/ k \in doubt

(* No position is stored more often than once, plus once for every restart *)
(* and every write whose outcome the task did not see (historian.py:551).  *)
CopiesBounded == \A i \in Index : tracks[i] > 0 => tracks[i] <= attempts

(* A session that has been cancelled is not restarted: cancelled while it  *)
(* was running or cleaning up, the supervisor ends                         *)
(* (historian.py:573-575, main.py:67-69).                                  *)
CancelledSessionEnds ==
  [][cancelled /\ pc \in Final => pc' \in Final \cup {"ended", "down"}]_vars

(* What is stored and what is cached of a site or a satellite is the       *)
(* newest record of it.                                                    *)
StoredIsNewest == TypeOK /\ NewestRecordWins /\ CacheTruthful
=============================================================================
