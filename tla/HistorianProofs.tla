---------------------------- MODULE HistorianProofs ----------------------------
(* Theorems about Historian, for all keys, hashes, messages and bounds.       *)
EXTENDS Historian, SequenceTheorems, TLAPS

-----------------------------------------------------------------------------
(* Types.                                                                  *)

(* Where the task stands: the messages of a session lie behind its base,   *)
(* the message in hand is of the kind that is written, and no message has  *)
(* been cut off while the loop runs.                                       *)
InHand ==
  /\ base <= pos
  /\ pc \in {"metrics", "tle", "event", "signal"} => base < pos
  /\ pc = "tle" => log[pos].kind = "tle"
  /\ pc \in {"event", "signal"} => log[pos].kind = "event"
  /\ pc = "signal" => pos \in events
  /\ pc \in {"poll", "metrics"} \cup Writing => cutOff = 0

Typed == TypeOK /\ InHand

(* The tables.                                                             *)
TablesTyped ==
  /\ tracks \in [Index -> Nat]
  /\ sites \in [Tables -> [Keys -> 0..MaxLog]]
  /\ catalogue \in [Keys -> Hashes \cup {NoHash}]
  /\ events \subseteq Index /\ signals \subseteq Index

\* The elements of the batch and the rows of a buffer are numbers of messages.
LEMMA RowsAreIndices ==
  ASSUME TypeOK
  PROVE  /\ Elements(batch) \subseteq Index
         /\ \A t \in Tables : KeyedRows(t) \subseteq Index
<1>1. Elements(batch) \subseteq Index  BY DEF TypeOK, Elements
<1>2. ASSUME NEW t \in Tables
      PROVE  KeyedRows(t) \subseteq Index
  BY BoundsAssumption DEF TypeOK, KeyedRows, Buffered, Index
<1> QED  BY <1>1, <1>2

\* The outcome of a write keeps the counters within their bounds.
LEMMA OutcomeType ==
  ASSUME TypeOK, NEW out \in Outcomes,
         \/ Outcome(out, BatchAccepted)
         \/ \E t \in Tables : Outcome(out, BufferAccepted(t))
         \/ Outcome(out, TRUE)
  PROVE  /\ cancelled' \in BOOLEAN
         /\ attempts' \in Nat /\ attempts <= attempts'
         /\ out = "unsure" => attempts' = attempts + 1
         /\ faults' \in 0..MaxFaults
  BY BoundsAssumption DEF TypeOK, Outcome, Fault

\* So does the outcome of a write that a cancellation has struck.
LEMMA InterruptedType ==
  ASSUME TypeOK, NEW out \in Outcomes,
         \/ Interrupted(out, BatchAccepted)
         \/ \E t \in Tables : Interrupted(out, BufferAccepted(t))
         \/ Interrupted(out, TRUE)
  PROVE  /\ out # "ok"
         /\ cancelled' \in BOOLEAN
         /\ attempts' \in Nat /\ attempts <= attempts'
         /\ out = "unsure" => attempts' = attempts + 1
         /\ faults' \in 0..MaxFaults
<1>1. /\ out # "ok" /\ cancelled' = TRUE /\ faults' = faults
      /\ attempts' = attempts \/ attempts' = attempts + 1
      /\ out = "unsure" => attempts' = attempts + 1
  BY DEF Interrupted
<1> QED  BY <1>1 DEF TypeOK

\* Each write keeps the types of the table it writes.
LEMMA InsertTracksType ==
  ASSUME TypeOK, NEW out, InsertTracks(out)
  PROVE  tracks' \in [Index -> Nat] /\ raised' \subseteq Index
  BY RowsAreIndices DEF TypeOK, InsertTracks

LEMMA UpsertSitesType ==
  ASSUME TypeOK, NEW t \in Tables, NEW out, UpsertSites(t, out)
  PROVE  sites' \in [Tables -> [Keys -> 0..MaxLog]] /\ raised' \subseteq Index
<1>1. [k \in Keys |-> IF buffer[t][k] # 0 THEN buffer[t][k] ELSE sites[t][k]]
        \in [Keys -> 0..MaxLog]
  BY DEF TypeOK
<1>2. sites' \in [Tables -> [Keys -> 0..MaxLog]]
  BY <1>1 DEF TypeOK, UpsertSites
<1>3. raised' \subseteq Index
  BY RowsAreIndices DEF TypeOK, UpsertSites
<1> QED  BY <1>2, <1>3

\* The message at the position is one of the log.
LEMMA CurrentType ==
  ASSUME Typed, pc \in {"metrics", "tle", "event", "signal"}
  PROVE  /\ pos \in 1..Len(log) /\ pos \in Index
         /\ log[pos] \in Messages
         /\ Current \in MessageType
         /\ pc = "tle" => Current.hash \in Hashes
<1>1. pos \in 1..Len(log) /\ pos \in Index
  BY BoundsAssumption DEF Typed, TypeOK, InHand, Index
<1>2. log[pos] \in Messages  BY <1>1, ElementOfSeq DEF Typed, TypeOK
<1> QED  BY <1>1, <1>2, MessagesAssumption DEF Typed, InHand, Current

LEMMA StoreElementsType ==
  ASSUME Typed, pc = "tle", NEW out \in Outcomes, StoreElements(out)
  PROVE  /\ catalogue' \in [Keys -> Hashes \cup {NoHash}]
         /\ doubt' \subseteq Keys
         /\ raised' \subseteq Index
<1>1. Current.key \in Keys /\ Current.hash \in Hashes /\ pos \in Index
  BY CurrentType DEF MessageType
<1> QED  BY <1>1 DEF Typed, TypeOK, StoreElements, Outcomes

LEMMA InsertEventType ==
  ASSUME Typed, pc = "event", NEW out, InsertEvent(out)
  PROVE  events' \subseteq Index /\ raised' \subseteq Index
  BY CurrentType DEF Typed, TypeOK, InsertEvent

LEMMA InsertSignalType ==
  ASSUME Typed, pc = "signal", NEW out, InsertSignal(out)
  PROVE  signals' \subseteq Index /\ raised' \subseteq Index
  BY CurrentType DEF Typed, TypeOK, InsertSignal

\* What a message that arrives does to the log and the position.
LEMMA ArrivesType ==
  ASSUME Typed, NEW m \in Messages, Arrives(m)
  PROVE  /\ log' \in Seq(Messages) /\ Len(log') <= MaxLog
         /\ Len(log) <= Len(log')
         /\ \A i \in 1..Len(log) : log'[i] = log[i]
         /\ pos' = pos + 1 /\ pos' \in 1..Len(log') /\ log'[pos'] = m
         /\ pos' \in Index
<1>1. pos \in 0..Len(log) /\ Len(log) \in Nat /\ log \in Seq(Messages)
      /\ Len(log) <= MaxLog /\ MaxLog \in Nat
  BY BoundsAssumption, LenProperties DEF Typed, TypeOK
<1>2. CASE pos < Len(log)
  BY <1>1, <1>2 DEF Arrives, Index
<1>3. CASE ~(pos < Len(log))
  <2>1. log' = Append(log, m) /\ pos' = pos + 1 /\ pos = Len(log) /\ pos < MaxLog
    BY <1>1, <1>3 DEF Arrives
  <2>2. /\ log' \in Seq(Messages) /\ Len(log') = Len(log) + 1
        /\ \A i \in 1..Len(log) : log'[i] = log[i]
        /\ log'[Len(log) + 1] = m
    BY <1>1, <2>1, AppendProperties
  <2> QED  BY <1>1, <2>1, <2>2 DEF Index
<1> QED  BY <1>2, <1>3

\* The same of a message that is handled, whether it arrives or has waited.
LEMMA DeliverType ==
  ASSUME Typed, NEW m \in Messages, Deliver(m)
  PROVE  /\ log' \in Seq(Messages) /\ Len(log') <= MaxLog
         /\ Len(log) <= Len(log')
         /\ \A i \in 1..Len(log) : log'[i] = log[i]
         /\ pos' \in 1..Len(log') /\ log'[pos'] = m
         /\ pos' \in Index /\ pos <= pos' /\ base < pos'
         /\ pos' \in {pos, pos + 1}
         /\ cutOff = 0
         /\ UNCHANGED <<cancelled, committed, db, marks, raised, doubt, attempts,
                        faults>>
<1>1. CASE Arrives(m)
  BY <1>1, ArrivesType DEF Deliver, Arrives, Typed, TypeOK, InHand
<1>2. CASE pc = "metrics" /\ m = log[pos] /\ UNCHANGED <<log, pos>>
  <2>1. pos \in 1..Len(log) /\ pos \in Index /\ base < pos /\ cutOff = 0
    BY <1>2, CurrentType DEF Typed, InHand
  <2> QED  BY <1>2, <2>1 DEF Deliver, Typed, TypeOK
<1> QED  BY <1>1, <1>2 DEF Deliver

\* Handling a message keeps the types.
LEMMA TypedHandle ==
  ASSUME Typed, NEW m \in Messages,
         \/ Metrics(m) \/ Position(m) \/ Keyed(m)
         \/ OrbitalElements(m) \/ Event(m) \/ Skip(m)
  PROVE  Typed'
<1> USE DEF local, db, marks
<1>1. CASE Metrics(m)
  <2>1. Arrives(m)  BY <1>1 DEF Metrics
  <2>2. pc = "poll"  BY <2>1 DEF Arrives
  <2>3. TypeOK'
    BY <1>1, <2>1, ArrivesType DEF Typed, TypeOK, Metrics, Session
  <2>4. InHand'
    BY <1>1, <2>1, <2>2, ArrivesType
       DEF Typed, TypeOK, InHand, Metrics, Writing, Flushing
  <2> QED  BY <2>3, <2>4 DEF Typed
<1>2. ASSUME Deliver(m),
             pc' \in {"poll"} \cup Flushing \cup {"tle", "event"},
             pc' = "tle" => m.kind = "tle",
             pc' = "event" => m.kind = "event",
             batch' \in Seq(Index),
             buffer' \in [Tables -> [Keys -> 0..MaxLog]],
             due' \in [Flushing -> BOOLEAN],
             UNCHANGED cache
      PROVE  Typed'
  <2>1. TypeOK'
    <3>1. /\ pos' \in 0..Len(log') /\ committed' \in 0..Len(log')
          /\ base' \in 0..Len(log') /\ log' \in Seq(Messages) /\ Len(log') <= MaxLog
      <4>1. /\ Len(log) \in Nat /\ Len(log') \in Nat /\ Len(log) <= Len(log')
            /\ pos' \in 1..Len(log') /\ log' \in Seq(Messages) /\ Len(log') <= MaxLog
        BY <1>2, DeliverType, LenProperties DEF Typed, TypeOK
      <4> QED  BY <1>2, <4>1, DeliverType DEF Typed, TypeOK
    <3>2. pc' \in Session  BY <1>2 DEF Session, Writing
    <3>3. UNCHANGED <<cancelled, tracks, sites, catalogue, events, signals, raised,
                      cutOff, doubt, attempts, faults, cache>>
      BY <1>2, DeliverType
    <3> QED  BY <1>2, <3>1, <3>2, <3>3 DEF Typed, TypeOK
  <2>2. InHand'
    BY <1>2, DeliverType DEF Typed, TypeOK, InHand, Writing, Flushing
  <2> QED  BY <2>1, <2>2 DEF Typed
<1>3. ASSUME NEW b \in Flushing, Elapsed(b)
      PROVE  due' \in [Flushing -> BOOLEAN]
  BY <1>3 DEF Elapsed, Typed, TypeOK
<1>4. CASE Position(m)
  <2>1. Deliver(m) /\ pc' \in {"poll", "tracks"} /\ UNCHANGED <<buffer, cache>>
    BY <1>4 DEF Position
  <2>2. batch' \in Seq(Index)
    BY <1>4, <2>1, DeliverType, AppendProperties DEF Position, Typed, TypeOK
  <2>3. due' \in [Flushing -> BOOLEAN]
    BY <1>3, <1>4 DEF Position, Flushing
  <2> QED  BY <1>2, <2>1, <2>2, <2>3 DEF Typed, TypeOK, Flushing
<1>5. CASE Keyed(m)
  <2>1. /\ Deliver(m) /\ m.kind \in Tables /\ pc' \in {"poll", m.kind}
        /\ UNCHANGED <<batch, cache>>
    BY <1>5 DEF Keyed
  <2>2. buffer' \in [Tables -> [Keys -> 0..MaxLog]]
    <3>1. pos' \in 0..MaxLog  BY <2>1, DeliverType DEF Index
    <3> QED  BY <1>5, <3>1 DEF Keyed, Typed, TypeOK
  <2>3. due' \in [Flushing -> BOOLEAN]
    BY <1>3, <1>5, <2>1 DEF Keyed, Flushing, Tables
  <2> QED  BY <1>2, <2>1, <2>2, <2>3 DEF Typed, TypeOK, Flushing, Tables
<1>6. CASE OrbitalElements(m) \/ Event(m) \/ Skip(m)
  <2>1. /\ Deliver(m) /\ pc' \in {"poll", "tle", "event"} /\ UNCHANGED local
        /\ pc' = "tle" => m.kind = "tle"
        /\ pc' = "event" => m.kind = "event"
    BY <1>6 DEF OrbitalElements, Event, Skip
  <2> QED  BY <1>2, <2>1 DEF Typed, TypeOK
<1> QED  BY <1>1, <1>4, <1>5, <1>6

\* Writing keeps the types.
LEMMA TypedWrite ==
  ASSUME Typed, NEW out \in Outcomes,
         \/ FlushTracks(out)
         \/ \E t \in Tables : FlushKeyed(t, out)
         \/ UpsertElements(out) \/ StoreEvent(out) \/ StoreSignal(out)
  PROVE  Typed'
<1> USE DEF local, db, marks
<1>1. CASE FlushTracks(out)
  <2>0. cancelled' \in BOOLEAN /\ attempts' \in Nat /\ faults' \in 0..MaxFaults
    BY <1>1, OutcomeType DEF Typed, FlushTracks
  <2>3. tracks' \in [Index -> Nat] /\ raised' \subseteq Index
    BY <1>1, InsertTracksType DEF Typed, FlushTracks
  <2>4. batch' \in Seq(Index) /\ due' \in [Flushing -> BOOLEAN]
    <3>1. CASE out = "ok"
      <4>1. batch' = <<>> /\ due' = [due EXCEPT !["tracks"] = FALSE]
        BY <1>1, <3>1 DEF FlushTracks
      <4>2. due' \in [Flushing -> BOOLEAN]
        BY <4>1 DEF Typed, TypeOK
      <4> QED  BY <4>1, <4>2
    <3>2. CASE out # "ok"
      BY <1>1, <3>2 DEF Typed, TypeOK, FlushTracks
    <3> QED  BY <3>1, <3>2
  <2>1. TypeOK'
    BY <1>1, <2>0, <2>3, <2>4 DEF Typed, TypeOK, FlushTracks, Session
  <2>2. InHand'
    BY <1>1 DEF Typed, InHand, FlushTracks, Writing, Flushing
  <2> QED  BY <2>1, <2>2 DEF Typed
<1>2. ASSUME NEW t \in Tables, FlushKeyed(t, out)
      PROVE  Typed'
  <2>1. cancelled' \in BOOLEAN /\ attempts' \in Nat /\ faults' \in 0..MaxFaults
    BY <1>2, OutcomeType DEF Typed, FlushKeyed
  <2>2. sites' \in [Tables -> [Keys -> 0..MaxLog]] /\ raised' \subseteq Index
    BY <1>2, UpsertSitesType DEF Typed, FlushKeyed
  <2>3. /\ buffer' \in [Tables -> [Keys -> 0..MaxLog]]
        /\ due' \in [Flushing -> BOOLEAN]
    <3>1. CASE out = "ok"
      <4>1. /\ buffer' = [buffer EXCEPT ![t] = [k \in Keys |-> 0]]
            /\ due' = [due EXCEPT ![t] = FALSE]
        BY <1>2, <3>1 DEF FlushKeyed
      <4>2. due' \in [Flushing -> BOOLEAN]
        BY <4>1 DEF Typed, TypeOK
      <4>3. buffer' \in [Tables -> [Keys -> 0..MaxLog]]
        BY <4>1, BoundsAssumption DEF Typed, TypeOK
      <4> QED  BY <4>2, <4>3
    <3>2. CASE out # "ok"
      BY <1>2, <3>2 DEF Typed, TypeOK, FlushKeyed
    <3> QED  BY <3>1, <3>2
  <2>4. TypeOK'
    BY <1>2, <2>1, <2>2, <2>3 DEF Typed, TypeOK, FlushKeyed, Session
  <2>5. InHand'
    BY <1>2 DEF Typed, InHand, FlushKeyed, Writing, Flushing, Tables
  <2> QED  BY <2>4, <2>5 DEF Typed
<1>3. CASE UpsertElements(out)
  <2>0. cancelled' \in BOOLEAN /\ attempts' \in Nat /\ faults' \in 0..MaxFaults
    BY <1>3, OutcomeType DEF Typed, UpsertElements
  <2>4. /\ catalogue' \in [Keys -> Hashes \cup {NoHash}]
        /\ doubt' \subseteq Keys /\ raised' \subseteq Index
    BY <1>3, StoreElementsType DEF UpsertElements
  <2>1. cache' \in [Keys -> Hashes \cup {NoHash}]
    <3>1. Current.key \in Keys /\ Current.hash \in Hashes
      BY <1>3, CurrentType DEF UpsertElements, MessageType
    <3> QED  BY <1>3, <3>1 DEF Typed, TypeOK, UpsertElements
  <2>2. TypeOK'
    BY <1>3, <2>0, <2>1, <2>4
       DEF Typed, TypeOK, UpsertElements, Session
  <2>3. InHand'
    BY <1>3 DEF Typed, InHand, UpsertElements, Writing, Flushing
  <2> QED  BY <2>2, <2>3 DEF Typed
<1>4. CASE StoreEvent(out)
  <2>0. cancelled' \in BOOLEAN /\ attempts' \in Nat /\ faults' \in 0..MaxFaults
    BY <1>4, OutcomeType DEF Typed, StoreEvent
  <2>4. events' \subseteq Index /\ raised' \subseteq Index
    BY <1>4, InsertEventType DEF StoreEvent
  <2>1. TypeOK'
    BY <1>4, <2>0, <2>4
       DEF Typed, TypeOK, StoreEvent, Session, Writing
  <2>2. pc = "event" /\ pc' \in {"signal", "poll"}
        /\ (pc' = "signal" => pos \in events')
    BY <1>4 DEF StoreEvent, InsertEvent
  <2>3. InHand'
    BY <1>4, <2>2 DEF Typed, InHand, StoreEvent, Writing, Flushing
  <2> QED  BY <2>1, <2>3 DEF Typed
<1>5. CASE StoreSignal(out)
  <2>0. cancelled' \in BOOLEAN /\ attempts' \in Nat /\ faults' \in 0..MaxFaults
    BY <1>5, OutcomeType DEF Typed, StoreSignal
  <2>4. signals' \subseteq Index /\ raised' \subseteq Index
    BY <1>5, InsertSignalType DEF StoreSignal
  <2>1. TypeOK'
    BY <1>5, <2>0, <2>4
       DEF Typed, TypeOK, StoreSignal, Session
  <2>2. InHand'
    BY <1>5 DEF Typed, InHand, StoreSignal, Writing, Flushing
  <2> QED  BY <2>1, <2>2 DEF Typed
<1> QED  BY <1>1, <1>2, <1>3, <1>4, <1>5

\* The clean-up begins at one of its steps, and goes on to later ones.
LEMMA CleanupType ==
  /\ AfterRf \in {"finTx", "finStop"}
  /\ AfterTracks \in {"finRf", "finTx", "finStop"}
  /\ Cleanup \in Final
  /\ Final \cap ({"poll", "metrics"} \cup Writing) = {}
  /\ Final \subseteq Session
  BY DEF Cleanup, AfterTracks, AfterRf, Final, Session, Writing, Flushing

\* Empty locals have their types.
LEMMA NoLocalsType ==
  ASSUME NoLocals
  PROVE  /\ batch' \in Seq(Index)
         /\ buffer' \in [Tables -> [Keys -> 0..MaxLog]]
         /\ due' \in [Flushing -> BOOLEAN]
         /\ cache' \in [Keys -> Hashes \cup {NoHash}]
  BY BoundsAssumption DEF NoLocals

\* Leaving the loop keeps the types.
LEMMA TypedLeave ==
  ASSUME Typed, LeavePoll \/ LeaveMetrics \/ (\E out \in Outcomes : LeaveWrite(out))
  PROVE  Typed'
<1> USE DEF local, db, marks
<1>1. CASE LeavePoll
  <2>1. pc' \in Final /\ cancelled' \in BOOLEAN /\ faults' \in 0..MaxFaults
    <3>1. pc' \in Final  BY <1>1, CleanupType DEF LeavePoll
    <3>2. cancelled' \in BOOLEAN  BY <1>1 DEF LeavePoll, Typed, TypeOK
    <3>3. faults' \in 0..MaxFaults
      BY <1>1, BoundsAssumption DEF LeavePoll, Fault, Typed, TypeOK
    <3> QED  BY <3>1, <3>2, <3>3
  <2>2. TypeOK'  BY <1>1, <2>1, CleanupType DEF LeavePoll, Typed, TypeOK
  <2>3. InHand'
    BY <1>1, <2>1, CleanupType DEF LeavePoll, Typed, InHand, Final
  <2> QED  BY <2>2, <2>3 DEF Typed
<1>2. CASE LeaveMetrics
  <2>1. pc' \in Final /\ cutOff' = pos /\ pos \in 0..MaxLog
    BY <1>2, CleanupType, BoundsAssumption, LenProperties
       DEF LeaveMetrics, Typed, TypeOK
  <2>2. TypeOK'  BY <1>2, <2>1, CleanupType DEF LeaveMetrics, Typed, TypeOK
  <2>3. InHand'
    BY <1>2, <2>1, CleanupType DEF LeaveMetrics, Typed, InHand, Final
  <2> QED  BY <2>2, <2>3 DEF Typed
<1>3. ASSUME NEW out \in Outcomes, LeaveWrite(out)
      PROVE  Typed'
  <2>1. pc' \in Final /\ UNCHANGED <<log, committed, pos, local, marks>>
    BY <1>3, CleanupType DEF LeaveWrite
  <2>2. cancelled' \in BOOLEAN /\ attempts' \in Nat /\ faults' \in 0..MaxFaults
    BY <1>3, InterruptedType DEF LeaveWrite, Typed
  <2>3. TablesTyped' /\ doubt' \subseteq Keys /\ raised' \subseteq Index
    <3> USE DEF Typed, TypeOK, TablesTyped
    <3>1. CASE InsertTracks(out) /\ UNCHANGED <<sites, catalogue, events, signals, doubt>>
      BY <3>1, InsertTracksType
    <3>2. ASSUME NEW t \in Tables, UpsertSites(t, out),
                 UNCHANGED <<tracks, catalogue, events, signals, doubt>>
          PROVE  TablesTyped' /\ doubt' \subseteq Keys /\ raised' \subseteq Index
      BY <3>2, UpsertSitesType
    <3>3. CASE pc = "tle" /\ StoreElements(out) /\ UNCHANGED <<tracks, sites, events, signals>>
      BY <3>3, StoreElementsType
    <3>4. CASE pc = "event" /\ InsertEvent(out)
               /\ UNCHANGED <<tracks, sites, catalogue, signals, doubt>>
      BY <3>4, InsertEventType
    <3>5. CASE pc = "signal" /\ InsertSignal(out)
               /\ UNCHANGED <<tracks, sites, catalogue, events, doubt>>
      BY <3>5, InsertSignalType
    <3> QED  BY <1>3, <3>1, <3>2, <3>3, <3>4, <3>5 DEF LeaveWrite
  <2>4. TypeOK'  BY <2>1, <2>2, <2>3, CleanupType DEF Typed, TypeOK, TablesTyped
  <2>5. InHand'
    BY <2>1, CleanupType DEF Typed, InHand, Final
  <2> QED  BY <2>4, <2>5 DEF Typed
<1> QED  BY <1>1, <1>2, <1>3

\* Cleaning up keeps the types.
LEMMA TypedFinish ==
  ASSUME Typed, Finish
  PROVE  Typed'
<1> USE DEF local, db, marks
<1>1. ASSUME NEW out \in Outcomes, FinalTracks(out)
      PROVE  Typed'
  <2>1. pc' \in Final  BY <1>1, CleanupType DEF FinalTracks, Final
  <2>2. cancelled' \in BOOLEAN /\ attempts' \in Nat /\ faults' \in 0..MaxFaults
    BY <1>1, OutcomeType DEF Typed, FinalTracks
  <2>3. tracks' \in [Index -> Nat] /\ raised' \subseteq Index
    BY <1>1, InsertTracksType DEF Typed, FinalTracks
  <2>4. TypeOK'
    BY <1>1, <2>1, <2>2, <2>3, CleanupType DEF Typed, TypeOK, FinalTracks
  <2>5. InHand'
    BY <1>1, <2>1, CleanupType DEF Typed, InHand, FinalTracks, Final
  <2> QED  BY <2>4, <2>5 DEF Typed
<1>2. ASSUME NEW out \in Outcomes, NEW t \in Tables, FinalKeyed(t, out)
      PROVE  Typed'
  <2>1. pc' \in Final  BY <1>2, CleanupType DEF FinalKeyed, Final
  <2>2. cancelled' \in BOOLEAN /\ attempts' \in Nat /\ faults' \in 0..MaxFaults
    BY <1>2, OutcomeType DEF Typed, FinalKeyed
  <2>3. sites' \in [Tables -> [Keys -> 0..MaxLog]] /\ raised' \subseteq Index
    BY <1>2, UpsertSitesType DEF Typed, FinalKeyed
  <2>4. TypeOK'
    BY <1>2, <2>1, <2>2, <2>3, CleanupType DEF Typed, TypeOK, FinalKeyed
  <2>5. InHand'
    BY <1>2, <2>1, CleanupType DEF Typed, InHand, FinalKeyed, Final
  <2> QED  BY <2>4, <2>5 DEF Typed
<1>3. CASE FinalStop
  <2>1. /\ pc' \in {"ended", "backoff"}
        /\ committed' \in 0..Len(log) /\ faults' \in 0..MaxFaults
    BY <1>3, BoundsAssumption DEF FinalStop, Fault, Typed, TypeOK
  <2>2. TypeOK'
    BY <1>3, <2>1, NoLocalsType DEF Typed, TypeOK, FinalStop
  <2>3. InHand'
    BY <1>3, <2>1 DEF Typed, InHand, FinalStop, Writing, Flushing
  <2> QED  BY <2>2, <2>3 DEF Typed
<1> QED  BY <1>1, <1>2, <1>3 DEF Finish

\* A write that is applied while nobody waits for it keeps the types.
LEMMA InFlightType ==
  ASSUME Typed, InFlightApplied
  PROVE  TablesTyped'
<1> USE DEF Typed, TypeOK, TablesTyped
<1>1. CASE /\ tracks' = [i \in Index |-> IF i \in Elements(batch) THEN tracks[i] + 1
                                                                  ELSE tracks[i]]
           /\ UNCHANGED <<sites, catalogue, events, signals>>
  BY <1>1
<1>2. ASSUME NEW t \in Tables,
             sites' = [sites EXCEPT ![t] = [k \in Keys |->
                         IF buffer[t][k] # 0 THEN buffer[t][k] ELSE @[k]]],
             UNCHANGED <<tracks, catalogue, events, signals>>
      PROVE  TablesTyped'
  <2>1. [k \in Keys |-> IF buffer[t][k] # 0 THEN buffer[t][k] ELSE sites[t][k]]
          \in [Keys -> 0..MaxLog]
    OBVIOUS
  <2> QED  BY <1>2, <2>1
<1>3. CASE /\ pc = "tle" /\ catalogue' = [catalogue EXCEPT ![Current.key] = Current.hash]
           /\ UNCHANGED <<tracks, sites, events, signals>>
  <2>1. Current.key \in Keys /\ Current.hash \in Hashes
    BY <1>3, CurrentType DEF MessageType
  <2> QED  BY <1>3, <2>1
<1>4. CASE \/ /\ pc = "event" /\ events' = events \cup {pos}
              /\ UNCHANGED <<tracks, sites, catalogue, signals>>
           \/ /\ pc = "signal" /\ signals' = signals \cup {pos}
              /\ UNCHANGED <<tracks, sites, catalogue, events>>
  BY <1>4, CurrentType
<1> QED  BY <1>1, <1>2, <1>3, <1>4 DEF InFlightApplied

\* The initial state has the types.
LEMMA TypedInit == Init => Typed
<1> SUFFICES ASSUME Init
             PROVE  Typed
  OBVIOUS
<1>1. TypeOK
  <2>1. /\ log \in Seq(Messages) /\ Len(log) = 0 /\ batch \in Seq(Index)
    BY DEF Init
  <2>2. /\ buffer \in [Tables -> [Keys -> 0..MaxLog]]
        /\ sites \in [Tables -> [Keys -> 0..MaxLog]]
        /\ tracks \in [Index -> Nat]
        /\ due \in [Flushing -> BOOLEAN]
    BY BoundsAssumption DEF Init
  <2>3. /\ committed \in 0..Len(log) /\ pos \in 0..Len(log) /\ base \in 0..Len(log)
        /\ cutOff \in 0..MaxLog /\ attempts \in Nat /\ faults \in 0..MaxFaults
    BY <2>1, BoundsAssumption DEF Init
  <2>4. /\ pc = "down" /\ cancelled \in BOOLEAN
        /\ cache \in [Keys -> Hashes \cup {NoHash}]
        /\ catalogue \in [Keys -> Hashes \cup {NoHash}]
        /\ events = {} /\ signals = {} /\ raised = {} /\ doubt = {}
    BY DEF Init
  <2> QED  BY <2>1, <2>2, <2>3, <2>4, BoundsAssumption DEF TypeOK
<1>2. InHand  BY DEF Init, InHand, Writing, Flushing
<1> QED  BY <1>1, <1>2 DEF Typed

\* Starting, ending and being killed keep the types.
LEMMA TypedRest ==
  ASSUME Typed,
         \/ Boot \/ StartOk \/ StartRaises \/ BackoffOver \/ CancelBackoff
         \/ AutoCommit \/ CancelFinal \/ Kill \/ Exit
  PROVE  Typed'
<1> USE DEF local, db, marks
<1>1. CASE Boot \/ BackoffOver \/ CancelBackoff
  <2>1. TypeOK'  BY <1>1 DEF Typed, TypeOK, Boot, BackoffOver, CancelBackoff
  <2>2. InHand'
    BY <1>1 DEF Typed, InHand, Boot, BackoffOver, CancelBackoff, Writing, Flushing
  <2> QED  BY <2>1, <2>2 DEF Typed
<1>2. CASE StartOk
  <2>1. TypeOK'
    BY <1>2, NoLocalsType, BoundsAssumption DEF Typed, TypeOK, StartOk, Session
  <2>2. InHand'
    BY <1>2 DEF Typed, TypeOK, InHand, StartOk, Writing, Flushing
  <2> QED  BY <2>1, <2>2 DEF Typed
<1>3. CASE StartRaises
  <2>1. cancelled' \in BOOLEAN  BY <1>3 DEF StartRaises, Typed, TypeOK
  <2>2. faults' \in 0..MaxFaults
    BY <1>3, BoundsAssumption DEF StartRaises, Fault, Typed, TypeOK
  <2>3. TypeOK'  BY <1>3, <2>1, <2>2 DEF Typed, TypeOK, StartRaises
  <2>4. InHand'
    BY <1>3 DEF Typed, InHand, StartRaises, Writing, Flushing
  <2> QED  BY <2>3, <2>4 DEF Typed
<1>4. CASE AutoCommit
  <2>1. TypeOK'  BY <1>4 DEF Typed, TypeOK, AutoCommit
  <2>2. InHand'  BY <1>4 DEF Typed, InHand, AutoCommit
  <2> QED  BY <2>1, <2>2 DEF Typed
<1>5. CASE CancelFinal
  <2>1. attempts' \in Nat /\ TablesTyped'
    <3>1. CASE InFlightApplied /\ attempts' = attempts + 1
      BY <3>1, InFlightType DEF Typed, TypeOK
    <3>2. CASE UNCHANGED <<db, attempts>>
      BY <3>2 DEF Typed, TypeOK, TablesTyped
    <3> QED  BY <1>5, <3>1, <3>2 DEF CancelFinal
  <2>2. raised' \subseteq Index
    BY <1>5, RowsAreIndices DEF CancelFinal, Typed, TypeOK, Tables
  <2>3. TypeOK'
    BY <1>5, <2>1, <2>2, NoLocalsType DEF Typed, TypeOK, CancelFinal, TablesTyped
  <2>4. InHand'
    BY <1>5 DEF Typed, InHand, CancelFinal, Writing, Flushing
  <2> QED  BY <2>3, <2>4 DEF Typed
<1>6. CASE Kill
  <2>1. TablesTyped'
    BY <1>6, InFlightType DEF Kill, Typed, TypeOK, TablesTyped
  <2>2. faults' \in 0..MaxFaults
    BY <1>6, BoundsAssumption DEF Kill, Fault, Typed, TypeOK
  <2>3. TypeOK'
    <3>1. /\ pc' = "down" /\ cancelled' = FALSE /\ NoLocals
          /\ base' = pos /\ raised' = {} /\ cutOff' = 0
          /\ UNCHANGED <<log, committed, pos, doubt, attempts>>
      BY <1>6 DEF Kill
    <3>2. base' \in 0..Len(log') /\ cutOff' \in 0..MaxLog
      BY <3>1, BoundsAssumption DEF Typed, TypeOK
    <3> QED
      BY <2>1, <2>2, <3>1, <3>2, NoLocalsType DEF Typed, TypeOK, TablesTyped
  <2>4. InHand'
    BY <1>6 DEF Typed, TypeOK, InHand, Kill, Writing, Flushing
  <2> QED  BY <2>3, <2>4 DEF Typed
<1>7. CASE Exit
  <2>1. faults' \in 0..MaxFaults
    BY <1>7, BoundsAssumption DEF Exit, Fault, Typed, TypeOK
  <2>2. TypeOK'  BY <1>7, <2>1 DEF Typed, TypeOK, Exit
  <2>3. InHand'  BY <1>7 DEF Typed, InHand, Exit, Writing, Flushing
  <2> QED  BY <2>2, <2>3 DEF Typed
<1> QED  BY <1>1, <1>2, <1>3, <1>4, <1>5, <1>6, <1>7

\* Every step keeps the types.
LEMMA TypedNext ==
  ASSUME Typed, [Next]_vars
  PROVE  Typed'
<1>1. CASE Handle  BY <1>1, TypedHandle DEF Handle
<1>2. CASE Write  BY <1>2, TypedWrite DEF Write
<1>3. CASE Finish  BY <1>3, TypedFinish
<1>4. CASE LeavePoll \/ LeaveMetrics \/ (\E out \in Outcomes : LeaveWrite(out))
  BY <1>4, TypedLeave
<1>5. CASE \/ Boot \/ StartOk \/ StartRaises \/ BackoffOver \/ CancelBackoff
           \/ AutoCommit \/ CancelFinal \/ Kill \/ Exit
  BY <1>5, TypedRest
<1>6. CASE UNCHANGED vars
  <2>1. TypeOK'  BY <1>6 DEF Typed, TypeOK, vars
  <2>2. InHand'  BY <1>6 DEF Typed, InHand, vars
  <2> QED  BY <2>1, <2>2 DEF Typed
<1> QED  BY <1>1, <1>2, <1>3, <1>4, <1>5, <1>6 DEF Next

\* Every variable of the historian and of its tables keeps its type
\* (historian.py:60-654).
THEOREM TypeCorrect == Spec => []TypeOK
<1>1. Typed => TypeOK  BY DEF Typed
<1> QED  BY TypedInit, TypedNext, <1>1, PTL DEF Spec

-----------------------------------------------------------------------------
(* The inductive invariant.                                                *)

(* What is in the batch are positions, and what is in a buffer are records *)
(* of its kind under their keys, all of them consumed.                     *)
BuffersFit ==
  /\ \A i \in Elements(batch) : i <= pos /\ log[i].kind = "track"
  /\ \A t \in Tables, k \in Keys : buffer[t][k] # 0 =>
       LET i == buffer[t][k] IN i <= pos /\ log[i].kind = t /\ log[i].key = k

(* A position that is still to be inserted in this session has been        *)
(* inserted in earlier attempts only.                                      *)
ToInsert ==
  (pos + 1 .. MaxLog)
    \cup (IF pc = "metrics" THEN {pos} ELSE {})
    \cup (IF pc \in {"finRf", "finTx", "finStop"} THEN {} ELSE Elements(batch))

CopiesCounted ==
  \A i \in Index :
    /\ tracks[i] <= attempts
    /\ pc \in Session /\ i \in ToInsert => tracks[i] < attempts

(* What the clean-up has passed is stored, or its write raised.            *)
RowsKept(t) ==
  \A k \in Keys : buffer[t][k] # 0 =>
    sites[t][k] = buffer[t][k] \/ buffer[t][k] \in raised

CleanupKeeps ==
  /\ pc \in {"finRf", "finTx", "finStop"} =>
       \A i \in Elements(batch) : tracks[i] > 0 \/ i \in raised
  /\ pc \in {"finTx", "finStop"} => RowsKept("rf")
  /\ pc = "finStop" => RowsKept("tx")

(* Each message consumed is stored or in hand, or its last write raised.   *)
TracksKept ==
  \A i \in Consumed : log[i].kind = "track" =>
    tracks[i] > 0 \/ i \in raised \/ (pc \in Session /\ i \in Elements(batch))

ElementsKept ==
  \A i \in Consumed : log[i].kind = "tle" /\ Newest(i) =>
    \/ catalogue[log[i].key] = log[i].hash \/ log[i].key \in doubt
    \/ i \in raised \/ (i = pos /\ pc = "tle")

EventsKept ==
  \A i \in Consumed : log[i].kind = "event" =>
    \/ i \in events /\ (log[i].ok \/ i \in signals)
    \/ i \in raised \/ (i = pos /\ pc \in {"event", "signal"})

SitesKept ==
  pc \notin Session =>
    \A i \in Consumed : log[i].kind \in Tables /\ Newest(i) =>
      sites[log[i].kind][log[i].key] = i \/ i \in raised

IInv ==
  /\ Typed
  /\ BuffersFit
  /\ CopiesCounted
  /\ NewestRecordWins /\ CacheTruthful
  /\ CleanupKeeps
  /\ TracksKept /\ ElementsKept /\ EventsKept /\ SitesKept

-----------------------------------------------------------------------------
(* What the steps do to the messages consumed.                             *)

\* The messages consumed are of the log.
LEMMA ConsumedIsLogged ==
  ASSUME Typed
  PROVE  /\ Consumed \subseteq 1..pos /\ Consumed \subseteq Index
         /\ pos <= Len(log) /\ Len(log) <= MaxLog
         /\ \A i \in 1..Len(log) : log[i] \in Messages /\ log[i] \in MessageType
         /\ \A i \in 1..Len(log) : log[i].kind = "tle" => log[i].hash \in Hashes
         /\ \A i \in Consumed : i \in 1..Len(log) /\ log[i].key \in Keys
<1>1. /\ pos \in 0..Len(log) /\ base \in 0..Len(log) /\ Len(log) \in Nat
      /\ pos <= Len(log) /\ Len(log) <= MaxLog /\ MaxLog \in Nat /\ log \in Seq(Messages)
  BY BoundsAssumption, LenProperties DEF Typed, TypeOK
<1>2. \A i \in 1..Len(log) : log[i] \in Messages  BY <1>1, ElementOfSeq
<1>3. \A i \in 1..Len(log) :
        /\ log[i] \in MessageType
        /\ log[i].kind = "tle" => log[i].hash \in Hashes
  BY <1>2, MessagesAssumption
<1>4. Consumed \subseteq 1..pos /\ Consumed \subseteq Index
  BY <1>1 DEF Consumed, Index
<1>5. \A i \in Consumed : i \in 1..Len(log)  BY <1>1, <1>4
<1>6. \A i \in 1..Len(log) : log[i].key \in Keys  BY <1>3 DEF MessageType
<1> QED  BY <1>1, <1>2, <1>3, <1>4, <1>5, <1>6

\* A message that is handled is consumed; it is the newest of its series.
LEMMA Delivered ==
  ASSUME Typed, NEW m \in Messages, Deliver(m), pc' # "metrics",
         NEW p, p = pos'
  PROVE  /\ Consumed' = Consumed \cup {p} /\ p \notin Consumed
         /\ \A i \in Consumed : i \in 1..Len(log) /\ i < p /\ log'[i] = log[i]
         /\ log'[p] = m
         /\ Newest(p)'
         /\ \A i \in Consumed : Newest(i)' =>
              Newest(i) /\ ~(log[i].kind = m.kind /\ log[i].key = m.key)
<1>1. /\ base \in Nat /\ pos \in Nat /\ p \in Nat /\ base < p /\ base <= pos
      /\ cutOff = 0 /\ cutOff' = 0 /\ base' = base
      /\ log'[p] = m /\ pos <= p
      /\ \A i \in 1..Len(log) : log'[i] = log[i]
  BY DeliverType DEF marks, Typed, TypeOK, InHand
<1>2. Consumed' = Consumed \cup {p} /\ p \notin Consumed
  <2>1. CASE Arrives(m)
    <3>1. pc = "poll" /\ p = pos + 1  BY <2>1 DEF Arrives
    <3>2. Consumed = base + 1 .. pos  BY <1>1, <3>1 DEF Consumed
    <3>3. Consumed' = base + 1 .. pos + 1  BY <1>1, <3>1 DEF Consumed
    <3> QED  BY <1>1, <3>1, <3>2, <3>3
  <2>2. CASE pc = "metrics" /\ UNCHANGED pos
    <3>1. Consumed = (base + 1 .. pos) \ {pos}  BY <1>1, <2>2 DEF Consumed
    <3>2. Consumed' = base + 1 .. pos  BY <1>1, <2>2 DEF Consumed
    <3> QED  BY <1>1, <2>2, <3>1, <3>2
  <2> QED  BY <2>1, <2>2 DEF Deliver
<1>3. \A i \in Consumed : i \in 1..Len(log) /\ i < p /\ log'[i] = log[i]
  <2>1. Consumed \subseteq 1..pos /\ pos <= Len(log) /\ Len(log) \in Nat
    BY ConsumedIsLogged DEF Typed, TypeOK
  <2> QED  BY <1>1, <1>2, <2>1
<1>4. Newest(p)'  BY <1>1, <1>2, <1>3 DEF Newest
<1>5. ASSUME NEW i \in Consumed, Newest(i)'
      PROVE  Newest(i) /\ ~(log[i].kind = m.kind /\ log[i].key = m.key)
  <2>1. Newest(i)  BY <1>2, <1>3, <1>5 DEF Newest, SameSeries
  <2>2. ~SameSeries(i, p)'  BY <1>2, <1>3, <1>5 DEF Newest
  <2> QED  BY <1>1, <1>3, <2>1, <2>2 DEF SameSeries
<1> QED  BY <1>1, <1>2, <1>3, <1>4, <1>5

(* The steps that hand the task no message and begin no session.           *)
Standing ==
  \/ (\E m \in Messages : Metrics(m)) \/ Write \/ Finish \/ AutoCommit
  \/ LeavePoll \/ LeaveMetrics \/ (\E out \in Outcomes : LeaveWrite(out))
  \/ CancelFinal
  \/ Boot \/ StartRaises \/ BackoffOver \/ CancelBackoff \/ Exit
  \/ UNCHANGED vars

\* Such a step consumes nothing.
LEMMA StandingConsumes ==
  ASSUME Typed, Standing
  PROVE  /\ Consumed' = Consumed
         /\ \A i \in 1..Len(log) : log'[i] = log[i]
         /\ \A i \in Consumed : Newest(i)' <=> Newest(i)
         /\ pos <= pos'
<1> USE DEF marks, local, db
<1>1. Consumed' = Consumed /\ (\A i \in 1..Len(log) : log'[i] = log[i]) /\ pos <= pos'
  <2>1. CASE \E m \in Messages : Metrics(m)
    <3>1. PICK m \in Messages : Metrics(m)  BY <2>1
    <3>2. /\ pos' = pos + 1 /\ pc = "poll" /\ pc' = "metrics"
          /\ UNCHANGED <<base, cutOff>>
          /\ \A i \in 1..Len(log) : log'[i] = log[i]
      BY <3>1, ArrivesType DEF Metrics, Arrives
    <3>3. base \in Nat /\ pos \in Nat /\ cutOff = 0 /\ base <= pos
      BY <3>2 DEF Typed, TypeOK, InHand
    <3> QED  BY <3>2, <3>3 DEF Consumed
  <2>2. CASE LeaveMetrics
    <3>1. /\ pc = "metrics" /\ pc' # "metrics" /\ cutOff' = pos
          /\ UNCHANGED <<base, pos, log>>
      BY <2>2, CleanupType DEF LeaveMetrics
    <3>2. base \in Nat /\ pos \in Nat /\ cutOff = 0
      BY <3>1 DEF Typed, TypeOK, InHand
    <3> QED  BY <3>1, <3>2 DEF Consumed
  <2>3. CASE UNCHANGED <<base, pos, log, cutOff, pc>>
    BY <2>3 DEF Consumed, Typed, TypeOK
  <2>4. CASE UNCHANGED <<base, pos, log, cutOff>> /\ pc # "metrics" /\ pc' # "metrics"
    BY <2>4 DEF Consumed, Typed, TypeOK
  <2>5. ASSUME Write
        PROVE  UNCHANGED <<base, pos, log, cutOff>> /\ pc # "metrics" /\ pc' # "metrics"
    BY <2>5 DEF Write, FlushTracks, FlushKeyed, UpsertElements, StoreEvent,
                StoreSignal, Tables
  <2>6. ASSUME Finish
        PROVE  UNCHANGED <<base, pos, log, cutOff>> /\ pc # "metrics" /\ pc' # "metrics"
    BY <2>6, CleanupType DEF Finish, FinalTracks, FinalKeyed, FinalStop
  <2>7. ASSUME LeavePoll \/ (\E out \in Outcomes : LeaveWrite(out)) \/ CancelFinal
        PROVE  UNCHANGED <<base, pos, log, cutOff>> /\ pc # "metrics" /\ pc' # "metrics"
    BY <2>7, CleanupType DEF LeavePoll, LeaveWrite, CancelFinal, Final, Writing, Flushing
  <2>8. ASSUME Boot \/ StartRaises \/ BackoffOver \/ CancelBackoff \/ Exit
        PROVE  UNCHANGED <<base, pos, log, cutOff>> /\ pc # "metrics" /\ pc' # "metrics"
    BY <2>8 DEF Boot, StartRaises, BackoffOver, CancelBackoff, Exit
  <2>9. ASSUME AutoCommit \/ UNCHANGED vars
        PROVE  UNCHANGED <<base, pos, log, cutOff, pc>>
    BY <2>9 DEF AutoCommit, vars
  <2> QED
    BY <2>1, <2>2, <2>3, <2>4, <2>5, <2>6, <2>7, <2>8, <2>9 DEF Standing
<1>2. \A i \in Consumed : log'[i] = log[i]
  BY <1>1, ConsumedIsLogged DEF Typed, TypeOK
<1>3. ASSUME NEW i \in Consumed
      PROVE  Newest(i)' <=> Newest(i)
  <2>1. \A j \in Consumed : SameSeries(i, j)' <=> SameSeries(i, j)
    BY <1>2 DEF SameSeries
  <2> QED  BY <1>1, <2>1 DEF Newest
<1> QED  BY <1>1, <1>3

\* A session begins, and a process dies, with nothing consumed.
LEMMA NothingConsumed ==
  ASSUME Typed, StartOk \/ Kill
  PROVE  Consumed' = {} /\ NoLocals
  BY DEF StartOk, Kill, Consumed, Typed, TypeOK

(* The steps that hand the task a message to look at.                      *)
Handling(m) ==
  Position(m) \/ Keyed(m) \/ OrbitalElements(m) \/ Event(m) \/ Skip(m)

\* The three sorts of steps.
LEMMA StepSorts ==
  ASSUME [Next]_vars
  PROVE  (\E m \in Messages : Handling(m)) \/ Standing \/ StartOk \/ Kill
  BY DEF Next, Handle, Handling, Standing

\* Appending to the batch adds an element.
LEMMA ElementsAppend ==
  ASSUME NEW b \in Seq(Index), NEW i \in Index
  PROVE  Elements(Append(b, i)) = Elements(b) \cup {i}
<1>1. /\ Len(Append(b, i)) = Len(b) + 1 /\ Len(b) \in Nat
      /\ \A j \in 1..Len(b) : Append(b, i)[j] = b[j]
      /\ Append(b, i)[Len(b) + 1] = i
  BY AppendProperties, LenProperties
<1>2. 1..Len(b) + 1 = (1..Len(b)) \cup {Len(b) + 1}  BY <1>1
<1> QED  BY <1>1, <1>2 DEF Elements

LEMMA ElementsEmpty == Elements(<<>>) = {}
  BY DEF Elements

-----------------------------------------------------------------------------
(* Buffers.                                                                *)

\* What a message does to the buffers.
LEMMA HandlingBuffers ==
  ASSUME Typed, NEW m \in Messages, Handling(m), NEW p, p = pos'
  PROVE  /\ Deliver(m) /\ pc' # "metrics"
         /\ pc' \in {"poll"} \cup Flushing \cup {"tle", "event"}
         /\ \/ m.kind = "track" /\ batch' = Append(batch, p)
            \/ m.kind # "track" /\ UNCHANGED batch
         /\ \/ m.kind \in Tables /\ buffer' = [buffer EXCEPT ![m.kind][m.key] = p]
            \/ m.kind \notin Tables /\ UNCHANGED buffer
         /\ UNCHANGED <<cache, db, base, cutOff, doubt, raised, attempts>>
         /\ pc' = "tle" <=> m.kind = "tle" /\ cache[m.key] # m.hash
         /\ pc' = "event" <=> m.kind = "event"
  BY DEF Handling, Position, Keyed, OrbitalElements, Event, Skip, Deliver, local,
         marks, Tables, Flushing

\* A step that hands the task no message leaves each buffer alone or empties it.
LEMMA StandingBuffers ==
  ASSUME Typed, Standing
  PROVE  /\ batch' \in {batch, <<>>}
         /\ \A t \in Tables, k \in Keys : buffer'[t][k] \in {buffer[t][k], 0}
<1> USE DEF local, Typed, TypeOK
<1>1. CASE NoLocals  BY <1>1 DEF NoLocals
<1>2. CASE UNCHANGED <<batch, buffer>>  BY <1>2
<1>3. ASSUME NEW out \in Outcomes, FlushTracks(out)
      PROVE  UNCHANGED buffer /\ batch' \in {batch, <<>>}
  BY <1>3 DEF FlushTracks
<1>4. ASSUME NEW out \in Outcomes, NEW t \in Tables, FlushKeyed(t, out)
      PROVE  /\ UNCHANGED batch
             /\ \A u \in Tables, k \in Keys : buffer'[u][k] \in {buffer[u][k], 0}
  <2>1. /\ UNCHANGED batch
        /\ \/ buffer' = [buffer EXCEPT ![t] = [k \in Keys |-> 0]]
           \/ UNCHANGED buffer
    BY <1>4 DEF FlushKeyed
  <2> QED  BY <2>1
<1>5. ASSUME Finish
      PROVE  NoLocals \/ UNCHANGED <<batch, buffer>>
  BY <1>5 DEF Finish, FinalTracks, FinalKeyed, FinalStop
<1>6. ASSUME \/ \E m \in Messages : Metrics(m)
             \/ \E out \in Outcomes :
                  UpsertElements(out) \/ StoreEvent(out) \/ StoreSignal(out)
             \/ AutoCommit \/ LeavePoll \/ LeaveMetrics
             \/ \E out \in Outcomes : LeaveWrite(out)
      PROVE  UNCHANGED <<batch, buffer>>
  BY <1>6 DEF Metrics, UpsertElements, StoreEvent, StoreSignal, AutoCommit,
              LeavePoll, LeaveMetrics, LeaveWrite
<1>7. ASSUME \/ CancelFinal \/ Boot \/ StartRaises \/ BackoffOver
             \/ CancelBackoff \/ Exit \/ UNCHANGED vars
      PROVE  NoLocals \/ UNCHANGED <<batch, buffer>>
  BY <1>7 DEF CancelFinal, Boot, StartRaises, BackoffOver, CancelBackoff, Exit, vars
<1> QED
  BY <1>1, <1>2, <1>3, <1>4, <1>5, <1>6, <1>7 DEF Standing, Write

\* The buffers hold what was consumed, under its kind and key.
LEMMA BuffersNext ==
  ASSUME Typed, BuffersFit, [Next]_vars
  PROVE  BuffersFit'
<1>1. /\ \A i \in Elements(batch) : i \in 1..Len(log)
      /\ \A t \in Tables, k \in Keys :
           buffer[t][k] # 0 => buffer[t][k] \in 1..Len(log)
      /\ pos \in Nat
  <2>1. pos \in Nat /\ Len(log) \in Nat /\ pos <= Len(log) /\ MaxLog \in Nat
    BY BoundsAssumption DEF Typed, TypeOK
  <2>2. \A i \in Elements(batch) : i \in Nat /\ i >= 1
    BY RowsAreIndices, BoundsAssumption DEF Index, Typed
  <2>3. \A t \in Tables, k \in Keys : buffer[t][k] \in 0..MaxLog
    BY DEF Typed, TypeOK
  <2> QED  BY <2>1, <2>2, <2>3 DEF BuffersFit
<1>2. ASSUME NEW m \in Messages, Handling(m)
      PROVE  BuffersFit'
  <2> DEFINE p == pos'
  <2>1. /\ p \in Index /\ pos <= p /\ p \in Nat /\ log'[p] = m
        /\ \A i \in 1..Len(log) : log'[i] = log[i]
    <3>1. Deliver(m)  BY <1>2, HandlingBuffers
    <3> QED  BY <3>1, DeliverType, BoundsAssumption DEF Index
  <2>2. m \in MessageType /\ m.key \in Keys  BY MessagesAssumption DEF MessageType
  <2>3. \A i \in Elements(batch') : i <= p /\ log'[i].kind = "track"
    <3>1. \A i \in Elements(batch) : i <= p /\ log'[i].kind = "track"
      BY <1>1, <2>1 DEF BuffersFit
    <3>2. batch \in Seq(Index)  BY DEF Typed, TypeOK
    <3>3. CASE m.kind = "track" /\ batch' = Append(batch, p)
      BY <2>1, <3>1, <3>2, <3>3, ElementsAppend
    <3>4. CASE UNCHANGED batch  BY <3>1, <3>4
    <3> QED  BY <1>2, <3>3, <3>4, HandlingBuffers
  <2>4. ASSUME NEW t \in Tables, NEW k \in Keys, buffer'[t][k] # 0
        PROVE  LET i == buffer'[t][k] IN
               i <= p /\ log'[i].kind = t /\ log'[i].key = k
    <3>1. CASE UNCHANGED buffer  BY <1>1, <2>1, <2>4, <3>1 DEF BuffersFit
    <3>2. CASE /\ m.kind \in Tables
               /\ buffer' = [buffer EXCEPT ![m.kind][m.key] = p]
      <4>1. CASE t = m.kind /\ k = m.key
        BY <2>1, <2>2, <3>2, <4>1 DEF Typed, TypeOK
      <4>2. CASE ~(t = m.kind /\ k = m.key)
        <5>1. buffer'[t][k] = buffer[t][k]
          BY <2>2, <3>2, <4>2 DEF Typed, TypeOK
        <5> QED  BY <1>1, <2>1, <2>4, <5>1 DEF BuffersFit
      <4> QED  BY <4>1, <4>2
    <3> QED  BY <1>2, <3>1, <3>2, HandlingBuffers
  <2> QED  BY <2>3, <2>4 DEF BuffersFit
<1>3. CASE Standing
  <2>1. /\ batch' \in {batch, <<>>}
        /\ \A t \in Tables, k \in Keys : buffer'[t][k] \in {buffer[t][k], 0}
        /\ pos <= pos' /\ \A i \in 1..Len(log) : log'[i] = log[i]
    BY <1>3, StandingBuffers, StandingConsumes
  <2>2. pos' \in Nat  BY <1>3, TypedNext DEF Typed, TypeOK
  <2>3. \A i \in Elements(batch') : i \in Elements(batch)
    BY <2>1, ElementsEmpty
  <2> QED  BY <1>1, <2>1, <2>2, <2>3 DEF BuffersFit
<1>4. CASE StartOk \/ Kill
  BY <1>4, NothingConsumed, ElementsEmpty DEF NoLocals, BuffersFit
<1> QED  BY <1>2, <1>3, <1>4, StepSorts

-----------------------------------------------------------------------------
(* Copies.                                                                 *)

(* The positions of the batch are inserted.                                *)
Inserted ==
  tracks' = [i \in Index |-> IF i \in Elements(batch) THEN tracks[i] + 1
                                                      ELSE tracks[i]]

\* What is still to be inserted only shrinks while the loop runs.
LEMMA ToInsertShrinks ==
  ASSUME Typed, UNCHANGED pos, batch' \in {batch, <<>>},
         pc' = "metrics" => pc = "metrics",
         pc \in {"finRf", "finTx", "finStop"} => pc' \in {"finRf", "finTx", "finStop"}
  PROVE  ToInsert' \subseteq ToInsert
<1>1. Elements(batch') \subseteq Elements(batch)  BY ElementsEmpty
<1> QED  BY <1>1 DEF ToInsert

\* What has just been written is not written again in this session.
LEMMA WrittenOnce ==
  ASSUME Typed, BuffersFit, UNCHANGED pos, pc' # "metrics",
         batch' = <<>> \/ (UNCHANGED batch /\ pc' \in {"finRf", "finTx", "finStop"})
  PROVE  ToInsert' \cap Elements(batch) = {}
<1>1. \A i \in Elements(batch) : i <= pos /\ i \in Nat
  BY RowsAreIndices, BoundsAssumption DEF BuffersFit, Typed, Index
<1>2. pos \in Nat /\ MaxLog \in Nat  BY BoundsAssumption DEF Typed, TypeOK
<1>3. \A i \in ToInsert' : i \in pos + 1 .. MaxLog
  BY ElementsEmpty DEF ToInsert
<1> QED  BY <1>1, <1>2, <1>3

\* The steps that begin no session insert what was to be inserted, and count
\* an attempt where it may be inserted once more.
LEMMA StandingInserts ==
  ASSUME Typed, BuffersFit, Standing
  PROVE  /\ pc' \in Session => pc \in Session /\ ToInsert' \subseteq ToInsert
         /\ attempts <= attempts'
         /\ \/ UNCHANGED tracks
            \/ /\ Inserted /\ pc \in {"tracks", "finTracks"}
               /\ pc' \in Session => ToInsert' \cap Elements(batch) = {}
            \/ Inserted /\ attempts' = attempts + 1
<1> DEFINE Goal ==
      /\ pc' \in Session => pc \in Session /\ ToInsert' \subseteq ToInsert
      /\ attempts <= attempts'
      /\ \/ UNCHANGED tracks
         \/ /\ Inserted /\ pc \in {"tracks", "finTracks"}
            /\ pc' \in Session => ToInsert' \cap Elements(batch) = {}
         \/ Inserted /\ attempts' = attempts + 1
<1> USE DEF local, db, marks
<1>0. attempts \in Nat /\ pos \in Nat  BY DEF Typed, TypeOK
<1>1. ASSUME NEW m \in Messages, Metrics(m)
      PROVE  Goal
  <2>1. /\ pc = "poll" /\ pc' = "metrics" /\ pos' = pos + 1 /\ pos < MaxLog
        /\ UNCHANGED <<batch, tracks, attempts>>
    BY <1>1 DEF Metrics, Arrives
  <2>2. ToInsert' \subseteq ToInsert
    BY <1>0, <2>1, BoundsAssumption DEF ToInsert
  <2> QED  BY <1>0, <2>1, <2>2 DEF Session
<1>2. ASSUME NEW out \in Outcomes, FlushTracks(out)
      PROVE  Goal
  <2>1. /\ pc = "tracks" /\ pc' = "poll" /\ UNCHANGED pos
        /\ out = "ok" => batch' = <<>>
        /\ out # "ok" => UNCHANGED batch
    BY <1>2 DEF FlushTracks
  <2>2. ToInsert' \subseteq ToInsert  BY <2>1, ToInsertShrinks
  <2>3. attempts <= attempts' /\ (out = "unsure" => attempts' = attempts + 1)
    BY <1>2, OutcomeType DEF FlushTracks, Typed
  <2>4. IF out = "refused" THEN UNCHANGED tracks ELSE Inserted
    BY <1>2 DEF FlushTracks, InsertTracks, Inserted
  <2>5. out = "ok" => ToInsert' \cap Elements(batch) = {}
    BY <2>1, WrittenOnce
  <2> QED  BY <2>1, <2>2, <2>3, <2>4, <2>5 DEF Session, Writing, Flushing, Outcomes
<1>3. ASSUME NEW out \in Outcomes, FinalTracks(out)
      PROVE  Goal
  <2>1. pc = "finTracks" /\ pc' \in {"finRf", "finTx", "finStop"}
        /\ UNCHANGED <<pos, batch>>
    BY <1>3, CleanupType DEF FinalTracks
  <2>2. ToInsert' \subseteq ToInsert  BY <2>1, ToInsertShrinks
  <2>3. attempts <= attempts'
    BY <1>3, OutcomeType DEF FinalTracks, Typed
  <2>4. IF out = "refused" THEN UNCHANGED tracks ELSE Inserted
    BY <1>3 DEF FinalTracks, InsertTracks, Inserted
  <2>5. ToInsert' \cap Elements(batch) = {}
    BY <2>1, WrittenOnce
  <2> QED  BY <2>1, <2>2, <2>3, <2>4, <2>5 DEF Session, Final
<1>4. ASSUME NEW out \in Outcomes, LeaveWrite(out)
      PROVE  Goal
  <2>1. /\ pc \in Writing /\ pc' = Cleanup /\ UNCHANGED <<pos, batch>>
        /\ pc' # "metrics"
    BY <1>4, CleanupType DEF LeaveWrite, Final
  <2>2. ToInsert' \subseteq ToInsert
    BY <2>1, ToInsertShrinks, CleanupType DEF Final, Writing, Flushing
  <2>3. /\ out # "ok" /\ attempts <= attempts'
        /\ out = "unsure" => attempts' = attempts + 1
    BY <1>4, InterruptedType DEF LeaveWrite, Typed
  <2>4. UNCHANGED tracks \/ (out # "refused" /\ Inserted)
    BY <1>4 DEF LeaveWrite, InsertTracks, Inserted
  <2> QED  BY <2>1, <2>2, <2>3, <2>4 DEF Session, Outcomes
<1>5. CASE CancelFinal
  <2>1. pc' \notin Session
    BY <1>5 DEF CancelFinal, Session, Writing, Flushing, Final
  <2>2. \/ UNCHANGED <<tracks, attempts>>
        \/ attempts' = attempts + 1 /\ (UNCHANGED tracks \/ Inserted)
    BY <1>5 DEF CancelFinal, InFlightApplied, Inserted
  <2> QED  BY <1>0, <2>1, <2>2
<1>6. CASE FinalStop
  <2>1. pc' \notin Session /\ UNCHANGED <<tracks, attempts>>
    BY <1>6 DEF FinalStop, Session, Writing, Flushing, Final
  <2> QED  BY <1>0, <2>1
<1>7. ASSUME pc' \in Session => pc \in Session, UNCHANGED <<tracks, pos>>,
             pc' = "metrics" => pc = "metrics",
             pc \in {"finRf", "finTx", "finStop"} => pc' \in {"finRf", "finTx", "finStop"},
             attempts <= attempts',
             UNCHANGED batch
      PROVE  Goal
  <2>1. ToInsert' \subseteq ToInsert
    BY <1>7, ToInsertShrinks
  <2> QED  BY <1>7, <2>1
<1>8. ASSUME NEW out \in Outcomes,
             \/ \E t \in Tables : FlushKeyed(t, out) \/ FinalKeyed(t, out)
             \/ UpsertElements(out) \/ StoreEvent(out) \/ StoreSignal(out)
      PROVE  Goal
  <2>1. attempts <= attempts'
    BY <1>8, OutcomeType DEF FlushKeyed, FinalKeyed, UpsertElements, StoreEvent,
                             StoreSignal, Typed
  <2>2. /\ UNCHANGED <<tracks, pos, batch>> /\ pc \in Session /\ pc' # "metrics"
        /\ pc \in {"finRf", "finTx", "finStop"} => pc' \in {"finRf", "finTx", "finStop"}
    BY <1>8, CleanupType
       DEF FlushKeyed, FinalKeyed, UpsertElements, StoreEvent, StoreSignal,
           Session, Writing, Flushing, Final, Tables
  <2> QED  BY <1>7, <2>1, <2>2
<1>9. CASE AutoCommit \/ LeavePoll \/ LeaveMetrics \/ UNCHANGED vars
  <2>1. /\ UNCHANGED <<tracks, pos, batch, attempts>>
        /\ pc' \in Session => pc \in Session
        /\ pc' = "metrics" => pc = "metrics"
        /\ pc \in {"finRf", "finTx", "finStop"} => pc' \in {"finRf", "finTx", "finStop"}
    BY <1>9, CleanupType
       DEF AutoCommit, LeavePoll, LeaveMetrics, vars, Session, Final
  <2> QED  BY <1>0, <1>7, <2>1
<1>10. CASE Boot \/ StartRaises \/ BackoffOver \/ CancelBackoff \/ Exit
  <2>1. UNCHANGED <<tracks, attempts>> /\ pc' \notin Session
    BY <1>10 DEF Boot, StartRaises, BackoffOver, CancelBackoff, Exit, Session,
                 Writing, Flushing, Final
  <2> QED  BY <1>0, <2>1
<1> QED
  BY <1>1, <1>2, <1>3, <1>4, <1>5, <1>6, <1>8, <1>9, <1>10
     DEF Standing, Write, Finish

\* No copy goes uncounted.
LEMMA CopiesNext ==
  ASSUME Typed, BuffersFit, CopiesCounted, [Next]_vars
  PROVE  CopiesCounted'
<1>1. /\ attempts \in Nat /\ attempts' \in Nat
      /\ tracks \in [Index -> Nat]
      /\ \A i \in Index : tracks[i] \in Nat
  <2>1. attempts \in Nat /\ tracks \in [Index -> Nat]  BY DEF Typed, TypeOK
  <2>2. attempts' \in Nat  BY TypedNext DEF Typed, TypeOK
  <2> QED  BY <2>1, <2>2
<1>2. Elements(batch) \subseteq Index  BY RowsAreIndices DEF Typed
<1>3. pc \in {"tracks", "finTracks"} =>
        \A i \in Elements(batch) : tracks[i] < attempts
  <2>1. pc \in {"tracks", "finTracks"} => Elements(batch) \subseteq ToInsert
    BY DEF ToInsert
  <2> QED  BY <1>2, <2>1 DEF CopiesCounted, Session, Writing, Flushing, Final
<1>4. ASSUME NEW m \in Messages, Handling(m)
      PROVE  CopiesCounted'
  <2> DEFINE p == pos'
  <2>1. Deliver(m)  BY <1>4, HandlingBuffers
  <2>2. UNCHANGED <<tracks, attempts>>  BY <1>4, HandlingBuffers DEF db
  <2>3. pc \in Session  BY <2>1 DEF Deliver, Arrives, Session
  <2>4. p \in Index /\ p \in ToInsert /\ p >= pos /\ pos \in Nat /\ p \in Nat
        /\ (pc = "metrics" \/ p = pos + 1)
    <3>1. p \in Index /\ p >= pos /\ pos \in Nat
      BY <2>1, DeliverType DEF Typed, TypeOK
    <3>2. CASE pc = "metrics" /\ p = pos  BY <3>1, <3>2, BoundsAssumption DEF ToInsert, Index
    <3>3. CASE p = pos + 1  BY <3>1, <3>3, BoundsAssumption DEF ToInsert, Index
    <3> QED  BY <2>1, <3>1, <3>2, <3>3 DEF Deliver, Arrives
  <2>5. Elements(batch') \subseteq Elements(batch) \cup {p}
    <3>1. batch \in Seq(Index)  BY DEF Typed, TypeOK
    <3> QED  BY <1>4, <2>4, <3>1, HandlingBuffers, ElementsAppend
  <2>6. pc \notin {"finRf", "finTx", "finStop"} /\ pc' # "metrics"
    BY <1>4, <2>1, HandlingBuffers DEF Deliver, Arrives
  <2>7. ToInsert' \subseteq ToInsert
    BY <2>4, <2>5, <2>6 DEF ToInsert
  <2> QED  BY <2>2, <2>3, <2>7 DEF CopiesCounted
<1>5. CASE Standing
  <2>1. ASSUME Inserted, attempts' = attempts + 1
        PROVE  CopiesCounted'
    BY <1>1, <1>5, <2>1, StandingInserts DEF CopiesCounted, Inserted
  <2>2. ASSUME Inserted, pc \in {"tracks", "finTracks"},
               pc' \in Session => ToInsert' \cap Elements(batch) = {}
        PROVE  CopiesCounted'
    <3>1. /\ attempts <= attempts'
          /\ pc' \in Session => pc \in Session /\ ToInsert' \subseteq ToInsert
      BY <1>5, StandingInserts
    <3>2. ASSUME NEW i \in Index
          PROVE  /\ tracks'[i] <= attempts'
                 /\ pc' \in Session /\ i \in ToInsert' => tracks'[i] < attempts'
      <4>1. CASE i \in Elements(batch)
        BY <1>1, <1>3, <2>2, <3>1, <4>1 DEF Inserted
      <4>2. CASE i \notin Elements(batch)
        BY <1>1, <2>2, <3>1, <4>2 DEF Inserted, CopiesCounted
      <4> QED  BY <4>1, <4>2
    <3> QED  BY <3>2 DEF CopiesCounted
  <2>3. CASE UNCHANGED tracks
    BY <1>1, <1>5, <2>3, StandingInserts DEF CopiesCounted
  <2> QED  BY <1>5, <2>1, <2>2, <2>3, StandingInserts
<1>6. CASE StartOk
  BY <1>1, <1>6 DEF StartOk, db, CopiesCounted
<1>7. CASE Kill
  <2>1. /\ pc' \notin Session /\ UNCHANGED attempts
        /\ UNCHANGED tracks \/ (Inserted /\ pc \in {"tracks", "finTracks"})
    BY <1>7 DEF Kill, db, InFlightApplied, Inserted, Session, Writing, Flushing, Final
  <2>2. CASE Inserted /\ pc \in {"tracks", "finTracks"}
    BY <1>1, <1>2, <1>3, <2>1, <2>2 DEF CopiesCounted, Inserted
  <2> QED  BY <2>1, <2>2 DEF CopiesCounted
<1> QED  BY <1>4, <1>5, <1>6, <1>7, StepSorts
-----------------------------------------------------------------------------
(* The newest record of each series.                                       *)

\* No step but the start of a session enters one.
LEMMA StandingSession ==
  ASSUME Typed, BuffersFit, Standing, pc' \in Session
  PROVE  pc \in Session
  BY StandingInserts

\* A write of a buffer stores what is in it, and touches nothing else.
LEMMA UpsertedSites ==
  ASSUME Typed, NEW t \in Tables, NEW out \in Outcomes, UpsertSites(t, out)
  PROVE  /\ \A u \in Tables, k \in Keys :
              \/ sites'[u][k] = sites[u][k]
              \/ buffer[u][k] # 0 /\ sites'[u][k] = buffer[u][k]
         /\ out = "ok" => \A k \in Keys : buffer[t][k] # 0 => sites'[t][k] = buffer[t][k]
  BY DEF Typed, TypeOK, UpsertSites, Outcomes

\* A stored record is replaced by the one in its buffer only, and a buffer is
\* emptied in a session only once its records are stored.
LEMMA StandingSites ==
  ASSUME Typed, Standing, NEW t \in Tables, NEW k \in Keys
  PROVE  /\ \/ sites'[t][k] = sites[t][k]
            \/ buffer[t][k] # 0 /\ sites'[t][k] = buffer[t][k]
         /\ pc' \in Session /\ buffer'[t][k] # buffer[t][k] =>
              sites'[t][k] = buffer[t][k]
<1> DEFINE Goal ==
      /\ \/ sites'[t][k] = sites[t][k]
         \/ buffer[t][k] # 0 /\ sites'[t][k] = buffer[t][k]
      /\ pc' \in Session /\ buffer'[t][k] # buffer[t][k] =>
           sites'[t][k] = buffer[t][k]
<1> USE DEF local, db, marks
<1>1. CASE UNCHANGED <<sites, buffer>>  BY <1>1
<1>2. ASSUME NEW u \in Tables, NEW out \in Outcomes, FlushKeyed(u, out)
      PROVE  Goal
  <2>1. /\ UpsertSites(u, out)
        /\ \/ out = "ok" /\ buffer' = [buffer EXCEPT ![u] = [j \in Keys |-> 0]]
           \/ UNCHANGED buffer
    BY <1>2 DEF FlushKeyed
  <2>2. CASE out = "ok" /\ buffer' = [buffer EXCEPT ![u] = [j \in Keys |-> 0]]
    <3>1. CASE t = u
      <4>1. buffer'[t][k] = 0  BY <2>2, <3>1 DEF Typed, TypeOK
      <4> QED  BY <2>1, <2>2, <3>1, <4>1, UpsertedSites
    <3>2. CASE t # u
      <4>1. buffer'[t][k] = buffer[t][k]  BY <2>2, <3>2 DEF Typed, TypeOK
      <4> QED  BY <2>1, <4>1, UpsertedSites
    <3> QED  BY <3>1, <3>2
  <2>3. CASE UNCHANGED buffer  BY <2>1, <2>3, UpsertedSites
  <2> QED  BY <2>1, <2>2, <2>3
<1>3. ASSUME NEW u \in Tables, NEW out \in Outcomes, UpsertSites(u, out), UNCHANGED buffer
      PROVE  Goal
  BY <1>3, UpsertedSites
<1>4. ASSUME NEW u \in Tables, NEW out \in Outcomes, FinalKeyed(u, out)
      PROVE  Goal
  BY <1>3, <1>4 DEF FinalKeyed
<1>5. ASSUME NEW out \in Outcomes, LeaveWrite(out)
      PROVE  Goal
  BY <1>1, <1>3, <1>5 DEF LeaveWrite
<1>6. CASE CancelFinal
  <2>1. pc' \notin Session
    BY <1>6 DEF CancelFinal, Session, Writing, Flushing, Final
  <2>2. CASE UNCHANGED sites  BY <2>1, <2>2
  <2>3. ASSUME NEW u \in Tables,
               sites' = [sites EXCEPT ![u] = [j \in Keys |->
                           IF buffer[u][j] # 0 THEN buffer[u][j] ELSE @[j]]]
        PROVE  Goal
    BY <2>1, <2>3 DEF Typed, TypeOK
  <2> QED  BY <1>6, <2>2, <2>3 DEF CancelFinal, InFlightApplied
<1>7. CASE FinalStop
  BY <1>7 DEF FinalStop, Session, Writing, Flushing, Final
<1>8. ASSUME \/ \E m \in Messages : Metrics(m)
             \/ \E out \in Outcomes :
                  \/ FlushTracks(out) \/ FinalTracks(out)
                  \/ UpsertElements(out) \/ StoreEvent(out) \/ StoreSignal(out)
             \/ AutoCommit \/ LeavePoll \/ LeaveMetrics
             \/ Boot \/ StartRaises \/ BackoffOver \/ CancelBackoff \/ Exit
             \/ UNCHANGED vars
      PROVE  UNCHANGED <<sites, buffer>>
  BY <1>8 DEF Metrics, FlushTracks, FinalTracks, UpsertElements, StoreEvent,
              StoreSignal, AutoCommit, LeavePoll, LeaveMetrics, Boot, StartRaises,
              BackoffOver, CancelBackoff, Exit, vars
<1> QED
  BY <1>1, <1>2, <1>4, <1>5, <1>6, <1>7, <1>8 DEF Standing, Write, Finish

\* The newest record of a series is buffered, or it is stored.
LEMMA NewestNext ==
  ASSUME Typed, BuffersFit, NewestRecordWins, [Next]_vars
  PROVE  NewestRecordWins'
<1>1. ASSUME NEW m \in Messages, Handling(m)
      PROVE  NewestRecordWins'
  <2>0. PICK p : p = pos'  OBVIOUS
  <2>1. Deliver(m) /\ pc' # "metrics" /\ UNCHANGED sites /\ pc \in Session
    BY <1>1, HandlingBuffers DEF db, Deliver, Arrives, Session
  <2>2. /\ Consumed' = Consumed \cup {p}
        /\ \A i \in Consumed : i < p /\ log'[i] = log[i]
        /\ log'[p] = m
        /\ \A i \in Consumed : Newest(i)' =>
             Newest(i) /\ ~(log[i].kind = m.kind /\ log[i].key = m.key)
    BY <2>0, <2>1, Delivered
  <2>3. m.key \in Keys  BY MessagesAssumption DEF MessageType
  <2>4. \/ m.kind \in Tables /\ buffer' = [buffer EXCEPT ![m.kind][m.key] = p]
        \/ m.kind \notin Tables /\ UNCHANGED buffer
    BY <1>1, <2>0, HandlingBuffers
  <2>7. ASSUME NEW t \in Tables, NEW k \in Keys, ~(m.kind = t /\ m.key = k)
        PROVE  buffer'[t][k] = buffer[t][k]
    <3>1. buffer \in [Tables -> [Keys -> 0..MaxLog]]  BY DEF Typed, TypeOK
    <3>2. CASE m.kind \in Tables /\ buffer' = [buffer EXCEPT ![m.kind][m.key] = p]
      <4>1. CASE m.kind = t  BY <2>3, <2>7, <3>1, <3>2, <4>1
      <4>2. CASE m.kind # t  BY <2>3, <3>1, <3>2, <4>2
      <4> QED  BY <4>1, <4>2
    <3> QED  BY <2>4, <3>2
  <2>5. ASSUME NEW i \in Consumed, log'[i].kind \in Tables, Newest(i)'
        PROVE  LET t == log'[i].kind  k == log'[i].key IN
               buffer'[t][k] = i \/ (buffer'[t][k] = 0 /\ sites'[t][k] = i)
    <3>1. /\ log[i].kind \in Tables /\ Newest(i)
          /\ ~(log[i].kind = m.kind /\ log[i].key = m.key)
          /\ log'[i] = log[i]
      BY <2>2, <2>5
    <3>2. log[i].key \in Keys  BY ConsumedIsLogged
    <3>3. LET t == log[i].kind  k == log[i].key IN
          buffer[t][k] = i \/ (buffer[t][k] = 0 /\ sites[t][k] = i)
      BY <2>1, <3>1 DEF NewestRecordWins
    <3>4. buffer'[log[i].kind][log[i].key] = buffer[log[i].kind][log[i].key]
      BY <2>7, <3>1, <3>2
    <3> QED  BY <2>1, <3>1, <3>3, <3>4
  <2>6. m.kind \in Tables => buffer'[m.kind][m.key] = p
    BY <2>3, <2>4 DEF Typed, TypeOK
  <2> QED  BY <2>2, <2>5, <2>6 DEF NewestRecordWins
<1>2. CASE Standing
  <2> SUFFICES ASSUME pc' \in Session, NEW i \in Consumed',
                      log'[i].kind \in Tables, Newest(i)'
               PROVE  LET t == log'[i].kind  k == log'[i].key IN
                      buffer'[t][k] = i \/ (buffer'[t][k] = 0 /\ sites'[t][k] = i)
    BY DEF NewestRecordWins
  <2>1. pc \in Session  BY <1>2, StandingSession
  <2>2. i \in Consumed /\ log'[i] = log[i] /\ Newest(i) /\ log[i].key \in Keys
    BY <1>2, StandingConsumes, ConsumedIsLogged
  <2> DEFINE t == log[i].kind
             k == log[i].key
  <2>3. t \in Tables /\ k \in Keys  BY <2>2
  <2>4. buffer[t][k] = i \/ (buffer[t][k] = 0 /\ sites[t][k] = i)
    BY <2>1, <2>2, <2>3 DEF NewestRecordWins
  <2>5. /\ \/ sites'[t][k] = sites[t][k]
           \/ buffer[t][k] # 0 /\ sites'[t][k] = buffer[t][k]
        /\ buffer'[t][k] # buffer[t][k] => sites'[t][k] = buffer[t][k]
        /\ buffer'[t][k] \in {buffer[t][k], 0}
    BY <1>2, <2>3, StandingSites, StandingBuffers
  <2>6. buffer'[t][k] = i \/ (buffer'[t][k] = 0 /\ sites'[t][k] = i)
    BY <2>4, <2>5
  <2> QED  BY <2>2, <2>6
<1>3. CASE StartOk \/ Kill
  BY <1>3, NothingConsumed DEF NewestRecordWins
<1> QED  BY <1>1, <1>2, <1>3, StepSorts

-----------------------------------------------------------------------------
(* The cache.                                                              *)

\* A write of orbital elements stores and caches the same hash, or leaves it
\* in doubt, or leaves everything alone.
LEMMA StandingElements ==
  ASSUME Typed, Standing, NEW k \in Keys
  PROVE  \/ /\ catalogue'[k] = catalogue[k] /\ cache'[k] \in {cache[k], NoHash}
            /\ k \in doubt => k \in doubt'
         \/ /\ pc = "tle" /\ k = Current.key
            /\ catalogue'[k] = Current.hash /\ cache'[k] = Current.hash
         \/ k \in doubt'
<1> DEFINE Goal ==
         \/ /\ catalogue'[k] = catalogue[k] /\ cache'[k] \in {cache[k], NoHash}
            /\ k \in doubt => k \in doubt'
         \/ /\ pc = "tle" /\ k = Current.key
            /\ catalogue'[k] = Current.hash /\ cache'[k] = Current.hash
         \/ k \in doubt'
<1> USE DEF local, db, marks
<1>1. ASSUME UNCHANGED <<catalogue, doubt>>, NoLocals \/ UNCHANGED cache
      PROVE  Goal
  BY <1>1 DEF NoLocals
<1>2. ASSUME NEW out \in Outcomes, UpsertElements(out)
      PROVE  Goal
  <2>0. /\ pc = "tle" /\ StoreElements(out)
        /\ cache' = IF out = "ok" THEN [cache EXCEPT ![Current.key] = Current.hash]
                                  ELSE cache
    BY <1>2 DEF UpsertElements
  <2>1. CASE out = "ok"
    <3>1. /\ catalogue' = [catalogue EXCEPT ![Current.key] = Current.hash]
          /\ cache' = [cache EXCEPT ![Current.key] = Current.hash]
          /\ doubt' = doubt \ {Current.key}
      BY <2>0, <2>1 DEF StoreElements
    <3> QED  BY <2>0, <3>1 DEF Typed, TypeOK
  <2>2. CASE out = "unsure"
    <3>1. /\ catalogue' = [catalogue EXCEPT ![Current.key] = Current.hash]
          /\ UNCHANGED cache
          /\ doubt' = doubt \cup {Current.key}
      BY <2>0, <2>2 DEF StoreElements
    <3> QED  BY <3>1 DEF Typed, TypeOK
  <2>3. CASE out = "refused"
    BY <2>0, <2>3 DEF StoreElements
  <2> QED  BY <2>1, <2>2, <2>3 DEF Outcomes
<1>3. ASSUME NEW out \in Outcomes, LeaveWrite(out)
      PROVE  Goal
  <2>1. UNCHANGED cache /\ out # "ok"
    BY <1>3, InterruptedType DEF LeaveWrite, Typed
  <2>2. CASE UNCHANGED <<catalogue, doubt>>  BY <1>1, <2>1, <2>2
  <2>3. CASE StoreElements(out)
    <3>1. CASE out = "unsure"
      <4>1. /\ catalogue' = [catalogue EXCEPT ![Current.key] = Current.hash]
            /\ doubt' = doubt \cup {Current.key}
        BY <2>3, <3>1 DEF StoreElements
      <4> QED  BY <2>1, <4>1 DEF Typed, TypeOK
    <3>2. CASE out = "refused"
      BY <2>1, <2>3, <3>2 DEF StoreElements
    <3> QED  BY <2>1, <3>1, <3>2 DEF Outcomes
  <2> QED  BY <1>3, <2>2, <2>3 DEF LeaveWrite
<1>4. ASSUME \/ \E m \in Messages : Metrics(m)
             \/ \E out \in Outcomes :
                  \/ FlushTracks(out) \/ FinalTracks(out)
                  \/ StoreEvent(out) \/ StoreSignal(out)
                  \/ \E t \in Tables : FlushKeyed(t, out) \/ FinalKeyed(t, out)
             \/ AutoCommit \/ LeavePoll \/ LeaveMetrics
             \/ Boot \/ StartRaises \/ BackoffOver \/ CancelBackoff \/ Exit
             \/ UNCHANGED vars
      PROVE  UNCHANGED <<catalogue, cache, doubt>>
  BY <1>4 DEF Metrics, FlushTracks, FinalTracks, StoreEvent, StoreSignal,
              FlushKeyed, FinalKeyed, AutoCommit, LeavePoll, LeaveMetrics, Boot,
              StartRaises, BackoffOver, CancelBackoff, Exit, vars
<1>5. ASSUME FinalStop \/ CancelFinal
      PROVE  UNCHANGED <<catalogue, doubt>> /\ NoLocals
  BY <1>5 DEF FinalStop, CancelFinal, InFlightApplied, Final
<1> QED
  BY <1>1, <1>2, <1>3, <1>4, <1>5 DEF Standing, Write, Finish

\* A cached hash is the hash of the stored elements, or in doubt.
LEMMA CacheNext ==
  ASSUME Typed, BuffersFit, CacheTruthful, [Next]_vars
  PROVE  CacheTruthful'
<1>1. ASSUME NEW m \in Messages, Handling(m)
      PROVE  CacheTruthful'
  <2>1. UNCHANGED <<cache, catalogue, doubt>> /\ pc \in Session
    BY <1>1, HandlingBuffers DEF db, Deliver, Arrives, Session
  <2> QED  BY <2>1 DEF CacheTruthful
<1>2. CASE Standing
  BY <1>2, StandingSession, StandingElements DEF CacheTruthful
<1>3. CASE StartOk \/ Kill
  BY <1>3, NothingConsumed DEF NoLocals, CacheTruthful
<1> QED  BY <1>1, <1>2, <1>3, StepSorts
-----------------------------------------------------------------------------
(* Nothing is forgotten.                                                   *)

\* The rows of the batch are positions, those of a buffer are of its kind.
LEMMA RowKinds ==
  ASSUME BuffersFit
  PROVE  /\ \A i \in Elements(batch) : log[i].kind = "track"
         /\ \A t \in Tables : \A i \in KeyedRows(t) : log[i].kind = t
  BY DEF BuffersFit, KeyedRows, Buffered

\* Rows are stored for good, and a write that raises is remembered until the
\* rows it was to store are stored.
LEMMA Stored ==
  ASSUME Typed, BuffersFit, Standing
  PROVE  /\ \A i \in Index : tracks[i] > 0 => tracks'[i] > 0
         /\ events \subseteq events' /\ signals \subseteq signals'
         /\ \A i \in raised \ raised' :
              \/ i \in Elements(batch) /\ tracks'[i] > 0
              \/ \E t \in Tables : i \in KeyedRows(t)
<1> USE DEF local, db, marks
<1>1. \A i \in Index : tracks[i] > 0 => tracks'[i] > 0
  <2>1. UNCHANGED tracks \/ Inserted  BY StandingInserts
  <2>2. tracks \in [Index -> Nat]  BY DEF Typed, TypeOK
  <2>3. CASE Inserted
    <3>1. \A i \in Index : tracks'[i] \in {tracks[i], tracks[i] + 1}
      BY <2>2, <2>3 DEF Inserted
    <3> QED  BY <2>2, <3>1
  <2> QED  BY <2>1, <2>3
<1>2. events \subseteq events' /\ signals \subseteq signals'
  BY DEF Standing, Write, Finish, Metrics, FlushTracks, FlushKeyed, UpsertElements,
         StoreEvent, StoreSignal, InsertEvent, InsertSignal, FinalTracks, FinalKeyed,
         FinalStop, AutoCommit, LeavePoll, LeaveMetrics, LeaveWrite, CancelFinal,
         InFlightApplied, Boot, StartRaises, BackoffOver, CancelBackoff, Exit, vars
<1> DEFINE Falls == \A i \in raised \ raised' :
                      \/ i \in Elements(batch) /\ tracks'[i] > 0
                      \/ \E t \in Tables : i \in KeyedRows(t)
<1>3. ASSUME NEW out \in Outcomes, InsertTracks(out)
      PROVE  Falls
  <2>1. CASE out = "ok"
    <3>1. Inserted /\ raised' = raised \ Elements(batch)
      BY <1>3, <2>1 DEF InsertTracks, Inserted
    <3>2. \A i \in Elements(batch) : tracks'[i] > 0
      BY <3>1, RowsAreIndices DEF Inserted, Typed, TypeOK
    <3> QED  BY <3>1, <3>2
  <2>2. CASE out # "ok"  BY <1>3, <2>2 DEF InsertTracks
  <2> QED  BY <2>1, <2>2
<1>4. ASSUME NEW t \in Tables, NEW out \in Outcomes, UpsertSites(t, out)
      PROVE  Falls
  BY <1>4 DEF UpsertSites
<1>5. ASSUME raised \subseteq raised'
      PROVE  Falls
  BY <1>5
<1>6. ASSUME NEW out \in Outcomes,
             FlushTracks(out) \/ FinalTracks(out)
      PROVE  Falls
  BY <1>3, <1>6 DEF FlushTracks, FinalTracks
<1>7. ASSUME NEW out \in Outcomes, NEW t \in Tables,
             FlushKeyed(t, out) \/ FinalKeyed(t, out)
      PROVE  Falls
  BY <1>4, <1>7 DEF FlushKeyed, FinalKeyed
<1>8. ASSUME NEW out \in Outcomes,
             UpsertElements(out) \/ StoreEvent(out) \/ StoreSignal(out)
      PROVE  raised \subseteq raised'
  BY <1>8 DEF UpsertElements, StoreElements, StoreEvent, InsertEvent, StoreSignal,
              InsertSignal
<1>9. ASSUME NEW out \in Outcomes, LeaveWrite(out)
      PROVE  Falls
  <2>1. \/ InsertTracks(out)
        \/ \E t \in Tables : UpsertSites(t, out)
        \/ StoreElements(out) \/ InsertEvent(out) \/ InsertSignal(out)
    BY <1>9 DEF LeaveWrite
  <2> QED
    BY <1>3, <1>4, <1>5, <2>1 DEF StoreElements, InsertEvent, InsertSignal
<1>10. ASSUME \/ \E m \in Messages : Metrics(m)
              \/ AutoCommit \/ LeavePoll \/ LeaveMetrics \/ FinalStop \/ CancelFinal
              \/ Boot \/ StartRaises \/ BackoffOver \/ CancelBackoff \/ Exit
              \/ UNCHANGED vars
       PROVE  raised \subseteq raised'
  BY <1>10 DEF Metrics, AutoCommit, LeavePoll, LeaveMetrics, FinalStop, CancelFinal,
               Boot, StartRaises, BackoffOver, CancelBackoff, Exit, vars
<1>11. Falls
  BY <1>5, <1>6, <1>7, <1>8, <1>9, <1>10 DEF Standing, Write, Finish
<1> QED  BY <1>1, <1>2, <1>11

\* What a write of a buffer does to the rows kept by each buffer.
LEMMA RowsKeptAfter ==
  ASSUME Typed, BuffersFit, NEW t \in Tables, NEW out \in Outcomes,
         UpsertSites(t, out), UNCHANGED buffer
  PROVE  /\ RowsKept(t)'
         /\ \A u \in Tables : RowsKept(u) => RowsKept(u)'
         /\ \A i \in raised \ raised' : i \in KeyedRows(t)
<1>1. \A k \in Keys : buffer[t][k] # 0 => buffer[t][k] \in KeyedRows(t)
  BY DEF KeyedRows, Buffered
<1>2. RowsKept(t)'
  <2>1. CASE out = "ok"
    <3>1. \A k \in Keys : buffer[t][k] # 0 => sites'[t][k] = buffer[t][k]
      BY <2>1, UpsertedSites
    <3> QED  BY <3>1 DEF RowsKept
  <2>2. CASE out # "ok"
    BY <1>1, <2>2 DEF UpsertSites, RowsKept
  <2> QED  BY <2>1, <2>2
<1>3. \A i \in raised \ raised' : i \in KeyedRows(t)
  BY DEF UpsertSites
<1>4. ASSUME NEW u \in Tables, u # t, RowsKept(u)
      PROVE  RowsKept(u)'
  <2>1. sites'[u] = sites[u]  BY <1>4 DEF UpsertSites, Typed, TypeOK
  <2>2. ASSUME NEW k \in Keys, buffer[u][k] # 0, buffer[u][k] \in raised
        PROVE  buffer[u][k] \in raised'
    <3>1. log[buffer[u][k]].kind = u  BY <2>2 DEF BuffersFit
    <3> QED  BY <1>3, <1>4, <2>2, <3>1, RowKinds
  <2> QED  BY <1>4, <2>1, <2>2 DEF RowsKept
<1> QED  BY <1>2, <1>3, <1>4

\* The clean-up passes over buffers that hold nothing.
LEMMA CleanupSkips ==
  /\ AfterRf = "finStop" => Buffered("tx") = {}
  /\ AfterTracks \in {"finTx", "finStop"} => Buffered("rf") = {}
  /\ AfterTracks = "finStop" => Buffered("tx") = {}
  /\ Cleanup \in {"finRf", "finTx", "finStop"} => batch = <<>>
  /\ Cleanup \in {"finTx", "finStop"} => Buffered("rf") = {}
  /\ Cleanup = "finStop" => Buffered("tx") = {}
  BY DEF Cleanup, AfterTracks, AfterRf

\* An empty buffer has all its rows kept.
LEMMA NothingBuffered ==
  ASSUME NEW t \in Tables, Buffered(t) = {}, UNCHANGED buffer
  PROVE  RowsKept(t)'
  BY DEF Buffered, RowsKept

\* What the clean-up has passed is stored, or its write raised.
LEMMA CleanupNext ==
  ASSUME Typed, BuffersFit, CleanupKeeps, [Next]_vars
  PROVE  CleanupKeeps'
<1> USE DEF local, db, marks
<1>1. ASSUME pc' \notin {"finRf", "finTx", "finStop"}
      PROVE  CleanupKeeps'
  BY <1>1 DEF CleanupKeeps
<1>2. CASE \E m \in Messages : Handling(m)
  BY <1>1, <1>2, HandlingBuffers DEF Flushing
<1>3. CASE StartOk \/ Kill
  BY <1>1, <1>3 DEF StartOk, Kill
<1>4. ASSUME pc' = Cleanup, UNCHANGED <<batch, buffer>>
      PROVE  CleanupKeeps'
  <2>1. pc' \in {"finRf", "finTx", "finStop"} => Elements(batch') = {}
    BY <1>4, CleanupSkips, ElementsEmpty
  <2>2. pc' \in {"finTx", "finStop"} => RowsKept("rf")'
    BY <1>4, CleanupSkips, NothingBuffered DEF Tables
  <2>3. pc' = "finStop" => RowsKept("tx")'
    BY <1>4, CleanupSkips, NothingBuffered DEF Tables
  <2> QED  BY <2>1, <2>2, <2>3 DEF CleanupKeeps
<1>5. ASSUME NEW out \in Outcomes, FinalTracks(out)
      PROVE  CleanupKeeps'
  <2>1. pc' = AfterTracks /\ InsertTracks(out) /\ UNCHANGED <<batch, buffer>>
    BY <1>5 DEF FinalTracks
  <2>2. \A i \in Elements(batch') : tracks'[i] > 0 \/ i \in raised'
    <3>1. CASE out = "ok"
      BY <2>1, <3>1, RowsAreIndices DEF InsertTracks, Typed, TypeOK
    <3>2. CASE out # "ok"
      BY <2>1, <3>2 DEF InsertTracks
    <3> QED  BY <3>1, <3>2
  <2>3. pc' \in {"finTx", "finStop"} => RowsKept("rf")'
    BY <2>1, CleanupSkips, NothingBuffered DEF Tables
  <2>4. pc' = "finStop" => RowsKept("tx")'
    BY <2>1, CleanupSkips, NothingBuffered DEF Tables
  <2> QED  BY <2>2, <2>3, <2>4 DEF CleanupKeeps
<1>6. ASSUME NEW out \in Outcomes, NEW t \in Tables, FinalKeyed(t, out)
      PROVE  CleanupKeeps'
  <2>1. /\ UpsertSites(t, out) /\ UNCHANGED <<batch, buffer, tracks, log>>
        /\ pc = (IF t = "rf" THEN "finRf" ELSE "finTx")
        /\ pc' = IF t = "rf" THEN AfterRf ELSE "finStop"
    BY <1>6 DEF FinalKeyed
  <2>2. \A i \in Elements(batch') : tracks'[i] > 0 \/ i \in raised'
    <3>1. \A i \in Elements(batch) : tracks[i] > 0 \/ i \in raised
      BY <2>1 DEF CleanupKeeps
    <3>2. \A i \in Elements(batch) : i \notin KeyedRows(t)
      BY RowKinds DEF Tables
    <3> QED  BY <2>1, <3>1, <3>2, RowsKeptAfter
  <2>3. RowsKept("rf")'
    BY <2>1, RowsKeptAfter DEF CleanupKeeps, Tables
  <2>4. pc' = "finStop" => RowsKept("tx")'
    BY <2>1, RowsKeptAfter, CleanupSkips, NothingBuffered DEF Tables
  <2> QED  BY <2>2, <2>3, <2>4 DEF CleanupKeeps
<1>7. ASSUME UNCHANGED <<pc, batch, buffer, tracks, sites, raised>>
      PROVE  CleanupKeeps'
  BY <1>7 DEF CleanupKeeps, RowsKept
<1>8. CASE AutoCommit \/ UNCHANGED vars
  BY <1>7, <1>8 DEF AutoCommit, vars
<1>9. ASSUME LeavePoll \/ LeaveMetrics \/ (\E out \in Outcomes : LeaveWrite(out))
      PROVE  pc' = Cleanup /\ UNCHANGED <<batch, buffer>>
  BY <1>9 DEF LeavePoll, LeaveMetrics, LeaveWrite
<1>10. ASSUME \/ \E m \in Messages : Metrics(m)
              \/ Write \/ FinalStop \/ CancelFinal
              \/ Boot \/ StartRaises \/ BackoffOver \/ CancelBackoff \/ Exit
       PROVE  pc' \notin {"finRf", "finTx", "finStop"}
  BY <1>10 DEF Metrics, Write, FlushTracks, FlushKeyed, UpsertElements, StoreEvent,
               StoreSignal, FinalStop, CancelFinal, Boot, StartRaises, BackoffOver,
               CancelBackoff, Exit
<1> QED
  BY <1>1, <1>2, <1>3, <1>4, <1>5, <1>6, <1>8, <1>9, <1>10, StepSorts
     DEF Standing, Finish

\* The batch is emptied only once its rows are stored, or written off.
LEMMA BatchLeaves ==
  ASSUME Typed, BuffersFit, CleanupKeeps, Standing, pc \in Session,
         NEW i \in Elements(batch)
  PROVE  \/ pc' \in Session /\ i \in Elements(batch')
         \/ tracks'[i] > 0
         \/ i \in raised'
<1> DEFINE Goal ==
      \/ pc' \in Session /\ i \in Elements(batch')
      \/ tracks'[i] > 0
      \/ i \in raised'
<1> USE DEF local, db, marks
<1>1. ASSUME UNCHANGED batch, pc' \in Session
      PROVE  Goal
  BY <1>1
<1>2. ASSUME NEW out \in Outcomes, FlushTracks(out)
      PROVE  Goal
  <2>1. InsertTracks(out) /\ pc' = "poll" /\ (out # "ok" => UNCHANGED batch)
    BY <1>2 DEF FlushTracks
  <2>2. CASE out = "ok"
    BY <2>1, <2>2, RowsAreIndices DEF InsertTracks, Typed, TypeOK
  <2> QED  BY <2>1, <2>2 DEF Session
<1>3. CASE FinalStop
  BY <1>3 DEF FinalStop, CleanupKeeps
<1>4. CASE CancelFinal
  BY <1>4 DEF CancelFinal
<1>5. ASSUME \/ \E m \in Messages : Metrics(m)
             \/ \E out \in Outcomes :
                  \/ FinalTracks(out) \/ LeaveWrite(out)
                  \/ UpsertElements(out) \/ StoreEvent(out) \/ StoreSignal(out)
                  \/ \E t \in Tables : FlushKeyed(t, out) \/ FinalKeyed(t, out)
             \/ AutoCommit \/ LeavePoll \/ LeaveMetrics \/ UNCHANGED vars
      PROVE  UNCHANGED batch /\ pc' \in Session
  BY <1>5, CleanupType
     DEF Metrics, FinalTracks, LeaveWrite, UpsertElements, StoreEvent, StoreSignal,
         FlushKeyed, FinalKeyed, AutoCommit, LeavePoll, LeaveMetrics, vars, Session,
         Final, Writing
<1>6. ASSUME Boot \/ StartRaises \/ BackoffOver \/ CancelBackoff \/ Exit
      PROVE  pc \notin Session
  BY <1>6 DEF Boot, StartRaises, BackoffOver, CancelBackoff, Exit, Session,
              Writing, Flushing, Final
<1> QED
  BY <1>1, <1>2, <1>3, <1>4, <1>5, <1>6 DEF Standing, Write, Finish
\* A position consumed is stored or in the batch, or its write raised.
LEMMA TracksNext ==
  ASSUME Typed, BuffersFit, CleanupKeeps, TracksKept, [Next]_vars
  PROVE  TracksKept'
<1>1. ASSUME NEW m \in Messages, Handling(m)
      PROVE  TracksKept'
  <2>0. PICK p : p = pos'  OBVIOUS
  <2>1. Deliver(m) /\ pc' \in Session /\ UNCHANGED <<tracks, raised>>
    BY <1>1, HandlingBuffers DEF db, Session, Writing
  <2>2. /\ Consumed' = Consumed \cup {p}
        /\ \A i \in Consumed : log'[i] = log[i]
        /\ log'[p] = m
    BY <1>1, <2>0, <2>1, HandlingBuffers, Delivered
  <2>3. /\ Elements(batch) \subseteq Elements(batch')
        /\ m.kind = "track" => p \in Elements(batch')
    <3>1. batch \in Seq(Index)  BY DEF Typed, TypeOK
    <3>2. p \in Index  BY <2>0, <2>1, DeliverType
    <3> QED  BY <1>1, <2>0, <3>1, <3>2, HandlingBuffers, ElementsAppend
  <2> QED  BY <2>1, <2>2, <2>3 DEF TracksKept
<1>2. CASE Standing
  <2> SUFFICES ASSUME NEW i \in Consumed', log'[i].kind = "track"
               PROVE  tracks'[i] > 0 \/ i \in raised' \/ (pc' \in Session /\ i \in Elements(batch'))
    BY DEF TracksKept
  <2>1. i \in Consumed /\ log'[i] = log[i] /\ i \in Index
    BY <1>2, StandingConsumes, ConsumedIsLogged
  <2>2. CASE tracks[i] > 0  BY <1>2, <2>1, <2>2, Stored
  <2>3. CASE i \in raised /\ i \notin raised'
    <3>1. \A t \in Tables : i \notin KeyedRows(t)
      BY <2>1, RowKinds DEF Tables
    <3> QED  BY <1>2, <2>3, <3>1, Stored
  <2>4. CASE pc \in Session /\ i \in Elements(batch)
    BY <1>2, <2>4, BatchLeaves
  <2> QED  BY <2>1, <2>2, <2>3, <2>4 DEF TracksKept
<1>3. CASE StartOk \/ Kill
  BY <1>3, NothingConsumed DEF TracksKept
<1> QED  BY <1>1, <1>2, <1>3, StepSorts

\* A write that raised is remembered for a message no buffer holds.
LEMMA RaisedStays ==
  ASSUME Typed, BuffersFit, Standing,
         NEW i \in raised, log[i].kind \notin Tables \cup {"track"}
  PROVE  i \in raised'
  BY RowKinds, Stored DEF Tables

\* The newest orbital elements of a satellite are stored, or in doubt, or
\* being written, or their write raised.
LEMMA ElementsNext ==
  ASSUME Typed, BuffersFit, CacheTruthful, ElementsKept, [Next]_vars
  PROVE  ElementsKept'
<1>1. ASSUME NEW m \in Messages, Handling(m)
      PROVE  ElementsKept'
  <2>0. PICK p : p = pos'  OBVIOUS
  <2>1. /\ Deliver(m) /\ pc' # "metrics" /\ UNCHANGED <<catalogue, cache, raised, doubt>>
        /\ pc \in {"poll", "metrics"}
        /\ pc' = "tle" <=> m.kind = "tle" /\ cache[m.key] # m.hash
    BY <1>1, HandlingBuffers DEF db, Deliver, Arrives
  <2>2. /\ Consumed' = Consumed \cup {p}
        /\ \A i \in Consumed : i < p /\ log'[i] = log[i]
        /\ log'[p] = m
        /\ \A i \in Consumed : Newest(i)' => Newest(i)
    BY <2>0, <2>1, Delivered
  <2>3. m.kind = "tle" /\ pc' # "tle" => catalogue[m.key] = m.hash \/ m.key \in doubt
    <3>1. m.key \in Keys /\ (m.kind = "tle" => m.hash \in Hashes)
      BY MessagesAssumption DEF MessageType
    <3> QED  BY <2>1, <3>1, HashAssumption DEF CacheTruthful, Session
  <2>4. ASSUME NEW i \in Consumed, log'[i].kind = "tle", Newest(i)'
        PROVE  \/ catalogue'[log'[i].key] = log'[i].hash \/ log'[i].key \in doubt'
               \/ i \in raised'
    <3>1. log[i].kind = "tle" /\ Newest(i) /\ log'[i] = log[i]  BY <2>2, <2>4
    <3> QED  BY <2>1, <3>1 DEF ElementsKept
  <2> QED  BY <2>0, <2>1, <2>2, <2>3, <2>4 DEF ElementsKept
<1>2. CASE Standing
  <2> SUFFICES ASSUME NEW i \in Consumed', log'[i].kind = "tle", Newest(i)'
               PROVE  \/ catalogue'[log'[i].key] = log'[i].hash \/ log'[i].key \in doubt'
                      \/ i \in raised' \/ (i = pos' /\ pc' = "tle")
    BY DEF ElementsKept
  <2>1. /\ i \in Consumed /\ log'[i] = log[i] /\ i \in Index /\ Newest(i)
        /\ log[i].key \in Keys
    BY <1>2, StandingConsumes, ConsumedIsLogged
  <2>2. CASE i \in raised
    BY <1>2, <2>1, <2>2, RaisedStays DEF Tables
  <2>3. CASE pc = "tle" /\ i = pos
    <3>1. CASE AutoCommit \/ UNCHANGED vars
      BY <2>3, <3>1 DEF AutoCommit, vars
    <3>2. ASSUME NEW out \in Outcomes, StoreElements(out)
          PROVE  catalogue'[log[i].key] = log[i].hash \/ i \in raised'
      <4>1. CASE out = "ok"
        BY <2>1, <2>3, <3>2, <4>1 DEF StoreElements, Current, Typed, TypeOK
      <4> QED  BY <2>3, <3>2, <4>1 DEF StoreElements
    <3>3. \/ \E out \in Outcomes : UpsertElements(out) \/ LeaveWrite(out)
          \/ AutoCommit \/ UNCHANGED vars
      BY <1>2, <2>3 DEF Standing, Write, Finish, Metrics, Arrives, FlushTracks,
                 FlushKeyed, StoreEvent, StoreSignal, FinalTracks, FinalKeyed,
                 FinalStop, LeavePoll, LeaveMetrics, CancelFinal, Final, Boot,
                 StartRaises, BackoffOver, CancelBackoff, Exit, Tables
    <3>4. ASSUME NEW out \in Outcomes, UpsertElements(out) \/ LeaveWrite(out)
          PROVE  StoreElements(out)
      BY <2>3, <3>4 DEF UpsertElements, LeaveWrite, Tables
    <3> QED  BY <2>1, <3>1, <3>2, <3>3, <3>4
  <2>4. CASE (catalogue[log[i].key] = log[i].hash \/ log[i].key \in doubt)
             /\ ~(pc = "tle" /\ i = pos)
    <3>1. CASE pc = "tle" /\ log[i].key = Current.key
      <4>1. /\ pos \in Nat /\ base \in Nat /\ base < pos /\ cutOff = 0
            /\ log[pos].kind = "tle"
        BY <3>1 DEF Typed, TypeOK, InHand, Writing
      <4>2. pos \in Consumed  BY <3>1, <4>1 DEF Consumed
      <4>3. i \in 1..pos  BY <2>1, ConsumedIsLogged
      <4>4. pos > i  BY <2>4, <3>1, <4>1, <4>3
      <4> QED
        BY <1>2, <2>1, <3>1, <4>1, <4>2, <4>4, StandingConsumes
           DEF Newest, SameSeries, Current
    <3> QED  BY <1>2, <2>1, <2>4, <3>1, StandingElements
  <2> QED  BY <2>1, <2>2, <2>3, <2>4 DEF ElementsKept
<1>3. CASE StartOk \/ Kill
  BY <1>3, NothingConsumed DEF ElementsKept
<1> QED  BY <1>1, <1>2, <1>3, StepSorts

\* An event is stored, with its failure verdict, or it is being written, or
\* its write raised.
LEMMA EventsNext ==
  ASSUME Typed, BuffersFit, EventsKept, [Next]_vars
  PROVE  EventsKept'
<1>1. ASSUME NEW m \in Messages, Handling(m)
      PROVE  EventsKept'
  <2>0. PICK p : p = pos'  OBVIOUS
  <2>1. /\ Deliver(m) /\ pc' # "metrics" /\ UNCHANGED <<events, signals, raised>>
        /\ pc \in {"poll", "metrics"}
        /\ pc' = "event" <=> m.kind = "event"
    BY <1>1, HandlingBuffers DEF db, Deliver, Arrives
  <2>2. /\ Consumed' = Consumed \cup {p}
        /\ \A i \in Consumed : log'[i] = log[i]
        /\ log'[p] = m
    BY <2>0, <2>1, Delivered
  <2> QED  BY <2>0, <2>1, <2>2 DEF EventsKept
<1>2. CASE Standing
  <2> SUFFICES ASSUME NEW i \in Consumed', log'[i].kind = "event"
               PROVE  \/ i \in events' /\ (log'[i].ok \/ i \in signals')
                      \/ i \in raised' \/ (i = pos' /\ pc' \in {"event", "signal"})
    BY DEF EventsKept
  <2>1. i \in Consumed /\ log'[i] = log[i] /\ i \in Index
    BY <1>2, StandingConsumes, ConsumedIsLogged
  <2>2. CASE i \in raised
    BY <1>2, <2>1, <2>2, RaisedStays DEF Tables
  <2>3. CASE i \in events /\ (log[i].ok \/ i \in signals)
    BY <1>2, <2>1, <2>3, Stored
  <2>4. CASE i = pos /\ pc \in {"event", "signal"}
    <3>1. CASE AutoCommit \/ UNCHANGED vars
      BY <2>4, <3>1 DEF AutoCommit, vars
    <3>2. ASSUME NEW out \in Outcomes, StoreEvent(out)
          PROVE  \/ i \in events' /\ log[i].ok
                 \/ i \in raised' \/ (i = pos' /\ pc' = "signal")
      BY <2>4, <3>2 DEF StoreEvent, InsertEvent, Current
    <3>3. ASSUME NEW out \in Outcomes, StoreSignal(out)
          PROVE  (i \in events' /\ i \in signals') \/ i \in raised'
      BY <2>4, <3>3 DEF StoreSignal, InsertSignal, Typed, InHand
    <3>4. ASSUME NEW out \in Outcomes, LeaveWrite(out)
          PROVE  i \in raised'
      <4>1. out # "ok"  BY <3>4, InterruptedType DEF LeaveWrite, Typed
      <4> QED  BY <2>4, <3>4, <4>1 DEF LeaveWrite, InsertEvent, InsertSignal, Tables
    <3>5. \/ \E out \in Outcomes : StoreEvent(out) \/ StoreSignal(out) \/ LeaveWrite(out)
          \/ AutoCommit \/ UNCHANGED vars
      BY <1>2, <2>4 DEF Standing, Write, Finish, Metrics, Arrives, FlushTracks,
                 FlushKeyed, UpsertElements, FinalTracks, FinalKeyed,
                 FinalStop, LeavePoll, LeaveMetrics, CancelFinal, Final, Boot,
                 StartRaises, BackoffOver, CancelBackoff, Exit, Tables
    <3> QED  BY <2>1, <3>1, <3>2, <3>3, <3>4, <3>5
  <2> QED  BY <2>1, <2>2, <2>3, <2>4 DEF EventsKept
<1>3. CASE StartOk \/ Kill
  BY <1>3, NothingConsumed DEF EventsKept
<1> QED  BY <1>1, <1>2, <1>3, StepSorts

\* Once a session has ended, the newest record of each series is stored, or
\* its write raised.
LEMMA SitesNext ==
  ASSUME Typed, BuffersFit, NewestRecordWins, CleanupKeeps, SitesKept, [Next]_vars
  PROVE  SitesKept'
<1> USE DEF local, db, marks
<1>1. ASSUME NEW m \in Messages, Handling(m)
      PROVE  pc' \in Session
  BY <1>1, HandlingBuffers DEF Session, Writing
<1>2. CASE Standing
  <2> SUFFICES ASSUME pc' \notin Session, NEW i \in Consumed',
                      log'[i].kind \in Tables, Newest(i)'
               PROVE  sites'[log'[i].kind][log'[i].key] = i \/ i \in raised'
    BY DEF SitesKept
  <2>1. /\ i \in Consumed /\ log'[i] = log[i] /\ i \in Index /\ Newest(i)
        /\ log[i].key \in Keys
    BY <1>2, StandingConsumes, ConsumedIsLogged
  <2> DEFINE t == log[i].kind
             k == log[i].key
  <2>2. t \in Tables /\ k \in Keys /\ i # 0  BY <2>1 DEF Index
  <2>3. pc \in Session => buffer[t][k] = i \/ (buffer[t][k] = 0 /\ sites[t][k] = i)
    BY <2>1, <2>2 DEF NewestRecordWins
  <2>4. CASE pc \in Session /\ FinalStop
    <3>1. pc = "finStop" /\ UNCHANGED <<sites, raised>>  BY <2>4 DEF FinalStop
    <3>2. RowsKept(t)  BY <2>2, <3>1 DEF CleanupKeeps, Tables
    <3> QED  BY <2>1, <2>2, <2>3, <2>4, <3>1, <3>2 DEF RowsKept
  <2>5. CASE pc \in Session /\ CancelFinal
    <3>1. CASE buffer[t][k] = i
      <4>1. i \in KeyedRows(t)  BY <2>2, <3>1 DEF KeyedRows, Buffered
      <4> QED  BY <2>2, <2>5, <4>1 DEF CancelFinal, Tables
    <3>2. CASE buffer[t][k] = 0 /\ sites[t][k] = i
      BY <1>2, <2>1, <2>2, <3>2, StandingSites
    <3> QED  BY <2>3, <2>5, <3>1, <3>2
  <2>6. ASSUME pc \in Session
        PROVE  FinalStop \/ CancelFinal
    <3>1. ASSUME \/ \E m \in Messages : Metrics(m)
                 \/ \E out \in Outcomes :
                      \/ FinalTracks(out) \/ LeaveWrite(out)
                      \/ \E u \in Tables : FinalKeyed(u, out)
                 \/ Write \/ LeavePoll \/ LeaveMetrics
                 \/ AutoCommit \/ UNCHANGED vars
          PROVE  FALSE
      BY <2>6, <3>1, CleanupType
         DEF Metrics, FinalTracks, LeaveWrite, FinalKeyed, Write, FlushTracks,
             FlushKeyed, UpsertElements, StoreEvent, StoreSignal, LeavePoll,
             LeaveMetrics, AutoCommit, vars, Session, Final, Writing
    <3>2. ASSUME Boot \/ StartRaises \/ BackoffOver \/ CancelBackoff \/ Exit
          PROVE  FALSE
      BY <2>6, <3>2 DEF Boot, StartRaises, BackoffOver, CancelBackoff, Exit,
                        Session, Writing, Flushing, Final
    <3> QED  BY <1>2, <3>1, <3>2 DEF Standing, Finish
  <2>7. CASE pc \notin Session
    <3>1. UNCHANGED <<sites, raised>>
      BY <1>2, <2>7, CleanupType
         DEF Standing, Write, Finish, Metrics, Arrives, FlushTracks, FlushKeyed,
             UpsertElements, StoreEvent, StoreSignal, FinalTracks, FinalKeyed,
             FinalStop, AutoCommit, LeavePoll, LeaveMetrics, LeaveWrite, CancelFinal,
             Boot, StartRaises, BackoffOver, CancelBackoff, Exit, vars,
             Session, Writing, Flushing, Final, Tables
    <3> QED  BY <2>1, <2>2, <2>7, <3>1 DEF SitesKept
  <2> QED  BY <2>4, <2>5, <2>6, <2>7
<1>3. CASE StartOk \/ Kill
  BY <1>3, NothingConsumed DEF SitesKept
<1> QED  BY <1>1, <1>2, <1>3, StepSorts DEF SitesKept
-----------------------------------------------------------------------------
(* The theorems.                                                           *)

\* Nothing is stored, buffered or consumed in the initial state.
LEMMA InitIInv == Init => IInv
<1> SUFFICES ASSUME Init
             PROVE  IInv
  OBVIOUS
<1>1. Typed  BY TypedInit
<1>2. Elements(batch) = {} /\ Consumed = {}
  BY ElementsEmpty DEF Init, Consumed
<1>3. pc \notin Session  BY DEF Init, Session, Writing, Flushing, Final
<1>4. BuffersFit  BY <1>2 DEF Init, BuffersFit
<1>5. CopiesCounted  BY <1>3 DEF Init, CopiesCounted
<1>6. CleanupKeeps  BY DEF Init, CleanupKeeps
<1> QED
  BY <1>1, <1>2, <1>3, <1>4, <1>5, <1>6
     DEF IInv, NewestRecordWins, CacheTruthful, TracksKept, ElementsKept,
         EventsKept, SitesKept

\* The inductive invariant of the historian: what is in its buffers, what is
\* counted, and where each message it has looked at is, step by step of a
\* session (historian.py:60-654).
THEOREM Invariance == Spec => []IInv
<1>1. ASSUME IInv, [Next]_vars
      PROVE  IInv'
  BY <1>1, TypedNext, BuffersNext, CopiesNext, NewestNext, CacheNext, CleanupNext,
     TracksNext, ElementsNext, EventsNext, SitesNext DEF IInv
<1> QED  BY InitIInv, <1>1, PTL DEF Spec

\* No position is stored more often than once, plus once for every restart and
\* every write whose outcome the task did not see (historian.py:551).
THEOREM CopiesCorrect == Spec => []CopiesBounded
<1>1. IInv => CopiesBounded
  BY DEF IInv, CopiesCounted, CopiesBounded
<1> QED  BY Invariance, <1>1, PTL

\* For each site and transmitter the newest record consumed is buffered or
\* stored, and a cached hash is the stored one or in doubt, whatever fails and
\* whatever is delivered again (historian.py:72-84, 253, 298, 497, 523).
THEOREM StoredCorrect == Spec => []StoredIsNewest
<1>1. IInv => StoredIsNewest
  BY DEF IInv, Typed, StoredIsNewest
<1> QED  BY Invariance, <1>1, PTL

\* Each message that the task has looked at is stored, or it is in the task's
\* hands, or its last write raised and was logged (historian.py:551-654).
THEOREM NothingForgottenCorrect == Spec => []NothingForgotten
<1>1. ASSUME IInv
      PROVE  NothingForgotten
  <2> USE <1>1 DEF IInv
  <2> SUFFICES ASSUME NEW i \in Consumed
               PROVE  Recorded(i) \/ Pending(i) \/ i \in raised
    BY DEF NothingForgotten
  <2>1. /\ log[i].kind \in Kinds /\ log[i].key \in Keys /\ i \in Nat /\ i # 0
        /\ i \in Index
    BY ConsumedIsLogged, BoundsAssumption DEF MessageType, Index
  <2>2. CASE log[i].kind = "track"
    BY <2>2 DEF TracksKept, Recorded, Pending, Tables
  <2>3. CASE log[i].kind = "tle"
    <3>1. CASE Newest(i)
      BY <2>3, <3>1 DEF ElementsKept, Recorded, Pending
    <3>2. CASE ~Newest(i)
      BY <2>3, <3>2 DEF Recorded, Tables
    <3> QED  BY <3>1, <3>2
  <2>4. CASE log[i].kind = "event"
    BY <2>4 DEF EventsKept, Recorded, Pending, Tables
  <2>5. CASE log[i].kind = "skip"
    BY <2>5 DEF Recorded, Tables
  <2>6. CASE log[i].kind \in Tables
    <3>1. CASE ~Newest(i)
      BY <2>6, <3>1 DEF Recorded, Tables
    <3>2. CASE Newest(i) /\ pc \in Session
      <4>1. LET t == log[i].kind  k == log[i].key IN
            buffer[t][k] = i \/ sites[t][k] = i
        BY <2>6, <3>2 DEF NewestRecordWins
      <4> QED  BY <2>1, <2>6, <4>1 DEF Recorded, Pending, Tables
    <3>3. CASE Newest(i) /\ pc \notin Session
      <4>1. sites[log[i].kind][log[i].key] = i \/ i \in raised
        BY <2>6, <3>3 DEF SitesKept
      <4> QED  BY <2>1, <2>6, <4>1 DEF Recorded, Tables
    <3> QED  BY <3>1, <3>2, <3>3
  <2> QED  BY <2>1, <2>2, <2>3, <2>4, <2>5, <2>6 DEF Kinds
<1> QED  BY Invariance, <1>1, PTL

\* A session cancelled while it ran or cleaned up is not restarted
\* (historian.py:573-575, main.py:67-69).
THEOREM CancelledCorrect == Spec => CancelledSessionEnds
<1>1. ASSUME TypeOK, Next, cancelled, pc \in Final
      PROVE  pc' \in Final \cup {"ended", "down"}
  <2>1. CASE Handle
    BY <1>1, <2>1 DEF Handle, Metrics, Position, Keyed, OrbitalElements, Event, Skip,
                      Deliver, Arrives, Final
  <2>2. CASE Write
    BY <1>1, <2>2 DEF Write, FlushTracks, FlushKeyed, UpsertElements, StoreEvent,
                      StoreSignal, Final, Tables
  <2>3. CASE Finish
    BY <1>1, <2>3, CleanupType DEF Finish, FinalTracks, FinalKeyed, FinalStop, Final
  <2>4. CASE LeavePoll \/ LeaveMetrics \/ (\E out \in Outcomes : LeaveWrite(out))
    BY <2>4, CleanupType DEF LeavePoll, LeaveMetrics, LeaveWrite
  <2>5. CASE Boot \/ StartOk \/ StartRaises \/ BackoffOver \/ CancelBackoff
    BY <1>1, <2>5 DEF Boot, StartOk, StartRaises, BackoffOver, CancelBackoff, Final
  <2>6. CASE AutoCommit \/ CancelFinal \/ Kill \/ Exit
    BY <1>1, <2>6 DEF AutoCommit, CancelFinal, Kill, Exit
  <2> QED  BY <1>1, <2>1, <2>2, <2>3, <2>4, <2>5, <2>6 DEF Next
<1>2. ASSUME TypeOK, [Next]_vars
      PROVE  [cancelled /\ pc \in Final => pc' \in Final \cup {"ended", "down"}]_vars
  BY <1>1, <1>2
<1> QED  BY TypeCorrect, <1>2, PTL DEF Spec, CancelledSessionEnds
=============================================================================
