------------------------------- MODULE Replay -------------------------------
(***************************************************************************)
(* Playback of stored tracks (frontend/src/hooks/useReplayController.ts,   *)
(* utils/replayUtils.ts, components/widgets/TimeControls.tsx and the       *)
(* handlers of App.tsx).                                                   *)
(*                                                                         *)
(* A load asks for the last hours and, when it is answered, takes over     *)
(* cache, range, time and mode at once.  The time is held twice: as state  *)
(* for the controls and in a reference for the loop of animation frames,   *)
(* which runs on with what it closed over until the effect replaces it.    *)
(***************************************************************************)
EXTENDS Integers, Sequences, FiniteSets, SequencesExt, TLC

CONSTANTS
  Records,     \* the stored track of one entity: sequences of [time] records
  Durations,   \* how far back a load may reach
  Speeds,
  Stale,       \* how long a record is shown: 10 minutes
  Now,         \* when the first load is asked
  MaxLoads,    \* bound on loads
  MaxInputs    \* bound on what the user does with the controls

None == -1

VARIABLES
  mode, playing, time, range, speed, duration,  \* the states of the hook
  ref,        \* replayTimeRef
  cache,      \* replayCacheRef: the records in ascending order
  frame,      \* replayEntities: the record shown
  loop,       \* the closure of the loop under way: its end and its speed
  effect,     \* the effect of the loop has yet to run
  loads,      \* the loads under way: the range each asked for
  asked, inputs

vars == <<mode, playing, time, range, speed, duration, ref, cache, frame, loop, effect,
          loads, asked, inputs>>

NoLoop == [end |-> None, speed |-> 0]

-----------------------------------------------------------------------------
(* The answer holds the records of the range, newest first; it is put in   *)
(* ascending order for the search.                                         *)

InRange(s, r) == SelectSeq(s, LAMBDA t : r.start <= t /\ t <= r.end)
Answer(s, r) == Reverse(InRange(s, r))

(* Slip: the answer is taken as it comes.                                *)
ProcessSlip(s) == s

Process(s) == SortSeq(s, <)

(* updateReplayFrame(): a binary search for the last record that is not    *)
(* later, which is shown unless it is stale.                               *)
Found(s, t) ==
  LET search[lo \in 0..(Len(s) + 1), hi \in 0..(Len(s) + 1), best \in 0..Len(s)] ==
        IF lo > hi THEN best
        ELSE LET mid == (lo + hi) \div 2
             IN IF s[mid] <= t THEN search[mid + 1, hi, mid] ELSE search[lo, mid - 1, best]
  IN search[1, Len(s), 0]

FrameAt(s, t) ==
  LET i == Found(s, t) IN IF i # 0 /\ t - s[i] < Stale THEN s[i] ELSE None

TypeOK ==
  /\ mode \in BOOLEAN /\ playing \in BOOLEAN /\ effect \in BOOLEAN
  /\ range.start <= range.end
  /\ {time, ref} \subseteq 0..(Now + MaxLoads)
  /\ speed \in Speeds /\ duration \in Durations
  /\ frame \in 0..(Now + MaxLoads) \cup {None}
  /\ loop.speed \in Speeds \cup {0}
  /\ loads \subseteq [start : Int, end : Now..(Now + MaxLoads)]
  /\ asked \in 0..MaxLoads /\ inputs \in 0..MaxInputs

Init ==
  /\ mode = FALSE /\ playing = FALSE /\ time = Now /\ ref = Now
  /\ range = [start |-> Now - 1, end |-> Now]
  /\ speed = 1 /\ duration = CHOOSE d \in Durations : \A e \in Durations : d <= e
  /\ cache = <<>> /\ frame = None /\ loop = NoLoop /\ effect = FALSE
  /\ loads = {} /\ asked = 0 /\ inputs = 0

-----------------------------------------------------------------------------
(* Loading.                                                                *)

Load(d) ==
  /\ asked < MaxLoads /\ asked' = asked + 1
  /\ loads' = loads \cup {[start |-> Now + asked - d, end |-> Now + asked]}

(* The button of the top bar loads, or leaves the mode and nothing else.   *)
ToggleReplay ==
  \/ /\ mode /\ mode' = FALSE
     /\ UNCHANGED <<playing, time, range, speed, duration, ref, cache, frame, loop, effect,
                    loads, asked, inputs>>
  \/ /\ ~ mode /\ Load(duration)
     /\ UNCHANGED <<mode, playing, time, range, speed, duration, ref, cache, frame, loop,
                    effect, inputs>>

DurationChange(d) ==
  /\ mode /\ duration' = d /\ Load(d)
  /\ UNCHANGED <<mode, playing, time, range, speed, ref, cache, frame, loop, effect, inputs>>

(* Whoever asked, and whatever was done since: an answer starts replaying. *)
Loaded(r, s) ==
  /\ loads' = loads \ {r}
  /\ cache' = Process(Answer(s, r)) /\ range' = r
  /\ time' = r.start /\ ref' = r.start /\ frame' = FrameAt(cache', r.start)
  /\ mode' = TRUE /\ playing' = TRUE /\ effect' = TRUE
  /\ UNCHANGED <<speed, duration, loop, asked, inputs>>

LoadFails(r) ==
  /\ loads' = loads \ {r}
  /\ UNCHANGED <<mode, playing, time, range, speed, duration, ref, cache, frame, loop, effect,
                 asked, inputs>>

-----------------------------------------------------------------------------
(* The loop.                                                               *)

(* The effect of isPlaying, playbackSpeed and replayRange.end: the old     *)
(* loop is cancelled, and a new one closes over what is current.           *)
LoopEffect ==
  /\ effect /\ effect' = FALSE
  /\ IF playing
     THEN loop' = [end |-> range.end, speed |-> speed] /\ UNCHANGED ref
     ELSE loop' = NoLoop /\ ref' = time
  /\ UNCHANGED <<mode, playing, time, range, speed, duration, cache, frame, loads, asked,
                 inputs>>

(* One frame, dt after the last one; the first after a start has dt = 0.   *)
Frame(dt) ==
  /\ loop # NoLoop
  /\ LET next == ref + dt * loop.speed IN
     IF next > loop.end
     THEN /\ playing' = FALSE /\ time' = loop.end /\ ref' = loop.end
          /\ frame' = FrameAt(cache, loop.end)
          /\ loop' = NoLoop /\ effect' = TRUE
     ELSE /\ ref' = next /\ time' = next /\ frame' = FrameAt(cache, next)
          /\ UNCHANGED <<playing, loop, effect>>
  /\ UNCHANGED <<mode, range, speed, duration, cache, loads, asked, inputs>>

-----------------------------------------------------------------------------
(* The controls, which are there in replay mode.  React runs the effects   *)
(* of the last update before it takes another input.                       *)

Input == mode /\ ~ effect /\ inputs < MaxInputs /\ inputs' = inputs + 1

TogglePlay ==
  /\ Input /\ playing' = ~ playing /\ effect' = TRUE
  /\ UNCHANGED <<mode, time, range, speed, duration, ref, cache, frame, loop, loads, asked>>

Seek(t) ==
  /\ Input /\ t \in range.start..range.end
  /\ time' = t /\ ref' = t /\ frame' = FrameAt(cache, t)
  /\ UNCHANGED <<mode, playing, range, speed, duration, cache, loop, effect, loads, asked>>

SpeedChange(v) ==
  /\ Input /\ v # speed /\ speed' = v /\ effect' = TRUE
  /\ UNCHANGED <<mode, playing, time, range, duration, ref, cache, frame, loop, loads, asked>>

(* The cross of the controls stops the loop, too.                          *)
Close ==
  /\ Input /\ mode' = FALSE /\ playing' = FALSE /\ effect' = TRUE
  /\ UNCHANGED <<time, range, speed, duration, ref, cache, frame, loop, loads, asked>>

Next ==
  \/ ToggleReplay \/ TogglePlay \/ LoopEffect \/ Close
  \/ \E d \in Durations : DurationChange(d)
  \/ \E r \in loads : LoadFails(r) \/ \E s \in Records : Loaded(r, s)
  \/ \E dt \in {0, 1} : Frame(dt)
  \/ \E t \in 0..(Now + MaxLoads) : Seek(t)
  \/ \E v \in Speeds : SpeedChange(v)

Spec == Init /\ [][Next]_vars /\ WF_vars(Frame(1)) /\ WF_vars(LoopEffect)

-----------------------------------------------------------------------------
(* Properties.                                                             *)

(* What is shown is the newest record that is not later than the time of   *)
(* the loop, of those loaded, and is not stale: whatever order the answer  *)
(* had, and whoever moved the time last.                                   *)
FrameIsTruthful ==
  LET eligible == {cache[i] : i \in DOMAIN cache} \cap {t \in 0..ref : ref - t < Stale}
  IN cache # <<>> => frame = IF eligible = {} THEN None
                             ELSE CHOOSE t \in eligible : \A u \in eligible : u <= t

(* The controls span what is in the cache, when loads cross, fail or come  *)
(* late, and the two copies of the time agree, whichever loop is running.  *)
RangeIsOfCache ==
  /\ \A i \in DOMAIN cache : cache[i] \in range.start..range.end
  /\ ref = time
=============================================================================
