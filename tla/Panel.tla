-------------------------------- MODULE Panel --------------------------------
(***************************************************************************)
(* The settings of the listening post                                      *)
(* (frontend/src/components/js8call/ListeningPost.tsx).  Every switch and  *)
(* slider keeps a state of its own and tells the receiver, some only while *)
(* the filter they belong to is on.  Commands take effect at once here:    *)
(* their way and their loss are in Radio.                                  *)
(***************************************************************************)
EXTENDS Naturals

CONSTANTS
  Knobs,      \* what a slider may be: 0 is its default
  MaxChanges  \* bound on what happens

VARIABLES
  linked,     \* activeKiwiConfig and bridgeConnected
  shown,      \* the states of the component
  told,       \* what the receiver does
  own,        \* history: settings this post told this link, and nobody since
  changes

vars == <<linked, shown, told, own, changes>>

Levels == {0, 1}
Settings == {"agc", "squelch", "blanker", "notch", "deemphasis", "reduction", "attenuator",
             "colours", "aperture", "zoom"}

(* level: off, or on; for the squelch whether it is above zero             *)
Setting == [level : Levels, knob : Knobs]
Defaults == [s \in Settings |-> [level |-> IF s \in {"agc", "aperture"} THEN 1 ELSE 0, knob |-> 0]]

TypeOK ==
  /\ {shown, told} \subseteq [Settings -> Setting]
  /\ linked \in BOOLEAN /\ own \subseteq Settings /\ changes \in 0..MaxChanges

Init ==
  /\ linked \in BOOLEAN /\ shown = Defaults /\ told = Defaults /\ own = {} /\ changes = 0

Change == changes < MaxChanges /\ changes' = changes + 1

(* The state moves, and the receiver is told if there is one.              *)
Show(s, v) == shown' = [shown EXCEPT ![s] = v]
Tell(s, v) ==
  IF linked THEN told' = [told EXCEPT ![s] = v] /\ own' = own \cup {s} ELSE UNCHANGED <<told, own>>
Both(s, v) == Change /\ Show(s, v) /\ Tell(s, v) /\ UNCHANGED linked

(* AGC, MAN and the slider each send the other's state too.                *)
ManualGain(l, k) ==
  /\ l = shown["agc"].level \/ k = shown["agc"].knob
  /\ Both("agc", [level |-> l, knob |-> k])

Squelch(l) == Both("squelch", [shown["squelch"] EXCEPT !.level = l])

(* The knob of a filter that is off is not told: the switch tells it.      *)
Knob(s, k) ==
  LET v == [shown[s] EXCEPT !.knob = k] IN
  /\ Change /\ Show(s, v) /\ UNCHANGED linked
  /\ IF shown[s].level > 0 THEN Tell(s, v) ELSE UNCHANGED <<told, own>>

Hysteresis(k) == Knob("squelch", k)

SwitchBlanker == Both("blanker", [shown["blanker"] EXCEPT !.level = 1 - @])

Gate(k) == Knob("blanker", k)

SwitchNotch == Both("notch", [shown["notch"] EXCEPT !.level = 1 - @])
NotchKnob(k) == Knob("notch", k)

(* Settings without a knob.                                                *)
Choose(s, l) == Both(s, [shown[s] EXCEPT !.level = l])
Deemphasis(l) == Choose("deemphasis", l)
Reduction(l) == Choose("reduction", l)
Attenuator(l) == Choose("attenuator", l)
Colours(l) == Choose("colours", l)
Aperture(l) == Choose("aperture", l)
Zoom(l) == Choose("zoom", l)

(* Another link has the defaults of the handshake; the post keeps its own. *)
LinkChanges ==
  /\ Change /\ linked' \in BOOLEAN /\ own' = {}
  /\ told' = Defaults /\ UNCHANGED shown

(* A new component has the defaults; the receiver keeps what it was told.  *)
Remount == Change /\ shown' = Defaults /\ own' = {} /\ UNCHANGED <<linked, told>>

OthersTell(s) ==
  /\ Change /\ linked /\ \E v \in Setting : told' = [told EXCEPT ![s] = v]
  /\ own' = own \ {s} /\ UNCHANGED <<linked, shown>>

Next ==
  \/ SwitchBlanker \/ SwitchNotch \/ LinkChanges \/ Remount
  \/ \E l \in Levels, k \in Knobs : ManualGain(l, k)
  \/ \E k \in Knobs : Hysteresis(k) \/ Gate(k) \/ NotchKnob(k)
  \/ \E l \in Levels : Squelch(l) \/ Deemphasis(l) \/ Reduction(l) \/ Attenuator(l) \/ Colours(l)
                       \/ Aperture(l) \/ Zoom(l)
  \/ OthersTell("blanker")

(* A filter this post has told the receiver of is on there exactly if it   *)
(* is shown on, and then works with the values shown, whatever was moved   *)
(* in between while it was off.                                            *)
FiltersAsShown ==
  \A s \in own :
    /\ told[s].level = shown[s].level
    /\ shown[s].level > 0 \/ s = "agc" => told[s] = shown[s]
=============================================================================
