---------------------------- MODULE PanelsProofs ----------------------------
(***************************************************************************)
(* What the panels show is what is the case: the radio and who listens,    *)
(* the settings, the layout, the accounts, the saved missions, the         *)
(* watchlist, the style of the map and its filters each have an inductive  *)
(* invariant, and a behaviour is one of a panel.                           *)
(*                                                                         *)
(* The modules of the panels are instantiated on p1, p2, ...: the comment  *)
(* at the head of a section says which variable is which.                  *)
(***************************************************************************)
EXTENDS Panels, Sequences, SequenceTheorems, TLAPS

-----------------------------------------------------------------------------
(***************************************************************************)
(* The listening post's settings: linked is p1, shown p2, told p3, own p4, *)
(* changes p5.                                                             *)
(***************************************************************************)
SettingsVars == Settings!vars

(* Without a link there is nobody this post has told anything.             *)
SettingsInv == Settings!TypeOK /\ Settings!FiltersAsShown /\ (~ p1 => p4 = {})

LEMMA SettingsInit == Settings!Init => SettingsInv
<1> SUFFICES ASSUME Settings!Init  PROVE SettingsInv
  OBVIOUS
<1>1. Settings!Defaults \in [Settings!Settings -> Settings!Setting]
  BY PanelsAssumption DEF Settings!Defaults, Settings!Setting, Settings!Levels
<1> QED
  BY <1>1, PanelsAssumption
  DEF Settings!Init, SettingsInv, Settings!TypeOK, Settings!FiltersAsShown

(* A setting moves and the receiver is told.                               *)
LEMMA SettingsBoth ==
  ASSUME SettingsInv, NEW s \in Settings!Settings, NEW v \in Settings!Setting,
         Settings!Both(s, v)
  PROVE  SettingsInv'
<1>1. /\ p2 \in [Settings!Settings -> Settings!Setting] /\ p3 \in [Settings!Settings -> Settings!Setting]
      /\ p1 \in BOOLEAN /\ p4 \subseteq Settings!Settings /\ p5 \in Nat
  BY PanelsAssumption DEF SettingsInv, Settings!TypeOK
<1>2. p2' = [p2 EXCEPT ![s] = v] /\ p1' = p1 /\ p5' \in 0..MaxSettings
  BY <1>1, PanelsAssumption DEF Settings!Both, Settings!Show, Settings!Change
<1>3. CASE p1
  <2>1. p3' = [p3 EXCEPT ![s] = v] /\ p4' = p4 \cup {s}
    BY <1>3 DEF Settings!Both, Settings!Tell
  <2>2. Settings!FiltersAsShown'
    BY <1>1, <1>2, <2>1 DEF SettingsInv, Settings!FiltersAsShown
  <2>3. Settings!TypeOK'  BY <1>1, <1>2, <2>1 DEF Settings!TypeOK
  <2> QED  BY <1>2, <1>3, <2>2, <2>3 DEF SettingsInv
<1>4. CASE ~ p1
  <2>1. p3' = p3 /\ p4' = p4 /\ p4 = {}
    BY <1>4 DEF Settings!Both, Settings!Tell, SettingsInv
  <2>2. Settings!TypeOK'  BY <1>1, <1>2, <2>1 DEF Settings!TypeOK
  <2> QED  BY <1>2, <2>1, <2>2 DEF SettingsInv, Settings!FiltersAsShown
<1> QED  BY <1>1, <1>3, <1>4

(* The knob of a filter that is off is told with its switch.               *)
LEMMA SettingsKnob ==
  ASSUME SettingsInv, NEW s \in {"squelch", "blanker", "notch"}, NEW k \in Knobs,
         Settings!Knob(s, k)
  PROVE  SettingsInv'
<1> DEFINE v == [p2[s] EXCEPT !.knob = k]
<1>0. s \in Settings!Settings  BY DEF Settings!Settings
<1>1. /\ p2 \in [Settings!Settings -> Settings!Setting] /\ p3 \in [Settings!Settings -> Settings!Setting]
      /\ p1 \in BOOLEAN /\ p4 \subseteq Settings!Settings /\ p5 \in Nat
  BY PanelsAssumption DEF SettingsInv, Settings!TypeOK
<1>2. v \in Settings!Setting /\ v.level = p2[s].level  BY <1>0, <1>1 DEF Settings!Setting
<1>3. CASE p2[s].level > 0
  <2>1. Settings!Both(s, v)  BY <1>3 DEF Settings!Knob, Settings!Both
  <2> QED  BY <1>0, <1>2, <2>1, SettingsBoth
<1>4. CASE ~ (p2[s].level > 0)
  <2>1. /\ p2' = [p2 EXCEPT ![s] = v] /\ p3' = p3 /\ p4' = p4 /\ p1' = p1
        /\ p5' \in 0..MaxSettings
    BY <1>1, <1>4, PanelsAssumption DEF Settings!Knob, Settings!Show, Settings!Change
  <2> HIDE DEF v
  <2>2. Settings!FiltersAsShown'
    BY <1>0, <1>1, <1>2, <1>4, <2>1 DEF SettingsInv, Settings!FiltersAsShown
  <2>3. Settings!TypeOK'  BY <1>0, <1>1, <1>2, <2>1 DEF Settings!TypeOK
  <2> QED  BY <2>1, <2>2, <2>3 DEF SettingsInv
<1> QED  BY <1>3, <1>4

LEMMA SettingsNext == SettingsInv /\ [Settings!Next]_SettingsVars => SettingsInv'
<1> SUFFICES ASSUME SettingsInv, [Settings!Next]_SettingsVars  PROVE SettingsInv'
  OBVIOUS
<1>t. /\ p2 \in [Settings!Settings -> Settings!Setting] /\ p3 \in [Settings!Settings -> Settings!Setting]
      /\ p1 \in BOOLEAN /\ p4 \subseteq Settings!Settings /\ p5 \in 0..MaxSettings
  BY DEF SettingsInv, Settings!TypeOK
<1>l. \A s \in Settings!Settings, l \in Settings!Levels :
        [p2[s] EXCEPT !.level = l] \in Settings!Setting
  BY <1>t DEF Settings!Setting
<1>d. Settings!Defaults \in [Settings!Settings -> Settings!Setting]
  BY PanelsAssumption DEF Settings!Defaults, Settings!Setting, Settings!Levels
<1>n. {"agc", "squelch", "blanker", "notch", "deemphasis", "reduction", "attenuator", "colours",
       "aperture", "zoom"} = Settings!Settings
  BY DEF Settings!Settings
<1>1. CASE Settings!SwitchBlanker
  <2>1. 1 - p2["blanker"].level \in Settings!Levels
    BY <1>t, <1>n DEF Settings!Levels, Settings!Setting
  <2> QED  BY <1>1, <1>l, <1>n, <2>1, SettingsBoth DEF Settings!SwitchBlanker
<1>2. CASE Settings!SwitchNotch
  <2>1. 1 - p2["notch"].level \in Settings!Levels
    BY <1>t, <1>n DEF Settings!Levels, Settings!Setting
  <2> QED  BY <1>2, <1>l, <1>n, <2>1, SettingsBoth DEF Settings!SwitchNotch
<1>3. CASE Settings!LinkChanges
  <2>1. p1' \in BOOLEAN /\ p2' = p2 /\ p3' = Settings!Defaults /\ p4' = {} /\ p5' \in 0..MaxSettings
    BY <1>3, <1>t, PanelsAssumption DEF Settings!LinkChanges, Settings!Change
  <2> QED  BY <1>t, <1>d, <2>1 DEF SettingsInv, Settings!TypeOK, Settings!FiltersAsShown
<1>4. CASE Settings!Remount
  <2>1. p1' = p1 /\ p2' = Settings!Defaults /\ p3' = p3 /\ p4' = {} /\ p5' \in 0..MaxSettings
    BY <1>4, <1>t, PanelsAssumption DEF Settings!Remount, Settings!Change
  <2> QED  BY <1>t, <1>d, <2>1 DEF SettingsInv, Settings!TypeOK, Settings!FiltersAsShown
<1>5. ASSUME NEW l \in Settings!Levels, NEW k \in Knobs, Settings!ManualGain(l, k)
      PROVE  SettingsInv'
  <2>1. [level |-> l, knob |-> k] \in Settings!Setting  BY DEF Settings!Setting
  <2> QED  BY <1>5, <1>n, <2>1, SettingsBoth DEF Settings!ManualGain
<1>6. ASSUME NEW k \in Knobs, Settings!Hysteresis(k) \/ Settings!Gate(k) \/ Settings!NotchKnob(k)
      PROVE  SettingsInv'
  BY <1>6, SettingsKnob DEF Settings!Hysteresis, Settings!Gate, Settings!NotchKnob
<1>7. ASSUME NEW l \in Settings!Levels, Settings!Squelch(l)  PROVE SettingsInv'
  BY <1>7, <1>l, <1>n, SettingsBoth DEF Settings!Squelch
<1>8. ASSUME NEW l \in Settings!Levels, NEW s \in Settings!Settings, Settings!Choose(s, l)
      PROVE  SettingsInv'
  BY <1>8, <1>l, SettingsBoth DEF Settings!Choose
<1>9. CASE Settings!OthersTell("blanker")
  <2>1. PICK v \in Settings!Setting : p3' = [p3 EXCEPT !["blanker"] = v]
    BY <1>9 DEF Settings!OthersTell
  <2>2. p1 /\ p1' = p1 /\ p2' = p2 /\ p4' = p4 \ {"blanker"} /\ p5' \in 0..MaxSettings
    BY <1>9, <1>t, PanelsAssumption DEF Settings!OthersTell, Settings!Change
  <2>3. p3' \in [Settings!Settings -> Settings!Setting]  BY <1>t, <2>1
  <2>4. Settings!FiltersAsShown'
    BY <1>t, <2>1, <2>2 DEF SettingsInv, Settings!FiltersAsShown
  <2> QED  BY <1>t, <2>2, <2>3, <2>4 DEF SettingsInv, Settings!TypeOK
<1>10. CASE UNCHANGED SettingsVars
  BY <1>10 DEF SettingsVars, Settings!vars, SettingsInv, Settings!TypeOK, Settings!FiltersAsShown
<1> QED
  BY <1>1, <1>2, <1>3, <1>4, <1>5, <1>6, <1>7, <1>8, <1>9, <1>10, <1>n
  DEF Settings!Next, Settings!Deemphasis, Settings!Reduction, Settings!Attenuator,
      Settings!Colours, Settings!Aperture, Settings!Zoom

-----------------------------------------------------------------------------
(***************************************************************************)
(* The streams of the listening post: kind is p1, active p2, run p3, socks *)
(* p4, current p5, timer p6, ready p7, playing p8, breaks p9.              *)
(***************************************************************************)
StreamVars == Stream!vars

Socket == [run : 1..MaxEffects, state : {"connecting", "open", "closing", "closed"}]

StreamTypes ==
  /\ p1 \in {"sound", "waterfall"} /\ p2 \in BOOLEAN /\ p7 \in BOOLEAN /\ p8 \in BOOLEAN
  /\ p3 \in 0..MaxEffects /\ p9 \in 0..MaxBreaks
  /\ p4 \in Seq(Socket) /\ Len(p4) <= MaxSockets

(* A socket is of this run or of an earlier one; the current one is of     *)
(* this run, and there is one as long as the post needs it.                *)
StreamRuns ==
  /\ \A s \in 1..Len(p4) : p4[s].run <= p3
  /\ p2 => p5 \in 1..Len(p4) /\ p4[p5].run = p3
  /\ ~ p2 => p5 = 0

(* Of the sockets of this run only the current one is not closed.          *)
StreamOne ==
  /\ \A s \in 1..Len(p4) : p4[s].state = "open" => p2 /\ s = p5
  /\ p6 \subseteq {r \in {p3} : p2}
  /\ p2 => (p6 = {} <=> p4[p5].state # "closed")
  /\ p2 => \A s \in 1..Len(p4) : p4[s].run = p3 /\ p4[s].state # "closed" => s = p5
  /\ p1 = "sound" /\ (p7 \/ p8) => p2 /\ p4[p5].state = "open"

StreamInv == StreamTypes /\ StreamRuns /\ StreamOne

LEMMA StreamImplies == StreamInv => Stream!TypeOK /\ Stream!OneStream
<1> SUFFICES ASSUME StreamInv  PROVE Stream!TypeOK /\ Stream!OneStream
  OBVIOUS
<1>0. StreamTypes /\ StreamRuns /\ StreamOne  BY DEF StreamInv
<1>1. Stream!Sockets = 1..Len(p4)  BY <1>0 DEF StreamTypes, Stream!Sockets
<1>2. \A s \in 1..Len(p4) : p4[s] \in Socket  BY <1>0 DEF StreamTypes
<1>3. p6 \subseteq 1..MaxEffects
  <2>1. CASE p2
    <3>1. p6 \subseteq {p3} /\ p5 \in 1..Len(p4) /\ p4[p5].run = p3
      BY <1>0, <2>1 DEF StreamRuns, StreamOne
    <3>2. p4[p5].run \in 1..MaxEffects  BY <1>2, <3>1 DEF Socket
    <3> QED  BY <3>1, <3>2
  <2>2. CASE ~ p2
    BY <1>0, <2>2 DEF StreamOne
  <2> QED  BY <2>1, <2>2
<1>4. p5 \in Stream!Sockets \cup {0}  BY <1>0, <1>1 DEF StreamRuns, StreamTypes
<1>5. Stream!TypeOK
  BY <1>0, <1>1, <1>2, <1>3, <1>4 DEF Stream!TypeOK, StreamTypes, Socket
<1> DEFINE mine == {s \in Stream!Sockets : p4[s].run = p3 /\ p4[s].state # "closed"}
<1>6. p2 => (p6 = {} <=> \E s \in mine : s = p5)
  BY <1>0, <1>1 DEF StreamRuns, StreamOne
<1>7. p2 => mine \subseteq {p5}  BY <1>0, <1>1 DEF StreamOne
<1>8. p1 = "sound" /\ (p7 \/ p8) => p5 # 0 /\ p4[p5].state = "open"
  BY <1>0 DEF StreamRuns, StreamOne
<1>9. \A s \in Stream!Sockets : p4[s].state = "open" => p2 /\ s = p5
  BY <1>0, <1>1 DEF StreamOne
<1>10. p6 \subseteq {r \in {p3} : p2}  BY <1>0 DEF StreamOne
<1>11. Stream!OneStream  BY <1>6, <1>7, <1>8, <1>9, <1>10 DEF Stream!OneStream
<1> QED  BY <1>5, <1>11

LEMMA StreamInit == Stream!Init => StreamInv
<1> SUFFICES ASSUME Stream!Init  PROVE StreamInv
  OBVIOUS
<1>0. MaxEffects \in Nat /\ MaxBreaks \in Nat /\ MaxSockets \in Nat  BY PanelsAssumption
<1>1. p4 = <<>> /\ p2 = FALSE /\ p5 = 0 /\ p6 = {} /\ p7 = FALSE /\ p8 = FALSE
  BY DEF Stream!Init
<1>a. <<>> \in Seq(Socket) /\ Len(<<>>) = 0  OBVIOUS
<1>b. 0 \in 0..MaxEffects /\ 0 \in 0..MaxBreaks /\ 0 <= MaxSockets  BY <1>0
<1>2. StreamTypes  BY <1>a, <1>b, <1>1 DEF Stream!Init, StreamTypes
<1>3. StreamRuns /\ StreamOne  BY <1>1 DEF StreamRuns, StreamOne
<1> QED  BY <1>2, <1>3 DEF StreamInv

(* A new socket of this run, where no socket of the run is left.           *)
LEMMA StreamConnects ==
  ASSUME StreamTypes, StreamTypes', NEW ss \in Seq(Socket), NEW r \in 1..MaxEffects,
         p4' = Stream!Connected(ss, r), p5' = Len(p4'), p2' = TRUE, p3' = r, p6' = {},
         \A s \in 1..Len(ss) : ss[s].run <= r /\ ss[s].state # "open"
                               /\ (ss[s].run = r => ss[s].state = "closed"),
         p1' = "sound" => ~ p7' /\ ~ p8'
  PROVE  StreamRuns' /\ StreamOne'
<1>1. p4' = Append(ss, [run |-> r, state |-> "connecting"])  BY DEF Stream!Connected
<1>2. /\ Len(p4') = Len(ss) + 1 /\ p4'[Len(ss) + 1] = [run |-> r, state |-> "connecting"]
      /\ \A i \in 1..Len(ss) : p4'[i] = ss[i]
  BY <1>1
<1>3. Len(ss) \in Nat /\ 1..Len(p4') = 1..Len(ss) \cup {Len(ss) + 1} /\ p5' = Len(ss) + 1
  BY <1>2
<1>4. p4'[p5'].run = r /\ p4'[p5'].state = "connecting" /\ p5' \in 1..Len(p4')  BY <1>2, <1>3
<1>5. StreamRuns'  BY <1>2, <1>3, <1>4 DEF StreamRuns
<1>6. StreamOne'  BY <1>2, <1>3, <1>4 DEF StreamOne
<1> QED  BY <1>5, <1>6

LEMMA StreamNext == StreamInv /\ [Stream!Next]_StreamVars => StreamInv'
<1> SUFFICES ASSUME StreamInv, [Stream!Next]_StreamVars  PROVE StreamInv'
  OBVIOUS
<1>0. StreamTypes /\ StreamRuns /\ StreamOne  BY DEF StreamInv
<1>m. MaxEffects \in Nat /\ MaxBreaks \in Nat /\ MaxSockets \in Nat  BY PanelsAssumption
<1>s. /\ Stream!Sockets = 1..Len(p4) /\ Len(p4) \in Nat
      /\ \A s \in 1..Len(p4) : p4[s] \in Socket /\ p4[s].run \in 1..MaxEffects
  <2>1. p4 \in Seq(Socket)  BY <1>0 DEF StreamTypes
  <2>2. Stream!Sockets = 1..Len(p4) /\ Len(p4) \in Nat  BY <2>1 DEF Stream!Sockets
  <2>3. \A s \in 1..Len(p4) : p4[s] \in Socket  BY <2>1
  <2>4. \A s \in 1..Len(p4) : p4[s].run \in 1..MaxEffects  BY <2>3 DEF Socket
  <2> QED  BY <2>2, <2>3, <2>4
<1>e. ASSUME NEW s \in 1..Len(p4), NEW x \in {"connecting", "open", "closing", "closed"}
      PROVE  LET ss == [p4 EXCEPT ![s].state = x] IN
             /\ ss \in Seq(Socket) /\ Len(ss) = Len(p4)
             /\ \A i \in 1..Len(p4) : ss[i].run = p4[i].run
             /\ \A i \in 1..Len(p4) : ss[i].state = IF i = s THEN x ELSE p4[i].state
  <2> DEFINE v == [p4[s] EXCEPT !.state = x]
  <2>1. v \in Socket /\ v.run = p4[s].run /\ v.state = x  BY <1>s DEF Socket
  <2> DEFINE ss == [p4 EXCEPT ![s].state = x]
  <2>2. ss = [p4 EXCEPT ![s] = v]  OBVIOUS
  <2> HIDE DEF v
  <2>3. ss \in Seq(Socket) /\ Len(ss) = Len(p4)  BY <1>0, <2>1, <2>2 DEF StreamTypes
  <2>4. \A i \in 1..Len(p4) : ss[i] = IF i = s THEN v ELSE p4[i]
    BY <1>0, <2>2 DEF StreamTypes
  <2>5. \A i \in 1..Len(p4) : ss[i].run = p4[i].run  BY <2>1, <2>4
  <2>6. \A i \in 1..Len(p4) : ss[i].state = IF i = s THEN x ELSE p4[i].state  BY <2>1, <2>4
  <2> QED  BY <2>3, <2>5, <2>6
<1>c. /\ Stream!CleanedUp \in Seq(Socket) /\ Len(Stream!CleanedUp) = Len(p4)
      /\ \A i \in 1..Len(p4) : Stream!CleanedUp[i].run = p4[i].run /\ Stream!CleanedUp[i].state # "open"
  <2>1. CASE ~ p2
    <3>1. Stream!CleanedUp = p4  BY <1>0, <2>1 DEF Stream!CleanedUp, StreamRuns
    <3> QED  BY <1>0, <2>1, <3>1 DEF StreamTypes, StreamOne
  <2>2. CASE p2
    <3>1. p5 \in 1..Len(p4)  BY <1>0, <2>2 DEF StreamRuns
    <3>2. CASE Stream!CleanedUp = p4
      <4>1. p4[p5].state # "open"
        <5>1. SUFFICES ASSUME p4[p5].state = "open"  PROVE FALSE
          OBVIOUS
        <5>2. Stream!CleanedUp = [p4 EXCEPT ![p5].state = "closing"]
          BY <3>1, <5>1, <1>s DEF Stream!CleanedUp
        <5>3. Stream!CleanedUp[p5].state = "closing"  BY <1>e, <3>1, <5>2
        <5> QED  BY <3>2, <5>1, <5>3
      <4> QED  BY <1>0, <3>2, <4>1 DEF StreamTypes, StreamOne
    <3>3. CASE Stream!CleanedUp = [p4 EXCEPT ![p5].state = "closing"]
      <4>1. \A i \in 1..Len(p4) : i # p5 => p4[i].state # "open"  BY <1>0 DEF StreamOne
      <4> DEFINE ss == Stream!CleanedUp
      <4>2. /\ ss \in Seq(Socket) /\ Len(ss) = Len(p4)
            /\ \A i \in 1..Len(p4) : ss[i].run = p4[i].run
            /\ \A i \in 1..Len(p4) : ss[i].state = IF i = p5 THEN "closing" ELSE p4[i].state
        BY <1>e, <3>1, <3>3
      <4> HIDE DEF ss
      <4>3. \A i \in 1..Len(p4) : ss[i].state # "open"  BY <4>1, <4>2
      <4>4. /\ ss \in Seq(Socket) /\ Len(ss) = Len(p4)
            /\ \A i \in 1..Len(p4) : ss[i].run = p4[i].run /\ ss[i].state # "open"
        BY <4>2, <4>3
      <4> QED  BY <4>4 DEF ss
    <3> QED  BY <3>2, <3>3 DEF Stream!CleanedUp
  <2> QED  BY <1>0, <2>1, <2>2 DEF StreamTypes
<1>1. CASE Stream!Activate
  <2>1. /\ p2 = FALSE /\ p2' = TRUE /\ p3' = p3 + 1 /\ p3 < MaxEffects /\ Len(p4) < MaxSockets
        /\ p4' = Stream!Connected(p4, p3') /\ p5' = Len(p4')
        /\ p1' = p1 /\ p6' = p6 /\ p7' = p7 /\ p8' = p8 /\ p9' = p9
    BY <1>1, <1>0 DEF Stream!Activate, StreamTypes
  <2>2. p3' \in 1..MaxEffects  BY <1>0, <1>m, <2>1 DEF StreamTypes
  <2>3. p4' \in Seq(Socket) /\ Len(p4') = Len(p4) + 1
    BY <1>0, <2>1, <2>2 DEF Stream!Connected, StreamTypes, Socket
  <2>4. StreamTypes'
    BY <1>0, <1>m, <1>s, <2>1, <2>2, <2>3 DEF StreamTypes
  <2>5. p6' = {}  BY <1>0, <2>1 DEF StreamOne
  <2>6. \A s \in 1..Len(p4) : p4[s].run <= p3' /\ p4[s].state # "open"
                              /\ (p4[s].run = p3' => p4[s].state = "closed")
    BY <1>0, <1>s, <2>1 DEF StreamRuns, StreamOne, StreamTypes
  <2>7. p1' = "sound" => ~ p7' /\ ~ p8'  BY <1>0, <2>1 DEF StreamOne
  <2>8. p4 \in Seq(Socket)  BY <1>0 DEF StreamTypes
  <2> QED  BY <1>0, <2>1, <2>2, <2>4, <2>5, <2>6, <2>7, <2>8, StreamConnects DEF StreamInv
<1>2. CASE Stream!Deactivate
  <2>1. /\ p2 /\ p2' = FALSE /\ p4' = Stream!CleanedUp /\ p5' = 0 /\ p6' = {}
        /\ p7' = (p7 /\ p1 = "waterfall") /\ p8' = FALSE
        /\ p1' = p1 /\ p3' = p3 /\ p9' = p9
    BY <1>2 DEF Stream!Deactivate
  <2>2. StreamTypes'  BY <1>0, <1>c, <2>1 DEF StreamTypes
  <2>3. StreamRuns'  BY <1>0, <1>c, <2>1 DEF StreamRuns
  <2>4. StreamOne'  BY <1>c, <2>1 DEF StreamOne
  <2> QED  BY <2>2, <2>3, <2>4 DEF StreamInv
<1>3. CASE Stream!AnalyserChanges
  <2>1. /\ p1 = "waterfall" /\ p2 /\ p2' = p2 /\ p3' = p3 + 1 /\ p3 < MaxEffects
        /\ Len(p4) < MaxSockets
        /\ p4' = Stream!Connected(Stream!CleanedUp, p3') /\ p5' = Len(p4') /\ p6' = {}
        /\ p1' = p1 /\ p7' = p7 /\ p8' = p8 /\ p9' = p9
    BY <1>3 DEF Stream!AnalyserChanges
  <2>2. p3' \in 1..MaxEffects  BY <1>0, <1>m, <2>1 DEF StreamTypes
  <2>3. p4' \in Seq(Socket) /\ Len(p4') = Len(p4) + 1
    BY <1>c, <2>1, <2>2 DEF Stream!Connected, Socket
  <2>4. StreamTypes'
    BY <1>0, <1>m, <1>s, <2>1, <2>2, <2>3 DEF StreamTypes
  <2>6. \A s \in 1..Len(Stream!CleanedUp) :
          /\ Stream!CleanedUp[s].run <= p3' /\ Stream!CleanedUp[s].state # "open"
          /\ Stream!CleanedUp[s].run = p3' => Stream!CleanedUp[s].state = "closed"
    BY <1>0, <1>s, <1>c, <2>1 DEF StreamRuns, StreamTypes
  <2>8. Stream!CleanedUp \in Seq(Socket)  BY <1>c
  <2> QED  BY <1>0, <2>1, <2>2, <2>4, <2>6, <2>8, StreamConnects DEF StreamInv
<1>4. ASSUME NEW s \in 1..Len(p4), Stream!Opens(s)  PROVE StreamInv'
  <2>0. /\ p4[s].state = "connecting" /\ p1' = p1 /\ p2' = p2 /\ p3' = p3 /\ p5' = p5 /\ p6' = p6
        /\ p8' = p8 /\ p9' = p9
    BY <1>4 DEF Stream!Opens
  <2>1. CASE Stream!Live(p4[s].run)
    <3>1. p4' = [p4 EXCEPT ![s].state = "open"] /\ p7' = (p7 \/ p1 = "sound")
      BY <1>4, <2>1 DEF Stream!Opens
    <3>2. p2 /\ s = p5  BY <1>0, <2>0, <2>1 DEF Stream!Live, StreamOne
    <3>3. /\ p4' \in Seq(Socket) /\ Len(p4') = Len(p4)
          /\ \A i \in 1..Len(p4) : p4'[i].run = p4[i].run
          /\ \A i \in 1..Len(p4) : p4'[i].state = IF i = s THEN "open" ELSE p4[i].state
      BY <1>e, <3>1
    <3>4. StreamTypes'  BY <1>0, <2>0, <3>1, <3>3 DEF StreamTypes
    <3>5. StreamRuns'  BY <1>0, <2>0, <3>3 DEF StreamRuns
    <3>6. StreamOne'  BY <1>0, <2>0, <3>2, <3>3 DEF StreamOne
    <3> QED  BY <3>4, <3>5, <3>6 DEF StreamInv
  <2>2. CASE ~ Stream!Live(p4[s].run)
    <3>1. p4' = [p4 EXCEPT ![s].state = "closing"] /\ p7' = p7
      BY <1>4, <2>2 DEF Stream!Opens
    <3>2. p2 => s # p5 /\ p4[s].run # p3  BY <1>0, <2>2 DEF Stream!Live, StreamRuns
    <3>3. /\ p4' \in Seq(Socket) /\ Len(p4') = Len(p4)
          /\ \A i \in 1..Len(p4) : p4'[i].run = p4[i].run
          /\ \A i \in 1..Len(p4) : p4'[i].state = IF i = s THEN "closing" ELSE p4[i].state
      BY <1>e, <3>1
    <3>4. StreamTypes'  BY <1>0, <2>0, <3>1, <3>3 DEF StreamTypes
    <3>5. StreamRuns'  BY <1>0, <2>0, <3>3 DEF StreamRuns
    <3>6. StreamOne'  BY <1>0, <2>0, <3>1, <3>2, <3>3 DEF StreamOne, StreamRuns
    <3> QED  BY <3>4, <3>5, <3>6 DEF StreamInv
  <2> QED  BY <2>1, <2>2
<1>5. ASSUME NEW s \in 1..Len(p4), Stream!Closed(s), p4[s].state # "closed",
             p1' = p1, p2' = p2, p3' = p3, p5' = p5, p9' \in 0..MaxBreaks
      PROVE  StreamInv'
  <2>1. /\ p4' = [p4 EXCEPT ![s].state = "closed"]
        /\ p7' = (p7 /\ p1 = "waterfall" /\ ~ Stream!Live(p4[s].run))
        /\ p8' = (p8 /\ p1 = "waterfall")
        /\ p6' = p6 \cup {r \in {p4[s].run} : Stream!Live(r)}
    BY <1>5 DEF Stream!Closed
  <2>2. /\ p4' \in Seq(Socket) /\ Len(p4') = Len(p4)
        /\ \A i \in 1..Len(p4) : p4'[i].run = p4[i].run
        /\ \A i \in 1..Len(p4) : p4'[i].state = IF i = s THEN "closed" ELSE p4[i].state
    BY <1>e, <2>1
  <2>3. p7' \in BOOLEAN /\ p8' \in BOOLEAN /\ (p1' = "sound" => ~ p7' /\ ~ p8')
    BY <1>5, <2>1
  <2>4. StreamTypes'  BY <1>0, <1>5, <2>2, <2>3 DEF StreamTypes
  <2>5. StreamRuns'  BY <1>0, <1>5, <2>2 DEF StreamRuns
  <2>6. CASE p2 /\ s = p5
    <3>1. p4[s].run = p3  BY <1>0, <2>6 DEF StreamRuns
    <3>2. p6' = {p3}  BY <1>0, <2>1, <2>6, <3>1 DEF Stream!Live, StreamOne
    <3>3. StreamOne'  BY <1>0, <1>5, <2>2, <2>3, <2>6, <3>2 DEF StreamOne
    <3> QED  BY <2>4, <2>5, <3>3 DEF StreamInv
  <2>7. CASE ~ (p2 /\ s = p5)
    <3>1. ~ Stream!Live(p4[s].run)  BY <1>0, <1>5, <2>7 DEF Stream!Live, StreamOne
    <3>2. p6' = p6  BY <2>1, <3>1
    <3>3. \A i \in 1..Len(p4) : p4'[i].state = "open" => p2 /\ i = p5
      BY <1>0, <2>2 DEF StreamOne
    <3>4. p2 => p5 # s /\ p5 \in 1..Len(p4) /\ p4'[p5].state = p4[p5].state
      BY <1>0, <2>2, <2>7 DEF StreamRuns
    <3>5. p2' => (p6' = {} <=> p4'[p5].state # "closed")
      BY <1>0, <1>5, <3>2, <3>4 DEF StreamOne
    <3>6. p2' => \A i \in 1..Len(p4) : p4'[i].run = p3 /\ p4'[i].state # "closed" => i = p5
      BY <1>0, <1>5, <2>2 DEF StreamOne
    <3>7. p6' \subseteq {r \in {p3'} : p2'}
      BY <1>0, <1>5, <3>2 DEF StreamOne
    <3>8. StreamOne'  BY <1>5, <2>2, <2>3, <3>3, <3>5, <3>6, <3>7 DEF StreamOne
    <3> QED  BY <2>4, <2>5, <3>8 DEF StreamInv
  <2> QED  BY <2>6, <2>7
<1>6. ASSUME NEW s \in 1..Len(p4), Stream!Closes(s)  PROVE StreamInv'
  <2>1. Stream!Closed(s) /\ p4[s].state = "closing" /\ UNCHANGED <<p1, p2, p3, p5, p9>>
    BY <1>6 DEF Stream!Closes
  <2>2. p9' \in 0..MaxBreaks  BY <1>0, <2>1 DEF StreamTypes
  <2> QED  BY <1>5, <2>1, <2>2
<1>7. ASSUME NEW s \in 1..Len(p4), Stream!Breaks(s)  PROVE StreamInv'
  <2>1. /\ Stream!Closed(s) /\ p4[s].state \in {"connecting", "open"} /\ UNCHANGED <<p1, p2, p3, p5>>
        /\ p9 < MaxBreaks /\ p9' = p9 + 1
    BY <1>7 DEF Stream!Breaks
  <2>2. p9' \in 0..MaxBreaks  BY <1>0, <1>m, <2>1 DEF StreamTypes
  <2> QED  BY <1>5, <2>1, <2>2
<1>8. ASSUME NEW r \in p6, Stream!Reconnect(r)  PROVE StreamInv'
  <2>1. /\ Len(p4) < MaxSockets /\ p6' = p6 \ {r} /\ p4' = Stream!Connected(p4, r) /\ p5' = Len(p4')
        /\ UNCHANGED <<p1, p2, p3, p7, p8, p9>>
    BY <1>8 DEF Stream!Reconnect
  <2>2. r = p3 /\ p2 = TRUE /\ p6' = {} /\ p3' = r /\ p2' = TRUE
    BY <1>0, <2>1 DEF StreamOne, StreamTypes
  <2>3. p4[p5].state = "closed" /\ p5 \in 1..Len(p4) /\ r \in 1..MaxEffects
    BY <1>0, <1>s, <2>2 DEF StreamOne, StreamRuns
  <2>4. p4' \in Seq(Socket) /\ Len(p4') = Len(p4) + 1
    BY <1>0, <2>1, <2>3 DEF Stream!Connected, StreamTypes, Socket
  <2>5. StreamTypes'  BY <1>0, <1>m, <1>s, <2>1, <2>4 DEF StreamTypes
  <2>6. \A s \in 1..Len(p4) : p4[s].run <= r /\ p4[s].state # "open"
                              /\ (p4[s].run = r => p4[s].state = "closed")
    BY <1>0, <2>2, <2>3 DEF StreamRuns, StreamOne
  <2>7. p1' = "sound" => ~ p7' /\ ~ p8'  BY <1>0, <2>1, <2>3 DEF StreamOne
  <2>8. p4 \in Seq(Socket)  BY <1>0 DEF StreamTypes
  <2> QED  BY <1>0, <2>1, <2>2, <2>3, <2>5, <2>6, <2>7, <2>8, StreamConnects DEF StreamInv
<1>9. ASSUME NEW s \in 1..Len(p4), Stream!Data(s)  PROVE StreamInv'
  <2>1. UNCHANGED <<p1, p2, p3, p4, p5, p6, p9>> /\ p4[s].state = "open"
    BY <1>9 DEF Stream!Data
  <2>2. p7' \in BOOLEAN /\ p8' \in BOOLEAN  BY <1>0, <1>9 DEF Stream!Data, StreamTypes
  <2>3. StreamTypes' /\ StreamRuns'  BY <1>0, <2>1, <2>2 DEF StreamTypes, StreamRuns
  <2>4. p2 /\ s = p5  BY <1>0, <2>1 DEF StreamOne
  <2>5. StreamOne'  BY <1>0, <2>1, <2>4 DEF StreamOne
  <2> QED  BY <2>3, <2>5 DEF StreamInv
<1>10. CASE Stream!Watchdog
  <2>1. UNCHANGED <<p1, p2, p3, p4, p5, p6, p9>>  BY <1>10 DEF Stream!Watchdog
  <2>2. (p7' = p7 \/ p7' = FALSE) /\ (p8' = p8 \/ p8' = FALSE)  BY <1>10 DEF Stream!Watchdog
  <2>3. StreamTypes' /\ StreamRuns'  BY <1>0, <2>1, <2>2 DEF StreamTypes, StreamRuns
  <2>5. StreamOne'  BY <1>0, <2>1, <2>2 DEF StreamOne
  <2> QED  BY <2>3, <2>5 DEF StreamInv
<1>11. CASE UNCHANGED StreamVars
  BY <1>0, <1>11 DEF StreamVars, Stream!vars, StreamInv, StreamTypes, StreamRuns, StreamOne
<1> QED
  BY <1>1, <1>2, <1>3, <1>4, <1>6, <1>7, <1>8, <1>9, <1>10, <1>11, <1>s DEF Stream!Next

-----------------------------------------------------------------------------
(***************************************************************************)
(* The layout: view is p1, compact p2, panel p3, tools p4, menus p5,       *)
(* selected p6, analyst p7, article p8, content p9, fetching p10, loading  *)
(* p11, resized p12, steps p13.                                            *)
(***************************************************************************)
LayoutVars == Layout!vars

LayoutSurfaces ==
  /\ p1 \in Layout!Views /\ p2 \in BOOLEAN /\ p3 \in {"map", "left", "right", "status"}
  /\ p4 \in BOOLEAN /\ p5 \subseteq Layout!Menus
  /\ p6 \in {"none", "thing", "sitrep"} /\ p7 \in BOOLEAN /\ p12 \in BOOLEAN /\ p13 \in 0..MaxSteps
  /\ \A m, n \in p5 : m = n
  /\ p5 # {} => ~ p4 /\ p3 = "map"
  /\ p4 => p3 = "map"
  /\ p6 = "sitrep" => p7

(* Until the layout changes, a wide screen has no drawer.                  *)
LayoutFilled == ~ p12 => Layout!Has(p3) /\ (~ p2 => p3 = "map")

(* What is asked for is the article that is open.                          *)
LayoutReader ==
  /\ p8 \in Articles \cup {0} /\ p9 \in Articles \cup {0} /\ p10 \subseteq Articles
  /\ p11 \in BOOLEAN
  /\ \A a \in p10 : a = p8
  /\ ~ p11 /\ p9 # 0 => p9 = p8
  /\ p11 => p8 \in p10

LayoutInv == LayoutSurfaces /\ LayoutFilled /\ LayoutReader

LEMMA LayoutImplies == LayoutInv => Layout!TypeOK /\ Layout!OneSurface /\ Layout!ShownTogether
  BY DEF LayoutInv, LayoutSurfaces, LayoutFilled, LayoutReader, Layout!TypeOK, Layout!OneSurface,
         Layout!ShownTogether, Layout!Nothing

LEMMA LayoutInit == Layout!Init => LayoutInv
<1> SUFFICES ASSUME Layout!Init  PROVE LayoutInv
  OBVIOUS
<1>m. 0 \in 0..MaxSteps  BY PanelsAssumption
<1>1. LayoutSurfaces  BY <1>m DEF Layout!Init, LayoutSurfaces
<1>2. LayoutFilled  BY DEF Layout!Init, LayoutFilled, Layout!Has
<1>3. LayoutReader  BY DEF Layout!Init, LayoutReader, Layout!Nothing
<1> QED  BY <1>1, <1>2, <1>3 DEF LayoutInv

LEMMA LayoutNext == LayoutInv /\ [Layout!Next]_LayoutVars => LayoutInv'
<1> SUFFICES ASSUME LayoutInv, [Layout!Next]_LayoutVars  PROVE LayoutInv'
  OBVIOUS
<1>s. LayoutSurfaces /\ LayoutFilled /\ LayoutReader  BY DEF LayoutInv
<1>u. ASSUME Layout!User  PROVE p13' \in 0..MaxSteps
  BY <1>u, <1>s, PanelsAssumption DEF Layout!User, LayoutSurfaces
<1>r. ASSUME UNCHANGED <<p8, p9, p10, p11>>  PROVE LayoutReader'
  BY <1>r, <1>s DEF LayoutReader
<1> USE DEF LayoutFilled, Layout!Has, Layout!HasLeft, Layout!HasRight, Layout!HasStatus,
            Layout!CloseMenus, Layout!CloseDrawers, Layout!surfaces, Layout!reader
<1>1. ASSUME NEW p \in {"map", "left", "right", "status"}, Layout!OpenPanel(p)  PROVE LayoutInv'
  <2>1. LayoutSurfaces'  BY <1>1, <1>s, <1>u DEF Layout!OpenPanel, LayoutSurfaces
  <2>2. LayoutFilled'  BY <1>1, <1>s DEF Layout!OpenPanel
  <2>3. LayoutReader'  BY <1>1, <1>r DEF Layout!OpenPanel
  <2> QED  BY <2>1, <2>2, <2>3 DEF LayoutInv
<1>2. CASE Layout!ClosePanel
  <2>1. LayoutSurfaces'  BY <1>2, <1>s, <1>u DEF Layout!ClosePanel, LayoutSurfaces
  <2>2. LayoutFilled'  BY <1>2, <1>s DEF Layout!ClosePanel
  <2>3. LayoutReader'  BY <1>2, <1>r DEF Layout!ClosePanel
  <2> QED  BY <2>1, <2>2, <2>3 DEF LayoutInv
<1>3. CASE Layout!ToggleTools
  <2>1. LayoutSurfaces'  BY <1>3, <1>s, <1>u DEF Layout!ToggleTools, LayoutSurfaces
  <2>2. LayoutFilled'  BY <1>3, <1>s DEF Layout!ToggleTools
  <2>3. LayoutReader'  BY <1>3, <1>r DEF Layout!ToggleTools
  <2> QED  BY <2>1, <2>2, <2>3 DEF LayoutInv
<1>4. ASSUME NEW m \in Layout!Menus, Layout!ToggleMenu(m)  PROVE LayoutInv'
  <2>1. LayoutSurfaces'  BY <1>4, <1>s, <1>u DEF Layout!ToggleMenu, LayoutSurfaces
  <2>2. LayoutFilled'  BY <1>4, <1>s DEF Layout!ToggleMenu
  <2>3. LayoutReader'  BY <1>4, <1>r DEF Layout!ToggleMenu
  <2> QED  BY <2>1, <2>2, <2>3 DEF LayoutInv
<1>5. ASSUME NEW m \in Layout!Menus, Layout!CloseMenu(m)  PROVE LayoutInv'
  <2>1. LayoutSurfaces'  BY <1>5, <1>s, <1>u DEF Layout!CloseMenu, LayoutSurfaces
  <2>2. LayoutFilled'  BY <1>5, <1>s DEF Layout!CloseMenu
  <2>3. LayoutReader'  BY <1>5, <1>r DEF Layout!CloseMenu
  <2> QED  BY <2>1, <2>2, <2>3 DEF LayoutInv
<1>6. CASE Layout!Escape
  <2>1. LayoutSurfaces'  BY <1>6, <1>s, <1>u DEF Layout!Escape, LayoutSurfaces
  <2>2. LayoutFilled'  BY <1>6, <1>s DEF Layout!Escape
  <2>3. LayoutReader'  BY <1>6, <1>r DEF Layout!Escape
  <2> QED  BY <2>1, <2>2, <2>3 DEF LayoutInv
<1>7. CASE Layout!Resize
  <2>1. LayoutSurfaces'  BY <1>7, <1>s, <1>u DEF Layout!Resize, LayoutSurfaces
  <2>2. LayoutFilled'  BY <1>7, <1>s DEF Layout!Resize
  <2>3. LayoutReader'  BY <1>7, <1>r DEF Layout!Resize
  <2> QED  BY <2>1, <2>2, <2>3 DEF LayoutInv
<1>8. CASE Layout!SelectEntity
  <2>1. LayoutSurfaces'
    BY <1>8, <1>s, <1>u DEF Layout!SelectEntity, Layout!SelectionEffect, LayoutSurfaces
  <2>2. LayoutFilled'  BY <1>8, <1>s DEF Layout!SelectEntity, Layout!SelectionEffect
  <2>3. LayoutReader'  BY <1>8, <1>r DEF Layout!SelectEntity
  <2> QED  BY <2>1, <2>2, <2>3 DEF LayoutInv
<1>9. CASE Layout!Deselect
  <2>1. LayoutSurfaces'
    BY <1>9, <1>s, <1>u DEF Layout!Deselect, Layout!SelectionEffect, LayoutSurfaces
  <2>2. LayoutFilled'  BY <1>9, <1>s DEF Layout!Deselect, Layout!SelectionEffect, LayoutSurfaces
  <2>3. LayoutReader'  BY <1>9, <1>r DEF Layout!Deselect
  <2> QED  BY <2>1, <2>2, <2>3 DEF LayoutInv
<1>10. CASE Layout!GenerateSitrep
  <2>1. LayoutSurfaces'
    BY <1>10, <1>s, <1>u DEF Layout!GenerateSitrep, Layout!SelectionEffect, LayoutSurfaces
  <2>2. LayoutFilled'  BY <1>10, <1>s DEF Layout!GenerateSitrep, Layout!SelectionEffect
  <2>3. LayoutReader'  BY <1>10, <1>r DEF Layout!GenerateSitrep
  <2> QED  BY <2>1, <2>2, <2>3 DEF LayoutInv
<1>11. CASE Layout!OpenAnalyst
  <2>1. LayoutSurfaces'  BY <1>11, <1>s, <1>u DEF Layout!OpenAnalyst, LayoutSurfaces
  <2>2. LayoutFilled'  BY <1>11, <1>s DEF Layout!OpenAnalyst
  <2>3. LayoutReader'  BY <1>11, <1>r DEF Layout!OpenAnalyst
  <2> QED  BY <2>1, <2>2, <2>3 DEF LayoutInv
<1>12. CASE Layout!CloseAnalyst
  <2>1. LayoutSurfaces'  BY <1>12, <1>s, <1>u DEF Layout!CloseAnalyst, LayoutSurfaces
  <2>2. LayoutFilled'  BY <1>12, <1>s DEF Layout!CloseAnalyst, LayoutSurfaces
  <2>3. LayoutReader'  BY <1>12, <1>r DEF Layout!CloseAnalyst
  <2> QED  BY <2>1, <2>2, <2>3 DEF LayoutInv
<1>13. ASSUME NEW v \in Layout!Views, NEW p, Layout!ViewEffects(v, p)  PROVE LayoutReader'
  <2>1. CASE v \in {"INTEL", "TACTICAL"}
    BY <1>13, <2>1, <1>r DEF Layout!ViewEffects
  <2>2. CASE v \notin {"INTEL", "TACTICAL"}
    <3>1. p8' = 0 /\ p9' = 0 /\ p10' = {} /\ p11' = FALSE
      BY <1>13, <2>2 DEF Layout!ViewEffects, Layout!Nothing
    <3> QED  BY <3>1 DEF LayoutReader
  <2> QED  BY <2>1, <2>2
<1>14. ASSUME NEW v \in Layout!Views, Layout!SwitchTab(v)  PROVE LayoutInv'
  <2>1. LayoutSurfaces'
    BY <1>14, <1>s, <1>u DEF Layout!SwitchTab, Layout!ViewEffects, LayoutSurfaces
  <2>2. LayoutFilled'  BY <1>14, <1>s DEF Layout!SwitchTab, Layout!ViewEffects
  <2>3. LayoutReader'  BY <1>14, <1>13 DEF Layout!SwitchTab
  <2> QED  BY <2>1, <2>2, <2>3 DEF LayoutInv
<1>15. ASSUME NEW v \in Layout!Views, Layout!SwitchMobile(v)  PROVE LayoutInv'
  <2>1. LayoutSurfaces'
    BY <1>15, <1>s, <1>u DEF Layout!SwitchMobile, Layout!ViewEffects, LayoutSurfaces
  <2>2. LayoutFilled'  BY <1>15, <1>s DEF Layout!SwitchMobile, Layout!ViewEffects
  <2>3. LayoutReader'  BY <1>15, <1>13 DEF Layout!SwitchMobile
  <2> QED  BY <2>1, <2>2, <2>3 DEF LayoutInv
<1>16. ASSUME NEW a \in Articles, Layout!OpenArticle(a)  PROVE LayoutInv'
  <2>1. LayoutSurfaces'  BY <1>16, <1>s, <1>u DEF Layout!OpenArticle, LayoutSurfaces
  <2>2. LayoutFilled'  BY <1>16, <1>s DEF Layout!OpenArticle
  <2>3. LayoutReader'  BY <1>16, <1>s DEF Layout!OpenArticle, LayoutReader
  <2> QED  BY <2>1, <2>2, <2>3 DEF LayoutInv
<1>17. CASE Layout!CloseArticle
  <2>1. LayoutSurfaces'  BY <1>17, <1>s, <1>u DEF Layout!CloseArticle, LayoutSurfaces
  <2>2. LayoutFilled'  BY <1>17, <1>s DEF Layout!CloseArticle
  <2>3. LayoutReader'  BY <1>17, <1>s DEF Layout!CloseArticle, LayoutReader, Layout!Nothing
  <2> QED  BY <2>1, <2>2, <2>3 DEF LayoutInv
<1>18. ASSUME NEW a \in Articles, Layout!ArticleAnswer(a)  PROVE LayoutInv'
  <2>1. LayoutSurfaces'  BY <1>18, <1>s DEF Layout!ArticleAnswer, LayoutSurfaces
  <2>2. LayoutFilled'  BY <1>18, <1>s DEF Layout!ArticleAnswer
  <2>3. LayoutReader'  BY <1>18, <1>s DEF Layout!ArticleAnswer, LayoutReader, Layout!Nothing
  <2> QED  BY <2>1, <2>2, <2>3 DEF LayoutInv
<1>19. CASE UNCHANGED LayoutVars
  <2>1. UNCHANGED <<p1, p2, p3, p4, p5, p6, p7, p8, p9, p10, p11, p12, p13>>
    BY <1>19 DEF LayoutVars, Layout!vars
  <2>2. LayoutSurfaces' /\ LayoutFilled'  BY <1>s, <2>1 DEF LayoutSurfaces
  <2>3. LayoutReader'  BY <1>r, <2>1
  <2> QED  BY <2>2, <2>3 DEF LayoutInv
<1> QED
  BY <1>1, <1>2, <1>3, <1>4, <1>5, <1>6, <1>7, <1>8, <1>9, <1>10, <1>11, <1>12, <1>14, <1>15,
     <1>16, <1>17, <1>18, <1>19 DEF Layout!Next

-----------------------------------------------------------------------------
(***************************************************************************)
(* Accounts: accounts is p1, requests p2, list p3, loading p4, creating    *)
(* p5, raced p6, asked p7.                                                 *)
(***************************************************************************)
AdminVars == Admin!vars

Table == UNION {[S -> Admin!Account] : S \in SUBSET People}
Asked ==
  [n : Nat, by : Administrators, what : {"list", "role", "on", "off", "create"}, who : People,
   value : Admin!Roles, at : {"sent", "authorised", "refused", "counted", "written"},
   after : {"list", "role", "on", "off", "create"}, counted : SUBSET People, result : Table]

AdminTypes ==
  /\ p1 \in Table /\ p2 \subseteq Asked
  /\ p3 \in [Administrators -> Table]
  /\ p4 \in [Administrators -> BOOLEAN] /\ p5 \in [Administrators -> BOOLEAN]
  /\ p6 \in BOOLEAN /\ p7 \in 0..MaxRequests

(* What takes away an administrator is not asked of oneself, and a count   *)
(* that let it pass has somebody else in it.                               *)
AdminAsks ==
  \A q \in p2 : /\ q.what \in {"role", "off"} => q.by # q.who
                /\ q.at = "counted" => q.what = "off" /\ (p6 \/ \E u \in q.counted : u # q.who)

AdminInv == AdminTypes /\ AdminAsks /\ Admin!AnAdminRemains

LEMMA TableFacts ==
  ASSUME NEW t
  PROVE  t \in Table <=> /\ t = [u \in DOMAIN t |-> t[u]] /\ DOMAIN t \subseteq People
                         /\ \A u \in DOMAIN t : t[u] \in Admin!Account
<1>1. ASSUME t \in Table
      PROVE  /\ t = [u \in DOMAIN t |-> t[u]] /\ DOMAIN t \subseteq People
             /\ \A u \in DOMAIN t : t[u] \in Admin!Account
  <2>1. PICK S \in SUBSET People : t \in [S -> Admin!Account]  BY <1>1 DEF Table
  <2> QED  BY <2>1
<1>2. ASSUME t = [u \in DOMAIN t |-> t[u]], DOMAIN t \subseteq People,
             \A u \in DOMAIN t : t[u] \in Admin!Account
      PROVE  t \in Table
  <2>1. t \in [DOMAIN t -> Admin!Account]  BY <1>2
  <2> QED  BY <1>2, <2>1 DEF Table
<1> QED  BY <1>1, <1>2

LEMMA AdminImplies == AdminInv => Admin!TypeOK /\ Admin!AnAdminRemains
<1> SUFFICES ASSUME AdminInv  PROVE Admin!TypeOK
  BY DEF AdminInv
<1>0. AdminTypes  BY DEF AdminInv
<1>1. DOMAIN p1 \subseteq People /\ \A u \in DOMAIN p1 : p1[u] \in Admin!Account
  BY <1>0, TableFacts DEF AdminTypes
<1>2. \A a \in Administrators : DOMAIN p3[a] \subseteq People
  <2> SUFFICES ASSUME NEW a \in Administrators  PROVE DOMAIN p3[a] \subseteq People
    OBVIOUS
  <2>1. p3[a] \in Table  BY <1>0 DEF AdminTypes
  <2> QED  BY <2>1, TableFacts
<1> QED  BY <1>0, <1>1, <1>2 DEF AdminTypes, Admin!TypeOK

LEMMA AdminInit == Admin!Init => AdminInv
<1> SUFFICES ASSUME Admin!Init  PROVE AdminInv
  OBVIOUS
<1> DEFINE root == [role |-> "admin", active |-> TRUE]
<1>0. /\ Administrators \subseteq People /\ MaxRequests \in Nat
      /\ \E u \in Administrators : TRUE
  BY PanelsAssumption
<1>1. p1 = [u \in Administrators |-> root] /\ p2 = {} /\ p6 = FALSE /\ p7 = 0
      /\ p3 = [a \in Administrators |-> p1] /\ p4 = [a \in Administrators |-> FALSE] /\ p5 = p4
  BY DEF Admin!Init
<1>2. root \in Admin!Account  BY DEF Admin!Account, Admin!Roles
<1>3. p1 \in [Administrators -> Admin!Account]  BY <1>1, <1>2
<1>4. p1 \in Table  BY <1>0, <1>3 DEF Table
<1>5. 0 \in 0..MaxRequests  BY <1>0
<1>6. AdminTypes  BY <1>1, <1>4, <1>5 DEF AdminTypes
<1>7. AdminAsks  BY <1>1 DEF AdminAsks
<1>8. Admin!AnAdminRemains
  <2>1. PICK u \in Administrators : TRUE  BY <1>0
  <2>2. u \in DOMAIN p1 /\ p1[u] = root  BY <1>1, <2>1
  <2>3. u \in Admin!Admins  BY <2>2 DEF Admin!Admins, Admin!IsAdmin
  <2> QED  BY <2>3 DEF Admin!AnAdminRemains
<1> QED  BY <1>6, <1>7, <1>8 DEF AdminInv

(* An entry other than that of q.who stays as it was.                      *)
LEMMA AdminWritten ==
  ASSUME AdminTypes, NEW q \in Asked, q.what # "list",
         (q.what = "create") = (q.who \notin DOMAIN p1)
  PROVE  /\ Admin!Written(q) \in Table
         /\ DOMAIN Admin!Written(q) = DOMAIN p1 \cup {q.who}
         /\ \A u \in DOMAIN p1 \ {q.who} : Admin!Written(q)[u] = p1[u]
         /\ Admin!Written(q)[q.who] = Admin!Entry(q)
<1> DEFINE w == Admin!Written(q)
<1>0. q.who \in People /\ q.value \in Admin!Roles  BY DEF Asked
<1>1. DOMAIN p1 \subseteq People /\ \A u \in DOMAIN p1 : p1[u] \in Admin!Account
  BY TableFacts DEF AdminTypes
<1>2. /\ DOMAIN w = DOMAIN p1 \cup {q.who} /\ w = [u \in DOMAIN w |-> w[u]]
      /\ \A u \in DOMAIN p1 \ {q.who} : w[u] = p1[u]
      /\ w[q.who] = Admin!Entry(q)
  BY DEF Admin!Written
<1>3. Admin!Entry(q) \in Admin!Account
  <2>1. q.what # "create" => p1[q.who].role \in Admin!Roles /\ p1[q.who].active \in BOOLEAN
    BY <1>1 DEF Admin!Account
  <2>2. (IF q.what \in {"role", "create"} THEN q.value ELSE p1[q.who].role) \in Admin!Roles
    BY <1>0, <2>1
  <2>3. (IF q.what = "role" THEN p1[q.who].active ELSE q.what # "off") \in BOOLEAN
    BY <2>1
  <2> QED  BY <2>2, <2>3 DEF Admin!Entry, Admin!Account
<1>4. \A u \in DOMAIN w : w[u] \in Admin!Account
  BY <1>1, <1>2, <1>3
<1>5. w \in Table  BY <1>0, <1>1, <1>2, <1>4, TableFacts
<1> QED  BY <1>2, <1>5

(* A write keeps an administrator, unless it is on what is no longer so.   *)
LEMMA AdminStays ==
  ASSUME AdminInv, NEW q \in p2, Admin!Write(q)
  PROVE  Admin!AnAdminRemains'
<1>0. q \in Asked /\ AdminTypes  BY DEF AdminInv, AdminTypes
<1>1. /\ q.what # "list" /\ (q.what = "create") = (q.who \notin DOMAIN p1)
      /\ p1' = Admin!Written(q)
      /\ q.at = IF q.what = "off" THEN "counted" ELSE "authorised"
  BY DEF Admin!Write
<1>2. p6' = (p6 \/ (q.what = "role" /\ ~ Admin!IsAdmin(q.by))
                \/ (q.what = "off" /\ q.counted # Admin!Admins))
  BY DEF Admin!Write
<1>3. SUFFICES ASSUME ~ p6'  PROVE Admin!Admins' # {}
  BY DEF Admin!AnAdminRemains
<1>4. /\ ~ p6 /\ (q.what = "role" => Admin!IsAdmin(q.by))
      /\ (q.what = "off" => q.counted = Admin!Admins)
  BY <1>2, <1>3
<1>5. \A u : u # q.who /\ Admin!IsAdmin(u) => u \in Admin!Admins'
  <2> SUFFICES ASSUME NEW u, u # q.who, Admin!IsAdmin(u)  PROVE u \in Admin!Admins'
    OBVIOUS
  <2>1. u \in DOMAIN p1 \ {q.who} /\ p1[u] = [role |-> "admin", active |-> TRUE]
    BY DEF Admin!IsAdmin
  <2>2. u \in DOMAIN p1' /\ p1'[u] = [role |-> "admin", active |-> TRUE]
    BY <1>0, <1>1, <2>1, AdminWritten
  <2> QED  BY <2>2 DEF Admin!Admins, Admin!IsAdmin
<1>6. PICK v \in Admin!Admins : TRUE
  BY <1>4 DEF AdminInv, Admin!AnAdminRemains
<1>7. Admin!IsAdmin(v)  BY <1>6 DEF Admin!Admins
<1>8. CASE q.what = "role"
  <2>1. q.by # q.who  BY <1>8 DEF AdminInv, AdminAsks
  <2> QED  BY <1>4, <1>5, <1>8, <2>1
<1>9. CASE q.what = "off"
  <2>1. PICK u \in q.counted : u # q.who
    BY <1>1, <1>4, <1>9 DEF AdminInv, AdminAsks
  <2>2. Admin!IsAdmin(u)  BY <1>4, <1>9, <2>1 DEF Admin!Admins
  <2> QED  BY <1>5, <2>1, <2>2
<1>10. CASE q.what \in {"on", "create"}
  <2>1. CASE v # q.who
    BY <1>5, <1>7, <2>1
  <2>2. CASE v = q.who
    <3>1. v \in DOMAIN p1 /\ p1[v] = [role |-> "admin", active |-> TRUE]
      BY <1>7 DEF Admin!IsAdmin
    <3>2. q.what = "on"  BY <1>1, <1>10, <2>2, <3>1
    <3>3. Admin!Entry(q) = [role |-> "admin", active |-> TRUE]
      <4>1. p1[q.who].role = "admin"  BY <2>2, <3>1
      <4>2. ~ (q.what \in {"role", "create"}) /\ q.what # "role" /\ (q.what # "off") = TRUE
        BY <3>2
      <4> QED  BY <4>1, <4>2 DEF Admin!Entry
    <3>4. v \in DOMAIN p1' /\ p1'[v] = [role |-> "admin", active |-> TRUE]
      BY <1>0, <1>1, <2>2, <3>3, AdminWritten
    <3> QED  BY <3>4 DEF Admin!Admins, Admin!IsAdmin
  <2> QED  BY <2>1, <2>2
<1> QED  BY <1>0, <1>1, <1>8, <1>9, <1>10 DEF Asked

LEMMA AdminKept ==
  ASSUME Admin!AnAdminRemains, UNCHANGED <<p1, p6>>
  PROVE  Admin!AnAdminRemains'
BY DEF Admin!AnAdminRemains, Admin!Admins, Admin!IsAdmin

(* A new request of a panel.                                               *)
LEMMA AdminSends ==
  ASSUME AdminInv, NEW a \in Administrators,
         NEW what \in {"list", "role", "on", "off", "create"},
         NEW u \in People, NEW r \in Admin!Roles, Admin!Send(a, what, u, r),
         what \in {"role", "off"} => a # u, UNCHANGED <<p1, p6>>,
         p3' \in [Administrators -> Table], p4' \in [Administrators -> BOOLEAN],
         p5' \in [Administrators -> BOOLEAN]
  PROVE  AdminInv'
<1> DEFINE q == Admin!Request(a, what, u, r)
<1>0. AdminTypes /\ AdminAsks  BY DEF AdminInv
<1>1. MaxRequests \in Nat /\ p7 \in 0..MaxRequests /\ p7 < MaxRequests /\ p7' = p7 + 1
  BY <1>0, PanelsAssumption DEF Admin!Send, AdminTypes
<1>2. p7' \in 0..MaxRequests /\ p7' \in Nat  BY <1>1
<1>3. p2' = p2 \cup {q}  BY DEF Admin!Send
<1>4. Admin!NoUsers \in Table
  BY TableFacts DEF Admin!NoUsers
<1>5. q \in Asked
  BY <1>2, <1>4 DEF Admin!Request, Asked
<1>6. AdminTypes'  BY <1>0, <1>2, <1>3, <1>5 DEF AdminTypes
<1>7. q.what = what /\ q.by = a /\ q.who = u /\ q.at = "sent"  BY DEF Admin!Request
<1>8. AdminAsks'  BY <1>0, <1>3, <1>7 DEF AdminAsks
<1>9. Admin!AnAdminRemains'  BY AdminKept DEF AdminInv
<1> QED  BY <1>6, <1>8, <1>9 DEF AdminInv

(* A request that moves on.                                                *)
LEMMA AdminMoves ==
  ASSUME AdminInv, NEW q \in p2, NEW r, p2' = (p2 \ {q}) \cup {r}, r \in Asked,
         r.what \in {"role", "off"} => r.by # r.who,
         r.at = "counted" => r.what = "off" /\ (p6' \/ \E u \in r.counted : u # r.who),
         p1' \in Table, p6' \in BOOLEAN, p6 => p6', p4' \in [Administrators -> BOOLEAN],
         UNCHANGED <<p3, p5, p7>>, Admin!AnAdminRemains'
  PROVE  AdminInv'
<1>0. AdminTypes /\ AdminAsks  BY DEF AdminInv
<1>1. AdminTypes'  BY <1>0 DEF AdminTypes
<1>2. AdminAsks'  BY <1>0 DEF AdminAsks
<1> QED  BY <1>1, <1>2 DEF AdminInv

LEMMA AdminNext == AdminInv /\ (Admin!Next \/ UNCHANGED AdminVars) => AdminInv'
<1> SUFFICES ASSUME AdminInv, Admin!Next \/ UNCHANGED AdminVars  PROVE AdminInv'
  OBVIOUS
<1> USE DEF AdminVars
<1>0. AdminTypes /\ AdminAsks /\ Admin!AnAdminRemains  BY DEF AdminInv
<1>t. p1 \in Table /\ p6 \in BOOLEAN /\ p3 \in [Administrators -> Table]
      /\ p4 \in [Administrators -> BOOLEAN] /\ p5 \in [Administrators -> BOOLEAN]
  BY <1>0 DEF AdminTypes
<1>p. Administrators \subseteq People  BY PanelsAssumption
<1>1. ASSUME NEW a \in Administrators, Admin!Open(a)  PROVE AdminInv'
  <2>1. Admin!NoUsers \in Table  BY TableFacts DEF Admin!NoUsers
  <2>2. p4' \in [Administrators -> BOOLEAN] /\ p3' \in [Administrators -> Table] /\ UNCHANGED <<p1, p5, p6>>
    BY <1>1, <1>t, <2>1 DEF Admin!Open
  <2>3. Admin!Send(a, "list", a, "viewer")  BY <1>1 DEF Admin!Open
  <2>4. "viewer" \in Admin!Roles /\ a \in People  BY <1>p DEF Admin!Roles
  <2> QED  BY <1>t, <2>2, <2>3, <2>4, AdminSends
<1>2. ASSUME NEW a \in Administrators, NEW u \in People, Admin!ToggleActive(a, u)  PROVE AdminInv'
  <2> DEFINE what == IF p3[a][u].active THEN "off" ELSE "on"
  <2>1. Admin!Send(a, what, u, "viewer") /\ UNCHANGED <<p1, p3, p4, p5, p6>> /\ u # a
    BY <1>2 DEF Admin!ToggleActive
  <2>2. "viewer" \in Admin!Roles /\ what \in {"list", "role", "on", "off", "create"}
    BY DEF Admin!Roles
  <2> HIDE DEF what
  <2>3. p3' \in [Administrators -> Table] /\ p4' \in [Administrators -> BOOLEAN]
        /\ p5' \in [Administrators -> BOOLEAN] /\ UNCHANGED <<p1, p6>>
    BY <1>t, <2>1
  <2> QED  BY <2>1, <2>2, <2>3, AdminSends
<1>3. ASSUME NEW a \in Administrators, NEW u \in People, NEW r \in Admin!Roles,
             Admin!RoleChange(a, u, r)
      PROVE  AdminInv'
  <2>1. Admin!Send(a, "role", u, r) /\ UNCHANGED <<p1, p3, p4, p5, p6>> /\ u # a
    BY <1>3 DEF Admin!RoleChange
  <2> QED  BY <1>3, <1>t, <2>1, AdminSends
<1>4. ASSUME NEW a \in Administrators, NEW u \in People, NEW r \in Admin!Roles,
             Admin!Create(a, u, r)
      PROVE  AdminInv'
  <2>1. Admin!Send(a, "create", u, r) /\ UNCHANGED <<p1, p3, p4, p6>>
        /\ p5' = [p5 EXCEPT ![a] = TRUE]
    BY <1>4 DEF Admin!Create
  <2>2. p5' \in [Administrators -> BOOLEAN]  BY <1>t, <2>1
  <2> QED  BY <1>4, <1>t, <2>1, <2>2, AdminSends
<1>a. ASSUME NEW q \in p2, NEW stage \in {"authorised", "refused"}, Admin!At(q, stage),
             UNCHANGED <<p1, p3, p4, p5, p6, p7>>
      PROVE  AdminInv'
  <2> DEFINE r == [q EXCEPT !.at = stage]
  <2>0. q \in Asked  BY <1>0 DEF AdminTypes
  <2>1. r \in Asked /\ r.at = stage /\ r.what = q.what /\ r.by = q.by /\ r.who = q.who
    BY <2>0 DEF Asked
  <2>2. p2' = (p2 \ {q}) \cup {r}  BY <1>a DEF Admin!At
  <2>3. r.what \in {"role", "off"} => r.by # r.who  BY <1>0, <2>1 DEF AdminAsks
  <2>4. Admin!AnAdminRemains'  BY <1>0, <1>a, AdminKept
  <2> HIDE DEF r
  <2>5. r.at # "counted"  BY <2>1
  <2>6. p1' \in Table /\ p6' \in BOOLEAN /\ (p6 => p6') /\ p4' \in [Administrators -> BOOLEAN]
        /\ UNCHANGED <<p3, p5, p7>>
    BY <1>a, <1>t
  <2> QED  BY <2>1, <2>2, <2>3, <2>4, <2>5, <2>6, AdminMoves
<1>5. ASSUME NEW q \in p2, Admin!Authorise(q)  PROVE AdminInv'
  <2> DEFINE stage == IF Admin!IsAdmin(q.by) THEN "authorised" ELSE "refused"
  <2>1. Admin!At(q, stage) /\ UNCHANGED <<p1, p3, p4, p5, p6, p7>>
    BY <1>5 DEF Admin!Authorise
  <2>2. stage \in {"authorised", "refused"}  OBVIOUS
  <2> HIDE DEF stage
  <2> QED  BY <1>a, <2>1, <2>2
<1>6. ASSUME NEW q \in p2, Admin!Rejected(q)  PROVE AdminInv'
  BY <1>6, <1>a DEF Admin!Rejected
<1>7. ASSUME NEW q \in p2, Admin!Count(q)  PROVE AdminInv'
  <2> DEFINE last == p1[q.who].role = "admin" /\ \A u, v \in Admin!Admins : u = v
  <2>1. /\ q.at = "authorised" /\ q.what = "off" /\ UNCHANGED <<p1, p3, p4, p5, p6, p7>>
        /\ IF q.by = q.who \/ q.who \notin DOMAIN p1 \/ last
           THEN Admin!At(q, "refused")
           ELSE p2' = (p2 \ {q}) \cup {[q EXCEPT !.at = "counted", !.counted = Admin!Admins]}
    BY <1>7 DEF Admin!Count
  <2>2. CASE q.by = q.who \/ q.who \notin DOMAIN p1 \/ last
    <3>1. Admin!At(q, "refused")  BY <2>1, <2>2
    <3> QED  BY <1>a, <2>1, <3>1
  <2>3. CASE ~ (q.by = q.who \/ q.who \notin DOMAIN p1 \/ last)
    <3> DEFINE r == [q EXCEPT !.at = "counted", !.counted = Admin!Admins]
    <3>0. q \in Asked  BY <1>0 DEF AdminTypes
    <3>1. p2' = (p2 \ {q}) \cup {r}  BY <2>1, <2>3
    <3>2. Admin!Admins \in SUBSET People
      BY <1>t, TableFacts DEF Admin!Admins
    <3>3. r \in Asked  BY <3>0, <3>2 DEF Asked
    <3>4. r.what = q.what /\ r.by = q.by /\ r.who = q.who /\ r.at = "counted"
          /\ r.counted = Admin!Admins
      BY <3>0 DEF Asked
    <3> HIDE DEF r
    <3>5. p6 \/ \E u \in Admin!Admins : u # q.who
      <4>1. CASE p1[q.who].role = "admin"
        <5>1. PICK u \in Admin!Admins, v \in Admin!Admins : u # v  BY <2>3, <4>1
        <5> QED  BY <5>1
      <4>2. CASE p1[q.who].role # "admin"
        <5>1. q.who \notin Admin!Admins
          BY <4>2 DEF Admin!Admins, Admin!IsAdmin
        <5> QED  BY <1>0, <5>1 DEF Admin!AnAdminRemains
      <4> QED  BY <4>1, <4>2
    <3>6. p6' \/ \E u \in r.counted : u # r.who  BY <2>1, <3>4, <3>5
    <3>7. r.by # r.who /\ r.what = "off"  BY <2>1, <2>3, <3>4
    <3>8. Admin!AnAdminRemains'  BY <1>0, <2>1, AdminKept
    <3>9. p1' \in Table /\ p6' \in BOOLEAN /\ (p6 => p6') /\ p4' \in [Administrators -> BOOLEAN]
          /\ UNCHANGED <<p3, p5, p7>>
      BY <2>1, <1>t
    <3> QED  BY <3>1, <3>3, <3>6, <3>7, <3>8, <3>9, AdminMoves
  <2> QED  BY <2>2, <2>3
<1>8. ASSUME NEW q \in p2, Admin!Write(q)  PROVE AdminInv'
  <2> DEFINE r == [q EXCEPT !.at = "written"]
  <2>0. q \in Asked  BY <1>0 DEF AdminTypes
  <2>1. /\ q.what # "list" /\ (q.what = "create") = (q.who \notin DOMAIN p1)
        /\ p1' = Admin!Written(q) /\ Admin!At(q, "written") /\ UNCHANGED <<p3, p4, p5, p7>>
    BY <1>8 DEF Admin!Write
  <2>2. p6' \in BOOLEAN /\ (p6 => p6')  BY <1>8, <1>t DEF Admin!Write
  <2>3. p1' \in Table  BY <1>0, <2>0, <2>1, AdminWritten
  <2>4. p2' = (p2 \ {q}) \cup {r}  BY <2>1 DEF Admin!At
  <2>5. r \in Asked /\ r.at = "written" /\ r.what = q.what /\ r.by = q.by /\ r.who = q.who
    BY <2>0 DEF Asked
  <2> HIDE DEF r
  <2>6. r.what \in {"role", "off"} => r.by # r.who  BY <1>0, <2>5 DEF AdminAsks
  <2>7. Admin!AnAdminRemains'  BY <1>8, AdminStays
  <2>8. p4' \in [Administrators -> BOOLEAN] /\ UNCHANGED <<p3, p5, p7>>  BY <1>t, <2>1
  <2>9. r.at # "counted"  BY <2>5
  <2> QED  BY <2>2, <2>3, <2>4, <2>5, <2>6, <2>7, <2>8, <2>9, AdminMoves
<1>9. ASSUME NEW q \in p2, Admin!List(q)  PROVE AdminInv'
  <2> DEFINE r == [q EXCEPT !.at = "written", !.result = p1]
  <2>0. q \in Asked  BY <1>0 DEF AdminTypes
  <2>1. q.what = "list" /\ p2' = (p2 \ {q}) \cup {r} /\ UNCHANGED <<p1, p3, p4, p5, p6, p7>>
    BY <1>9 DEF Admin!List
  <2>2. r \in Asked  BY <2>0, <1>t DEF Asked
  <2>3. r.at = "written" /\ r.what = q.what  BY <2>0 DEF Asked
  <2> HIDE DEF r
  <2>4. Admin!AnAdminRemains'  BY <1>0, <2>1, AdminKept
  <2>5. p1' \in Table /\ p6' \in BOOLEAN /\ (p6 => p6') /\ p4' \in [Administrators -> BOOLEAN]
        /\ UNCHANGED <<p3, p5, p7>>
    BY <2>1, <1>t
  <2>6. r.at # "counted" /\ r.what \notin {"role", "off"}  BY <2>1, <2>3
  <2> QED  BY <2>1, <2>2, <2>4, <2>5, <2>6, AdminMoves
<1>10. ASSUME NEW q \in p2, Admin!Changed(q)  PROVE AdminInv'
  <2> DEFINE r == [q EXCEPT !.what = "list", !.at = "sent"]
  <2>0. q \in Asked  BY <1>0 DEF AdminTypes
  <2>1. p2' = (p2 \ {q}) \cup {r} /\ p4' = [p4 EXCEPT ![q.by] = TRUE]
        /\ UNCHANGED <<p1, p3, p5, p6, p7>>
    BY <1>10 DEF Admin!Changed
  <2>2. r \in Asked /\ r.at = "sent" /\ r.what = "list"  BY <2>0 DEF Asked
  <2> HIDE DEF r
  <2>3. p4' \in [Administrators -> BOOLEAN]  BY <1>t, <2>1
  <2>4. Admin!AnAdminRemains'  BY <1>0, <2>1, AdminKept
  <2>5. p1' \in Table /\ p6' \in BOOLEAN /\ (p6 => p6') /\ UNCHANGED <<p3, p5, p7>>
    BY <2>1, <1>t
  <2>6. r.at # "counted" /\ r.what \notin {"role", "off"}  BY <2>2
  <2> QED  BY <2>1, <2>2, <2>3, <2>4, <2>5, <2>6, AdminMoves
<1>b. ASSUME NEW q \in p2, p2' = p2 \ {q}, UNCHANGED <<p1, p6, p7>>,
             p3' \in [Administrators -> Table], p4' \in [Administrators -> BOOLEAN],
             p5' \in [Administrators -> BOOLEAN]
      PROVE  AdminInv'
  <2>1. AdminTypes'  BY <1>0, <1>b DEF AdminTypes
  <2>2. AdminAsks'  BY <1>0, <1>b DEF AdminAsks
  <2>3. Admin!AnAdminRemains'  BY <1>0, <1>b, AdminKept
  <2> QED  BY <2>1, <2>2, <2>3 DEF AdminInv
<1>11. ASSUME NEW q \in p2, Admin!Listed(q)  PROVE AdminInv'
  <2>0. q \in Asked  BY <1>0 DEF AdminTypes
  <2>1. q.result \in Table /\ q.by \in Administrators  BY <2>0 DEF Asked
  <2>2. p3' = [p3 EXCEPT ![q.by] = q.result] /\ p4' = [p4 EXCEPT ![q.by] = FALSE]
        /\ p5' = [p5 EXCEPT ![q.by] = p5[q.by] /\ q.after # "create"]
        /\ UNCHANGED <<p1, p6, p7>> /\ p2' = p2 \ {q}
    BY <1>11 DEF Admin!Listed
  <2>3. p3' \in [Administrators -> Table]  BY <1>t, <2>1, <2>2
  <2>4. p4' \in [Administrators -> BOOLEAN] /\ p5' \in [Administrators -> BOOLEAN]
    BY <1>t, <2>1, <2>2
  <2> QED  BY <1>b, <2>2, <2>3, <2>4
<1>12. ASSUME NEW q \in p2, Admin!Fails(q)  PROVE AdminInv'
  <2>0. q \in Asked  BY <1>0 DEF AdminTypes
  <2>1. q.by \in Administrators  BY <2>0 DEF Asked
  <2>2. p4' = [p4 EXCEPT ![q.by] = p4[q.by] /\ q.what # "list"]
        /\ p5' = [p5 EXCEPT ![q.by] = p5[q.by] /\ q.after # "create"]
        /\ UNCHANGED <<p1, p3, p6, p7>> /\ p2' = p2 \ {q}
    BY <1>12 DEF Admin!Fails
  <2>3. p3' \in [Administrators -> Table]  BY <1>t, <2>2
  <2>4. p4' \in [Administrators -> BOOLEAN] /\ p5' \in [Administrators -> BOOLEAN]
    BY <1>t, <2>1, <2>2
  <2> QED  BY <1>b, <2>2, <2>3, <2>4
<1>13. ASSUME UNCHANGED AdminVars  PROVE AdminInv'
  <2>1. UNCHANGED <<p1, p2, p3, p4, p5, p6, p7>>  BY <1>13 DEF Admin!vars
  <2>2. AdminTypes'  BY <1>0, <2>1 DEF AdminTypes
  <2>3. AdminAsks'  BY <1>0, <2>1 DEF AdminAsks
  <2>4. Admin!AnAdminRemains'  BY <1>0, <2>1, AdminKept
  <2> QED  BY <2>2, <2>3, <2>4 DEF AdminInv
<1> QED
  BY <1>1, <1>2, <1>3, <1>4, <1>5, <1>6, <1>7, <1>8, <1>9, <1>10, <1>11, <1>12, <1>13
  DEF Admin!Next

-----------------------------------------------------------------------------
(***************************************************************************)
(* Saved missions: operator is p1, saved p2, disk p3, writer p4, form p5,  *)
(* made p6, edits p7.                                                      *)
(***************************************************************************)
MissionVars == Missions!vars

Mission == [n : Nat, r : Nearest..Farthest]

(* A list in order, of missions of before.                                 *)
Ordered(l, most) ==
  /\ Len(l) <= MaxSaved /\ \A i \in 1..Len(l) : l[i].n <= most
  /\ \A i, j \in 1..Len(l) : i < j => l[i].n > l[j].n

MissionTypes ==
  /\ p1 \subseteq Tabs /\ p2 \in [Tabs -> Seq(Mission)] /\ p3 \in Seq(Mission)
  /\ p4 \in Tabs \cup {0} /\ p5 \in [Tabs -> Missions!Typed \cup {Missions!Closed}]
  /\ p6 \in Nat /\ p7 \in 0..MaxEdits /\ p6 <= p7

MissionLists ==
  /\ Ordered(p3, p6) /\ \A p \in Tabs : Ordered(p2[p], p6)
  /\ p4 # 0 => p3 = p2[p4]

MissionInv == MissionTypes /\ MissionLists

LEMMA OrderedIsWhole ==
  ASSUME NEW l \in Seq(Mission), NEW most \in Nat, Ordered(l, most)
  PROVE  Missions!WellFormed(l)
<1>1. DOMAIN l = 1..Len(l) /\ \A i \in 1..Len(l) : l[i] \in Mission
  OBVIOUS
<1>2. \A i \in DOMAIN l : l[i].r \in Nearest..Farthest  BY <1>1 DEF Mission
<1> QED  BY <1>1, <1>2 DEF Ordered, Missions!WellFormed

LEMMA MissionImplies == MissionInv => Missions!ListsAreWhole
<1> SUFFICES ASSUME MissionInv  PROVE Missions!ListsAreWhole
  OBVIOUS
<1>0. MissionTypes /\ MissionLists  BY DEF MissionInv
<1>a. MaxEdits \in Nat  BY PanelsAssumption
<1>b. p6 \in 0..MaxEdits /\ p7 \in 0..MaxEdits  BY <1>0, <1>a DEF MissionTypes
<1>c. p1 \subseteq Tabs /\ p4 \in Tabs \cup {0}  BY <1>0 DEF MissionTypes
<1>d. \A p \in Tabs : p5[p] \in Missions!Typed \cup {Missions!Closed}  BY <1>0 DEF MissionTypes
<1>1. Missions!TypeOK
  BY <1>b, <1>c, <1>d DEF Missions!TypeOK, Missions!NoPage
<1>2. Missions!WellFormed(p3)
  BY <1>0, OrderedIsWhole DEF MissionTypes, MissionLists
<1>3. \A p \in Tabs : Missions!WellFormed(p2[p])
  BY <1>0, OrderedIsWhole DEF MissionTypes, MissionLists
<1> QED
  BY <1>0, <1>1, <1>2, <1>3 DEF Missions!ListsAreWhole, MissionLists, Missions!NoPage

LEMMA MissionInit == Missions!Init => MissionInv
<1> SUFFICES ASSUME Missions!Init  PROVE MissionInv
  OBVIOUS
<1>0. MaxEdits \in Nat /\ MaxSaved \in Nat  BY PanelsAssumption
<1>1. /\ p1 \in SUBSET Tabs /\ p2 = [p \in Tabs |-> <<>>] /\ p3 = <<>> /\ p4 = 0
      /\ p5 = [p \in Tabs |-> Missions!Closed] /\ p6 = 0 /\ p7 = 0
  BY DEF Missions!Init, Missions!NoPage
<1>2. <<>> \in Seq(Mission) /\ Len(<<>>) = 0  OBVIOUS
<1>3. Ordered(<<>>, 0)  BY <1>0, <1>2 DEF Ordered
<1>4. MissionTypes  BY <1>0, <1>1, <1>2 DEF MissionTypes
<1>5. MissionLists  BY <1>1, <1>3 DEF MissionLists
<1> QED  BY <1>4, <1>5 DEF MissionInv

(* What a page does to its list keeps the order.                           *)
LEMMA OrderedSave ==
  ASSUME NEW l \in Seq(Mission), NEW most \in Nat, Ordered(l, most),
         NEW r \in Nearest..Farthest
  PROVE  LET new == Missions!Limited(<<[n |-> most + 1, r |-> r]>> \o l) IN
         new \in Seq(Mission) /\ Ordered(new, most + 1)
<1> DEFINE m == [n |-> most + 1, r |-> r]
           all == <<m>> \o l
           k == IF Len(all) < MaxSaved THEN Len(all) ELSE MaxSaved
           new == SubSeq(all, 1, k)
<1>0. MaxSaved \in Nat  BY PanelsAssumption
<1>1. m \in Mission /\ m.n = most + 1  BY DEF Mission
<1> HIDE DEF m
<1>2. <<m>> \in Seq(Mission) /\ Len(<<m>>) = 1 /\ <<m>>[1] = m  BY <1>1
<1>3. all \in Seq(Mission) /\ Len(all) = Len(l) + 1  BY <1>2
<1>4. all[1] = m  BY <1>2
<1>5. \A i \in 2..Len(all) : all[i] = l[i - 1]  BY <1>2, <1>3
<1>6. Len(l) \in Nat  OBVIOUS
<1>a. \A i \in 1..Len(l) : l[i] \in Mission  OBVIOUS
<1>7. \A i \in 1..Len(l) : l[i] \in Mission /\ l[i].n \in Nat  BY <1>a DEF Mission
<1> HIDE DEF all
<1>8. k \in Nat /\ k <= Len(all) /\ k <= MaxSaved  BY <1>0, <1>3, <1>6
<1> HIDE DEF k
<1>9. new \in Seq(Mission) /\ Len(new) = k /\ \A i \in 1..k : new[i] = all[i]
  BY <1>3, <1>8
<1> HIDE DEF new
<1>10. \A i \in 1..k : new[i].n <= most + 1
  <2> SUFFICES ASSUME NEW i \in 1..k  PROVE new[i].n <= most + 1
    OBVIOUS
  <2>1. CASE i = 1
    BY <1>1, <1>4, <1>9, <2>1
  <2>2. CASE i # 1
    <3>1. i - 1 \in 1..Len(l) /\ i \in 2..Len(all)  BY <1>3, <1>6, <1>8, <2>2
    <3>2. new[i] = l[i - 1]  BY <1>5, <1>9, <3>1
    <3>3. l[i - 1].n <= most  BY <3>1 DEF Ordered
    <3> QED  BY <1>7, <3>1, <3>2, <3>3
  <2> QED  BY <2>1, <2>2
<1>11. \A i, j \in 1..k : i < j => new[i].n > new[j].n
  <2> SUFFICES ASSUME NEW i \in 1..k, NEW j \in 1..k, i < j  PROVE new[i].n > new[j].n
    OBVIOUS
  <2>1. j - 1 \in 1..Len(l) /\ j \in 2..Len(all)  BY <1>3, <1>6, <1>8
  <2>2. new[j] = l[j - 1]  BY <1>5, <1>9, <2>1
  <2>3. CASE i = 1
    <3>1. new[i].n = most + 1  BY <1>1, <1>4, <1>9, <2>3
    <3>2. l[j - 1].n <= most /\ l[j - 1].n \in Nat  BY <1>7, <2>1 DEF Ordered
    <3> QED  BY <2>2, <3>1, <3>2
  <2>4. CASE i # 1
    <3>1. i - 1 \in 1..Len(l) /\ i \in 2..Len(all) /\ i - 1 < j - 1
      BY <1>3, <1>6, <1>8, <2>4
    <3>2. new[i] = l[i - 1]  BY <1>5, <1>9, <3>1
    <3> QED  BY <2>1, <2>2, <3>1, <3>2 DEF Ordered
  <2> QED  BY <2>3, <2>4
<1>12. Ordered(new, most + 1)  BY <1>8, <1>9, <1>10, <1>11 DEF Ordered
<1> QED  BY <1>9, <1>12 DEF Missions!Limited, new, k, all, m

Without(l, d) == SubSeq(l, 1, d - 1) \o SubSeq(l, d + 1, Len(l))

LEMMA OrderedDelete ==
  ASSUME NEW l \in Seq(Mission), NEW most \in Nat, Ordered(l, most), NEW d \in DOMAIN l
  PROVE  /\ Without(l, d) \in Seq(Mission)
         /\ Ordered(Without(l, d), most)
<1> DEFINE a == SubSeq(l, 1, d - 1)
           b == SubSeq(l, d + 1, Len(l))
           new == a \o b
<1>1. d \in 1..Len(l) /\ Len(l) \in Nat  OBVIOUS
<1>2. a \in Seq(Mission) /\ Len(a) = d - 1 /\ \A i \in 1..(d - 1) : a[i] = l[i]
  BY <1>1
<1>3. b \in Seq(Mission) /\ Len(b) = Len(l) - d /\ \A i \in 1..(Len(l) - d) : b[i] = l[i + d]
  BY <1>1
<1> HIDE DEF a, b
<1>4. new \in Seq(Mission) /\ Len(new) = Len(l) - 1  BY <1>1, <1>2, <1>3
<1> DEFINE From(i) == IF i < d THEN i ELSE i + 1
<1>5. \A i \in 1..Len(new) : From(i) \in 1..Len(l) /\ new[i] = l[From(i)]
  <2> SUFFICES ASSUME NEW i \in 1..Len(new)  PROVE From(i) \in 1..Len(l) /\ new[i] = l[From(i)]
    OBVIOUS
  <2>1. CASE i < d
    <3>1. new[i] = a[i] /\ i \in 1..(d - 1)  BY <1>1, <1>2, <1>3, <1>4, <2>1
    <3> QED  BY <1>1, <1>2, <2>1, <3>1
  <2>2. CASE ~ (i < d)
    <3>1. i - (d - 1) \in 1..(Len(l) - d)  BY <1>1, <1>4, <2>2
    <3>2. new[i] = b[i - (d - 1)]  BY <1>1, <1>2, <1>3, <1>4, <2>2, <3>1
    <3>3. b[i - (d - 1)] = l[(i - (d - 1)) + d]  BY <1>3, <3>1
    <3>4. (i - (d - 1)) + d = i + 1  BY <1>1
    <3> QED  BY <1>1, <1>4, <2>2, <3>2, <3>3, <3>4
  <2> QED  BY <2>1, <2>2
<1>6. \A i, j \in 1..Len(new) : i < j => From(i) < From(j)
  BY <1>1, <1>4
<1>0. MaxSaved \in Nat  BY PanelsAssumption
<1> HIDE DEF new, From
<1>7. Ordered(new, most)
  BY <1>0, <1>1, <1>4, <1>5, <1>6 DEF Ordered
<1> QED  BY <1>4, <1>7 DEF Without, new, a, b

LEMMA OrderedLater ==
  ASSUME NEW l \in Seq(Mission), NEW most \in Nat, Ordered(l, most)
  PROVE  Ordered(l, most + 1)
<1>1. \A i \in 1..Len(l) : l[i] \in Mission  OBVIOUS
<1>2. \A i \in 1..Len(l) : l[i].n \in Nat  BY <1>1 DEF Mission
<1> QED  BY <1>2 DEF Ordered

(* A list is set, and stored unless the write is refused.                  *)
LEMMA MissionSet ==
  ASSUME MissionInv, NEW p \in Tabs, NEW new \in Seq(Mission), Missions!Set(p, new),
         p6' \in {p6, p6 + 1}, Ordered(new, p6'), p1' \subseteq Tabs,
         p5' \in [Tabs -> Missions!Typed \cup {Missions!Closed}]
  PROVE  MissionInv'
<1>0. MissionTypes /\ MissionLists  BY DEF MissionInv
<1>1. MaxEdits \in Nat /\ 0 \notin Tabs  BY PanelsAssumption
<1>2. p7 < MaxEdits /\ p7' = p7 + 1 /\ p2' = [p2 EXCEPT ![p] = new]
  BY DEF Missions!Set
<1>3. (p3' = new /\ p4' = p) \/ (p3' = p3 /\ p4' = 0)
  BY DEF Missions!Set, Missions!NoPage
<1>4. p2' \in [Tabs -> Seq(Mission)] /\ p2'[p] = new /\ \A q \in Tabs \ {p} : p2'[q] = p2[q]
  BY <1>0, <1>2 DEF MissionTypes
<1>5. p7' \in 0..MaxEdits /\ p6' \in Nat /\ p6' <= p7'
  BY <1>0, <1>1, <1>2 DEF MissionTypes
<1>6. MissionTypes'  BY <1>0, <1>3, <1>4, <1>5 DEF MissionTypes
<1>7. \A l \in Seq(Mission) : Ordered(l, p6) => Ordered(l, p6')
  BY <1>0, OrderedLater DEF MissionTypes
<1>8. Ordered(p3', p6')  BY <1>0, <1>3, <1>7 DEF MissionTypes, MissionLists
<1>9. \A q \in Tabs : Ordered(p2'[q], p6')
  <2> SUFFICES ASSUME NEW q \in Tabs  PROVE Ordered(p2'[q], p6')
    OBVIOUS
  <2>1. p2[q] \in Seq(Mission) /\ Ordered(p2[q], p6)
    BY <1>0 DEF MissionTypes, MissionLists
  <2> QED  BY <1>4, <1>7, <2>1
<1>10. p4' # 0 => p3' = p2'[p4']  BY <1>3, <1>4
<1>11. MissionLists'  BY <1>8, <1>9, <1>10 DEF MissionLists
<1> QED  BY <1>6, <1>11 DEF MissionInv

LEMMA MissionNext == MissionInv /\ (Missions!Next \/ UNCHANGED MissionVars) => MissionInv'
<1> SUFFICES ASSUME MissionInv, Missions!Next \/ UNCHANGED MissionVars  PROVE MissionInv'
  OBVIOUS
<1> USE DEF MissionVars
<1> DEFINE Forms == Missions!Typed \cup {Missions!Closed}
<1>0. MissionTypes /\ MissionLists  BY DEF MissionInv
<1>t. /\ p1 \subseteq Tabs /\ p2 \in [Tabs -> Seq(Mission)] /\ p3 \in Seq(Mission)
      /\ p5 \in [Tabs -> Forms] /\ p6 \in Nat
  BY <1>0 DEF MissionTypes
<1>c. /\ Nearest \in Nat /\ Farthest \in Nat /\ Start \in Nearest..Farthest
  BY PanelsAssumption
<1>f. Missions!Typed = 0..(Farthest + 1) /\ Missions!Closed = -1
  BY DEF Missions!Typed, Missions!Closed
<1>1. ASSUME UNCHANGED <<p1, p2, p3, p4, p6, p7>>, p5' \in [Tabs -> Forms]  PROVE MissionInv'
  <2>1. MissionTypes'  BY <1>0, <1>1 DEF MissionTypes
  <2>2. MissionLists'  BY <1>0, <1>1 DEF MissionLists
  <2> QED  BY <2>1, <2>2 DEF MissionInv
<1>2. ASSUME NEW p \in Tabs, NEW v \in Forms, p5' = [p5 EXCEPT ![p] = v]
      PROVE  p5' \in [Tabs -> Forms]
  BY <1>2, <1>t
<1>cl. Missions!Closed \in Forms  OBVIOUS
<1>3. ASSUME NEW p \in Tabs, Missions!MenuSaveLocation(p)  PROVE MissionInv'
  <2> DEFINE v == IF p5[p] = Missions!Closed THEN Start ELSE p5[p]
  <2>1. p5' = [p5 EXCEPT ![p] = v] /\ UNCHANGED <<p1, p2, p3, p4, p6, p7>>
    BY <1>3 DEF Missions!MenuSaveLocation
  <2>2. v \in Forms  BY <1>t, <1>c, <1>f
  <2> HIDE DEF v, Forms
  <2> QED  BY <1>1, <1>2, <2>1, <2>2
<1>4. ASSUME NEW p \in Tabs, Missions!Type(p)  PROVE MissionInv'
  <2>1. PICK r \in Missions!Typed : p5' = [p5 EXCEPT ![p] = r]  BY <1>4 DEF Missions!Type
  <2>2. UNCHANGED <<p1, p2, p3, p4, p6, p7>>  BY <1>4 DEF Missions!Type
  <2>3. r \in Forms  OBVIOUS
  <2> HIDE DEF Forms
  <2> QED  BY <1>1, <1>2, <2>1, <2>2, <2>3
<1>5. ASSUME NEW p \in Tabs, Missions!Adjust(p)  PROVE MissionInv'
  <2>1. UNCHANGED <<p1, p2, p3, p4, p6, p7>> /\ p5[p] # Missions!Closed  BY <1>5 DEF Missions!Adjust
  <2>2. p5[p] \in 0..(Farthest + 1)  BY <1>t, <1>f, <2>1
  <2>3. CASE p5[p] < Farthest /\ p5' = [p5 EXCEPT ![p] = p5[p] + 1]
    <3>1. p5[p] + 1 \in Forms  BY <1>c, <1>f, <2>2, <2>3
    <3> HIDE DEF Forms
    <3> QED  BY <1>1, <1>2, <2>1, <2>3, <3>1
  <2>4. CASE p5[p] > Nearest /\ p5' = [p5 EXCEPT ![p] = p5[p] - 1]
    <3>1. p5[p] - 1 \in Forms  BY <1>c, <1>f, <2>2, <2>4
    <3> HIDE DEF Forms
    <3> QED  BY <1>1, <1>2, <2>1, <2>4, <3>1
  <2> QED  BY <1>5, <2>3, <2>4 DEF Missions!Adjust
<1>6. ASSUME NEW p \in Tabs, Missions!FormSubmit(p)  PROVE MissionInv'
  <2> DEFINE new == Missions!Limited(<<[n |-> p6 + 1, r |-> p5[p]]>> \o p2[p])
  <2>1. p5[p] \in Nearest..Farthest /\ Missions!Set(p, new) /\ p6' = p6 + 1
        /\ p5' = [p5 EXCEPT ![p] = Missions!Closed] /\ p1' = p1
    BY <1>6 DEF Missions!FormSubmit, Missions!SaveMission
  <2>2. p2[p] \in Seq(Mission) /\ Ordered(p2[p], p6)  BY <1>0, <1>t DEF MissionLists
  <2>3. new \in Seq(Mission) /\ Ordered(new, p6 + 1)  BY <1>t, <2>1, <2>2, OrderedSave
  <2> HIDE DEF new
  <2>4. p5' \in [Tabs -> Forms]  BY <1>2, <1>cl, <2>1
  <2> QED  BY <1>t, <2>1, <2>3, <2>4, MissionSet
<1>7. ASSUME NEW p \in Tabs, Missions!FormCancel(p)  PROVE MissionInv'
  <2>1. p5' = [p5 EXCEPT ![p] = Missions!Closed] /\ UNCHANGED <<p1, p2, p3, p4, p6, p7>>
    BY <1>7 DEF Missions!FormCancel
  <2> HIDE DEF Forms
  <2> QED  BY <1>1, <1>2, <1>cl, <2>1
<1>8. ASSUME NEW p \in Tabs, Missions!DeleteMission(p)  PROVE MissionInv'
  <2>1. PICK i \in DOMAIN p2[p] : Missions!Set(p, Without(p2[p], i))
    BY <1>8 DEF Missions!DeleteMission, Without
  <2>2. UNCHANGED <<p1, p5, p6>>  BY <1>8 DEF Missions!DeleteMission
  <2>3. p2[p] \in Seq(Mission) /\ Ordered(p2[p], p6)  BY <1>0, <1>t DEF MissionLists
  <2>4. Without(p2[p], i) \in Seq(Mission) /\ Ordered(Without(p2[p], i), p6)
    BY <1>t, <2>3, OrderedDelete
  <2> QED  BY <1>t, <2>1, <2>2, <2>4, MissionSet
<1>9. ASSUME NEW p \in Tabs, Missions!Reload(p)  PROVE MissionInv'
  <2>1. Missions!Set(p, p3) /\ p5' = [p5 EXCEPT ![p] = Missions!Closed] /\ UNCHANGED <<p1, p6>>
    BY <1>9 DEF Missions!Reload
  <2>2. Ordered(p3, p6)  BY <1>0 DEF MissionLists
  <2>3. p5' \in [Tabs -> Forms]  BY <1>2, <1>cl, <2>1
  <2> QED  BY <1>t, <2>1, <2>2, <2>3, MissionSet
<1>10. ASSUME UNCHANGED MissionVars  PROVE MissionInv'
  <2>1. UNCHANGED <<p1, p2, p3, p4, p6, p7, p5>>  BY <1>10 DEF Missions!vars
  <2>2. p5' \in [Tabs -> Forms]  BY <1>t, <2>1
  <2> QED  BY <1>1, <2>1, <2>2
<1> QED
  BY <1>3, <1>4, <1>5, <1>6, <1>7, <1>8, <1>9, <1>10 DEF Missions!Next

-----------------------------------------------------------------------------
(***************************************************************************)
(* The watchlist: now is p1, expiry p2, asks p3, shown p4, loading p5,     *)
(* adding p6, crossed p7, changed p8, asked p9.                            *)
(***************************************************************************)
WatchVars == Watch!vars

WatchAsk ==
  [n : Nat, by : Operators, what : {"list", "add", "remove"},
   who : Airframes \cup {CHOOSE c \in Airframes : TRUE}, at : {"sent", "done", "refused"},
   got : SUBSET Airframes, after : {"list", "add", "remove"}]

WatchTypes ==
  /\ p1 \in 0..MaxDays /\ DOMAIN p2 \subseteq Airframes
  /\ \A c \in DOMAIN p2 : p2[c] \in 0..Watch!Forever
  /\ p3 \subseteq WatchAsk
  /\ \A a \in p3 : (a.what # "list" => a.who \in Airframes) /\ (a.what = "remove" => a.after = "remove")
  /\ p4 \in [Operators -> SUBSET Airframes]
  /\ p5 \in [Operators -> BOOLEAN] /\ p6 \in [Operators -> BOOLEAN]
  /\ p7 \in [Operators -> BOOLEAN] /\ p8 \in [Operators -> BOOLEAN]
  /\ p9 \in 0..MaxCalls

(* What a request of a panel says of the list it shows.                    *)
Says(a) ==
  /\ a.what # "list" /\ a.at # "done" => p4[a.by] = Watch!Active
  /\ a.what = "list" /\ a.at = "done" => a.got = Watch!Active
  /\ a.what = "remove" /\ a.at = "done" => p4[a.by] \ {a.who} = Watch!Active

(* One request at a time, unless they crossed.                             *)
WatchOne(p) == ~ p7[p] => \A a, b \in Watch!Pending(p) : a = b
WatchFresh(p) ==
  ~ p7[p] /\ ~ p8[p] => /\ Watch!Pending(p) = {} => p4[p] = Watch!Active
                        /\ \A a \in Watch!Pending(p) : Says(a)
WatchBusy(p) ==
  /\ p5[p] => \E a \in Watch!Pending(p) : a.what = "list"
  /\ p6[p] => \E a \in Watch!Pending(p) : a.after = "add"

WatchPanel(p) == WatchOne(p) /\ WatchFresh(p) /\ WatchBusy(p)

WatchInv == WatchTypes /\ \A p \in Operators : WatchPanel(p)

LEMMA WatchImplies == WatchInv => Watch!TypeOK /\ Watch!PanelsShowList
<1> SUFFICES ASSUME WatchInv  PROVE Watch!TypeOK /\ Watch!PanelsShowList
  OBVIOUS
<1>1. Watch!TypeOK  BY DEF WatchInv, WatchTypes, Watch!TypeOK
<1>2. ASSUME NEW p \in Operators
      PROVE  /\ Watch!Fresh(p) => p4[p] = Watch!Active
             /\ Watch!Pending(p) = {} => ~ p5[p] /\ ~ p6[p]
  <2>1. WatchPanel(p)  BY DEF WatchInv
  <2>2. Watch!Fresh(p) => p4[p] = Watch!Active
    BY <2>1 DEF WatchPanel, WatchFresh, Watch!Fresh
  <2>3. Watch!Pending(p) = {} => ~ p5[p] /\ ~ p6[p]
    BY <2>1 DEF WatchPanel, WatchBusy
  <2> QED  BY <2>2, <2>3
<1> QED  BY <1>1, <1>2 DEF Watch!PanelsShowList

LEMMA WatchInit == Watch!Init => WatchInv
<1> SUFFICES ASSUME Watch!Init  PROVE WatchInv
  OBVIOUS
<1>0. MaxDays \in Nat /\ MaxCalls \in Nat  BY PanelsAssumption
<1>1. /\ p1 = 0 /\ p2 = Watch!NoEntries /\ p3 = {} /\ p4 = [p \in Operators |-> {}]
      /\ p5 = [p \in Operators |-> FALSE] /\ p6 = p5 /\ p7 = p5 /\ p8 = p5 /\ p9 = 0
  BY DEF Watch!Init, Watch!Nobody
<1>2. DOMAIN p2 = {}  BY <1>1 DEF Watch!NoEntries
<1>3. 0 \in 0..MaxDays /\ 0 \in 0..MaxCalls  BY <1>0
<1>4. WatchTypes  BY <1>1, <1>2, <1>3 DEF WatchTypes
<1>5. Watch!Active = {}  BY <1>2 DEF Watch!Active
<1>6. \A p \in Operators : Watch!Pending(p) = {}  BY <1>1 DEF Watch!Pending
<1>7. \A p \in Operators : WatchPanel(p)
  BY <1>1, <1>5, <1>6 DEF WatchPanel, WatchOne, WatchFresh, WatchBusy
<1> QED  BY <1>4, <1>7 DEF WatchInv

(* A panel another one's step, or the list's, does not concern.            *)
LEMMA WatchOthers ==
  ASSUME NEW p \in Operators, WatchPanel(p), Watch!Pending(p)' = Watch!Pending(p),
         p4'[p] = p4[p], p5'[p] = p5[p], p6'[p] = p6[p], p7'[p] = p7[p],
         p8'[p] \/ (p8'[p] = p8[p] /\ Watch!Active' = Watch!Active)
  PROVE  WatchPanel(p)'
<1>0. WatchOne(p) /\ WatchFresh(p) /\ WatchBusy(p)  BY DEF WatchPanel
<1>1. WatchOne(p)'  BY <1>0 DEF WatchOne
<1>2. WatchBusy(p)'  BY <1>0 DEF WatchBusy
<1>3. WatchFresh(p)'
  <2> SUFFICES ASSUME ~ p7'[p], ~ p8'[p]
               PROVE  /\ Watch!Pending(p)' = {} => p4'[p] = Watch!Active'
                      /\ \A a \in Watch!Pending(p)' : Says(a)'
    BY DEF WatchFresh
  <2>1. Watch!Pending(p)' = {} => p4'[p] = Watch!Active'  BY <1>0 DEF WatchFresh
  <2>2. ASSUME NEW a \in Watch!Pending(p)  PROVE Says(a)'
    <3>1. a.by = p  BY <2>2 DEF Watch!Pending
    <3>2. Says(a)  BY <1>0 DEF WatchFresh
    <3> QED  BY <3>1, <3>2 DEF Says
  <2> QED  BY <2>1, <2>2
<1> QED  BY <1>1, <1>2, <1>3 DEF WatchPanel

(* A request of p becomes another of p; the other panels are not concerned *)
(* unless the list changed.                                                *)
LEMMA WatchBecomes ==
  ASSUME WatchInv, NEW a \in p3, NEW b, b \in WatchAsk, Watch!Becomes(a, b), b.by = a.by,
         b.what # "list" => b.who \in Airframes, b.what = "remove" => b.after = "remove",
         b.what = a.what \/ b.what = "list", b.after = a.after,
         UNCHANGED <<p1, p4, p6, p7, p9>>,
         DOMAIN p2' \subseteq Airframes, \A c \in DOMAIN p2' : p2'[c] \in 0..Watch!Forever,
         p5' \in [Operators -> BOOLEAN], p8' \in [Operators -> BOOLEAN],
         \A p \in Operators \ {a.by} :
            p5'[p] = p5[p] /\ (p8'[p] \/ (p8'[p] = p8[p] /\ Watch!Active' = Watch!Active)),
         p5'[a.by] => p5[a.by] \/ b.what = "list",
         ~ p7[a.by] /\ ~ p8'[a.by] => Says(b)'
  PROVE  WatchInv'
<1> DEFINE o == a.by
<1>0. WatchTypes /\ \A p \in Operators : WatchPanel(p)  BY DEF WatchInv
<1>1. a \in WatchAsk /\ o \in Operators  BY <1>0 DEF WatchTypes, WatchAsk
<1>2. p3' = (p3 \ {a}) \cup {b}  BY DEF Watch!Becomes
<1>3. Watch!Forever' = Watch!Forever  BY DEF Watch!Forever
<1>4. WatchTypes'
  <2>1. p3' \subseteq WatchAsk  BY <1>0, <1>2 DEF WatchTypes
  <2>2. \A x \in p3' : (x.what # "list" => x.who \in Airframes)
                       /\ (x.what = "remove" => x.after = "remove")
    BY <1>0, <1>2 DEF WatchTypes
  <2> QED  BY <1>0, <1>3, <2>1, <2>2 DEF WatchTypes
<1>5. ASSUME NEW p \in Operators, p # o  PROVE WatchPanel(p)'
  <2>1. Watch!Pending(p)' = Watch!Pending(p)
    BY <1>2, <1>5 DEF Watch!Pending
  <2>2. WatchPanel(p)  BY <1>0
  <2>3. p4'[p] = p4[p] /\ p5'[p] = p5[p] /\ p6'[p] = p6[p] /\ p7'[p] = p7[p]
        /\ (p8'[p] \/ (p8'[p] = p8[p] /\ Watch!Active' = Watch!Active))
    BY <1>5
  <2> QED  BY <2>1, <2>2, <2>3, WatchOthers
<1>6. WatchPanel(o)'
  <2>0. WatchOne(o) /\ WatchFresh(o) /\ WatchBusy(o)  BY <1>0, <1>1 DEF WatchPanel
  <2>1. Watch!Pending(o)' = (Watch!Pending(o) \ {a}) \cup {b}
    BY <1>2 DEF Watch!Pending
  <2>2. a \in Watch!Pending(o)  BY DEF Watch!Pending
  <2>3. WatchOne(o)'  BY <2>0, <2>1, <2>2 DEF WatchOne
  <2>4. WatchBusy(o)'
    <3>1. p5'[o] => \E x \in Watch!Pending(o)' : x.what = "list"
      BY <2>0, <2>1 DEF WatchBusy
    <3>2. p6'[o] => \E x \in Watch!Pending(o)' : x.after = "add"
      BY <2>0, <2>1 DEF WatchBusy
    <3> QED  BY <3>1, <3>2 DEF WatchBusy
  <2>5. WatchFresh(o)'
    <3> SUFFICES ASSUME ~ p7'[o], ~ p8'[o]
                 PROVE  \A x \in Watch!Pending(o)' : Says(x)'
      BY <2>1 DEF WatchFresh
    <3>1. Watch!Pending(o)' = {b}  BY <2>0, <2>1, <2>2 DEF WatchOne
    <3>2. Says(b)'  OBVIOUS
    <3> QED  BY <3>1, <3>2
  <2> QED  BY <2>3, <2>4, <2>5 DEF WatchPanel
<1> QED  BY <1>4, <1>5, <1>6 DEF WatchInv

(* An answer is taken in.                                                  *)
LEMMA WatchTaken ==
  ASSUME WatchInv, NEW a \in p3, p3' = p3 \ {a}, UNCHANGED <<p1, p2, p7, p9>>,
         p4' \in [Operators -> SUBSET Airframes], p5' \in [Operators -> BOOLEAN],
         p6' \in [Operators -> BOOLEAN], p8' \in [Operators -> BOOLEAN],
         \A p \in Operators \ {a.by} :
            p4'[p] = p4[p] /\ p5'[p] = p5[p] /\ p6'[p] = p6[p] /\ p8'[p] = p8[p],
         p5'[a.by] => p5[a.by] /\ a.what # "list", p6'[a.by] => p6[a.by] /\ a.after # "add",
         p8[a.by] => p8'[a.by],
         ~ p8'[a.by] /\ Says(a) => p4'[a.by] = Watch!Active
  PROVE  WatchInv'
<1> DEFINE o == a.by
<1>0. WatchTypes /\ \A p \in Operators : WatchPanel(p)  BY DEF WatchInv
<1>1. a \in WatchAsk /\ o \in Operators  BY <1>0 DEF WatchTypes, WatchAsk
<1>2. Watch!Active' = Watch!Active /\ Watch!Forever' = Watch!Forever
  BY DEF Watch!Active, Watch!Forever
<1>3. WatchTypes'  BY <1>0, <1>2 DEF WatchTypes
<1>4. ASSUME NEW p \in Operators, p # o  PROVE WatchPanel(p)'
  <2>1. Watch!Pending(p)' = Watch!Pending(p)  BY <1>4 DEF Watch!Pending
  <2>2. WatchPanel(p)  BY <1>0
  <2>3. p4'[p] = p4[p] /\ p5'[p] = p5[p] /\ p6'[p] = p6[p] /\ p7'[p] = p7[p] /\ p8'[p] = p8[p]
    BY <1>4
  <2> QED  BY <1>2, <2>1, <2>2, <2>3, WatchOthers
<1>5. WatchPanel(o)'
  <2>0. WatchOne(o) /\ WatchFresh(o) /\ WatchBusy(o)  BY <1>0, <1>1 DEF WatchPanel
  <2>1. Watch!Pending(o)' = Watch!Pending(o) \ {a}  BY DEF Watch!Pending
  <2>2. a \in Watch!Pending(o)  BY DEF Watch!Pending
  <2>3. WatchOne(o)'  BY <2>0, <2>1 DEF WatchOne
  <2>4. WatchBusy(o)'
    <3>1. p5'[o] => \E x \in Watch!Pending(o)' : x.what = "list"
      BY <2>0, <2>1 DEF WatchBusy
    <3>2. p6'[o] => \E x \in Watch!Pending(o)' : x.after = "add"
      BY <2>0, <2>1 DEF WatchBusy
    <3> QED  BY <3>1, <3>2 DEF WatchBusy
  <2>5. WatchFresh(o)'
    <3> SUFFICES ASSUME ~ p7'[o], ~ p8'[o]
                 PROVE  /\ p4'[o] = Watch!Active'
                        /\ \A x \in Watch!Pending(o)' : Says(x)'
      BY DEF WatchFresh
    <3>1. Watch!Pending(o)' = {}  BY <2>0, <2>1, <2>2 DEF WatchOne
    <3>2. Says(a)  BY <2>0, <2>2 DEF WatchFresh
    <3>3. p4'[o] = Watch!Active  BY <3>2
    <3> QED  BY <1>2, <3>1, <3>3
  <2> QED  BY <2>3, <2>4, <2>5 DEF WatchPanel
<1> QED  BY <1>3, <1>4, <1>5 DEF WatchInv

(* What the commands do to the list.                                       *)
LEMMA WatchWith ==
  ASSUME WatchTypes, NEW c \in Airframes, NEW t \in 0..Watch!Forever
  PROVE  /\ DOMAIN Watch!With(c, t) \subseteq Airframes
         /\ \A d \in DOMAIN Watch!With(c, t) : Watch!With(c, t)[d] \in 0..Watch!Forever
BY DEF WatchTypes, Watch!With

LEMMA WatchWithout ==
  ASSUME WatchTypes, NEW gone, p1' = p1, p2' = Watch!Without(gone)
  PROVE  /\ DOMAIN p2' \subseteq Airframes
         /\ \A d \in DOMAIN p2' : p2'[d] \in 0..Watch!Forever
         /\ Watch!Active' = Watch!Active \ gone
<1>1. DOMAIN p2' = DOMAIN p2 \ gone /\ \A d \in DOMAIN p2' : p2'[d] = p2[d]
  BY DEF Watch!Without
<1>2. DOMAIN p2' \subseteq Airframes /\ \A d \in DOMAIN p2' : p2'[d] \in 0..Watch!Forever
  BY <1>1 DEF WatchTypes
<1>3. Watch!Active' = Watch!Active \ gone  BY <1>1 DEF Watch!Active
<1> QED  BY <1>2, <1>3

(* What changes the list only, where the panels that were not told of it   *)
(* show it still.                                                          *)
LEMMA WatchListChanges ==
  ASSUME WatchInv, UNCHANGED <<p3, p4, p5, p6, p7, p9>>, p1' \in 0..MaxDays,
         DOMAIN p2' \subseteq Airframes, \A c \in DOMAIN p2' : p2'[c] \in 0..Watch!Forever,
         p8' \in [Operators -> BOOLEAN],
         \A p \in Operators : p8'[p] \/ (p8'[p] = p8[p] /\ Watch!Active' = Watch!Active)
  PROVE  WatchInv'
<1>0. WatchTypes /\ \A p \in Operators : WatchPanel(p)  BY DEF WatchInv
<1>1. Watch!Forever' = Watch!Forever  BY DEF Watch!Forever
<1>2. WatchTypes'  BY <1>0, <1>1 DEF WatchTypes
<1>3. ASSUME NEW p \in Operators  PROVE WatchPanel(p)'
  <2>1. Watch!Pending(p)' = Watch!Pending(p)  BY DEF Watch!Pending
  <2>2. WatchPanel(p)  BY <1>0
  <2> QED  BY <2>1, <2>2, WatchOthers
<1> QED  BY <1>2, <1>3 DEF WatchInv

(* A panel asks.                                                           *)
LEMMA WatchSends ==
  ASSUME WatchInv, NEW p \in Operators, NEW what \in {"add", "remove"}, NEW c \in Airframes,
         Watch!Send(p, what, c), UNCHANGED <<p1, p2, p4, p5, p8>>,
         p6' \in [Operators -> BOOLEAN], \A q \in Operators \ {p} : p6'[q] = p6[q],
         p6'[p] => p6[p] \/ what = "add"
  PROVE  WatchInv'
<1>a. PICK a : a = Watch!Ask(p, what, c)  OBVIOUS
<1>0. WatchTypes /\ \A q \in Operators : WatchPanel(q)  BY DEF WatchInv
<1>1. /\ p9 < MaxCalls /\ p9' = p9 + 1 /\ p3' = p3 \cup {a}
      /\ p7' = [p7 EXCEPT ![p] = p7[p] \/ Watch!Pending(p) # {}]
  BY <1>a DEF Watch!Send
<1>2. MaxCalls \in Nat /\ p9 \in 0..MaxCalls  BY <1>0, PanelsAssumption DEF WatchTypes
<1>3. p9' \in 0..MaxCalls /\ p9 + 1 \in Nat  BY <1>1, <1>2
<1>4. a \in WatchAsk  BY <1>a, <1>3 DEF WatchAsk, Watch!Ask
<1>5. a.by = p /\ a.what = what /\ a.who = c /\ a.at = "sent" /\ a.after = what
  BY <1>a DEF Watch!Ask
<1>6. Watch!Active' = Watch!Active /\ Watch!Forever' = Watch!Forever
  BY DEF Watch!Active, Watch!Forever
<1>7. /\ p7' \in [Operators -> BOOLEAN] /\ p7'[p] = (p7[p] \/ Watch!Pending(p) # {})
      /\ \A q \in Operators \ {p} : p7'[q] = p7[q]
  BY <1>0, <1>1 DEF WatchTypes
<1>8. WatchTypes'
  <2>1. p3' \subseteq WatchAsk  BY <1>0, <1>1, <1>4 DEF WatchTypes
  <2>2. \A x \in p3' : (x.what # "list" => x.who \in Airframes)
                       /\ (x.what = "remove" => x.after = "remove")
    BY <1>0, <1>1, <1>5 DEF WatchTypes
  <2> QED  BY <1>0, <1>3, <1>6, <1>7, <2>1, <2>2 DEF WatchTypes
<1>9. ASSUME NEW q \in Operators, q # p  PROVE WatchPanel(q)'
  <2>1. Watch!Pending(q)' = Watch!Pending(q)  BY <1>1, <1>5, <1>9 DEF Watch!Pending
  <2>2. WatchPanel(q)  BY <1>0
  <2>3. p4'[q] = p4[q] /\ p5'[q] = p5[q] /\ p6'[q] = p6[q] /\ p7'[q] = p7[q] /\ p8'[q] = p8[q]
    BY <1>7, <1>9
  <2> QED  BY <1>6, <2>1, <2>2, <2>3, WatchOthers
<1>10. WatchPanel(p)'
  <2>0. WatchOne(p) /\ WatchFresh(p) /\ WatchBusy(p)  BY <1>0 DEF WatchPanel
  <2>1. Watch!Pending(p)' = Watch!Pending(p) \cup {a}  BY <1>1, <1>5 DEF Watch!Pending
  <2>2. WatchOne(p)'  BY <1>7, <2>1 DEF WatchOne
  <2>3. WatchBusy(p)'
    <3>1. p5'[p] => \E x \in Watch!Pending(p)' : x.what = "list"
      BY <2>0, <2>1 DEF WatchBusy
    <3>2. p6'[p] => \E x \in Watch!Pending(p)' : x.after = "add"
      BY <1>5, <2>0, <2>1 DEF WatchBusy
    <3> QED  BY <3>1, <3>2 DEF WatchBusy
  <2>4. WatchFresh(p)'
    <3> SUFFICES ASSUME ~ p7'[p], ~ p8'[p]
                 PROVE  \A x \in Watch!Pending(p)' : Says(x)'
      BY <2>1 DEF WatchFresh
    <3>1. ~ p7[p] /\ Watch!Pending(p) = {}  BY <1>7
    <3>2. p4[p] = Watch!Active  BY <2>0, <3>1 DEF WatchFresh
    <3>3. Says(a)'  BY <1>5, <1>6, <3>2 DEF Says
    <3> QED  BY <2>1, <3>1, <3>3
  <2> QED  BY <2>2, <2>3, <2>4 DEF WatchPanel
<1> QED  BY <1>8, <1>9, <1>10 DEF WatchInv

LEMMA WatchOpens ==
  ASSUME WatchInv, NEW p \in Operators, Watch!Open(p)
  PROVE  WatchInv'
<1>a. PICK a : a = Watch!Ask(p, "list", CHOOSE c \in Airframes : TRUE)  OBVIOUS
<1>0. WatchTypes /\ \A q \in Operators : WatchPanel(q)  BY DEF WatchInv
<1>1. /\ p9 < MaxCalls /\ p9' = p9 + 1 /\ p3' = (p3 \ Watch!Pending(p)) \cup {a}
      /\ p4' = [p4 EXCEPT ![p] = {}] /\ p5' = [p5 EXCEPT ![p] = TRUE]
      /\ p6' = [p6 EXCEPT ![p] = FALSE] /\ p7' = [p7 EXCEPT ![p] = (Watch!Pending(p) # {})]
      /\ UNCHANGED <<p1, p2, p8>>
  BY <1>a DEF Watch!Open
<1>2. MaxCalls \in Nat /\ p9 \in 0..MaxCalls  BY <1>0, PanelsAssumption DEF WatchTypes
<1>3. p9' \in 0..MaxCalls /\ p9 + 1 \in Nat  BY <1>1, <1>2
<1>4. a \in WatchAsk  BY <1>a, <1>3 DEF WatchAsk, Watch!Ask
<1>5. a.by = p /\ a.what = "list" /\ a.at = "sent"
  BY <1>a DEF Watch!Ask
<1>6. Watch!Active' = Watch!Active /\ Watch!Forever' = Watch!Forever
  BY <1>1 DEF Watch!Active, Watch!Forever
<1>t. /\ p4 \in [Operators -> SUBSET Airframes] /\ p5 \in [Operators -> BOOLEAN]
      /\ p6 \in [Operators -> BOOLEAN] /\ p7 \in [Operators -> BOOLEAN]
  BY <1>0 DEF WatchTypes
<1>7. /\ p4' \in [Operators -> SUBSET Airframes] /\ p5' \in [Operators -> BOOLEAN]
      /\ p6' \in [Operators -> BOOLEAN] /\ p7' \in [Operators -> BOOLEAN]
      /\ \A q \in Operators \ {p} :
            p4'[q] = p4[q] /\ p5'[q] = p5[q] /\ p6'[q] = p6[q] /\ p7'[q] = p7[q]
      /\ p6'[p] = FALSE
  BY <1>1, <1>t
<1>8. WatchTypes'
  <2>1. p3' \subseteq WatchAsk  BY <1>0, <1>1, <1>4 DEF WatchTypes
  <2>2. \A x \in p3' : (x.what # "list" => x.who \in Airframes)
                       /\ (x.what = "remove" => x.after = "remove")
    BY <1>0, <1>1, <1>5 DEF WatchTypes
  <2> QED  BY <1>0, <1>1, <1>3, <1>6, <1>7, <2>1, <2>2 DEF WatchTypes
<1>9. ASSUME NEW q \in Operators, q # p  PROVE WatchPanel(q)'
  <2>1. Watch!Pending(q)' = Watch!Pending(q)  BY <1>1, <1>5, <1>9 DEF Watch!Pending
  <2>2. WatchPanel(q)  BY <1>0
  <2>3. p4'[q] = p4[q] /\ p5'[q] = p5[q] /\ p6'[q] = p6[q] /\ p7'[q] = p7[q] /\ p8'[q] = p8[q]
    BY <1>1, <1>7, <1>9
  <2> QED  BY <1>6, <2>1, <2>2, <2>3, WatchOthers
<1>10. WatchPanel(p)'
  <2>1. Watch!Pending(p)' = {a}  BY <1>1, <1>5 DEF Watch!Pending
  <2>2. WatchOne(p)'  BY <2>1 DEF WatchOne
  <2>3. WatchBusy(p)'  BY <1>5, <1>7, <2>1 DEF WatchBusy
  <2>4. Says(a)'  BY <1>5 DEF Says
  <2>5. WatchFresh(p)'  BY <2>1, <2>4 DEF WatchFresh
  <2> QED  BY <2>2, <2>3, <2>5 DEF WatchPanel
<1> QED  BY <1>8, <1>9, <1>10 DEF WatchInv

LEMMA WatchNext == WatchInv /\ (Watch!Next \/ UNCHANGED WatchVars) => WatchInv'
<1> SUFFICES ASSUME WatchInv, Watch!Next \/ UNCHANGED WatchVars  PROVE WatchInv'
  OBVIOUS
<1> USE DEF WatchVars
<1>0. WatchTypes /\ \A p \in Operators : WatchPanel(p)  BY DEF WatchInv
<1>t. /\ p1 \in 0..MaxDays /\ DOMAIN p2 \subseteq Airframes
      /\ \A c \in DOMAIN p2 : p2[c] \in 0..Watch!Forever
      /\ p4 \in [Operators -> SUBSET Airframes]
      /\ p5 \in [Operators -> BOOLEAN] /\ p6 \in [Operators -> BOOLEAN]
      /\ p7 \in [Operators -> BOOLEAN] /\ p8 \in [Operators -> BOOLEAN]
  BY <1>0 DEF WatchTypes
<1>c. MaxDays \in Nat /\ Ttl \in Nat  BY PanelsAssumption
<1>f. Watch!Forever \in Nat /\ Watch!Forever = MaxDays + Ttl + 1  BY <1>c DEF Watch!Forever
<1>q. \A a \in p3 : /\ a \in WatchAsk /\ a.by \in Operators
                    /\ a.what # "list" => a.who \in Airframes
                    /\ a.what = "remove" => a.after = "remove"
  BY <1>0 DEF WatchTypes, WatchAsk
<1>s. \A a \in p3 : ~ p7[a.by] /\ ~ p8[a.by] => Says(a)
  BY <1>0, <1>q DEF WatchPanel, WatchFresh, Watch!Pending
<1>1. ASSUME NEW p \in Operators, Watch!Open(p)  PROVE WatchInv'
  BY <1>1, WatchOpens
<1>2. ASSUME NEW p \in Operators, NEW c \in Airframes, Watch!AddEntry(p, c)  PROVE WatchInv'
  <2>1. Watch!Send(p, "add", c) /\ p6' = [p6 EXCEPT ![p] = TRUE] /\ UNCHANGED <<p1, p2, p4, p5, p8>>
    BY <1>2 DEF Watch!AddEntry
  <2>2. p6' \in [Operators -> BOOLEAN] /\ \A q \in Operators \ {p} : p6'[q] = p6[q]
    BY <1>t, <2>1
  <2> QED  BY <2>1, <2>2, WatchSends
<1>3. ASSUME NEW p \in Operators, NEW c \in Airframes, Watch!RemoveEntry(p, c)  PROVE WatchInv'
  <2>1. Watch!Send(p, "remove", c) /\ UNCHANGED <<p1, p2, p4, p5, p6, p8>>
    BY <1>3 DEF Watch!RemoveEntry, Watch!panels
  <2> QED  BY <1>t, <2>1, WatchSends
<1>4. ASSUME NEW a \in p3, Watch!GetWatchlist(a)  PROVE WatchInv'
  <2>b. PICK b : b = [a EXCEPT !.at = "done", !.got = Watch!Active]  OBVIOUS
  <2>1. a.what = "list" /\ Watch!Becomes(a, b) /\ p8' = [p8 EXCEPT ![a.by] = FALSE]
        /\ UNCHANGED <<p1, p2, p4, p5, p6, p7, p9>>
    BY <1>4, <2>b DEF Watch!GetWatchlist, Watch!panels
  <2>2. Watch!Active \in SUBSET Airframes  BY <1>t DEF Watch!Active
  <2>3. b \in WatchAsk /\ b.by = a.by /\ b.what = a.what /\ b.after = a.after /\ b.at = "done"
        /\ b.got = Watch!Active
    BY <1>q, <2>2, <2>b DEF WatchAsk
  <2>4. Watch!Active' = Watch!Active  BY <2>1 DEF Watch!Active
  <2>5. Says(b)'  BY <2>1, <2>3, <2>4 DEF Says
  <2>6. p8' \in [Operators -> BOOLEAN] /\ \A p \in Operators \ {a.by} : p8'[p] = p8[p]
    BY <1>t, <2>1
  <2> QED  BY <1>t, <2>1, <2>3, <2>4, <2>5, <2>6, WatchBecomes
<1>o. ASSUME NEW o \in Operators, Watch!OthersChange(o)
      PROVE  /\ p8' \in [Operators -> BOOLEAN] /\ \A p \in Operators \ {o} : p8'[p]
             /\ p8'[o] = p8[o]
  <2>1. p8' = [q \in Operators |-> p8[q] \/ q # o]  BY <1>o DEF Watch!OthersChange
  <2>2. p8' \in [Operators -> BOOLEAN]  BY <2>1
  <2>3. p8'[o] = (p8[o] \/ FALSE) /\ p8[o] \in BOOLEAN  BY <1>t, <2>1
  <2> QED  BY <2>1, <2>2, <2>3
<1>5. ASSUME NEW a \in p3, Watch!AddToWatchlist(a)  PROVE WatchInv'
  <2>b. PICK b : b = [a EXCEPT !.at = "done"]  OBVIOUS
  <2>1. a.what = "add" /\ Watch!Becomes(a, b) /\ p2' = Watch!With(a.who, Watch!Forever)
        /\ Watch!OthersChange(a.by) /\ UNCHANGED <<p1, p4, p5, p6, p7, p9>>
    BY <1>5, <2>b DEF Watch!AddToWatchlist, Watch!panels
  <2>2. a.who \in Airframes  BY <1>q, <2>1
  <2>3. b \in WatchAsk /\ b.by = a.by /\ b.what = a.what /\ b.after = a.after /\ b.at = "done"
        /\ b.who = a.who
    BY <1>q, <2>b DEF WatchAsk
  <2>4. Says(b)'  BY <2>1, <2>3 DEF Says
  <2>5. Watch!Forever \in 0..Watch!Forever  BY <1>f
  <2>6. DOMAIN p2' \subseteq Airframes /\ \A d \in DOMAIN p2' : p2'[d] \in 0..Watch!Forever
    BY <1>0, <2>1, <2>2, <2>5, WatchWith
  <2>7. p8' \in [Operators -> BOOLEAN] /\ \A p \in Operators \ {a.by} : p8'[p]
    BY <1>q, <1>o, <2>1
  <2>8. b.what = "add"  BY <2>1, <2>3
  <2> QED  BY <1>t, <2>1, <2>2, <2>3, <2>4, <2>6, <2>7, <2>8, WatchBecomes
<1>6. ASSUME NEW a \in p3, Watch!RemoveFromWatchlist(a)  PROVE WatchInv'
  <2> DEFINE at == IF a.who \in DOMAIN p2 THEN "done" ELSE "refused"
  <2>b. PICK b : b = [a EXCEPT !.at = at]  OBVIOUS
  <2>1. a.what = "remove" /\ a.at = "sent" /\ Watch!Becomes(a, b) /\ p2' = Watch!Without({a.who})
        /\ Watch!OthersChange(a.by) /\ UNCHANGED <<p1, p4, p5, p6, p7, p9>>
    BY <1>6, <2>b DEF Watch!RemoveFromWatchlist, Watch!panels
  <2>2. a.who \in Airframes /\ a.by \in Operators /\ a.after = "remove"  BY <1>q, <2>1
  <2>3. b \in WatchAsk /\ b.by = a.by /\ b.what = a.what /\ b.after = a.after /\ b.at = at
        /\ b.who = a.who
    <3>1. at \in {"done", "refused"}  OBVIOUS
    <3> HIDE DEF at
    <3> QED  BY <1>q, <2>b, <3>1 DEF WatchAsk
  <2>4. /\ DOMAIN p2' \subseteq Airframes /\ \A d \in DOMAIN p2' : p2'[d] \in 0..Watch!Forever
        /\ Watch!Active' = Watch!Active \ {a.who}
    BY <1>0, <2>1, WatchWithout
  <2>5. /\ p8' \in [Operators -> BOOLEAN] /\ \A p \in Operators \ {a.by} : p8'[p]
        /\ p8'[a.by] = p8[a.by]
    BY <2>2, <1>o, <2>1
  <2>6. ASSUME ~ p7[a.by], ~ p8'[a.by]  PROVE Says(b)'
    <3>1. p4[a.by] = Watch!Active  BY <1>s, <2>1, <2>5, <2>6 DEF Says
    <3>2. CASE a.who \in DOMAIN p2
      <4>1. b.at = "done"  BY <2>3, <3>2
      <4>2. p4'[b.by] \ {b.who} = Watch!Active'  BY <2>1, <2>3, <2>4, <3>1
      <4> QED  BY <2>1, <2>3, <4>1, <4>2 DEF Says
    <3>3. CASE a.who \notin DOMAIN p2
      <4>1. b.at = "refused"  BY <2>3, <3>3
      <4>2. a.who \notin Watch!Active  BY <3>3 DEF Watch!Active
      <4>3. p4'[b.by] = Watch!Active'  BY <2>1, <2>3, <2>4, <3>1, <4>2
      <4> QED  BY <2>1, <2>3, <4>1, <4>3 DEF Says
    <3> QED  BY <3>2, <3>3
  <2>7. b.what = "remove" /\ b.after = "remove"  BY <2>1, <2>2, <2>3
  <2> QED  BY <1>t, <2>1, <2>2, <2>3, <2>4, <2>5, <2>6, <2>7, WatchBecomes
<1>7. ASSUME NEW a \in p3, Watch!Refuse(a)  PROVE WatchInv'
  <2>b. PICK b : b = [a EXCEPT !.at = "refused"]  OBVIOUS
  <2>1. a.at = "sent" /\ Watch!Becomes(a, b) /\ UNCHANGED <<p1, p2, p4, p5, p6, p7, p8, p9>>
    BY <1>7, <2>b DEF Watch!Refuse, Watch!panels
  <2>2. b \in WatchAsk /\ b.by = a.by /\ b.what = a.what /\ b.after = a.after /\ b.at = "refused"
        /\ b.who = a.who
    BY <1>q, <2>b DEF WatchAsk
  <2>3. Watch!Active' = Watch!Active  BY <2>1 DEF Watch!Active
  <2>4. ASSUME ~ p7[a.by], ~ p8'[a.by]  PROVE Says(b)'
    <3>1. a.what # "list" => p4[a.by] = Watch!Active  BY <1>s, <2>1, <2>4 DEF Says
    <3> QED  BY <2>1, <2>2, <2>3, <3>1 DEF Says
  <2>5. (b.what # "list" => b.who \in Airframes) /\ (b.what = "remove" => b.after = "remove")
    BY <1>q, <2>2
  <2> QED  BY <1>t, <2>1, <2>2, <2>3, <2>4, <2>5, WatchBecomes
<1>8. ASSUME NEW a \in p3, Watch!Added(a)  PROVE WatchInv'
  <2>b. PICK b : b = [a EXCEPT !.what = "list", !.at = "sent"]  OBVIOUS
  <2>1. Watch!Becomes(a, b) /\ p5' = [p5 EXCEPT ![a.by] = TRUE]
        /\ UNCHANGED <<p1, p2, p4, p6, p7, p8, p9>>
    BY <1>8, <2>b DEF Watch!Added
  <2>2. b \in WatchAsk /\ b.by = a.by /\ b.what = "list" /\ b.after = a.after /\ b.at = "sent"
    BY <1>q, <2>b DEF WatchAsk
  <2>3. Watch!Active' = Watch!Active  BY <2>1 DEF Watch!Active
  <2>4. Says(b)'  BY <2>2 DEF Says
  <2>5. p5' \in [Operators -> BOOLEAN] /\ \A p \in Operators \ {a.by} : p5'[p] = p5[p]
    BY <1>t, <2>1
  <2> QED  BY <1>t, <2>1, <2>2, <2>3, <2>4, <2>5, WatchBecomes
<1>9. ASSUME NEW a \in p3, Watch!Listed(a)  PROVE WatchInv'
  <2>1. /\ a.what = "list" /\ a.at = "done" /\ p3' = p3 \ {a}
        /\ p4' = [p4 EXCEPT ![a.by] = a.got] /\ p5' = [p5 EXCEPT ![a.by] = FALSE]
        /\ p6' = [p6 EXCEPT ![a.by] = p6[a.by] /\ a.after # "add"]
        /\ UNCHANGED <<p1, p2, p7, p8, p9>>
    BY <1>9 DEF Watch!Listed
  <2>2. a.got \in SUBSET Airframes /\ a.by \in Operators  BY <1>q DEF WatchAsk
  <2>3. /\ p4' \in [Operators -> SUBSET Airframes] /\ p4'[a.by] = a.got
        /\ p5' \in [Operators -> BOOLEAN] /\ p5'[a.by] = FALSE
        /\ p6' \in [Operators -> BOOLEAN] /\ p6'[a.by] = (p6[a.by] /\ a.after # "add")
    BY <1>t, <2>1, <2>2
  <2>4. \A p \in Operators \ {a.by} :
           p4'[p] = p4[p] /\ p5'[p] = p5[p] /\ p6'[p] = p6[p] /\ p8'[p] = p8[p]
    BY <1>t, <2>1
  <2>5. Says(a) => p4'[a.by] = Watch!Active  BY <2>1, <2>3 DEF Says
  <2> QED  BY <1>t, <2>1, <2>3, <2>4, <2>5, WatchTaken
<1>10. ASSUME NEW a \in p3, Watch!Removed(a)  PROVE WatchInv'
  <2>1. /\ a.what = "remove" /\ a.at = "done" /\ p3' = p3 \ {a}
        /\ p4' = [p4 EXCEPT ![a.by] = p4[a.by] \ {a.who}]
        /\ UNCHANGED <<p1, p2, p5, p6, p7, p8, p9>>
    BY <1>10 DEF Watch!Removed
  <2>2. a.by \in Operators /\ a.after = "remove"  BY <1>q, <2>1
  <2>3. p4' \in [Operators -> SUBSET Airframes] /\ p4'[a.by] = p4[a.by] \ {a.who}
    BY <1>t, <2>1, <2>2
  <2>4. \A p \in Operators \ {a.by} :
           p4'[p] = p4[p] /\ p5'[p] = p5[p] /\ p6'[p] = p6[p] /\ p8'[p] = p8[p]
    BY <1>t, <2>1
  <2>5. Says(a) => p4'[a.by] = Watch!Active  BY <2>1, <2>3 DEF Says
  <2> QED  BY <1>t, <2>1, <2>2, <2>3, <2>4, <2>5, WatchTaken
<1>11. ASSUME NEW a \in p3, Watch!Refused(a)  PROVE WatchInv'
  <2>1. /\ a.at = "refused" /\ p3' = p3 \ {a}
        /\ p5' = [p5 EXCEPT ![a.by] = p5[a.by] /\ a.what # "list"]
        /\ p6' = [p6 EXCEPT ![a.by] = p6[a.by] /\ a.after # "add"]
        /\ p8' = [p8 EXCEPT ![a.by] = p8[a.by] \/ a.what = "list"]
        /\ UNCHANGED <<p1, p2, p4, p7, p9>>
    BY <1>11 DEF Watch!Refused
  <2>2. a.by \in Operators  BY <1>q
  <2>3. /\ p5' \in [Operators -> BOOLEAN] /\ p5'[a.by] = (p5[a.by] /\ a.what # "list")
        /\ p6' \in [Operators -> BOOLEAN] /\ p6'[a.by] = (p6[a.by] /\ a.after # "add")
        /\ p8' \in [Operators -> BOOLEAN] /\ p8'[a.by] = (p8[a.by] \/ a.what = "list")
    BY <1>t, <2>1, <2>2
  <2>4. \A p \in Operators \ {a.by} :
           p4'[p] = p4[p] /\ p5'[p] = p5[p] /\ p6'[p] = p6[p] /\ p8'[p] = p8[p]
    BY <1>t, <2>1
  <2>5. ~ p8'[a.by] /\ Says(a) => p4'[a.by] = Watch!Active  BY <2>1, <2>3 DEF Says
  <2>6. p4' \in [Operators -> SUBSET Airframes]  BY <1>t, <2>1
  <2> QED  BY <2>1, <2>3, <2>4, <2>5, <2>6, WatchTaken
<1>12. ASSUME NEW c \in Airframes, Watch!Seed(c)  PROVE WatchInv'
  <2>1. p2' = Watch!With(c, p1 + Ttl) /\ p8' = [p \in Operators |-> TRUE]
        /\ UNCHANGED <<p1, p3, p4, p5, p6, p7, p9>>
    BY <1>12 DEF Watch!Seed, Watch!panels
  <2>2. p1 + Ttl \in 0..Watch!Forever  BY <1>t, <1>c, <1>f
  <2>3. DOMAIN p2' \subseteq Airframes /\ \A d \in DOMAIN p2' : p2'[d] \in 0..Watch!Forever
    BY <1>0, <2>1, <2>2, WatchWith
  <2> QED  BY <1>t, <2>1, <2>3, WatchListChanges
<1>13. ASSUME Watch!CleanupExpired  PROVE WatchInv'
  <2> DEFINE gone == {c \in DOMAIN p2 : p2[c] < p1}
  <2>1. p2' = Watch!Without(gone) /\ UNCHANGED <<p1, p3, p4, p5, p6, p7, p8, p9>>
    BY <1>13 DEF Watch!CleanupExpired, Watch!panels
  <2>2. Watch!Active \cap gone = {}
    BY <1>t DEF Watch!Active
  <2> HIDE DEF gone
  <2>3. /\ DOMAIN p2' \subseteq Airframes /\ \A d \in DOMAIN p2' : p2'[d] \in 0..Watch!Forever
        /\ Watch!Active' = Watch!Active \ gone
    BY <1>0, <2>1, WatchWithout
  <2>4. Watch!Active' = Watch!Active  BY <2>2, <2>3
  <2> QED  BY <1>t, <2>1, <2>3, <2>4, WatchListChanges
<1>14. ASSUME Watch!Tick  PROVE WatchInv'
  <2> DEFINE due == \E c \in DOMAIN p2 : p2[c] = p1
  <2>1. p1 < MaxDays /\ p1' = p1 + 1 /\ p8' = [p \in Operators |-> p8[p] \/ due]
        /\ UNCHANGED <<p2, p3, p4, p5, p6, p7, p9>>
    BY <1>14 DEF Watch!Tick, Watch!panels
  <2>2. p1' \in 0..MaxDays  BY <1>t, <1>c, <2>1
  <2>3. ~ due => Watch!Active' = Watch!Active
    <3> SUFFICES ASSUME ~ due  PROVE Watch!Active' = Watch!Active
      OBVIOUS
    <3>1. \A c \in DOMAIN p2 : p2[c] \in Nat /\ p2[c] # p1  BY <1>t
    <3>2. \A c \in DOMAIN p2 : p2[c] >= p1 <=> p2[c] >= p1'  BY <1>t, <2>1, <3>1
    <3> QED  BY <2>1, <3>2 DEF Watch!Active
  <2> HIDE DEF due
  <2>4. \A p \in Operators : p8[p] \in BOOLEAN /\ p8'[p] = (p8[p] \/ due)  BY <1>t, <2>1
  <2>5. p8' \in [Operators -> BOOLEAN]
    <3>1. \A p \in Operators : (p8[p] \/ due) \in BOOLEAN  BY <2>4
    <3> QED  BY <2>1, <3>1
  <2>6. \A p \in Operators : p8'[p] \/ (p8'[p] = p8[p] /\ Watch!Active' = Watch!Active)
    <3>1. CASE due
      BY <2>4, <3>1
    <3>2. CASE ~ due
      BY <2>3, <2>4, <3>2
    <3> QED  BY <3>1, <3>2
  <2> QED  BY <1>t, <2>1, <2>2, <2>5, <2>6, WatchListChanges
<1>15. ASSUME UNCHANGED WatchVars  PROVE WatchInv'
  <2>1. UNCHANGED <<p1, p2, p3, p4, p5, p6, p7, p8, p9>>  BY <1>15 DEF Watch!vars
  <2>2. Watch!Active' = Watch!Active  BY <2>1 DEF Watch!Active
  <2> QED  BY <1>t, <2>1, <2>2, WatchListChanges
<1> QED
  BY <1>1, <1>2, <1>3, <1>4, <1>5, <1>6, <1>7, <1>8, <1>9, <1>10, <1>11, <1>12, <1>13, <1>14, <1>15
  DEF Watch!Next

-----------------------------------------------------------------------------
(***************************************************************************)
(* The filters: filters is p1, orbital p2, saved p3, prefs p4, riskPref    *)
(* p5, preset p6, view p7, hash p8, pending p9, memory p10, at p11, clicks *)
(* p12, loads p13.                                                         *)
(***************************************************************************)
LayersVars == Layers!vars

OnOff == {"on", "off"}
Memory == [at : 0..MaxPans, layers : SUBSET Filters, known : BOOLEAN]

LayersTypes ==
  /\ p1 \in [Filters -> Layers!Values] /\ p2 \in [Filters -> Layers!Values]
  /\ p3 = Layers!None \/ p3 \in [Filters -> Layers!Values]
  /\ p4 \in [Filters -> Layers!Values] /\ p5 \in [PageViews -> Layers!Values]
  /\ p6 = Layers!None \/ p6 \in [Filters -> Layers!Values]
  /\ p7 \in PageViews /\ p8 \in Layers!Address /\ p11 \in 0..MaxPans
  /\ p9 = Layers!None \/ p9 \in Layers!Address
  /\ p10 \in Memory
  /\ p12 \in 0..MaxClicks /\ p13 \in 0..MaxReloads

(* What has a default is on or off.                                        *)
Given(f) == \A k \in Filters : f[k] = "unset" => Layers!Default(k) = "unset"
GivenOrbital(f) == \A k \in Filters \cap Layers!OrbitalKeys : f[k] \in OnOff

LayersInv ==
  LayersTypes /\ Given(p1) /\ GivenOrbital(p2) /\ Layers!RiskFollowsView

LEMMA LayersDefaults ==
  /\ Layers!Default("showIXPs") = "off" /\ Layers!Default("showFacilities") = "off"
  /\ Layers!Default("showH3Risk") = "off" /\ Layers!Default("showISS") = "on"
  /\ \A k : Layers!Default(k) \in Layers!Values
<1>1. Layers!Default("showIXPs") = "off"
  BY DEF Layers!Default, Layers!AirKinds, Layers!SeaKinds
<1>2. Layers!Default("showFacilities") = "off"
  BY DEF Layers!Default, Layers!AirKinds, Layers!SeaKinds
<1>3. Layers!Default("showH3Risk") = "off"
  BY DEF Layers!Default, Layers!AirKinds, Layers!SeaKinds
<1>4. Layers!Default("showISS") = "on"
  BY DEF Layers!Default
<1>5. \A k : Layers!Default(k) \in Layers!Values
  BY DEF Layers!Default, Layers!Values
<1> QED  BY <1>1, <1>2, <1>3, <1>4, <1>5

LEMMA LayersOrbitalKeys ==
  /\ Layers!SatKinds = {"showSatGPS", "showSatWeather", "showSatComms", "showSatSurveillance",
                        "showSatOther"}
  /\ "showIXPs" \notin Layers!OrbitalKeys /\ "showFacilities" \notin Layers!OrbitalKeys
BY DEF Layers!OrbitalKeys, Layers!SatKinds

(* The two ways to read a filter agree but on two, where it is missing.    *)
LEMMA LayersRead ==
  ASSUME NEW k, NEW v \in Layers!Values,
         v \in OnOff \/ k \notin {"showIXPs", "showFacilities"}
  PROVE  Layers!Checked(k, v) = Layers!Drawn(k, v)
<1> DEFINE c == Layers!RFSwitches \cup Layers!CableSwitches \cup Layers!NetworkSwitches \cup
                Layers!SiteSwitches \cup Layers!EnvironmentSwitches \cup
                Layers!AnalysisSwitches \cup Layers!HazardSwitches \cup Layers!AirSwitches \cup
                Layers!SeaSwitches \cup Layers!SatSwitches \cup {"showConstellation_Starlink"}
<1>1. Layers!Checked(k, v) = IF k \in c THEN v # "off" ELSE v = "on"
  BY DEF Layers!Checked
<1>2. Layers!Drawn(k, v) = IF k \in Layers!DrawnUnlessOff THEN v # "off" ELSE v = "on"
  BY DEF Layers!Drawn
<1>3. CASE v \in OnOff
  <2>1. (v # "off") = (v = "on")  BY <1>3 DEF OnOff
  <2> QED  BY <1>1, <1>2, <2>1
<1>4. CASE k \notin {"showIXPs", "showFacilities"}
  <2>1. k \in c <=> k \in Layers!DrawnUnlessOff
    BY <1>4 DEF Layers!DrawnUnlessOff, Layers!RFSwitches, Layers!CableSwitches,
         Layers!NetworkSwitches, Layers!SiteSwitches, Layers!EnvironmentSwitches,
         Layers!AnalysisSwitches, Layers!HazardSwitches, Layers!AirSwitches,
         Layers!SeaSwitches, Layers!SatSwitches, Layers!ShadingLayers, Layers!InfraLayers,
         Layers!ZoneLayers, Layers!NewsLayers, Layers!IssLayer, Layers!HoldingLayer
  <2> HIDE DEF c
  <2> QED  BY <1>1, <1>2, <2>1
<1> QED  BY <1>3, <1>4

LEMMA LayersSwitches ==
  ASSUME LayersInv
  PROVE  Layers!SwitchShowsLayer
<1>1. /\ p1 \in [Filters -> Layers!Values] /\ p2 \in [Filters -> Layers!Values]
      /\ Given(p1) /\ GivenOrbital(p2)
  BY DEF LayersInv, LayersTypes
<1>2. ASSUME NEW k \in Filters
      PROVE  Layers!Checked(k, p1[k]) = Layers!Drawn(k, p1[k])
  <2>1. p1[k] \in Layers!Values  BY <1>1
  <2>2. CASE p1[k] = "unset"
    <3>1. Layers!Default(k) = "unset"  BY <1>1, <2>2 DEF Given
    <3>2. k \notin {"showIXPs", "showFacilities"}  BY <3>1, LayersDefaults
    <3> QED  BY <2>1, <3>2, LayersRead
  <2>3. CASE p1[k] # "unset"
    <3>1. p1[k] \in OnOff  BY <2>1, <2>3 DEF OnOff, Layers!Values
    <3> QED  BY <2>1, <3>1, LayersRead
  <2> QED  BY <2>2, <2>3
<1>3. ASSUME NEW k \in Filters \cap Layers!OrbitalKeys
      PROVE  Layers!Checked(k, p2[k]) = Layers!Drawn(k, p2[k])
  <2>1. p2[k] \in Layers!Values /\ p2[k] \in OnOff  BY <1>1 DEF GivenOrbital
  <2> QED  BY <2>1, LayersRead
<1> QED  BY <1>2, <1>3 DEF Layers!SwitchShowsLayer

LEMMA LayersGroups ==
  ASSUME LayersInv
  PROVE  Layers!GroupIsTruthful
<1> DEFINE late == {"showCables", "showLandingStations", "showHoldingPatterns"}
<1>1. p1 \in [Filters -> Layers!Values] /\ Given(p1)
  BY DEF LayersInv, LayersTypes
<1>2. ASSUME NEW g \in Layers!Groups, NEW k \in g \cap Filters
      PROVE  Layers!Drawn(k, p1[k]) <=> (IF k \in late THEN p1[k] # "off" ELSE p1[k] = "on")
  <2>1. p1[k] \in Layers!Values  BY <1>1
  <2>2. CASE p1[k] # "unset"
    <3>1. (p1[k] # "off") = (p1[k] = "on")  BY <2>1, <2>2 DEF Layers!Values
    <3> QED  BY <3>1 DEF Layers!Drawn
  <2>3. CASE p1[k] = "unset"
    <3>1. Layers!Default(k) = "unset"  BY <1>1, <2>3 DEF Given
    <3>2. k \notin {"showIXPs", "showFacilities", "showISS"}  BY <3>1, LayersDefaults
    <3>3. k \in Layers!DrawnUnlessOff <=> k \in late
      BY <3>2 DEF Layers!Groups, Layers!Infra, Layers!Environment, Layers!Analysis,
           Layers!Hazards, Layers!DrawnUnlessOff, Layers!ShadingLayers, Layers!InfraLayers,
           Layers!ZoneLayers, Layers!NewsLayers, Layers!IssLayer, Layers!HoldingLayer,
           Layers!AirKinds, Layers!SeaKinds, Layers!SatKinds, Layers!RFSwitches
    <3> HIDE DEF late
    <3> QED  BY <3>3 DEF Layers!Drawn
  <2> QED  BY <2>2, <2>3
<1>3. ASSUME NEW g \in Layers!Groups
      PROVE  Layers!GroupIsOn(g) <=> \E k \in g \cap Filters : Layers!Drawn(k, p1[k])
  BY <1>2 DEF Layers!GroupIsOn
<1> QED  BY <1>3 DEF Layers!GroupIsTruthful

(* Feed and map agree whatever the filters are.                            *)
LEMMA LayersFeed == Layers!FeedAgreesWithMap
<1>1. ASSUME NEW c \in Layers!Aircraft
      PROVE  Layers!MapShowsAircraft(c) = Layers!FeedShowsAircraft(c)
  <2> DEFINE F(k) == Layers!F(k)
  <2>1. Layers!FeedShowsAircraft(c) <=>
          /\ F("showAir") = "on"
          /\ c.platform = "helicopter" => F("showHelicopter") # "off"
          /\ c.platform \in {"drone", "uav"} => F("showDrone") # "off"
          /\ c.platform \notin {"helicopter", "drone", "uav"} =>
               /\ c.of = "military" => F("showMilitary") # "off"
               /\ c.of = "government" => F("showGovernment") # "off"
               /\ c.of = "commercial" => F("showCommercial") # "off"
               /\ c.of = "general_aviation" => F("showPrivate") # "off"
    BY DEF Layers!FeedShowsAircraft
  <2>2. Layers!MapShowsAircraft(c) <=>
          /\ F("showAir") = "on"
          /\ IF c.platform = "helicopter" THEN F("showHelicopter") # "off"
             ELSE IF c.platform \in {"drone", "uav"} THEN F("showDrone") # "off"
             ELSE /\ c.of = "military" => F("showMilitary") # "off"
                  /\ c.of = "government" => F("showGovernment") # "off"
                  /\ c.of = "commercial" => F("showCommercial") # "off"
                  /\ c.of = "general_aviation" => F("showPrivate") # "off"
    BY DEF Layers!MapShowsAircraft
  <2>3. /\ Layers!MapShowsAircraft(c) \in BOOLEAN /\ Layers!FeedShowsAircraft(c) \in BOOLEAN
    BY DEF Layers!MapShowsAircraft, Layers!FeedShowsAircraft
  <2> HIDE DEF F
  <2> QED  BY <2>1, <2>2, <2>3
<1>2. ASSUME NEW c \in Layers!Ships
      PROVE  Layers!MapShowsShip(c) = Layers!FeedShowsShip(c)
  <2>1. Layers!MapShowsShip(c) <=>
          Layers!F("showSea") = "on" /\ Layers!F(Layers!ShipFilter[c]) # "off"
    BY DEF Layers!MapShowsShip
  <2>2. Layers!FeedShowsShip(c) <=>
          Layers!F("showSea") = "on" /\ (c # "other" => Layers!F(Layers!ShipFilter[c]) # "off")
    BY DEF Layers!FeedShowsShip
  <2>3. Layers!ShipFilter["other"] = "showSea"  BY DEF Layers!ShipFilter
  <2>4. Layers!MapShowsShip(c) <=> Layers!FeedShowsShip(c)  BY <2>1, <2>2, <2>3
  <2>5. Layers!MapShowsShip(c) \in BOOLEAN /\ Layers!FeedShowsShip(c) \in BOOLEAN
    BY DEF Layers!MapShowsShip, Layers!FeedShowsShip
  <2> QED  BY <2>4, <2>5
<1> QED  BY <1>1, <1>2 DEF Layers!FeedAgreesWithMap

LEMMA LayersImplies ==
  LayersInv => /\ Layers!TypeOK /\ Layers!SwitchShowsLayer /\ Layers!GroupIsTruthful
               /\ Layers!RiskFollowsView /\ Layers!FeedAgreesWithMap
<1> SUFFICES ASSUME LayersInv
             PROVE  /\ Layers!TypeOK /\ Layers!SwitchShowsLayer /\ Layers!GroupIsTruthful
                    /\ Layers!RiskFollowsView /\ Layers!FeedAgreesWithMap
  OBVIOUS
<1>1. LayersTypes  BY DEF LayersInv
<1>2. p10.at \in 0..MaxPans /\ p10.layers \subseteq Filters /\ p10.known \in BOOLEAN
  BY <1>1 DEF LayersTypes, Memory
<1>3. Layers!TypeOK  BY <1>1, <1>2 DEF LayersTypes, Layers!TypeOK
<1> QED  BY <1>3, LayersSwitches, LayersGroups, LayersFeed DEF LayersInv

(* What is loaded has the defaults it needs, and the grid of the view.     *)
LEMMA LayersRisk ==
  ASSUME p5 \in [PageViews -> Layers!Values], NEW v \in PageViews,
         NEW f \in [Filters -> Layers!Values], Given(f)
  PROVE  /\ Layers!RiskWanted(v) \in OnOff
         /\ Layers!WithRisk(f, v) \in [Filters -> Layers!Values] /\ Given(Layers!WithRisk(f, v))
         /\ "showH3Risk" \in Filters => Layers!WithRisk(f, v)["showH3Risk"] = Layers!RiskWanted(v)
<1>1. Layers!RiskWanted(v) \in OnOff
  <2>1. Layers!RiskOfView(v) \in OnOff
    BY DEF Layers!RiskOfView, Layers!Switch, OnOff
  <2>2. p5[v] \in Layers!Values  OBVIOUS
  <2>3. p5[v] # "unset" => p5[v] \in OnOff  BY <2>2 DEF Layers!Values, OnOff
  <2> QED  BY <2>1, <2>3 DEF Layers!RiskWanted
<1> DEFINE w == Layers!WithRisk(f, v)
<1>2. w = [k \in Filters |-> IF k = "showH3Risk" THEN Layers!RiskWanted(v) ELSE f[k]]
  BY DEF Layers!WithRisk
<1>3. OnOff \subseteq Layers!Values  BY DEF OnOff, Layers!Values
<1> HIDE DEF w
<1>4. w \in [Filters -> Layers!Values]  BY <1>1, <1>2, <1>3
<1>5. "unset" \notin OnOff  BY DEF OnOff
<1>6. Given(w)  BY <1>1, <1>2, <1>5 DEF Given
<1>7. "showH3Risk" \in Filters => w["showH3Risk"] = Layers!RiskWanted(v)  BY <1>2
<1> QED  BY <1>1, <1>4, <1>6, <1>7 DEF w

LEMMA LayersLoaded ==
  ASSUME p5 \in [PageViews -> Layers!Values], p7 \in PageViews,
         p3 = Layers!None \/ p3 \in [Filters -> Layers!Values],
         NEW a \in Layers!Address
  PROVE  /\ Layers!Loaded(a) \in [Filters -> Layers!Values] /\ Given(Layers!Loaded(a))
         /\ "showH3Risk" \in Filters =>
              Layers!Loaded(a)["showH3Risk"] = Layers!RiskWanted(p7)
         /\ Layers!RiskWanted(p7) \in OnOff
         /\ a.layers # {} =>
              \A k \in Filters : k \in a.layers /\ Layers!Default(k) # "unset" /\ k # "showH3Risk"
                                 => Layers!Loaded(a)[k] = "on"
<1> DEFINE f == IF a.layers # {} THEN Layers!FromHash(a.layers)
                ELSE IF p3 # Layers!None THEN Layers!FromSaved ELSE Layers!Defaults
<1>0. \A k : Layers!Default(k) \in Layers!Values  BY LayersDefaults
<1>v. {"on", "off", "unset"} \subseteq Layers!Values  BY DEF Layers!Values
<1>1. f \in [Filters -> Layers!Values] /\ Given(f)
      /\ (a.layers # {} => \A k \in Filters : k \in a.layers /\ Layers!Default(k) # "unset"
                                              => f[k] = "on")
  <2>1. CASE a.layers # {}
    <3>1. f = Layers!FromHash(a.layers)  BY <2>1
    <3>2. f = [k \in Filters |-> IF k \in a.layers /\ Layers!Default(k) # "unset" THEN "on"
                                 ELSE IF k \in Layers!HashSwitchesOff THEN "off"
                                 ELSE Layers!Default(k)]
      BY <3>1 DEF Layers!FromHash
    <3> HIDE DEF f
    <3> QED  BY <1>0, <1>v, <3>2 DEF Given
  <2>2. CASE a.layers = {} /\ p3 # Layers!None
    <3>1. f = Layers!FromSaved  BY <2>2
    <3>2. f = [k \in Filters |-> IF (k = "showFIRMS" /\ p4[k] = "unset") \/ p3[k] = "unset"
                                 THEN Layers!Default(k) ELSE p3[k]]
      BY <3>1 DEF Layers!FromSaved
    <3>3. p3 \in [Filters -> Layers!Values]  BY <2>2
    <3> HIDE DEF f
    <3> QED  BY <1>0, <2>2, <3>2, <3>3 DEF Given
  <2>3. CASE a.layers = {} /\ p3 = Layers!None
    <3>1. f = [k \in Filters |-> Layers!Default(k)]  BY <2>3 DEF Layers!Defaults
    <3> HIDE DEF f
    <3> QED  BY <1>0, <2>3, <3>1 DEF Given
  <2> QED  BY <2>1, <2>2, <2>3
<1>2. Layers!Loaded(a) = Layers!WithRisk(f, p7)  BY DEF Layers!Loaded
<1> HIDE DEF f
<1>3. /\ Layers!RiskWanted(p7) \in OnOff
      /\ Layers!WithRisk(f, p7) \in [Filters -> Layers!Values] /\ Given(Layers!WithRisk(f, p7))
      /\ "showH3Risk" \in Filters =>
           Layers!WithRisk(f, p7)["showH3Risk"] = Layers!RiskWanted(p7)
  BY <1>1, LayersRisk
<1>4. \A k \in Filters \ {"showH3Risk"} : Layers!WithRisk(f, p7)[k] = f[k]
  BY DEF Layers!WithRisk
<1> QED  BY <1>1, <1>2, <1>3, <1>4

LEMMA LayersOfSome == \A f : Layers!LayersOf(f) \in SUBSET Filters
BY DEF Layers!LayersOf

LEMMA LayersInit == Layers!Init => LayersInv
<1> SUFFICES ASSUME Layers!Init  PROVE LayersInv
  OBVIOUS
<1>0. MaxClicks \in Nat /\ MaxReloads \in Nat /\ MaxPans \in Nat  BY PanelsAssumption
<1>1. /\ p7 \in PageViews /\ p8 \in Layers!Address /\ p11 = p8.at
      /\ p3 = Layers!None /\ p6 = Layers!None /\ p12 = 0 /\ p13 = 0
      /\ p4 = [k \in Filters |-> "unset"] /\ p5 = [v \in PageViews |-> "unset"]
      /\ p2 = [k \in Filters |-> Layers!OrbitalDefault(k)]
      /\ p1 = Layers!Loaded(p8)
      /\ p10 = [at |-> p8.at, layers |-> Layers!LayersOf(p1), known |-> TRUE]
      /\ p9 = IF p8.at > 0 /\ Layers!LayersOf(p1) # p8.layers
              THEN [at |-> p8.at, layers |-> Layers!LayersOf(p1)] ELSE Layers!None
  BY DEF Layers!Init
<1>2. p4 \in [Filters -> Layers!Values] /\ p5 \in [PageViews -> Layers!Values]
  BY <1>1 DEF Layers!Values
<1>3. p8.at \in 0..MaxPans  BY <1>1 DEF Layers!Address
<1>4. p1 \in [Filters -> Layers!Values] /\ Given(p1)
      /\ ("showH3Risk" \in Filters => p1["showH3Risk"] = Layers!RiskWanted(p7))
  BY <1>1, <1>2, LayersLoaded
<1>5. Layers!LayersOf(p1) \in SUBSET Filters  BY LayersOfSome
<1>6. p10 \in Memory  BY <1>1, <1>3, <1>5 DEF Memory
<1>7. p9 = Layers!None \/ p9 \in Layers!Address  BY <1>1, <1>3, <1>5 DEF Layers!Address
<1>8. \A k : Layers!OrbitalDefault(k) \in Layers!Values
             /\ (k \in Layers!OrbitalKeys => Layers!OrbitalDefault(k) \in OnOff)
  BY DEF Layers!OrbitalDefault, Layers!Values, OnOff
<1>9. p2 \in [Filters -> Layers!Values] /\ GivenOrbital(p2)  BY <1>1, <1>8 DEF GivenOrbital
<1>10. 0 \in 0..MaxClicks /\ 0 \in 0..MaxReloads  BY <1>0
<1>11. LayersTypes
  BY <1>1, <1>2, <1>3, <1>4, <1>6, <1>7, <1>9, <1>10 DEF LayersTypes
<1> QED  BY <1>4, <1>9, <1>11 DEF LayersInv, Layers!RiskFollowsView

(* What is written to the address names layers of the page.                *)
LEMMA LayersWritten ==
  ASSUME p9 = Layers!None \/ p9 \in Layers!Address, NEW new \in Layers!Address,
         Layers!Written(new)
  PROVE  p9' = Layers!None \/ p9' \in Layers!Address
BY DEF Layers!Written

LEMMA LayersFiltersToHash ==
  ASSUME LayersTypes, NEW f, Layers!FiltersToHash(f)
  PROVE  p10' \in Memory /\ (p9' = Layers!None \/ p9' \in Layers!Address)
<1> DEFINE nextAt == IF p8.at > 0 THEN p8.at ELSE p10.at
           new == [at |-> nextAt, layers |-> Layers!LayersOf(f)]
<1>1. p8.at \in 0..MaxPans /\ p10.at \in 0..MaxPans
  BY DEF LayersTypes, Layers!Address, Memory
<1>2. nextAt \in 0..MaxPans  BY <1>1
<1>3. Layers!LayersOf(f) \in SUBSET Filters  BY LayersOfSome
<1>4. p10' = [at |-> nextAt, layers |-> Layers!LayersOf(f), known |-> TRUE] /\ Layers!Written(new)
  BY DEF Layers!FiltersToHash
<1> HIDE DEF nextAt
<1>5. p10' \in Memory  BY <1>2, <1>3, <1>4 DEF Memory
<1>6. new \in Layers!Address  BY <1>2, <1>3 DEF Layers!Address
<1> HIDE DEF new
<1>7. p9' = Layers!None \/ p9' \in Layers!Address
  BY <1>4, <1>6, LayersWritten DEF LayersTypes
<1> QED  BY <1>5, <1>7

(* A click that assigns some filters.                                      *)
LEMMA LayersAssign ==
  ASSUME LayersInv, NEW f, f \in [DOMAIN f -> OnOff], DOMAIN f \subseteq Filters,
         Layers!Click, Layers!Assign(f), UNCHANGED <<p2, p6>>,
         p4' \in [Filters -> Layers!Values]
  PROVE  LayersInv'
<1>0. LayersTypes /\ Given(p1) /\ GivenOrbital(p2) /\ Layers!RiskFollowsView
  BY DEF LayersInv
<1>t. /\ p1 \in [Filters -> Layers!Values] /\ p5 \in [PageViews -> Layers!Values]
      /\ p7 \in PageViews /\ p12 \in 0..MaxClicks
      /\ p3 = Layers!None \/ p3 \in [Filters -> Layers!Values]
      /\ p10 \in Memory /\ (p9 = Layers!None \/ p9 \in Layers!Address)
  BY <1>0 DEF LayersTypes
<1>c. MaxClicks \in Nat  BY PanelsAssumption
<1>v. OnOff \subseteq Layers!Values /\ "unset" \notin OnOff  BY DEF OnOff, Layers!Values
<1>1. p12 < MaxClicks /\ p12' = p12 + 1 /\ UNCHANGED <<p7, p8, p11, p13>>
  BY DEF Layers!Click
<1>2. /\ p1' = [k \in Filters |-> IF k \in DOMAIN f THEN f[k] ELSE p1[k]]
      /\ p3' = IF DOMAIN f = {} THEN p3 ELSE p1'
      /\ p5' = IF "showH3Risk" \in DOMAIN f
               THEN [p5 EXCEPT ![p7] = f["showH3Risk"]] ELSE p5
      /\ IF p1' = p1 THEN UNCHANGED <<p10, p9>> ELSE Layers!FiltersToHash(p1')
  BY DEF Layers!Assign
<1>3. p1' \in [Filters -> Layers!Values] /\ Given(p1)' 
  <2>1. \A k \in DOMAIN f : f[k] \in OnOff  OBVIOUS
  <2>2. p1' \in [Filters -> Layers!Values]  BY <1>2, <1>t, <1>v, <2>1
  <2> QED  BY <1>0, <1>2, <1>v, <2>1, <2>2 DEF Given
<1>4. p3' = Layers!None \/ p3' \in [Filters -> Layers!Values]  BY <1>2, <1>3, <1>t
<1>5. p5' \in [PageViews -> Layers!Values]
  <2>1. "showH3Risk" \in DOMAIN f => f["showH3Risk"] \in Layers!Values  BY <1>v
  <2> QED  BY <1>2, <1>t, <2>1
<1>6. p10' \in Memory /\ (p9' = Layers!None \/ p9' \in Layers!Address)
  <2>1. CASE p1' = p1
    BY <1>2, <1>t, <2>1
  <2>2. CASE p1' # p1
    <3>1. PICK g : g = p1'  OBVIOUS
    <3>2. Layers!FiltersToHash(g)  BY <1>2, <2>2, <3>1 DEF Layers!FiltersToHash
    <3> QED  BY <1>0, <3>2, LayersFiltersToHash
  <2> QED  BY <2>1, <2>2
<1>7. p12' \in 0..MaxClicks  BY <1>1, <1>t, <1>c
<1>8. LayersTypes'
  BY <1>0, <1>1, <1>3, <1>4, <1>5, <1>6, <1>7 DEF LayersTypes
<1>9. GivenOrbital(p2)'  BY <1>0 DEF GivenOrbital
<1>10. Layers!RiskFollowsView'
  <2> SUFFICES ASSUME "showH3Risk" \in Filters
               PROVE  p1'["showH3Risk"] = Layers!RiskWanted(p7)'
    BY DEF Layers!RiskFollowsView
  <2>1. CASE "showH3Risk" \in DOMAIN f
    <3>1. p1'["showH3Risk"] = f["showH3Risk"] /\ p5'[p7] = f["showH3Risk"]
      BY <1>2, <1>t, <2>1
    <3>2. f["showH3Risk"] # "unset"  BY <1>v, <2>1
    <3> QED  BY <1>1, <3>1, <3>2 DEF Layers!RiskWanted
  <2>2. CASE "showH3Risk" \notin DOMAIN f
    <3>1. p1'["showH3Risk"] = p1["showH3Risk"] /\ p5' = p5  BY <1>2, <2>2
    <3> QED  BY <1>0, <1>1, <3>1 DEF Layers!RiskFollowsView, Layers!RiskWanted, Layers!RiskOfView
  <2> QED  BY <2>1, <2>2
<1> QED  BY <1>3, <1>8, <1>9, <1>10 DEF LayersInv

LEMMA SwitchOnOff == \A b : Layers!Switch(b) \in OnOff
BY DEF Layers!Switch, OnOff

LEMMA LayersNext == LayersInv /\ (Layers!Next \/ UNCHANGED LayersVars) => LayersInv'
<1> SUFFICES ASSUME LayersInv, Layers!Next \/ UNCHANGED LayersVars  PROVE LayersInv'
  OBVIOUS
<1> USE DEF LayersVars
<1>0. LayersTypes /\ Given(p1) /\ GivenOrbital(p2) /\ Layers!RiskFollowsView
  BY DEF LayersInv
<1>t. /\ p1 \in [Filters -> Layers!Values] /\ p2 \in [Filters -> Layers!Values]
      /\ p3 = Layers!None \/ p3 \in [Filters -> Layers!Values]
      /\ p4 \in [Filters -> Layers!Values] /\ p5 \in [PageViews -> Layers!Values]
      /\ p6 = Layers!None \/ p6 \in [Filters -> Layers!Values]
      /\ p7 \in PageViews /\ p8 \in Layers!Address /\ p11 \in 0..MaxPans
      /\ p9 = Layers!None \/ p9 \in Layers!Address
      /\ p10 \in Memory
      /\ p12 \in 0..MaxClicks /\ p13 \in 0..MaxReloads
  BY <1>0 DEF LayersTypes
<1>c. MaxClicks \in Nat /\ MaxReloads \in Nat /\ MaxPans \in Nat  BY PanelsAssumption
<1>v. OnOff \subseteq Layers!Values /\ "unset" \notin OnOff  BY DEF OnOff, Layers!Values
<1>same. ASSUME LayersTypes', UNCHANGED <<p1, p5, p7>>, GivenOrbital(p2)'  PROVE LayersInv'
  <2>1. Given(p1)'  BY <1>0, <1>same DEF Given
  <2>2. Layers!RiskFollowsView'
    BY <1>0, <1>same DEF Layers!RiskFollowsView, Layers!RiskWanted, Layers!RiskOfView
  <2> QED  BY <1>same, <2>1, <2>2 DEF LayersInv
<1>orb. ASSUME p2' = p2  PROVE GivenOrbital(p2)'
  BY <1>0, <1>orb DEF GivenOrbital
<1>1. ASSUME NEW k \in Filters, Layers!SubSwitch(k)  PROVE LayersInv'
  <2> DEFINE s == Layers!Switch(~ Layers!Checked(k, p1[k]))
             f == [j \in {k} |-> s]
  <2>1. Layers!Click /\ Layers!Assign(f) /\ p4' = [p4 EXCEPT ![k] = s] /\ UNCHANGED <<p2, p6>>
    BY <1>1 DEF Layers!SubSwitch
  <2>2. s \in OnOff  BY SwitchOnOff
  <2> HIDE DEF s
  <2>3. f \in [DOMAIN f -> OnOff] /\ DOMAIN f \subseteq Filters  BY <2>2
  <2> HIDE DEF f
  <2>4. p4' \in [Filters -> Layers!Values]  BY <1>t, <1>v, <2>1, <2>2
  <2>5. PICK g : g = f  OBVIOUS
  <2>6. Layers!Assign(g)  BY <2>1, <2>5
  <2> QED  BY <2>1, <2>3, <2>4, <2>5, <2>6, LayersAssign
<1>2. ASSUME NEW k \in Filters, Layers!PlainSwitch(k)  PROVE LayersInv'
  <2> DEFINE s == Layers!Switch(~ Layers!Checked(k, p1[k]))
             f == [j \in {k} |-> s]
  <2>1. Layers!Click /\ Layers!Assign(f) /\ UNCHANGED <<p2, p4, p6>>
    BY <1>2 DEF Layers!PlainSwitch
  <2>2. s \in OnOff  BY SwitchOnOff
  <2> HIDE DEF s
  <2>3. f \in [DOMAIN f -> OnOff] /\ DOMAIN f \subseteq Filters  BY <2>2
  <2> HIDE DEF f
  <2>4. p4' \in [Filters -> Layers!Values]  BY <1>t, <2>1
  <2> QED  BY <2>1, <2>3, <2>4, LayersAssign
<1>3. ASSUME NEW k \in Filters, Layers!OrbitalSwitch(k)  PROVE LayersInv'
  <2> DEFINE s == Layers!Switch(~ Layers!Checked(k, p2[k]))
  <2>1. /\ Layers!Click /\ p2' = [p2 EXCEPT ![k] = s]
        /\ UNCHANGED <<p1, p3, p4, p5, p6, p10, p9>>
    BY <1>3 DEF Layers!OrbitalSwitch
  <2>2. s \in OnOff  BY SwitchOnOff
  <2> HIDE DEF s
  <2>3. p12 < MaxClicks /\ p12' = p12 + 1 /\ UNCHANGED <<p7, p8, p11, p13>>
    BY <2>1 DEF Layers!Click
  <2>4. p12' \in 0..MaxClicks  BY <1>t, <1>c, <2>3
  <2>5. p2' \in [Filters -> Layers!Values]  BY <1>t, <1>v, <2>1, <2>2
  <2>6. LayersTypes'  BY <1>t, <2>1, <2>3, <2>4, <2>5 DEF LayersTypes
  <2>7. GivenOrbital(p2)'  BY <1>0, <1>t, <2>1, <2>2 DEF GivenOrbital
  <2> QED  BY <1>same, <2>1, <2>3, <2>6, <2>7
<1>4. ASSUME NEW g \in Layers!Groups, Layers!ToggleGroup(g)  PROVE LayersInv'
  <2> DEFINE f == Layers!AfterToggle(g)
  <2>1. Layers!Click /\ Layers!Assign(f) /\ UNCHANGED <<p2, p4, p6>>
    BY <1>4 DEF Layers!ToggleGroup
  <2>2. \A k \in Filters : Layers!Pref(k) \in OnOff
    <3> SUFFICES ASSUME NEW k \in Filters  PROVE Layers!Pref(k) \in OnOff
      OBVIOUS
    <3>1. p4[k] \in Layers!Values  BY <1>t
    <3>2. p4[k] # "unset" => p4[k] \in OnOff  BY <3>1 DEF Layers!Values, OnOff
    <3> QED  BY <3>2, SwitchOnOff DEF Layers!Pref
  <2>3. f = [k \in g \cap Filters |-> IF Layers!GroupIsOn(g) THEN "off" ELSE Layers!Pref(k)]
    BY DEF Layers!AfterToggle
  <2>4. "off" \in OnOff  BY DEF OnOff
  <2> HIDE DEF f
  <2>5. f \in [DOMAIN f -> OnOff] /\ DOMAIN f \subseteq Filters  BY <2>2, <2>3, <2>4
  <2>6. p4' \in [Filters -> Layers!Values]  BY <1>t, <2>1
  <2> QED  BY <2>1, <2>5, <2>6, LayersAssign
<1>5. ASSUME NEW p \in Layers!Presets, Layers!ApplyPreset(p)  PROVE LayersInv'
  <2> DEFINE wanted == [k \in Filters |-> Layers!Switch(k \in p)]
             f == Layers!Changed(wanted, Layers!PresetKeys \cap Filters)
  <2>1. Layers!Click /\ Layers!Assign(f) /\ UNCHANGED <<p2, p4, p6>>
    BY <1>5 DEF Layers!ApplyPreset
  <2>2. \A k \in Filters : wanted[k] \in OnOff  BY SwitchOnOff
  <2> HIDE DEF wanted
  <2>3. f = [k \in {k \in Layers!PresetKeys \cap Filters : p1[k] # wanted[k]} |-> wanted[k]]
    BY DEF Layers!Changed
  <2> HIDE DEF f
  <2>4. f \in [DOMAIN f -> OnOff] /\ DOMAIN f \subseteq Filters  BY <2>2, <2>3
  <2>5. p4' \in [Filters -> Layers!Values]  BY <1>t, <2>1
  <2> QED  BY <2>1, <2>4, <2>5, LayersAssign
<1>6. ASSUME Layers!SaveCustomPreset  PROVE LayersInv'
  <2>1. Layers!Click /\ p6' = p1 /\ UNCHANGED <<p1, p2, p3, p4, p5, p10, p9>>
    BY <1>6 DEF Layers!SaveCustomPreset
  <2>2. p12 < MaxClicks /\ p12' = p12 + 1 /\ UNCHANGED <<p7, p8, p11, p13>>
    BY <2>1 DEF Layers!Click
  <2>3. p12' \in 0..MaxClicks  BY <1>t, <1>c, <2>2
  <2>4. LayersTypes'  BY <1>t, <2>1, <2>2, <2>3 DEF LayersTypes
  <2> QED  BY <1>same, <1>orb, <2>1, <2>2, <2>4
<1>7. ASSUME Layers!ApplyCustomPreset  PROVE LayersInv'
  <2> DEFINE known == {k \in Filters : p6[k] # "unset"}
             f == Layers!Changed(p6, known)
  <2>1. Layers!Click /\ Layers!Assign(f) /\ UNCHANGED <<p2, p4, p6>> /\ p6 # Layers!None
    BY <1>7 DEF Layers!ApplyCustomPreset
  <2>2. p6 \in [Filters -> Layers!Values]  BY <1>t, <2>1
  <2>3. \A k \in known : k \in Filters /\ p6[k] \in OnOff
    BY <2>2 DEF OnOff, Layers!Values
  <2>4. f = [k \in {k \in known : p1[k] # p6[k]} |-> p6[k]]
    BY DEF Layers!Changed
  <2> HIDE DEF f, known
  <2>5. f \in [DOMAIN f -> OnOff] /\ DOMAIN f \subseteq Filters  BY <2>3, <2>4
  <2>6. p4' \in [Filters -> Layers!Values]  BY <1>t, <2>1
  <2> QED  BY <2>1, <2>5, <2>6, LayersAssign
<1>8. ASSUME NEW v \in PageViews, Layers!SwitchView(v)  PROVE LayersInv'
  <2>1. /\ p7' = v /\ p1' = Layers!WithRisk(p1, v)
        /\ IF p1' = p1 THEN UNCHANGED <<p3, p10, p9>>
           ELSE p3' = p1' /\ Layers!FiltersToHash(p1')
        /\ UNCHANGED <<p2, p4, p5, p6, p8, p11, p12, p13>>
    BY <1>8 DEF Layers!SwitchView
  <2>2. p1' \in [Filters -> Layers!Values] /\ Given(p1')
        /\ ("showH3Risk" \in Filters => p1'["showH3Risk"] = Layers!RiskWanted(v))
    BY <1>0, <1>t, <2>1, LayersRisk
  <2>3. /\ p3' = Layers!None \/ p3' \in [Filters -> Layers!Values]
        /\ p10' \in Memory /\ (p9' = Layers!None \/ p9' \in Layers!Address)
    <3>1. CASE p1' = p1
      BY <1>t, <2>1, <3>1
    <3>2. CASE p1' # p1
      <4>1. PICK g : g = p1'  OBVIOUS
      <4>2. Layers!FiltersToHash(g)  BY <2>1, <3>2, <4>1 DEF Layers!FiltersToHash
      <4>3. p10' \in Memory /\ (p9' = Layers!None \/ p9' \in Layers!Address)
        BY <1>0, <4>2, LayersFiltersToHash
      <4> QED  BY <2>1, <2>2, <3>2, <4>3
    <3> QED  BY <3>1, <3>2
  <2>4. LayersTypes'  BY <1>t, <2>1, <2>2, <2>3 DEF LayersTypes
  <2>5. Given(p1)'  BY <2>2 DEF Given
  <2>6. Layers!RiskFollowsView'
    BY <2>1, <2>2 DEF Layers!RiskFollowsView, Layers!RiskWanted, Layers!RiskOfView
  <2> QED  BY <1>orb, <2>1, <2>4, <2>5, <2>6 DEF LayersInv
<1>9. ASSUME Layers!MoveCamera  PROVE LayersInv'
  <2>1. /\ p11 < MaxPans /\ p11' = p11 + 1 /\ Layers!CameraToHash(p11')
        /\ UNCHANGED <<p1, p2, p3, p4, p5, p6, p7, p8, p12, p13>>
    BY <1>9 DEF Layers!MoveCamera
  <2>2. PICK pos : pos = p11'  OBVIOUS
  <2>3. pos \in 0..MaxPans /\ p11' \in 0..MaxPans  BY <1>t, <1>c, <2>1, <2>2
  <2> DEFINE layers == IF p10.known /\ p8.layers = {} THEN p10.layers ELSE p8.layers
             new == [at |-> pos, layers |-> layers]
  <2>4. p10' = [p10 EXCEPT !.at = pos] /\ Layers!Written(new)
    BY <2>1, <2>2 DEF Layers!CameraToHash, Layers!Written
  <2>5. p10.layers \in SUBSET Filters /\ p8.layers \in SUBSET Filters
    BY <1>t DEF Memory, Layers!Address
  <2>6. new \in Layers!Address  BY <2>3, <2>5 DEF Layers!Address
  <2> HIDE DEF new
  <2>7. p9' = Layers!None \/ p9' \in Layers!Address  BY <1>t, <2>4, <2>6, LayersWritten
  <2>8. p10' \in Memory  BY <1>t, <2>3, <2>4 DEF Memory
  <2>9. LayersTypes'  BY <1>t, <2>1, <2>3, <2>7, <2>8 DEF LayersTypes
  <2> QED  BY <1>same, <1>orb, <2>1, <2>9
<1>10. ASSUME Layers!WriteHash  PROVE LayersInv'
  <2>1. /\ p9 # Layers!None /\ p8' = p9 /\ p9' = Layers!None
        /\ UNCHANGED <<p1, p2, p3, p4, p5, p6, p7, p10, p11, p12, p13>>
    BY <1>10 DEF Layers!WriteHash
  <2>2. p8' \in Layers!Address  BY <1>t, <2>1
  <2>n. Layers!None' = Layers!None  BY DEF Layers!None
  <2>3. LayersTypes'  BY <1>t, <2>1, <2>2, <2>n DEF LayersTypes
  <2> QED  BY <1>same, <1>orb, <2>1, <2>3
<1>11. ASSUME Layers!Reload  PROVE LayersInv'
  <2>1. /\ p13 < MaxReloads /\ p13' = p13 + 1 /\ p1' = Layers!Loaded(p8)
        /\ p10' = [at |-> p8.at, layers |-> Layers!LayersOf(p1'), known |-> TRUE]
        /\ p9' = IF p8.at > 0 /\ Layers!LayersOf(p1') # p8.layers
                 THEN [at |-> p8.at, layers |-> Layers!LayersOf(p1')] ELSE Layers!None
        /\ p11' = p8.at
        /\ UNCHANGED <<p2, p3, p4, p5, p6, p7, p8, p12>>
    BY <1>11 DEF Layers!Reload
  <2>2. p1' \in [Filters -> Layers!Values] /\ Given(p1')
        /\ ("showH3Risk" \in Filters => p1'["showH3Risk"] = Layers!RiskWanted(p7))
    BY <1>t, <2>1, LayersLoaded
  <2>3. p8.at \in 0..MaxPans  BY <1>t DEF Layers!Address
  <2>4. PICK ls : ls = Layers!LayersOf(p1')  OBVIOUS
  <2>5. ls \in SUBSET Filters  BY <2>4, LayersOfSome
  <2>6. p10' \in Memory  BY <2>1, <2>3, <2>4, <2>5 DEF Memory
  <2>7. p9' = Layers!None \/ p9' \in Layers!Address
    BY <2>1, <2>3, <2>4, <2>5 DEF Layers!Address
  <2>8. p13' \in 0..MaxReloads  BY <1>t, <1>c, <2>1
  <2>9. LayersTypes'  BY <1>t, <2>1, <2>2, <2>3, <2>6, <2>7, <2>8 DEF LayersTypes
  <2>10. Given(p1)'  BY <2>2 DEF Given
  <2>11. Layers!RiskFollowsView'
    BY <2>1, <2>2 DEF Layers!RiskFollowsView, Layers!RiskWanted, Layers!RiskOfView
  <2> QED  BY <1>orb, <2>1, <2>9, <2>10, <2>11 DEF LayersInv
<1>12. ASSUME UNCHANGED LayersVars  PROVE LayersInv'
  <2>1. UNCHANGED <<p1, p2, p3, p4, p5, p6, p7, p8, p9, p10, p11, p12, p13>>
    BY <1>12 DEF Layers!vars
  <2>2. LayersTypes'  BY <1>t, <2>1 DEF LayersTypes
  <2> QED  BY <1>same, <1>orb, <2>1, <2>2
<1> QED
  BY <1>1, <1>2, <1>3, <1>4, <1>5, <1>6, <1>7, <1>8, <1>9, <1>10, <1>11, <1>12 DEF Layers!Next

(* A reload at an address that is up to date.                              *)
LEMMA LayersKept == LayersInv /\ (Layers!Next \/ UNCHANGED LayersVars) => Layers!ReloadKeeps
<1> SUFFICES ASSUME LayersInv, Layers!Next \/ UNCHANGED LayersVars,
                    p13' > p13, Layers!UpToDate,
                    NEW k \in Filters \ {"rfEmcommOnly"}, p1[k] = "on",
                    Layers!Default(k) # "unset"
             PROVE  p1'[k] = "on"
  BY DEF Layers!ReloadKeeps
<1>0. LayersTypes /\ Layers!RiskFollowsView  BY DEF LayersInv
<1>1. p13 \in Nat  BY <1>0 DEF LayersTypes
<1>2. p13' # p13  BY <1>1
<1>3. Layers!Reload
  <2>1. ~ UNCHANGED LayersVars  BY <1>2 DEF LayersVars, Layers!vars
  <2>2. ~ Layers!Click  BY <1>2 DEF Layers!Click
  <2>3. \A j \in Filters :
          ~ Layers!SubSwitch(j) /\ ~ Layers!PlainSwitch(j) /\ ~ Layers!OrbitalSwitch(j)
    BY <2>2 DEF Layers!SubSwitch, Layers!PlainSwitch, Layers!OrbitalSwitch
  <2>4. \A g \in Layers!Groups : ~ Layers!ToggleGroup(g)  BY <2>2 DEF Layers!ToggleGroup
  <2>5. \A p \in Layers!Presets : ~ Layers!ApplyPreset(p)  BY <2>2 DEF Layers!ApplyPreset
  <2>6. ~ Layers!SaveCustomPreset /\ ~ Layers!ApplyCustomPreset
    BY <2>2 DEF Layers!SaveCustomPreset, Layers!ApplyCustomPreset
  <2>7. \A v \in PageViews : ~ Layers!SwitchView(v)  BY <1>2 DEF Layers!SwitchView
  <2>8. ~ Layers!MoveCamera  BY <1>2 DEF Layers!MoveCamera
  <2>9. ~ Layers!WriteHash  BY <1>2 DEF Layers!WriteHash
  <2> QED  BY <2>1, <2>3, <2>4, <2>5, <2>6, <2>7, <2>8, <2>9 DEF Layers!Next
<1>4. p1' = Layers!Loaded(p8) /\ p7' = p7  BY <1>3 DEF Layers!Reload
<1>5. p8.layers = Layers!LayersOf(p1)  BY DEF Layers!UpToDate
<1>6. k \in p8.layers  BY <1>5 DEF Layers!LayersOf
<1>7. p8.layers # {} /\ p8 \in Layers!Address  BY <1>0, <1>6 DEF LayersTypes
<1>8. /\ "showH3Risk" \in Filters => Layers!Loaded(p8)["showH3Risk"] = Layers!RiskWanted(p7)
      /\ k # "showH3Risk" => Layers!Loaded(p8)[k] = "on"
  BY <1>0, <1>6, <1>7, LayersLoaded DEF LayersTypes
<1>9. k = "showH3Risk" => Layers!RiskWanted(p7) = "on"
  BY <1>0 DEF Layers!RiskFollowsView
<1> QED  BY <1>4, <1>8, <1>9

-----------------------------------------------------------------------------
(***************************************************************************)
(* The style of the map: tactical is p1, token p2, globe p3, style p4,     *)
(* enable3d p5, loaded p6, map p7, heard p8, timers p9, missed p10,        *)
(* changes p11.                                                            *)
(***************************************************************************)
StyleVars == Style!vars

MapState ==
  [idle : BOOLEAN, reloading : BOOLEAN, lines : Style!Styles \cup {"none"}, terrain : BOOLEAN,
   built : BOOLEAN]
Listeners ==
  [once : Seq(Style!Closures), lines : Seq(Style!Closures), sync : Seq(Style!Closures)]

StyleTypes ==
  /\ p1 \in BOOLEAN /\ p2 \in BOOLEAN /\ p3 \in BOOLEAN /\ p4 \in Style!Styles
  /\ p5 \in BOOLEAN /\ p6 \in BOOLEAN
  /\ p7 \in MapState /\ p8 \in Listeners /\ p9 \in Seq(Style!Closures)
  /\ p10 \subseteq {"flight", "lines", "terrain"} /\ p11 \in 0..MaxStyles

StyleHeard ==
  p7.built => /\ p6 /\ p8.sync = <<Style!Now>>
              /\ Len(p8.lines) = 1 /\ p8.lines[1].globe = p3 /\ p8.lines[1].style = p4

(* The style is loaded anew on the globe only, which has no terrain.       *)
StyleMap ==
  /\ ~ p7.built => p7 = Style!NoMap /\ p9 = <<>>
  /\ p7.reloading => p3
  /\ p7.terrain => p2 /\ ~ p3
  /\ \A i \in 1..Len(p9) : p9[i].globe = p3

StyleShows ==
  p7.built =>
    /\ ~ p7.reloading /\ "lines" \notin p10 => p7.lines = Style!Graticule(Style!Now)
    /\ ~ p3 /\ "terrain" \notin p10 =>
         IF p9 = <<>> THEN p7.terrain = (p5 /\ p2) ELSE p9[Len(p9)].d3 = p5
    /\ "flight" \notin p10 => ~ (p3 /\ p5)
    /\ p3 /\ p5 => \E i \in 1..Len(p8.once) : p8.once[i].globe

StyleInv == StyleTypes /\ StyleHeard /\ StyleMap /\ StyleShows

LEMMA StyleNow ==
  /\ Style!Now = [globe |-> p3, style |-> p4, d3 |-> p5]
  /\ Style!Now.globe = p3 /\ Style!Now.style = p4 /\ Style!Now.d3 = p5
  /\ StyleTypes => Style!Now \in Style!Closures
BY DEF Style!Now, StyleTypes, Style!Closures

LEMMA ClosuresOf ==
  ASSUME NEW s \in Seq(Style!Closures)
  PROVE  \A i \in 1..Len(s) : /\ s[i] \in Style!Closures /\ s[i].globe \in BOOLEAN
                              /\ s[i].style \in Style!Styles /\ s[i].d3 \in BOOLEAN
<1>1. \A i \in 1..Len(s) : s[i] \in Style!Closures  OBVIOUS
<1> QED  BY <1>1 DEF Style!Closures

LEMMA StyleImplies == StyleInv => Style!MapShowsChoice
<1> SUFFICES ASSUME StyleInv  PROVE Style!MapShowsChoice
  OBVIOUS
<1>0. StyleTypes /\ StyleHeard /\ StyleMap /\ StyleShows  BY DEF StyleInv
<1>1. Style!TypeOK
  <2>1. \A s \in Seq(Style!Closures) : \A i \in DOMAIN s : s[i] \in Style!Closures
    OBVIOUS
  <2>2. \A k \in DOMAIN p8 : p8[k] \in Seq(Style!Closures)
    BY <1>0 DEF StyleTypes, Listeners
  <2>3. \A k \in DOMAIN p8 : \A i \in DOMAIN p8[k] : p8[k][i] \in Style!Closures
    BY <2>1, <2>2
  <2>4. \A i \in DOMAIN p9 : p9[i] \in Style!Closures  BY <1>0, <2>1 DEF StyleTypes
  <2>5. {p1, p2, p3, p5, p6} \subseteq BOOLEAN  BY <1>0 DEF StyleTypes
  <2>6. /\ p4 \in Style!Styles /\ p10 \subseteq {"flight", "lines", "terrain"}
        /\ p11 \in 0..MaxStyles /\ p7 \in MapState
    BY <1>0 DEF StyleTypes
  <2> QED  BY <2>3, <2>4, <2>5, <2>6 DEF Style!TypeOK, MapState
<1>2. p7.built => /\ p6 /\ p8.sync = <<Style!Now>>
                  /\ Len(p8.lines) = 1 /\ p8.lines[1].globe = p3 /\ p8.lines[1].style = p4
  BY <1>0 DEF StyleHeard
<1>3. ASSUME p7.built, ~ p7.reloading, p9 = <<>>
      PROVE  /\ "lines" \notin p10 => p7.lines = Style!Graticule(Style!Now)
             /\ "terrain" \notin p10 => p7.terrain = (p5 /\ p2 /\ ~ p3)
             /\ "flight" \notin p10 => ~ (p3 /\ p5)
  <2>1. p2 \in BOOLEAN /\ p3 \in BOOLEAN /\ p5 \in BOOLEAN /\ p7.terrain \in BOOLEAN
    BY <1>0 DEF StyleTypes, MapState
  <2>2. p3 => ~ p7.terrain  BY <1>0 DEF StyleMap
  <2>3. ~ p3 /\ "terrain" \notin p10 => p7.terrain = (p5 /\ p2)
    BY <1>0, <1>3 DEF StyleShows
  <2>4. "terrain" \notin p10 => p7.terrain = (p5 /\ p2 /\ ~ p3)  BY <2>1, <2>2, <2>3
  <2> QED  BY <1>0, <1>3, <2>4 DEF StyleShows
<1> QED  BY <1>1, <1>2, <1>3 DEF Style!MapShowsChoice

LEMMA StyleInit == Style!Init => StyleInv
<1> SUFFICES ASSUME Style!Init  PROVE StyleInv
  OBVIOUS
<1>0. MaxStyles \in Nat /\ 0 \in 0..MaxStyles
  <2>1. MaxStyles \in Nat  BY PanelsAssumption
  <2> QED  BY <2>1
<1>1. /\ p1 \in BOOLEAN /\ p2 \in BOOLEAN /\ p3 \in BOOLEAN /\ p4 = "dark" /\ p5 = FALSE
      /\ p6 = FALSE /\ p7 = Style!NoMap /\ p8 = Style!Silence /\ p9 = <<>> /\ p10 = {} /\ p11 = 0
  BY DEF Style!Init
<1>2. <<>> \in Seq(Style!Closures) /\ Len(<<>>) = 0  OBVIOUS
<1>3. p7 \in MapState /\ ~ p7.built /\ ~ p7.reloading /\ ~ p7.terrain
  BY <1>1 DEF Style!NoMap, MapState
<1>4. p8 \in Listeners  BY <1>1, <1>2 DEF Style!Silence, Listeners
<1>5. p4 \in Style!Styles  BY <1>1 DEF Style!Styles
<1>6. StyleTypes  BY <1>0, <1>1, <1>2, <1>3, <1>4, <1>5 DEF StyleTypes
<1>7. StyleHeard  BY <1>3 DEF StyleHeard
<1>8. StyleMap  BY <1>1, <1>2, <1>3 DEF StyleMap
<1>9. StyleShows  BY <1>3 DEF StyleShows
<1> QED  BY <1>6, <1>7, <1>8, <1>9 DEF StyleInv

LEMMA StyleTerrain ==
  ASSUME p2 \in BOOLEAN, NEW c \in Style!Closures, NEW before \in BOOLEAN
  PROVE  /\ Style!Terrain(c, before) \in BOOLEAN
         /\ Style!Terrain(c, before) = (c.d3 /\ ((p2 /\ ~ c.globe) \/ before))
<1>1. c.d3 \in BOOLEAN /\ c.globe \in BOOLEAN  BY DEF Style!Closures
<1> QED  BY <1>1 DEF Style!Terrain, Style!Mapbox

LEMMA StyleGraticule ==
  /\ Style!Graticule(Style!Now) = IF p3 THEN p4 ELSE "none"
  /\ \A c : Style!Graticule(c) = IF c.globe THEN c.style ELSE "none"
BY StyleNow DEF Style!Graticule

LEMMA StyleNext == StyleInv /\ (Style!Next \/ UNCHANGED StyleVars) => StyleInv'
<1> SUFFICES ASSUME StyleInv, Style!Next \/ UNCHANGED StyleVars  PROVE StyleInv'
  OBVIOUS
<1> USE DEF StyleVars
<1>0. StyleTypes /\ StyleHeard /\ StyleMap /\ StyleShows  BY DEF StyleInv
<1>t. /\ p1 \in BOOLEAN /\ p2 \in BOOLEAN /\ p3 \in BOOLEAN /\ p4 \in Style!Styles
      /\ p5 \in BOOLEAN /\ p6 \in BOOLEAN
      /\ p7 \in MapState /\ p8 \in Listeners /\ p9 \in Seq(Style!Closures)
      /\ p10 \subseteq {"flight", "lines", "terrain"} /\ p11 \in 0..MaxStyles
  BY <1>0 DEF StyleTypes
<1>m. /\ p7.idle \in BOOLEAN /\ p7.reloading \in BOOLEAN /\ p7.terrain \in BOOLEAN
      /\ p7.built \in BOOLEAN /\ p7.lines \in Style!Styles \cup {"none"}
  BY <1>t DEF MapState
<1>h. /\ p8.once \in Seq(Style!Closures) /\ p8.lines \in Seq(Style!Closures)
      /\ p8.sync \in Seq(Style!Closures)
  BY <1>t DEF Listeners
<1>e. <<>> \in Seq(Style!Closures) /\ Len(<<>>) = 0  OBVIOUS
<1>now. Style!Now' = [globe |-> p3', style |-> p4', d3 |-> p5']  BY DEF Style!Now
<1>nc. Style!Now \in Style!Closures  BY <1>0, StyleNow
<1>one. ASSUME NEW c \in Style!Closures
        PROVE  <<c>> \in Seq(Style!Closures) /\ Len(<<c>>) = 1 /\ <<c>>[1] = c
  OBVIOUS
<1>n. MaxStyles \in Nat  BY PanelsAssumption
<1>c. ASSUME Style!Change  PROVE p11' \in 0..MaxStyles
  BY <1>c, <1>n, <1>t DEF Style!Change
<1>g. Style!Graticule(Style!Now)' = IF p3' THEN p4' ELSE "none"
  BY <1>now DEF Style!Graticule
<1>1. ASSUME Style!ToggleGlobe  PROVE StyleInv'
  <2>1. /\ Style!Change /\ p3' = ~ p3 /\ p4' = (IF p1 /\ p3 THEN "dark" ELSE p4)
        /\ p6' = FALSE /\ p7' = Style!NoMap /\ p8' = Style!Silence /\ p9' = <<>> /\ p10' = {}
        /\ UNCHANGED <<p1, p2, p5>>
    BY <1>1 DEF Style!ToggleGlobe
  <2>2. p7' \in MapState /\ ~ p7'.built /\ ~ p7'.reloading /\ ~ p7'.terrain
    BY <2>1 DEF Style!NoMap, MapState
  <2>3. p8' \in Listeners  BY <1>e, <2>1 DEF Style!Silence, Listeners
  <2>4. p4' \in Style!Styles  BY <1>t, <2>1 DEF Style!Styles
  <2>5. p3' \in BOOLEAN  BY <1>t, <2>1
  <2>6. StyleTypes'  BY <1>t, <1>c, <1>e, <2>1, <2>2, <2>3, <2>4, <2>5 DEF StyleTypes
  <2>7. StyleHeard'  BY <2>2 DEF StyleHeard
  <2>n. Style!NoMap' = Style!NoMap  BY DEF Style!NoMap
  <2>8. StyleMap'  BY <1>e, <2>1, <2>2, <2>n DEF StyleMap
  <2>9. StyleShows'  BY <2>2 DEF StyleShows
  <2> QED  BY <2>6, <2>7, <2>8, <2>9 DEF StyleInv
<1>2. ASSUME Style!MapLoads  PROVE StyleInv'
  <2>1. /\ ~ p7.built /\ p6' = TRUE /\ UNCHANGED <<p1, p2, p3, p4, p11>>
    BY <1>2 DEF Style!MapLoads
  <2>i. PICK idle \in BOOLEAN : \E after \in {[Style!Now EXCEPT !.d3 = p5 /\ ~ (idle /\ p3)]} :
          /\ p5' = after.d3
          /\ p7' = [p7 EXCEPT !.built = TRUE, !.idle = idle,
                              !.lines = IF idle THEN Style!Graticule(Style!Now) ELSE p7.lines]
          /\ p8' = [once |-> IF idle THEN <<>> ELSE <<Style!Now>>,
                    lines |-> <<Style!Now>>, sync |-> <<after>>]
          /\ p9' = (IF ~ idle THEN <<>> ELSE IF after = Style!Now THEN <<Style!Now>>
                    ELSE <<Style!Now, after>>)
          /\ p10' = (IF idle THEN {} ELSE {"flight", "lines", "terrain"})
    BY <1>2 DEF Style!MapLoads
  <2>2. PICK after \in {[Style!Now EXCEPT !.d3 = p5 /\ ~ (idle /\ p3)]} :
          /\ p5' = after.d3
          /\ p7' = [p7 EXCEPT !.built = TRUE, !.idle = idle,
                              !.lines = IF idle THEN Style!Graticule(Style!Now) ELSE p7.lines]
          /\ p8' = [once |-> IF idle THEN <<>> ELSE <<Style!Now>>,
                    lines |-> <<Style!Now>>, sync |-> <<after>>]
          /\ p9' = (IF ~ idle THEN <<>> ELSE IF after = Style!Now THEN <<Style!Now>>
                    ELSE <<Style!Now, after>>)
          /\ p10' = (IF idle THEN {} ELSE {"flight", "lines", "terrain"})
    BY <2>i
  <2>3. /\ after = [globe |-> p3, style |-> p4, d3 |-> p5 /\ ~ (idle /\ p3)]
        /\ after.d3 = (p5 /\ ~ (idle /\ p3)) /\ after.globe = p3
    BY <2>2, StyleNow
  <2>4. after \in Style!Closures  BY <1>t, <2>3 DEF Style!Closures
  <2>5. p5' = (p5 /\ ~ (idle /\ p3)) /\ p5' \in BOOLEAN  BY <1>t, <2>2, <2>3
  <2>6. Style!Now' = after  BY <1>now, <2>1, <2>3, <2>5
  <2>7. p7 = Style!NoMap  BY <1>0, <2>1 DEF StyleMap
  <2>8. ~ p7.reloading /\ ~ p7.terrain  BY <2>7 DEF Style!NoMap
  <2>9. Style!Graticule(Style!Now) \in Style!Styles \cup {"none"}
    BY <1>t, StyleGraticule
  <2>10. /\ p7' \in MapState /\ p7'.built /\ ~ p7'.reloading /\ ~ p7'.terrain
         /\ p7'.lines = IF idle THEN Style!Graticule(Style!Now) ELSE p7.lines
    <3> DEFINE ls == IF idle THEN Style!Graticule(Style!Now) ELSE p7.lines
    <3>1. ls \in Style!Styles \cup {"none"}  BY <1>m, <2>9
    <3>2. p7' = [p7 EXCEPT !.built = TRUE, !.idle = idle, !.lines = ls]  BY <2>2
    <3> HIDE DEF ls
    <3>3. p7'.lines = ls /\ p7' \in MapState /\ p7'.built /\ ~ p7'.reloading /\ ~ p7'.terrain
      BY <1>t, <2>8, <3>1, <3>2 DEF MapState
    <3> QED  BY <3>3 DEF ls
  <2>11. p8' \in Listeners /\ p8'.sync = <<after>> /\ p8'.lines = <<Style!Now>>
         /\ p8'.once = IF idle THEN <<>> ELSE <<Style!Now>>
    <3> DEFINE o == IF idle THEN <<>> ELSE <<Style!Now>>
    <3>1. o \in Seq(Style!Closures)  BY <1>e, <1>nc
    <3>2. p8' = [once |-> o, lines |-> <<Style!Now>>, sync |-> <<after>>]  BY <2>2
    <3>3. <<Style!Now>> \in Seq(Style!Closures) /\ <<after>> \in Seq(Style!Closures)
      BY <1>nc, <1>one, <2>4
    <3> HIDE DEF o
    <3>4. p8' \in Listeners /\ p8'.sync = <<after>> /\ p8'.lines = <<Style!Now>> /\ p8'.once = o
      BY <3>1, <3>2, <3>3 DEF Listeners
    <3> QED  BY <3>4 DEF o
  <2>12. /\ p9' \in Seq(Style!Closures) /\ \A i \in 1..Len(p9') : p9'[i].globe = p3
         /\ idle => p9' # <<>> /\ p9'[Len(p9')] = after
    <3>1. CASE ~ idle
      <4>1. p9' = <<>>  BY <2>2, <3>1
      <4> QED  BY <1>e, <3>1, <4>1
    <3>2. CASE idle /\ after = Style!Now
      <4>1. p9' = <<after>>  BY <2>2, <3>2
      <4> QED  BY <2>3, <2>4, <4>1
    <3>3. CASE idle /\ after # Style!Now
      <4>1. p9' = <<Style!Now, after>>  BY <2>2, <3>3
      <4>2. Len(p9') = 2 /\ p9'[1] = Style!Now /\ p9'[2] = after /\ p9' \in Seq(Style!Closures)
        BY <1>nc, <2>4, <4>1
      <4>3. p9'[1].globe = p3 /\ p9'[2].globe = p3  BY <2>3, <4>2, StyleNow
      <4>4. \A i \in 1..2 : i = 1 \/ i = 2  OBVIOUS
      <4>5. p9' # <<>>  BY <4>1
      <4> QED  BY <4>2, <4>3, <4>4, <4>5
    <3> QED  BY <3>1, <3>2, <3>3
  <2>13. p10' \subseteq {"flight", "lines", "terrain"} /\ (idle => p10' = {})
         /\ (~ idle => p10' = {"flight", "lines", "terrain"})
    BY <2>2
  <2>14. StyleTypes'
    BY <1>t, <2>1, <2>5, <2>10, <2>11, <2>12, <2>13 DEF StyleTypes
  <2>15. StyleHeard'
    <3>1. p8'.sync = <<Style!Now>>'  BY <2>6, <2>11
    <3>2. Len(p8'.lines) = 1 /\ p8'.lines[1] = Style!Now  BY <1>nc, <1>one, <2>11
    <3>3. p8'.lines[1].globe = p3' /\ p8'.lines[1].style = p4'  BY <2>1, <3>2, StyleNow
    <3> QED  BY <2>1, <3>1, <3>2, <3>3 DEF StyleHeard
  <2>16. StyleMap'  BY <2>1, <2>10, <2>12 DEF StyleMap
  <2>17. StyleShows'
    <3>1. "lines" \notin p10' => p7'.lines = Style!Graticule(Style!Now)'
      <4>1. "lines" \notin p10' => idle  BY <2>13
      <4>2. Style!Graticule(Style!Now)' = Style!Graticule(Style!Now)
        BY <1>g, <2>1, StyleGraticule
      <4> QED  BY <2>10, <4>1, <4>2
    <3>2. ~ p3' /\ "terrain" \notin p10' =>
             IF p9' = <<>> THEN p7'.terrain = (p5' /\ p2') ELSE p9'[Len(p9')].d3 = p5'
      <4>1. "terrain" \notin p10' => idle  BY <2>13
      <4> QED  BY <2>2, <2>12, <4>1
    <3>3. "flight" \notin p10' => ~ (p3' /\ p5')
      <4>1. "flight" \notin p10' => idle  BY <2>13
      <4> QED  BY <2>1, <2>5, <4>1
    <3>4. p3' /\ p5' => \E i \in 1..Len(p8'.once) : p8'.once[i].globe
      <4> SUFFICES ASSUME p3', p5'  PROVE \E i \in 1..Len(p8'.once) : p8'.once[i].globe
        OBVIOUS
      <4>1. ~ idle  BY <2>1, <2>5
      <4>2. p8'.once = <<Style!Now>>  BY <2>11, <4>1
      <4>3. 1 \in 1..Len(p8'.once) /\ p8'.once[1] = Style!Now  BY <1>nc, <1>one, <4>2
      <4>4. p8'.once[1].globe  BY <2>1, <4>3, StyleNow
      <4> QED  BY <4>3, <4>4
    <3> QED  BY <3>1, <3>2, <3>3, <3>4 DEF StyleShows
  <2> QED  BY <2>14, <2>15, <2>16, <2>17 DEF StyleInv
<1>3. ASSUME Style!SetStyleMode  PROVE StyleInv'
  <2>1. /\ p3 /\ Style!Change /\ p4' \in Style!Styles /\ UNCHANGED <<p1, p2, p3, p5, p6, p9, p10>>
        /\ IF p7.built
           THEN Style!Rewire /\ p7' = [p7 EXCEPT !.idle = FALSE, !.reloading = TRUE,
                                                !.lines = "none", !.terrain = FALSE]
           ELSE UNCHANGED <<p7, p8>>
    BY <1>3 DEF Style!SetStyleMode
  <2>2. p11' \in 0..MaxStyles  BY <1>c, <2>1
  <2>3. CASE ~ p7.built
    <3>1. UNCHANGED <<p7, p8>>  BY <2>1, <2>3
    <3>2. StyleTypes'  BY <1>t, <2>1, <2>2, <3>1 DEF StyleTypes
    <3>3. StyleHeard'  BY <2>3, <3>1 DEF StyleHeard
    <3>n. Style!NoMap' = Style!NoMap  BY DEF Style!NoMap
    <3>4. StyleMap'  BY <1>0, <2>1, <3>1, <3>n DEF StyleMap
    <3>5. StyleShows'  BY <2>3, <3>1 DEF StyleShows
    <3> QED  BY <3>2, <3>3, <3>4, <3>5 DEF StyleInv
  <2>4. CASE p7.built
    <3>1. PICK now : now = Style!Now'  OBVIOUS
    <3>2. /\ p8' = [p8 EXCEPT !.lines = <<now>>, !.sync = <<now>>]
          /\ p7' = [p7 EXCEPT !.idle = FALSE, !.reloading = TRUE, !.lines = "none", !.terrain = FALSE]
      BY <2>1, <2>4, <3>1 DEF Style!Rewire
    <3>3. now \in Style!Closures /\ now.globe = p3' /\ now.style = p4'
      BY <1>t, <1>now, <2>1, <3>1 DEF Style!Closures
    <3>4. p8' \in Listeners /\ p8'.sync = <<now>> /\ p8'.lines = <<now>> /\ p8'.once = p8.once
      BY <1>t, <1>one, <3>2, <3>3 DEF Listeners
    <3>5. p7' \in MapState /\ p7'.built /\ p7'.reloading /\ ~ p7'.terrain
      BY <1>t, <2>4, <3>2 DEF MapState
    <3>6. StyleTypes'  BY <1>t, <2>1, <2>2, <3>4, <3>5 DEF StyleTypes
    <3>7. StyleHeard'
      <4>1. p6'  BY <1>0, <2>1, <2>4 DEF StyleHeard
      <4>2. Len(p8'.lines) = 1 /\ p8'.lines[1] = now  BY <1>one, <3>3, <3>4
      <4>3. p8'.sync = <<Style!Now>>'  BY <3>1, <3>4
      <4> QED  BY <3>3, <4>1, <4>2, <4>3 DEF StyleHeard
    <3>8. StyleMap'  BY <1>0, <2>1, <3>5 DEF StyleMap
    <3>9. StyleShows'
      <4>1. "flight" \notin p10' => ~ (p3' /\ p5')  BY <1>0, <2>1, <2>4 DEF StyleShows
      <4>2. p3' /\ p5' => \E i \in 1..Len(p8'.once) : p8'.once[i].globe
        BY <1>0, <2>1, <2>4, <3>4 DEF StyleShows
      <4> QED  BY <2>1, <3>5, <4>1, <4>2 DEF StyleShows
    <3> QED  BY <3>6, <3>7, <3>8, <3>9 DEF StyleInv
  <2> QED  BY <2>3, <2>4
<1>4. ASSUME Style!StyleLoads  PROVE StyleInv'
  <2> DEFINE flat == \E i \in DOMAIN p8.once : p8.once[i].globe
             sync == p8.sync[Len(p8.sync)]
             lines == p8.lines[Len(p8.lines)]
             synced == Style!Terrain(sync, p7.terrain)
  <2>1. PICK after \in {[Style!Now EXCEPT !.d3 = p5 /\ ~ flat]} :
          /\ p7.reloading /\ p5' = after.d3
          /\ p7' = [p7 EXCEPT !.reloading = FALSE, !.idle = TRUE,
                              !.lines = Style!Graticule(lines),
                              !.terrain = IF after = Style!Now THEN synced
                                          ELSE Style!Terrain(after, synced)]
          /\ p8' = [p8 EXCEPT !.once = <<>>, !.sync = <<after>>]
          /\ p10' = {} /\ UNCHANGED <<p1, p2, p3, p4, p6, p9, p11>>
    BY <1>4 DEF Style!StyleLoads
  <2>2. flat \in BOOLEAN  OBVIOUS
  <2>3. flat <=> \E i \in 1..Len(p8.once) : p8.once[i].globe  BY <1>h
  <2> HIDE DEF flat
  <2>4. p7.built
    <3> SUFFICES ASSUME ~ p7.built  PROVE FALSE
      OBVIOUS
    <3>1. p7 = Style!NoMap  BY <1>0 DEF StyleMap
    <3> QED  BY <2>1, <3>1 DEF Style!NoMap
  <2>5. p3 /\ ~ p7.terrain  BY <1>0, <2>1 DEF StyleMap
  <2>6. p6 /\ p8.sync = <<Style!Now>> /\ Len(p8.lines) = 1 /\ p8.lines[1].globe = p3
        /\ p8.lines[1].style = p4
    BY <1>0, <2>4 DEF StyleHeard
  <2>7. p3 /\ p5 => flat  BY <1>0, <2>3, <2>4 DEF StyleShows
  <2>8. /\ after = [globe |-> p3, style |-> p4, d3 |-> p5 /\ ~ flat]
        /\ after.d3 = (p5 /\ ~ flat) /\ after.globe = p3
    BY <2>1, StyleNow
  <2>9. after.d3 = FALSE /\ p5' = FALSE  BY <2>1, <2>5, <2>7, <2>8
  <2>10. after \in Style!Closures /\ Style!Now' = after
    <3>1. after = [globe |-> p3, style |-> p4, d3 |-> FALSE]  BY <2>8, <2>9
    <3> QED  BY <1>t, <1>now, <2>1, <2>9, <3>1 DEF Style!Closures
  <2>11. sync = Style!Now
    BY <1>nc, <1>one, <2>6
  <2>12. synced = FALSE  BY <1>t, <1>nc, <1>m, <2>5, <2>11, StyleTerrain, StyleNow
  <2> HIDE DEF synced
  <2>13. (IF after = Style!Now THEN synced ELSE Style!Terrain(after, synced)) = FALSE
    BY <1>t, <2>9, <2>10, <2>12, StyleTerrain
  <2>14. Style!Graticule(lines) = p4
    BY <2>5, <2>6, StyleGraticule
  <2>15. p7' = [p7 EXCEPT !.reloading = FALSE, !.idle = TRUE, !.lines = p4, !.terrain = FALSE]
    BY <2>1, <2>13, <2>14
  <2>16. p7' \in MapState /\ p7'.built /\ ~ p7'.reloading /\ ~ p7'.terrain /\ p7'.lines = p4
    BY <1>t, <2>4, <2>15 DEF MapState
  <2>17. p8' \in Listeners /\ p8'.sync = <<after>> /\ p8'.lines = p8.lines
    <3>1. <<after>> \in Seq(Style!Closures)  BY <1>one, <2>10
    <3> QED  BY <1>t, <1>e, <2>1, <3>1 DEF Listeners
  <2>18. StyleTypes'  BY <1>t, <2>1, <2>9, <2>16, <2>17 DEF StyleTypes
  <2>19. StyleHeard'
    <3>1. p8'.sync = <<Style!Now>>'  BY <2>10, <2>17
    <3> QED  BY <2>1, <2>6, <2>17, <3>1 DEF StyleHeard
  <2>20. StyleMap'  BY <1>0, <2>1, <2>16 DEF StyleMap
  <2>21. StyleShows'
    <3>1. p7'.lines = Style!Graticule(Style!Now)'  BY <1>g, <2>1, <2>5, <2>16
    <3> QED  BY <2>1, <2>5, <2>9, <3>1 DEF StyleShows
  <2> QED  BY <2>18, <2>19, <2>20, <2>21 DEF StyleInv
<1>5. ASSUME NEW on \in BOOLEAN, Style!SetViewMode(on)  PROVE StyleInv'
  <2>1. PICK c \in {[Style!Now EXCEPT !.d3 = on]} :
          /\ ~ p3 /\ p7.built /\ Style!Change /\ p5' = on
          /\ p8' = [p8 EXCEPT !.sync = <<c>>]
          /\ p9' = (IF p7.idle THEN Append(p9, c) ELSE p9)
          /\ p10' = (IF p7.idle THEN p10 \ {"terrain"} ELSE p10 \cup {"terrain"})
          /\ UNCHANGED <<p1, p2, p3, p4, p6, p7>>
    BY <1>5 DEF Style!SetViewMode
  <2>2. /\ c = [globe |-> p3, style |-> p4, d3 |-> on] /\ c.d3 = on /\ c.globe = p3
        /\ c \in Style!Closures
    BY <1>t, <2>1, StyleNow DEF Style!Closures
  <2>3. Style!Now' = c  BY <1>now, <2>1, <2>2
  <2>4. p11' \in 0..MaxStyles  BY <1>c, <2>1
  <2>5. p8' \in Listeners /\ p8'.sync = <<c>> /\ p8'.lines = p8.lines /\ p8'.once = p8.once
    <3>1. <<c>> \in Seq(Style!Closures)  BY <1>one, <2>2
    <3> QED  BY <1>t, <2>1, <3>1 DEF Listeners
  <2>6. /\ p9' \in Seq(Style!Closures) /\ \A i \in 1..Len(p9') : p9'[i].globe = p3
        /\ p7.idle => p9' # <<>> /\ p9'[Len(p9')] = c
    <3>1. \A i \in 1..Len(p9) : p9[i].globe = p3  BY <1>0 DEF StyleMap
    <3>2. CASE p7.idle
      <4>1. p9' = Append(p9, c)  BY <2>1, <3>2
      <4>2. /\ p9' \in Seq(Style!Closures) /\ Len(p9') = Len(p9) + 1 /\ p9'[Len(p9) + 1] = c
            /\ \A i \in 1..Len(p9) : p9'[i] = p9[i]
        BY <1>t, <2>2, <4>1
      <4>3. Len(p9) \in Nat  BY <1>t
      <4>4. \A i \in 1..Len(p9') : p9'[i].globe = p3  BY <2>2, <3>1, <4>2, <4>3
      <4>5. p9' # <<>>  BY <4>2, <4>3
      <4> QED  BY <4>2, <4>4, <4>5
    <3>3. CASE ~ p7.idle
      BY <1>t, <2>1, <3>1, <3>3
    <3> QED  BY <3>2, <3>3
  <2>7. p10' \subseteq {"flight", "lines", "terrain"} /\ ("terrain" \notin p10' => p7.idle)
        /\ ("lines" \notin p10' => "lines" \notin p10)
    BY <1>t, <2>1
  <2>8. StyleTypes'  BY <1>t, <2>1, <2>4, <2>5, <2>6, <2>7 DEF StyleTypes
  <2>9. StyleHeard'
    <3>1. p8'.sync = <<Style!Now>>'  BY <2>3, <2>5
    <3> QED  BY <1>0, <2>1, <2>5, <3>1 DEF StyleHeard
  <2>10. StyleMap'
    <3>n. Style!NoMap' = Style!NoMap  BY DEF Style!NoMap
    <3> QED  BY <1>0, <2>1, <2>6, <3>n DEF StyleMap
  <2>11. StyleShows'
    <3>1. ~ p7'.reloading /\ "lines" \notin p10' => p7'.lines = Style!Graticule(Style!Now)'
      <4>1. Style!Graticule(Style!Now)' = Style!Graticule(Style!Now)
        BY <1>g, <2>1, StyleGraticule
      <4> QED  BY <1>0, <2>1, <2>7, <4>1 DEF StyleShows
    <3>2. "terrain" \notin p10' =>
             IF p9' = <<>> THEN p7'.terrain = (p5' /\ p2') ELSE p9'[Len(p9')].d3 = p5'
      BY <2>1, <2>2, <2>6, <2>7
    <3> QED  BY <2>1, <3>1, <3>2 DEF StyleShows
  <2> QED  BY <2>8, <2>9, <2>10, <2>11 DEF StyleInv
<1>6. ASSUME Style!Sync3D  PROVE StyleInv'
  <2>1. PICK terrain \in {Style!Terrain(Head(p9), p7.terrain)} :
          /\ p9 # <<>> /\ p9' = Tail(p9) /\ p7' = [p7 EXCEPT !.terrain = terrain]
          /\ UNCHANGED <<p1, p2, p3, p4, p5, p6, p8, p10, p11>>
    BY <1>6 DEF Style!Sync3D
  <2>2. Len(p9) \in Nat /\ Len(p9) > 0 /\ Head(p9) = p9[1]  BY <1>t, <2>1
  <2>3. /\ p9[1] \in Style!Closures /\ p9[1].globe = p3 /\ p9[1].d3 \in BOOLEAN
    BY <1>0, <1>t, <2>2, ClosuresOf DEF StyleMap
  <2>4. /\ terrain \in BOOLEAN
        /\ terrain = (p9[1].d3 /\ ((p2 /\ ~ p3) \/ p7.terrain))
    BY <1>t, <1>m, <2>1, <2>2, <2>3, StyleTerrain
  <2>5. terrain => p2 /\ ~ p3
    <3>1. p7.terrain => p2 /\ ~ p3  BY <1>0 DEF StyleMap
    <3> QED  BY <2>4, <3>1
  <2>6. /\ p7' \in MapState /\ p7'.terrain = terrain /\ p7'.built = p7.built
        /\ p7'.reloading = p7.reloading /\ p7'.lines = p7.lines
    BY <1>t, <2>1, <2>4 DEF MapState
  <2>7. /\ p9' \in Seq(Style!Closures) /\ Len(p9') = Len(p9) - 1
        /\ \A i \in 1..Len(p9') : p9'[i] = p9[i + 1]
    BY <1>t, <2>1
  <2>8. StyleTypes'  BY <1>t, <2>1, <2>6, <2>7 DEF StyleTypes
  <2>9. Style!Now' = Style!Now  BY <1>now, <2>1, StyleNow
  <2>10. StyleHeard'  BY <1>0, <2>1, <2>6, <2>9 DEF StyleHeard
  <2>11. StyleMap'
    <3>1. \A i \in 1..Len(p9') : p9'[i].globe = p3
      BY <1>0, <2>2, <2>7 DEF StyleMap
    <3>2. p7.built  BY <1>0, <2>1 DEF StyleMap
    <3> QED  BY <1>0, <2>1, <2>5, <2>6, <3>1, <3>2 DEF StyleMap
  <2>12. StyleShows'
    <3> SUFFICES ASSUME p7.built
                 PROVE  /\ ~ p7'.reloading /\ "lines" \notin p10' =>
                              p7'.lines = Style!Graticule(Style!Now)'
                        /\ ~ p3' /\ "terrain" \notin p10' =>
                             IF p9' = <<>> THEN p7'.terrain = (p5' /\ p2') ELSE p9'[Len(p9')].d3 = p5'
                        /\ "flight" \notin p10' => ~ (p3' /\ p5')
                        /\ p3' /\ p5' => \E i \in 1..Len(p8'.once) : p8'.once[i].globe
      BY <2>6 DEF StyleShows
    <3>1. Style!Graticule(Style!Now)' = Style!Graticule(Style!Now)
      BY <1>g, <2>1, StyleGraticule
    <3>2. ASSUME ~ p3, "terrain" \notin p10
          PROVE  IF p9' = <<>> THEN p7'.terrain = (p5' /\ p2') ELSE p9'[Len(p9')].d3 = p5'
      <4>1. p9[Len(p9)].d3 = p5  BY <1>0, <2>1, <3>2 DEF StyleShows
      <4>2. CASE p9' = <<>>
        <5>1. Len(p9) = 1  BY <2>2, <2>7, <4>2
        <5>2. p9[1].d3 = p5  BY <4>1, <5>1
        <5>3. p7.terrain => p2  BY <1>0 DEF StyleMap
        <5>4. terrain = (p5 /\ p2)  BY <1>t, <1>m, <2>4, <3>2, <5>2, <5>3
        <5> QED  BY <2>1, <2>6, <4>2, <5>4
      <4>3. CASE p9' # <<>>
        <5>1. Len(p9') \in 1..Len(p9')  BY <2>2, <2>7, <4>3
        <5>2. p9'[Len(p9')] = p9[Len(p9)]  BY <2>2, <2>7, <5>1
        <5> QED  BY <2>1, <4>1, <4>3, <5>2
      <4> QED  BY <4>2, <4>3
    <3> QED  BY <1>0, <2>1, <2>6, <3>1, <3>2 DEF StyleShows
  <2> QED  BY <2>8, <2>10, <2>11, <2>12 DEF StyleInv
<1>7. ASSUME UNCHANGED <<p1, p2, p3, p4, p5, p6, p8, p9, p10, p11>>, p7' \in MapState,
             p7'.reloading = p7.reloading, p7'.lines = p7.lines, p7'.terrain = p7.terrain,
             p7'.built = p7.built, p7.built \/ p7' = p7
      PROVE  StyleInv'
  <2>1. Style!Now' = Style!Now  BY <1>now, <1>7, StyleNow
  <2>2. Style!Graticule(Style!Now)' = Style!Graticule(Style!Now)
    BY <1>g, <1>7, StyleGraticule
  <2>3. StyleTypes'  BY <1>t, <1>7 DEF StyleTypes
  <2>4. StyleHeard'  BY <1>0, <1>7, <2>1 DEF StyleHeard
  <2>n. Style!NoMap' = Style!NoMap  BY DEF Style!NoMap
  <2>5. StyleMap'  BY <1>0, <1>7, <2>n DEF StyleMap
  <2>6. StyleShows'  BY <1>0, <1>7, <2>2 DEF StyleShows
  <2> QED  BY <2>3, <2>4, <2>5, <2>6 DEF StyleInv
<1>8. ASSUME Style!Tiles  PROVE StyleInv'
  <2>1. /\ p7.built /\ p7' = [p7 EXCEPT !.idle = ~ p7.idle]
        /\ UNCHANGED <<p1, p2, p3, p4, p5, p6, p8, p9, p10, p11>>
    BY <1>8 DEF Style!Tiles
  <2>2. /\ p7' \in MapState /\ p7'.reloading = p7.reloading /\ p7'.lines = p7.lines
        /\ p7'.terrain = p7.terrain /\ p7'.built = p7.built
    BY <1>t, <1>m, <2>1 DEF MapState
  <2> QED  BY <1>7, <2>1, <2>2
<1>9. ASSUME UNCHANGED StyleVars  PROVE StyleInv'
  <2>1. UNCHANGED <<p1, p2, p3, p4, p5, p6, p7, p8, p9, p10, p11>>  BY <1>9 DEF Style!vars
  <2> QED  BY <1>t, <1>7, <2>1
<1> QED
  BY <1>1, <1>2, <1>3, <1>4, <1>5, <1>6, <1>8, <1>9 DEF Style!Next

-----------------------------------------------------------------------------
(***************************************************************************)
(* What a socket or the queue of the bridge carries: commands that go up,  *)
(* and what comes down.                                                    *)
(***************************************************************************)
(* The frequency or the setting that a command asks for.                   *)
Val(c) == IF c.do = "set" THEN c.node.freq ELSE c.value

NoneOf(s, k) == \A i \in 1..Len(s) : s[i].do # k

(* The last command of kind k asks for v.                                  *)
LastIs(s, k, v) ==
  \E i \in 1..Len(s) : /\ s[i].do = k /\ Val(s[i]) = v
                       /\ \A j \in 1..Len(s) : j > i => s[j].do # k

Has(s, m) == \E i \in 1..Len(s) : s[i] = m

(* The link a message tells of, and a queue that tells of no other         *)
(* frequency than f.                                                       *)
Hears(m) == IF "status" \in DOMAIN m THEN m.status ELSE m.hello
HearsOnly(s, f) == \A i \in 1..Len(s) : Hears(s[i]) # Link!NoNode => Hears(s[i]).freq = f

Greets(s) == \E i \in 1..Len(s) : "hello" \in DOMAIN s[i]

LEMMA AppendIs ==
  ASSUME NEW S, NEW s \in Seq(S), NEW c \in S
  PROVE  /\ Append(s, c) \in Seq(S) /\ Len(s) \in Nat /\ Len(Append(s, c)) = Len(s) + 1
         /\ 1..Len(Append(s, c)) = 1..Len(s) \cup {Len(s) + 1}
         /\ Append(s, c) # <<>> /\ Append(s, c)[Len(s) + 1] = c
         /\ \A i \in 1..Len(s) : Append(s, c)[i] = s[i]
OBVIOUS

LEMMA TailIs ==
  ASSUME NEW S, NEW s \in Seq(S), s # <<>>
  PROVE  /\ Tail(s) \in Seq(S) /\ Head(s) \in S /\ Head(s) = s[1] /\ Len(s) \in Nat \ {0}
         /\ Len(Tail(s)) = Len(s) - 1 /\ Len(Tail(s)) \in Nat
         /\ \A i \in 1..Len(Tail(s)) : i + 1 \in 1..Len(s) /\ Tail(s)[i] = s[i + 1]
OBVIOUS

LEMMA NoneOfAppend ==
  ASSUME NEW S, NEW s \in Seq(S), NEW c \in S, NEW k
  PROVE  NoneOf(Append(s, c), k) <=> NoneOf(s, k) /\ c.do # k
BY AppendIs DEF NoneOf

LEMMA NoneOfTail ==
  ASSUME NEW S, NEW s \in Seq(S), s # <<>>, NEW k
  PROVE  NoneOf(s, k) <=> NoneOf(Tail(s), k) /\ Head(s).do # k
<1>1. \A i \in 1..Len(s) : i = 1 \/ (i - 1 \in 1..Len(Tail(s)) /\ s[i] = Tail(s)[i - 1])
  BY TailIs
<1>2. NoneOf(Tail(s), k) /\ Head(s).do # k => NoneOf(s, k)  BY <1>1, TailIs DEF NoneOf
<1>3. NoneOf(s, k) => NoneOf(Tail(s), k) /\ Head(s).do # k  BY TailIs DEF NoneOf
<1> QED  BY <1>2, <1>3

LEMMA LastIsAppend ==
  ASSUME NEW S, NEW s \in Seq(S), NEW c \in S, NEW k, NEW v
  PROVE  /\ c.do # k => (LastIs(Append(s, c), k, v) <=> LastIs(s, k, v))
         /\ c.do = k /\ Val(c) = v => LastIs(Append(s, c), k, v)
<1>1. ASSUME c.do # k, LastIs(s, k, v)  PROVE LastIs(Append(s, c), k, v)
  BY <1>1, AppendIs DEF LastIs
<1>2. ASSUME c.do # k, LastIs(Append(s, c), k, v)  PROVE LastIs(s, k, v)
  BY <1>2, AppendIs DEF LastIs
<1>3. ASSUME c.do = k, Val(c) = v  PROVE LastIs(Append(s, c), k, v)
  <2>1. \A j \in 1..Len(Append(s, c)) : ~ (j > Len(s) + 1)  BY AppendIs
  <2> QED  BY <1>3, <2>1, AppendIs DEF LastIs
<1> QED  BY <1>1, <1>2, <1>3

(* The last of its kind is still to come, or was at the head.              *)
LEMMA LastIsTail ==
  ASSUME NEW S, NEW s \in Seq(S), s # <<>>, NEW k, NEW v, LastIs(s, k, v)
  PROVE  \/ LastIs(Tail(s), k, v)
         \/ NoneOf(Tail(s), k) /\ Head(s).do = k /\ Val(Head(s)) = v
<1>1. PICK i \in 1..Len(s) : /\ s[i].do = k /\ Val(s[i]) = v
                             /\ \A j \in 1..Len(s) : j > i => s[j].do # k
  BY DEF LastIs
<1>2. CASE i = 1
  <2>1. NoneOf(Tail(s), k)  BY <1>1, <1>2, TailIs DEF NoneOf
  <2> QED  BY <1>1, <1>2, <2>1, TailIs
<1>3. CASE i # 1
  <2>1. i - 1 \in 1..Len(Tail(s)) /\ Tail(s)[i - 1] = s[i]  BY <1>3, TailIs
  <2>2. \A j \in 1..Len(Tail(s)) : j > i - 1 => Tail(s)[j].do # k  BY <1>1, TailIs
  <2> QED  BY <1>1, <2>1, <2>2 DEF LastIs
<1> QED  BY <1>2, <1>3

LEMMA LastIsSome == ASSUME NEW s, NEW k, NEW v, LastIs(s, k, v)  PROVE ~ NoneOf(s, k)
BY DEF LastIs, NoneOf

LEMMA HasAppend ==
  ASSUME NEW S, NEW s \in Seq(S), NEW c \in S, NEW m
  PROVE  Has(Append(s, c), m) <=> Has(s, m) \/ c = m
BY AppendIs DEF Has

LEMMA HasTail ==
  ASSUME NEW S, NEW s \in Seq(S), s # <<>>, NEW m
  PROVE  Has(s, m) <=> Has(Tail(s), m) \/ Head(s) = m
<1>1. \A i \in 1..Len(s) : i = 1 \/ (i - 1 \in 1..Len(Tail(s)) /\ s[i] = Tail(s)[i - 1])
  BY TailIs
<1>2. Has(s, m) => Has(Tail(s), m) \/ Head(s) = m  BY <1>1, TailIs DEF Has
<1>3. 1 \in 1..Len(s)  BY TailIs
<1>4. Has(Tail(s), m) \/ Head(s) = m => Has(s, m)  BY <1>3, TailIs DEF Has
<1> QED  BY <1>2, <1>4

LEMMA HearsOnlyAppend ==
  ASSUME NEW S, NEW s \in Seq(S), NEW c \in S, NEW f
  PROVE  HearsOnly(Append(s, c), f)
           <=> HearsOnly(s, f) /\ (Hears(c) # Link!NoNode => Hears(c).freq = f)
BY AppendIs DEF HearsOnly

LEMMA HearsOnlyTail ==
  ASSUME NEW S, NEW s \in Seq(S), s # <<>>, NEW f
  PROVE  HearsOnly(s, f)
           <=> HearsOnly(Tail(s), f) /\ (Hears(Head(s)) # Link!NoNode => Hears(Head(s)).freq = f)
<1>1. \A i \in 1..Len(s) : i = 1 \/ (i - 1 \in 1..Len(Tail(s)) /\ s[i] = Tail(s)[i - 1])
  BY TailIs
<1>2. HearsOnly(Tail(s), f) /\ (Hears(Head(s)) # Link!NoNode => Hears(Head(s)).freq = f)
      => HearsOnly(s, f)
  BY <1>1, TailIs DEF HearsOnly
<1>3. 1 \in 1..Len(s)  BY TailIs
<1>4. HearsOnly(s, f)
      => HearsOnly(Tail(s), f) /\ (Hears(Head(s)) # Link!NoNode => Hears(Head(s)).freq = f)
  BY <1>3, TailIs DEF HearsOnly
<1> QED  BY <1>2, <1>4

LEMMA GreetsTail ==
  ASSUME NEW S, NEW s \in Seq(S), s # <<>>
  PROVE  Greets(s) <=> Greets(Tail(s)) \/ "hello" \in DOMAIN Head(s)
<1>1. \A i \in 1..Len(s) : i = 1 \/ (i - 1 \in 1..Len(Tail(s)) /\ s[i] = Tail(s)[i - 1])
  BY TailIs
<1>2. Greets(s) => Greets(Tail(s)) \/ "hello" \in DOMAIN Head(s)  BY <1>1, TailIs DEF Greets
<1>3. 1 \in 1..Len(s)  BY TailIs
<1>4. Greets(Tail(s)) \/ "hello" \in DOMAIN Head(s) => Greets(s)  BY <1>3, TailIs DEF Greets
<1> QED  BY <1>2, <1>4

LEMMA OfNothing ==
  ASSUME NEW k, NEW v, NEW m, NEW f
  PROVE  /\ NoneOf(<<>>, k) /\ ~ LastIs(<<>>, k, v) /\ ~ Has(<<>>, m)
         /\ HearsOnly(<<>>, f) /\ ~ Greets(<<>>)
<1>1. 1..Len(<<>>) = {}  OBVIOUS
<1> QED  BY <1>1 DEF NoneOf, LastIs, Has, HearsOnly, Greets

LEMMA LastMessage ==
  ASSUME NEW S, NEW s \in Seq(S), NEW c \in S
  PROVE  /\ Append(s, c)[Len(Append(s, c))] = c
         /\ s # <<>> /\ Tail(s) # <<>> => Tail(s)[Len(Tail(s))] = s[Len(s)]
         /\ s # <<>> /\ Tail(s) = <<>> => s[Len(s)] = Head(s)
<1>1. Append(s, c)[Len(Append(s, c))] = c  BY AppendIs
<1>2. ASSUME s # <<>>, Tail(s) # <<>>  PROVE Tail(s)[Len(Tail(s))] = s[Len(s)]
  <2>1. Len(Tail(s)) # 0  BY <1>2, TailIs
  <2>2. Len(Tail(s)) \in 1..Len(Tail(s)) /\ Len(Tail(s)) + 1 = Len(s)  BY <1>2, <2>1, TailIs
  <2> QED  BY <1>2, <2>2, TailIs
<1>3. ASSUME s # <<>>, Tail(s) = <<>>  PROVE s[Len(s)] = Head(s)
  <2>1. \A t : t = <<>> => Len(t) = 0  OBVIOUS
  <2>2. Len(Tail(s)) = 0  BY <1>3, <2>1
  <2>3. Len(s) = 1  BY <1>3, <2>2, TailIs
  <2> QED  BY <1>3, <2>3, TailIs
<1> QED  BY <1>1, <1>2, <1>3

-----------------------------------------------------------------------------
(***************************************************************************)
(* The radio: link is p1, linked p2, known p3, rxGain p4, joining p5,      *)
(* tuning p6, gaining p7, queue p8, up p9, down p10, socket p11, config    *)
(* p12, locked p13, post p14, local p15, synced p16, gain p17, stopping    *)
(* p18, silent p19, missed p20, sent p21, events p22.                      *)
(***************************************************************************)
RadioVars == Link!vars

MaybeNodes == Link!Nodes \cup {Link!NoNode}

Statuses == [status : MaybeNodes]
Messages == Statuses \cup [hello : MaybeNodes]
Commands ==
  {Link!Set(h, f) : h \in Hosts, f \in Freqs} \cup {Link!Gain(v) : v \in Gains}
    \cup {Link!Get, Link!Disconnect}

(* The link there is.                                                      *)
Truth == IF p2 THEN p1 ELSE Link!NoNode

RadioTypes ==
  /\ p1 \in MaybeNodes /\ p3 \in MaybeNodes /\ p5 \in MaybeNodes /\ p12 \in MaybeNodes
  /\ p2 \in BOOLEAN /\ p11 \in BOOLEAN /\ p13 \in BOOLEAN /\ p14 \in BOOLEAN
  /\ p18 \in BOOLEAN /\ p19 \in BOOLEAN
  /\ p6 \in Freqs \cup {99} /\ p7 \in Gains \cup {99} /\ p4 \in Gains /\ p17 \in Gains
  /\ p15 \in Freqs \cup {0} /\ p16 \in Freqs \cup {0}
  /\ p20 \subseteq {"tune", "gain", "stop"}
  /\ p21 \in 0..MaxSent /\ p22 \in 0..MaxEvents
  /\ p8 \in Seq(Statuses) /\ p9 \in Seq(Commands) /\ p10 \in Seq(Messages)

(* The bridge knows of the link it has; without one nothing is delayed,    *)
(* and with one it is not on its way to another.                           *)
RadioLink ==
  /\ p2 => p3 = p1 /\ p1 # Link!NoNode
  /\ p19 => ~ p2
  /\ p1 = Link!NoNode => p6 = 99 /\ p7 = 99
  /\ p5 # Link!NoNode => p1 = Link!NoNode

(* The last of the announcements is true.                                  *)
RadioQueue == ~ p19 /\ p8 # <<>> => p8[Len(p8)] = Link!Told(Truth)

(* When all were sent the page knows of the link, or will be told of it;   *)
(* that there is none it may still have to ask.                            *)
RadioDown ==
  ~ p19 /\ p8 = <<>> /\ p11 =>
    IF p2 THEN IF p10 = <<>> THEN p12 = p1 ELSE Hears(p10[Len(p10)]) = p1
    ELSE \/ Greets(p10) \/ ~ NoneOf(p9, "get")
         \/ IF p10 = <<>> THEN p12 = Link!NoNode ELSE p10[Len(p10)] = Link!Off

(* The post has followed what the page shows.                              *)
RadioPost == p14 /\ p12 # Link!NoNode => p16 = p12.freq

(* A tune of which the post has not heard is still to be told, or its own  *)
(* command is the last that will be done.                                  *)
RadioTune ==
  p14 /\ "tune" \notin p20 /\ p15 # p16 =>
    /\ p11
    /\ HearsOnly(p10, p16) /\ HearsOnly(p8, p16) =>
         \/ LastIs(p9, "set", p15)
         \/ NoneOf(p9, "set") /\ (p6 = p15 \/ (p5 # Link!NoNode /\ p5.freq = p15))

(* The setting of the post is the last that will be done.                  *)
RadioGain ==
  p14 /\ "gain" \notin p20 =>
    \/ LastIs(p9, "gain", p17)
    \/ NoneOf(p9, "gain") /\ p17 = IF p7 # 99 THEN p7 ELSE p4

(* A stop of which the post has not heard is still to be done or told.     *)
RadioStop ==
  p14 /\ p18 /\ "stop" \notin p20 =>
    /\ p11
    /\ p12 # Link!NoNode =>
         ~ NoneOf(p9, "disconnect") \/ Has(p10, Link!Off) \/ Has(p8, Link!Off)

RadioSocket == ~ p11 => p9 = <<>> /\ p10 = <<>>

RadioInv ==
  /\ RadioTypes /\ RadioLink /\ RadioQueue /\ RadioDown /\ RadioPost /\ RadioTune
  /\ RadioGain /\ RadioStop /\ RadioSocket

LEMMA NodeIs ==
  /\ Link!NoNode \in MaybeNodes /\ Link!NoNode.host = 0 /\ Link!NoNode.freq = 0
  /\ \A h \in Hosts, f \in Freqs :
       Link!Node(h, f) \in MaybeNodes /\ Link!Node(h, f) # Link!NoNode
       /\ Link!Node(h, f).freq = f /\ Link!Node(h, f).host = h
  /\ \A n \in MaybeNodes : n # Link!NoNode => n.host \in Hosts /\ n.host # 0 /\ n.freq \in Freqs
<1>1. 0 \notin Hosts  BY PanelsAssumption
<1>2. Link!NoNode = [host |-> 0, freq |-> 0]  BY DEF Link!NoNode, Link!Off, Link!None
<1> QED  BY <1>1, <1>2 DEF MaybeNodes, Link!Nodes, Link!Node

LEMMA MessageIs ==
  /\ Link!Off \in Statuses /\ Link!Off = Link!Told(Link!NoNode)
  /\ \A m \in Statuses : /\ m.status \in MaybeNodes /\ m = Link!Told(m.status)
                         /\ "status" \in DOMAIN m /\ "hello" \notin DOMAIN m
  /\ \A n \in MaybeNodes :
       /\ Link!Told(n) \in Statuses /\ Hears(Link!Told(n)) = n /\ "hello" \notin DOMAIN Link!Told(n)
       /\ [hello |-> n] \in Messages /\ Hears([hello |-> n]) = n /\ "hello" \in DOMAIN [hello |-> n]
       /\ [hello |-> n] # Link!Off /\ (Link!Told(n) = Link!Off <=> n = Link!NoNode)
  /\ \A m \in Messages : Hears(m) \in MaybeNodes
<1>1. Link!NoNode \in MaybeNodes  BY NodeIs
<1>2. Link!NoNode = [host |-> 0, freq |-> 0] /\ Link!Off = [status |-> [host |-> 0, freq |-> 0]]
  BY DEF Link!NoNode, Link!Off, Link!None
<1>3. Link!Off = Link!Told(Link!NoNode)  BY <1>2 DEF Link!Told
<1>4. ASSUME NEW n \in MaybeNodes
      PROVE  /\ Link!Told(n) \in Statuses /\ Link!Told(n).status = n
             /\ DOMAIN Link!Told(n) = {"status"}
             /\ [hello |-> n] \in Messages /\ DOMAIN [hello |-> n] = {"hello"}
             /\ [hello |-> n].hello = n
  BY DEF Link!Told, Statuses, Messages
<1>5. ASSUME NEW m \in Statuses
      PROVE  m.status \in MaybeNodes /\ m = Link!Told(m.status) /\ DOMAIN m = {"status"}
  BY DEF Statuses, Link!Told
<1>6. ASSUME NEW m \in [hello : MaybeNodes]
      PROVE  m.hello \in MaybeNodes /\ DOMAIN m = {"hello"}
  OBVIOUS
<1>7. \A m \in Messages : Hears(m) \in MaybeNodes
  BY <1>5, <1>6 DEF Messages, Hears
<1>8. ASSUME NEW n \in MaybeNodes
      PROVE  /\ Hears(Link!Told(n)) = n /\ Hears([hello |-> n]) = n
             /\ [hello |-> n] # Link!Off /\ (Link!Told(n) = Link!Off <=> n = Link!NoNode)
  <2>1. Hears(Link!Told(n)) = n /\ Hears([hello |-> n]) = n  BY <1>4 DEF Hears
  <2>2. DOMAIN Link!Off = {"status"} /\ Link!Off.status = Link!NoNode  BY <1>1, <1>3, <1>4
  <2> QED  BY <1>3, <1>4, <2>1, <2>2
<1>9. Link!Off \in Statuses  BY <1>1, <1>3, <1>4
<1> QED  BY <1>3, <1>4, <1>5, <1>7, <1>8, <1>9

LEMMA CommandIs ==
  /\ \A h \in Hosts, f \in Freqs :
       /\ Link!Set(h, f) \in Commands /\ Link!Set(h, f).do = "set"
       /\ Link!Set(h, f).node = Link!Node(h, f) /\ Val(Link!Set(h, f)) = f
  /\ \A v \in Gains : /\ Link!Gain(v) \in Commands /\ Link!Gain(v).do = "gain"
                      /\ Link!Gain(v).value = v /\ Val(Link!Gain(v)) = v
  /\ Link!Get \in Commands /\ Link!Get.do = "get"
  /\ Link!Disconnect \in Commands /\ Link!Disconnect.do = "disconnect"
  /\ \A c \in Commands :
       /\ c.do \in {"set", "gain", "get", "disconnect"}
       /\ c.do = "set" => /\ c.node \in Link!Nodes /\ c.node # Link!NoNode
                          /\ Val(c) = c.node.freq /\ Val(c) \in Freqs
                          /\ \E h \in Hosts, f \in Freqs : c.node = Link!Node(h, f)
       /\ c.do = "gain" => c.value \in Gains /\ Val(c) = c.value
<1>1. ASSUME NEW h \in Hosts, NEW f \in Freqs
      PROVE  /\ Link!Set(h, f) \in Commands /\ Link!Set(h, f).do = "set"
             /\ Link!Set(h, f).node = Link!Node(h, f) /\ Val(Link!Set(h, f)) = f
             /\ Link!Node(h, f) \in Link!Nodes /\ Link!Node(h, f) # Link!NoNode
             /\ Link!Node(h, f).freq = f
  <2>1. Link!Set(h, f) \in Commands  BY DEF Commands
  <2>2. Link!Set(h, f).do = "set" /\ Link!Set(h, f).node = Link!Node(h, f)  BY DEF Link!Set
  <2>3. Link!Node(h, f) \in Link!Nodes  BY DEF Link!Node, Link!Nodes
  <2>4. Link!Node(h, f) # Link!NoNode /\ Link!Node(h, f).freq = f  BY NodeIs
  <2> QED  BY <2>1, <2>2, <2>3, <2>4 DEF Val
<1>2. ASSUME NEW v \in Gains
      PROVE  /\ Link!Gain(v) \in Commands /\ Link!Gain(v).do = "gain"
             /\ Link!Gain(v).value = v /\ Val(Link!Gain(v)) = v
  <2>1. Link!Gain(v) \in Commands  BY DEF Commands
  <2>2. Link!Gain(v).do = "gain" /\ Link!Gain(v).value = v  BY DEF Link!Gain
  <2> QED  BY <2>1, <2>2 DEF Val
<1>3. Link!Get \in Commands /\ Link!Get.do = "get"  BY DEF Commands, Link!Get
<1>4. Link!Disconnect \in Commands /\ Link!Disconnect.do = "disconnect"
  BY DEF Commands, Link!Disconnect
<1>5. ASSUME NEW c \in Commands
      PROVE  /\ c.do \in {"set", "gain", "get", "disconnect"}
             /\ c.do = "set" => /\ c.node \in Link!Nodes /\ c.node # Link!NoNode
                                /\ Val(c) = c.node.freq /\ Val(c) \in Freqs
                                /\ \E h \in Hosts, f \in Freqs : c.node = Link!Node(h, f)
             /\ c.do = "gain" => c.value \in Gains /\ Val(c) = c.value
  <2>1. CASE \E h \in Hosts, f \in Freqs : c = Link!Set(h, f)
    <3>1. PICK h \in Hosts, f \in Freqs : c = Link!Set(h, f)  BY <2>1
    <3> QED  BY <1>1, <3>1
  <2>2. CASE \E v \in Gains : c = Link!Gain(v)
    <3>1. PICK v \in Gains : c = Link!Gain(v)  BY <2>2
    <3> QED  BY <1>2, <3>1
  <2>3. CASE c = Link!Get \/ c = Link!Disconnect
    BY <1>3, <1>4, <2>3
  <2> QED  BY <2>1, <2>2, <2>3 DEF Commands
<1> QED  BY <1>1, <1>2, <1>3, <1>4, <1>5

LEMMA RadioInit == Link!Init => RadioInv
<1> SUFFICES ASSUME Link!Init  PROVE RadioInv
  OBVIOUS
<1>0. MaxSent \in Nat /\ MaxEvents \in Nat /\ 0 \in Gains  BY PanelsAssumption
<1>1. /\ p1 = Link!NoNode /\ p2 = FALSE /\ p3 = Link!NoNode /\ p4 = 0 /\ p5 = Link!NoNode
      /\ p6 = 99 /\ p7 = 99 /\ p8 = <<>> /\ p9 = <<>> /\ p10 = <<>>
  BY DEF Link!Init, Link!Unset
<1>2. /\ p11 = FALSE /\ p12 = Link!NoNode /\ p13 = FALSE /\ p14 = FALSE
      /\ p15 = 0 /\ p16 = 0 /\ p17 = 0 /\ p18 = FALSE
      /\ p19 = FALSE /\ p20 = {} /\ p21 = 0 /\ p22 = 0
  BY DEF Link!Init, Link!None
<1>3. <<>> \in Seq(Statuses) /\ <<>> \in Seq(Commands) /\ <<>> \in Seq(Messages)  OBVIOUS
<1>4. 0 \in 0..MaxSent /\ 0 \in 0..MaxEvents  BY <1>0
<1>5. RadioTypes  BY <1>0, <1>1, <1>2, <1>3, <1>4, NodeIs DEF RadioTypes
<1>6. RadioLink /\ RadioQueue /\ RadioDown /\ RadioPost
  BY <1>1, <1>2 DEF RadioLink, RadioQueue, RadioDown, RadioPost
<1>7. RadioTune /\ RadioGain /\ RadioStop /\ RadioSocket
  BY <1>1, <1>2 DEF RadioTune, RadioGain, RadioStop, RadioSocket
<1> QED  BY <1>5, <1>6, <1>7 DEF RadioInv

LEMMA RadioImplies ==
  RadioInv => Link!TypeOK /\ Link!ShownIsLinked /\ Link!PostIsTruthful
<1> SUFFICES ASSUME RadioInv  PROVE Link!TypeOK /\ Link!ShownIsLinked /\ Link!PostIsTruthful
  OBVIOUS
<1>0. RadioTypes /\ RadioLink  BY DEF RadioInv
<1>1. Link!TypeOK
  BY <1>0 DEF Link!TypeOK, RadioTypes, RadioLink, MaybeNodes, Link!Unset, Link!None
<1>2. ASSUME Link!Quiet, ~ p19  PROVE p12 = IF p2 THEN p1 ELSE Link!NoNode
  <2>1. p11 /\ p9 = <<>> /\ p10 = <<>> /\ p8 = <<>>  BY <1>2 DEF Link!Quiet
  <2> QED  BY <1>2, <2>1, OfNothing DEF RadioInv, RadioDown
<1>3. ASSUME Link!Quiet, ~ p19, p14, p12 # Link!NoNode
      PROVE  /\ "tune" \notin p20 => p15 = p1.freq
             /\ "gain" \notin p20 => p17 = p4
             /\ "stop" \notin p20 => ~ p18
  <2>1. /\ p11 /\ p9 = <<>> /\ p10 = <<>> /\ p8 = <<>> /\ p5 = Link!NoNode /\ p6 = 99 /\ p7 = 99
    BY <1>3 DEF Link!Quiet, Link!Unset
  <2>2. p12 = p1 /\ p16 = p1.freq  BY <1>2, <1>3 DEF RadioInv, RadioPost
  <2>3. p15 # 99  BY <1>0, PanelsAssumption DEF RadioTypes
  <2>4. "tune" \notin p20 => p15 = p16
    BY <1>3, <2>1, <2>3, OfNothing DEF RadioInv, RadioTune
  <2>5. "gain" \notin p20 => p17 = p4  BY <1>3, <2>1, OfNothing DEF RadioInv, RadioGain
  <2>6. "stop" \notin p20 => ~ p18  BY <1>3, <2>1, OfNothing DEF RadioInv, RadioStop
  <2> QED  BY <2>2, <2>4, <2>5, <2>6
<1>4. Link!ShownIsLinked /\ Link!PostIsTruthful
  BY <1>2, <1>3 DEF Link!ShownIsLinked, Link!PostIsTruthful
<1> QED  BY <1>1, <1>4

(* What is taken off the socket at the bridge is not the last of a kind it *)
(* is not of.                                                              *)
LEMMA RadioTaken ==
  ASSUME RadioTypes, p9 # <<>>
  PROVE  /\ Tail(p9) \in Seq(Commands) /\ Head(p9) \in Commands
         /\ \A k : NoneOf(p9, k) <=> NoneOf(Tail(p9), k) /\ Head(p9).do # k
         /\ \A k, v : LastIs(p9, k, v) =>
              \/ LastIs(Tail(p9), k, v)
              \/ NoneOf(Tail(p9), k) /\ Head(p9).do = k /\ Val(Head(p9)) = v
<1>1. p9 \in Seq(Commands)  BY DEF RadioTypes
<1>2. Tail(p9) \in Seq(Commands) /\ Head(p9) \in Commands  BY <1>1, TailIs
<1>3. \A k : NoneOf(p9, k) <=> NoneOf(Tail(p9), k) /\ Head(p9).do # k
  BY <1>1, NoneOfTail
<1>4. \A k, v : LastIs(p9, k, v) =>
              \/ LastIs(Tail(p9), k, v)
              \/ NoneOf(Tail(p9), k) /\ Head(p9).do = k /\ Val(Head(p9)) = v
  BY <1>1, LastIsTail
<1> QED  BY <1>2, <1>3, <1>4

(* The same for what the page sends.                                       *)
LEMMA RadioSent ==
  ASSUME RadioTypes, NEW c \in Commands
  PROVE  /\ Append(p9, c) \in Seq(Commands)
         /\ \A k : NoneOf(Append(p9, c), k) <=> NoneOf(p9, k) /\ c.do # k
         /\ \A k, v : /\ c.do # k => (LastIs(Append(p9, c), k, v) <=> LastIs(p9, k, v))
                      /\ c.do = k /\ Val(c) = v => LastIs(Append(p9, c), k, v)
<1>1. p9 \in Seq(Commands)  BY DEF RadioTypes
<1>2. Append(p9, c) \in Seq(Commands)  BY <1>1, AppendIs
<1>3. \A k : NoneOf(Append(p9, c), k) <=> NoneOf(p9, k) /\ c.do # k  BY <1>1, NoneOfAppend
<1>4. \A k, v : /\ c.do # k => (LastIs(Append(p9, c), k, v) <=> LastIs(p9, k, v))
                /\ c.do = k /\ Val(c) = v => LastIs(Append(p9, c), k, v)
  BY <1>1, LastIsAppend
<1> QED  BY <1>2, <1>3, <1>4

(* What the bridge announces.                                              *)
LEMMA RadioTold ==
  ASSUME RadioTypes, NEW n \in MaybeNodes
  PROVE  LET q == Append(p8, Link!Told(n)) IN
         /\ q \in Seq(Statuses) /\ q # <<>> /\ q[Len(q)] = Link!Told(n)
         /\ Has(q, Link!Off) <=> Has(p8, Link!Off) \/ n = Link!NoNode
         /\ \A f : HearsOnly(q, f) <=> HearsOnly(p8, f) /\ (n # Link!NoNode => n.freq = f)
<1>1. p8 \in Seq(Statuses)  BY DEF RadioTypes
<1>2. Link!Told(n) \in Statuses /\ Hears(Link!Told(n)) = n
      /\ (Link!Told(n) = Link!Off <=> n = Link!NoNode)
  BY MessageIs
<1> DEFINE q == Append(p8, Link!Told(n))
<1>3. q \in Seq(Statuses) /\ q # <<>>  BY <1>1, <1>2, AppendIs
<1>4. q[Len(q)] = Link!Told(n)  BY <1>1, <1>2, LastMessage
<1>5. Has(q, Link!Off) <=> Has(p8, Link!Off) \/ n = Link!NoNode  BY <1>1, <1>2, HasAppend
<1>6. \A f : HearsOnly(q, f) <=> HearsOnly(p8, f) /\ (n # Link!NoNode => n.freq = f)
  BY <1>1, <1>2, HearsOnlyAppend
<1> QED  BY <1>3, <1>4, <1>5, <1>6

(* The bridge leaves the link, if it has one; what was delayed is missed.  *)
LEMMA RadioLeaves ==
  ASSUME RadioInv, Link!LinkOff, p1' = Link!NoNode, p4' = p4, p5 = Link!NoNode,
         p5' \in MaybeNodes, p10' = p10, p11' = p11, p12' = p12, p13' = p13, p14' = p14,
         p15' = p15, p16' = p16, p17' = p17, p18' = p18, p21' = p21, p22' \in 0..MaxEvents,
         \/ p9' = p9
         \/ p9 # <<>> /\ p9' = Tail(p9) /\ Head(p9).do \in {"set", "disconnect"}
            /\ (Head(p9).do = "set" => p5' # Link!NoNode /\ p5'.freq = Val(Head(p9)))
  PROVE  RadioInv'
<1>0. /\ RadioTypes /\ RadioLink /\ RadioQueue /\ RadioDown /\ RadioPost /\ RadioTune
      /\ RadioGain /\ RadioStop /\ RadioSocket
  BY DEF RadioInv
<1>1. /\ p2' = FALSE /\ p3' = Link!NoNode /\ p8' = Append(p8, Link!Off) /\ p19' = FALSE
      /\ p6' = 99 /\ p7' = 99
      /\ p20' = p20 \cup {c \in {"tune"} : p6 # 99} \cup {c \in {"gain"} : p7 # 99}
  BY DEF Link!LinkOff, Link!CancelDelayed, Link!Unset
<1>2. /\ p8' \in Seq(Statuses) /\ p8' # <<>> /\ p8'[Len(p8')] = Link!Told(Link!NoNode)
      /\ Has(p8', Link!Off)
      /\ \A f : HearsOnly(p8', f) => HearsOnly(p8, f)
  BY <1>0, <1>1, RadioTold, NodeIs, MessageIs
<1>3. /\ "tune" \notin p20' => "tune" \notin p20 /\ p6 = 99
      /\ "gain" \notin p20' => "gain" \notin p20 /\ p7 = 99
      /\ "stop" \notin p20' => "stop" \notin p20
      /\ p20' \subseteq {"tune", "gain", "stop"}
  BY <1>0, <1>1 DEF RadioTypes
<1>4. /\ p9' \in Seq(Commands)
      /\ \A v : LastIs(p9, "set", v) =>
           LastIs(p9', "set", v) \/ (NoneOf(p9', "set") /\ p5' # Link!NoNode /\ p5'.freq = v)
      /\ \A v : LastIs(p9, "gain", v) => LastIs(p9', "gain", v)
      /\ NoneOf(p9, "gain") => NoneOf(p9', "gain")
      /\ p9 = <<>> => p9' = <<>>
  <2>1. CASE p9' = p9
    BY <1>0, <2>1 DEF RadioTypes
  <2>2. CASE p9 # <<>> /\ p9' = Tail(p9) /\ Head(p9).do \in {"set", "disconnect"}
            /\ (Head(p9).do = "set" => p5' # Link!NoNode /\ p5'.freq = Val(Head(p9)))
    BY <1>0, <2>2, RadioTaken
  <2> QED  BY <2>1, <2>2
<1>5. RadioTypes'  BY <1>0, <1>1, <1>2, <1>3, <1>4, NodeIs DEF RadioTypes
<1>6. RadioLink'  BY <1>1 DEF RadioLink
<1>7. RadioQueue'  BY <1>1, <1>2 DEF RadioQueue, Truth
<1>8. RadioDown' /\ RadioPost'  BY <1>0, <1>2 DEF RadioDown, RadioPost
<1>9. RadioTune'
  <2> SUFFICES ASSUME p14, "tune" \notin p20', p15 # p16
               PROVE  /\ p11
                      /\ HearsOnly(p10, p16) /\ HearsOnly(p8', p16) =>
                           \/ LastIs(p9', "set", p15)
                           \/ NoneOf(p9', "set")
                              /\ (p6' = p15 \/ (p5' # Link!NoNode /\ p5'.freq = p15))
    BY DEF RadioTune
  <2>1. p15 # 99  BY <1>0, PanelsAssumption DEF RadioTypes
  <2>2. /\ p11 /\ p6 = 99
        /\ HearsOnly(p10, p16) /\ HearsOnly(p8, p16) =>
             \/ LastIs(p9, "set", p15)
             \/ NoneOf(p9, "set") /\ (p6 = p15 \/ (p5 # Link!NoNode /\ p5.freq = p15))
    BY <1>0, <1>3 DEF RadioTune
  <2> QED  BY <1>2, <1>4, <2>1, <2>2
<1>10. RadioGain'
  BY <1>0, <1>1, <1>3, <1>4 DEF RadioGain
<1>11. RadioStop'  BY <1>0, <1>2, <1>3 DEF RadioStop
<1>12. RadioSocket'  BY <1>0, <1>4 DEF RadioSocket
<1> QED  BY <1>5, <1>6, <1>7, <1>8, <1>9, <1>10, <1>11, <1>12 DEF RadioInv

(* It joins a node.                                                        *)
LEMMA RadioJoins ==
  ASSUME RadioInv, NEW n \in MaybeNodes, n # Link!NoNode, Link!Join(n), p4' = p4,
         p5 = Link!NoNode, p10' = p10, p11' = p11, p12' = p12, p13' = p13, p14' = p14,
         p15' = p15, p16' = p16, p17' = p17, p18' = p18, p21' = p21, p22' \in 0..MaxEvents,
         \/ p9' = p9
         \/ p9 # <<>> /\ p9' = Tail(p9) /\ Head(p9).do = "set" /\ n.freq = Val(Head(p9))
  PROVE  RadioInv'
<1>0. /\ RadioTypes /\ RadioLink /\ RadioQueue /\ RadioDown /\ RadioPost /\ RadioTune
      /\ RadioGain /\ RadioStop /\ RadioSocket
  BY DEF RadioInv
<1>1. p5' = n /\ p1' = Link!NoNode  BY DEF Link!Join
<1>2. CASE p1 # Link!NoNode
  <2>1. Link!LinkOff  BY <1>2 DEF Link!Join
  <2> QED  BY <1>1, <2>1, RadioLeaves
<1>3. CASE p1 = Link!NoNode
  <2>1. p2' = p2 /\ p3' = p3 /\ p8' = p8 /\ p19' = p19 /\ p6' = p6 /\ p7' = p7 /\ p20' = p20
    BY <1>3 DEF Link!Join
  <2>2. p6 = 99 /\ p7 = 99 /\ ~ p2  BY <1>0, <1>3 DEF RadioLink
  <2>3. /\ p9' \in Seq(Commands)
        /\ \A v : LastIs(p9, "set", v) =>
             LastIs(p9', "set", v) \/ (NoneOf(p9', "set") /\ n.freq = v)
        /\ \A v : LastIs(p9, "gain", v) => LastIs(p9', "gain", v)
        /\ NoneOf(p9, "gain") => NoneOf(p9', "gain")
        /\ NoneOf(p9, "get") <=> NoneOf(p9', "get")
        /\ NoneOf(p9, "disconnect") <=> NoneOf(p9', "disconnect")
        /\ p9 = <<>> => p9' = <<>>
    <3>1. CASE p9' = p9
      BY <1>0, <3>1 DEF RadioTypes
    <3>2. CASE p9 # <<>> /\ p9' = Tail(p9) /\ Head(p9).do = "set" /\ n.freq = Val(Head(p9))
      BY <1>0, <3>2, RadioTaken
    <3> QED  BY <3>1, <3>2
  <2>4. RadioTypes'  BY <1>0, <1>1, <2>1, <2>3, NodeIs DEF RadioTypes
  <2>5. RadioLink'  BY <1>0, <1>1, <1>3, <2>1, <2>2 DEF RadioLink
  <2>6. RadioQueue'  BY <1>0, <2>1, <2>2 DEF RadioQueue, Truth
  <2>7. RadioDown'  BY <1>0, <2>1, <2>2, <2>3 DEF RadioDown
  <2>8. RadioPost'  BY <1>0 DEF RadioPost
  <2>9. RadioTune'
    <3>1. p15 # 99  BY <1>0, PanelsAssumption DEF RadioTypes
    <3> QED  BY <1>0, <1>1, <2>1, <2>2, <2>3, <3>1 DEF RadioTune
  <2>10. RadioGain'  BY <1>0, <2>1, <2>2, <2>3 DEF RadioGain
  <2>11. RadioStop'  BY <1>0, <2>1, <2>3 DEF RadioStop
  <2>12. RadioSocket'  BY <1>0, <2>3 DEF RadioSocket
  <2> QED  BY <2>4, <2>5, <2>6, <2>7, <2>8, <2>9, <2>10, <2>11, <2>12 DEF RadioInv
<1> QED  BY <1>2, <1>3

LEMMA RadioBridge ==
  RadioInv /\ (Link!Joined \/ Link!JoinFails \/ Link!LinkLost \/ Link!TuneDone \/ Link!GainDone)
  => RadioInv'
<1> SUFFICES ASSUME RadioInv,
                    Link!Joined \/ Link!JoinFails \/ Link!LinkLost \/ Link!TuneDone \/ Link!GainDone
             PROVE  RadioInv'
  OBVIOUS
<1>0. /\ RadioTypes /\ RadioLink /\ RadioQueue /\ RadioDown /\ RadioPost /\ RadioTune
      /\ RadioGain /\ RadioStop /\ RadioSocket
  BY DEF RadioInv
<1>m. MaxSent \in Nat /\ MaxEvents \in Nat /\ 0 \in Gains /\ 99 \notin Freqs /\ 99 \notin Gains
  BY PanelsAssumption
<1>1. CASE Link!Joined
  <2>1. /\ p5 # Link!NoNode /\ p5' = Link!NoNode /\ p1' = p5 /\ p2' = TRUE /\ p3' = p5 /\ p4' = 0
        /\ p8' = Append(p8, Link!Told(p5)) /\ p19' = FALSE /\ p20' = p20 \cup {"gain"}
    BY <1>1 DEF Link!Joined
  <2>2. /\ p6' = p6 /\ p7' = p7 /\ p9' = p9 /\ p10' = p10 /\ p11' = p11 /\ p21' = p21 /\ p22' = p22
        /\ p12' = p12 /\ p13' = p13 /\ p14' = p14 /\ p15' = p15 /\ p16' = p16 /\ p17' = p17
        /\ p18' = p18
    BY <1>1 DEF Link!Joined, Link!page, Link!bounds
  <2>3. p5 \in MaybeNodes  BY <1>0 DEF RadioTypes
  <2>4. /\ p8' \in Seq(Statuses) /\ p8' # <<>> /\ p8'[Len(p8')] = Link!Told(p5)
        /\ Has(p8', Link!Off) <=> Has(p8, Link!Off)
        /\ \A f : HearsOnly(p8', f) <=> HearsOnly(p8, f) /\ p5.freq = f
    BY <1>0, <2>1, <2>3, RadioTold
  <2>5. RadioTypes'  BY <1>0, <1>m, <2>1, <2>2, <2>4, NodeIs DEF RadioTypes
  <2>6. RadioLink' /\ RadioQueue' /\ RadioDown'
    BY <2>1, <2>4 DEF RadioLink, RadioQueue, RadioDown, Truth
  <2>7. RadioPost' /\ RadioSocket'  BY <1>0, <2>2 DEF RadioPost, RadioSocket
  <2>8. RadioGain'  BY <2>1 DEF RadioGain
  <2>9. RadioStop'  BY <1>0, <2>1, <2>2, <2>4 DEF RadioStop
  <2>10. RadioTune'
    <3>1. "tune" \notin p20' => "tune" \notin p20  BY <2>1
    <3> QED  BY <1>0, <2>2, <2>4, <3>1 DEF RadioTune
  <2> QED  BY <2>5, <2>6, <2>7, <2>8, <2>9, <2>10 DEF RadioInv
<1>2. CASE Link!JoinFails
  <2>1. /\ p5 # Link!NoNode /\ p5' = Link!NoNode /\ p8' \in {p8, Append(p8, Link!Off)}
        /\ p20' = p20 \cup {c \in {"tune"} : p5.freq = p15}
    BY <1>2 DEF Link!JoinFails
  <2>2. /\ p1' = p1 /\ p2' = p2 /\ p3' = p3 /\ p4' = p4 /\ p6' = p6 /\ p7' = p7 /\ p9' = p9
        /\ p10' = p10 /\ p11' = p11 /\ p19' = p19
    BY <1>2 DEF Link!JoinFails
  <2>3. /\ p12' = p12 /\ p13' = p13 /\ p14' = p14 /\ p15' = p15 /\ p16' = p16 /\ p17' = p17
        /\ p18' = p18 /\ p21' = p21 /\ p22' = p22
    BY <1>2 DEF Link!JoinFails, Link!page, Link!bounds
  <2>4. p1 = Link!NoNode /\ ~ p2  BY <1>0, <2>1 DEF RadioLink
  <2>5. /\ p8' \in Seq(Statuses) /\ (p8' = <<>> => p8 = <<>>)
        /\ p8' # <<>> => p8' = p8 \/ p8'[Len(p8')] = Link!Told(Link!NoNode)
        /\ Has(p8, Link!Off) => Has(p8', Link!Off)
        /\ \A f : HearsOnly(p8', f) => HearsOnly(p8, f)
    <3>1. CASE p8' = p8
      BY <1>0, <3>1 DEF RadioTypes
    <3>2. CASE p8' = Append(p8, Link!Off)
      BY <1>0, <3>2, RadioTold, NodeIs, MessageIs
    <3> QED  BY <2>1, <3>1, <3>2
  <2>6. /\ "tune" \notin p20' => "tune" \notin p20 /\ p5.freq # p15
        /\ "gain" \notin p20' => "gain" \notin p20
        /\ "stop" \notin p20' => "stop" \notin p20
        /\ p20' \subseteq {"tune", "gain", "stop"}
    BY <1>0, <2>1 DEF RadioTypes
  <2>7. RadioTypes'  BY <1>0, <2>1, <2>2, <2>3, <2>5, <2>6, NodeIs DEF RadioTypes
  <2>8. RadioLink'  BY <1>0, <2>1, <2>2 DEF RadioLink
  <2>9. RadioQueue'  BY <1>0, <2>2, <2>4, <2>5 DEF RadioQueue, Truth
  <2>10. RadioDown'  BY <1>0, <2>2, <2>3, <2>4, <2>5 DEF RadioDown
  <2>11. RadioPost' /\ RadioSocket'  BY <1>0, <2>2, <2>3 DEF RadioPost, RadioSocket
  <2>12. RadioTune'
    <3> SUFFICES ASSUME p14, "tune" \notin p20', p15 # p16
                 PROVE  /\ p11
                        /\ HearsOnly(p10, p16) /\ HearsOnly(p8', p16) =>
                             LastIs(p9, "set", p15) \/ (NoneOf(p9, "set") /\ p6 = p15)
      BY <2>2, <2>3 DEF RadioTune
    <3> QED  BY <1>0, <2>5, <2>6 DEF RadioTune
  <2>13. RadioGain'  BY <1>0, <2>2, <2>3, <2>6 DEF RadioGain
  <2>14. RadioStop'  BY <1>0, <2>2, <2>3, <2>5, <2>6 DEF RadioStop
  <2> QED  BY <2>7, <2>8, <2>9, <2>10, <2>11, <2>12, <2>13, <2>14 DEF RadioInv
<1>3. CASE Link!LinkLost
  <2>1. /\ p2 /\ p5 = Link!NoNode /\ p4' = p4 /\ p9' = p9 /\ p10' = p10 /\ p11' = p11
        /\ p21' = p21 /\ p22 < MaxEvents /\ p22' = p22 + 1
    BY <1>3 DEF Link!LinkLost, Link!Event
  <2>2. /\ p12' = p12 /\ p13' = p13 /\ p14' = p14 /\ p15' = p15 /\ p16' = p16 /\ p17' = p17
        /\ p18' = p18
    BY <1>3 DEF Link!LinkLost, Link!page
  <2>3. p22' \in 0..MaxEvents  BY <1>0, <1>m, <2>1 DEF RadioTypes
  <2>4. CASE p2' = FALSE /\ p19' = TRUE /\ UNCHANGED <<p1, p3, p5, p8, p6, p7, p20>>
    <3>1. p1' = p1 /\ p3' = p3 /\ p5' = p5 /\ p8' = p8 /\ p6' = p6 /\ p7' = p7 /\ p20' = p20
          /\ p2' = FALSE /\ p19' = TRUE
      BY <2>4
    <3>2. RadioTypes'  BY <1>0, <2>1, <2>2, <2>3, <3>1 DEF RadioTypes
    <3>3. RadioLink' /\ RadioQueue' /\ RadioDown'
      BY <1>0, <3>1 DEF RadioLink, RadioQueue, RadioDown
    <3>4. RadioPost' /\ RadioSocket'  BY <1>0, <2>1, <2>2 DEF RadioPost, RadioSocket
    <3>5. RadioTune'  BY <1>0, <2>1, <2>2, <3>1 DEF RadioTune
    <3>6. RadioGain' /\ RadioStop'  BY <1>0, <2>1, <2>2, <3>1 DEF RadioGain, RadioStop
    <3> QED  BY <3>2, <3>3, <3>4, <3>5, <3>6 DEF RadioInv
  <2>5. ASSUME NEW h \in Hosts, Link!Join(Link!Node(h, p1.freq))  PROVE RadioInv'
    <3>1. p1 \in MaybeNodes /\ p1 # Link!NoNode  BY <1>0, <2>1 DEF RadioLink, RadioTypes
    <3>2. p1.freq \in Freqs  BY <3>1, NodeIs
    <3>3. Link!Node(h, p1.freq) \in MaybeNodes /\ Link!Node(h, p1.freq) # Link!NoNode
      BY <3>2, NodeIs
    <3>4. PICK n : n = Link!Node(h, p1.freq)  OBVIOUS
    <3>5. n \in MaybeNodes /\ n # Link!NoNode /\ Link!Join(n)  BY <2>5, <3>3, <3>4
    <3> QED  BY <2>1, <2>2, <2>3, <3>5, RadioJoins
  <2> QED  BY <1>3, <2>4, <2>5 DEF Link!LinkLost
<1>4. CASE Link!TuneDone
  <2>1. /\ p6 # 99 /\ p6' = 99 /\ p2' = p2 /\ p4' = p4 /\ p5' = p5 /\ p7' = p7 /\ p9' = p9
        /\ p10' = p10 /\ p11' = p11 /\ p19' = p19
    BY <1>4 DEF Link!TuneDone, Link!Unset
  <2>2. /\ p12' = p12 /\ p13' = p13 /\ p14' = p14 /\ p15' = p15 /\ p16' = p16 /\ p17' = p17
        /\ p18' = p18 /\ p21' = p21 /\ p22' = p22
    BY <1>4 DEF Link!TuneDone, Link!page, Link!bounds
  <2>3. p1 # Link!NoNode /\ p5 = Link!NoNode  BY <1>0, <2>1 DEF RadioLink
  <2>4. CASE p2
    <3>1. /\ p1' = [p1 EXCEPT !.freq = p6] /\ p3' = p1' /\ p8' = Append(p8, Link!Told(p1'))
          /\ p20' = p20
      BY <1>4, <2>4 DEF Link!TuneDone
    <3>2. p1 \in Link!Nodes /\ p6 \in Freqs
      BY <1>0, <2>1, <2>3 DEF RadioTypes, MaybeNodes
    <3>3. p1' = Link!Node(p1.host, p6) /\ p1.host \in Hosts
      BY <3>1, <3>2 DEF Link!Nodes, Link!Node
    <3>4. p1' \in MaybeNodes /\ p1' # Link!NoNode /\ p1'.freq = p6  BY <3>2, <3>3, NodeIs
    <3>5. PICK n : n = p1'  OBVIOUS
    <3>6. /\ p8' \in Seq(Statuses) /\ p8' # <<>> /\ p8'[Len(p8')] = Link!Told(n)
          /\ Has(p8', Link!Off) <=> Has(p8, Link!Off)
          /\ \A f : HearsOnly(p8', f) <=> HearsOnly(p8, f) /\ p6 = f
      BY <1>0, <3>1, <3>4, <3>5, RadioTold
    <3>7. RadioTypes'  BY <1>0, <2>1, <2>2, <3>1, <3>4, <3>6 DEF RadioTypes
    <3>8. RadioLink' /\ RadioQueue' /\ RadioDown'
      BY <1>0, <2>1, <2>3, <2>4, <3>1, <3>4, <3>5, <3>6
      DEF RadioLink, RadioQueue, RadioDown, Truth
    <3>9. RadioPost' /\ RadioSocket'  BY <1>0, <2>1, <2>2 DEF RadioPost, RadioSocket
    <3>10. RadioTune'
      <4> SUFFICES ASSUME p14, "tune" \notin p20, p15 # p16
                   PROVE  /\ p11
                          /\ HearsOnly(p10, p16) /\ HearsOnly(p8', p16) => LastIs(p9, "set", p15)
        BY <2>1, <2>2, <3>1 DEF RadioTune
      <4> QED  BY <1>0, <2>3, <3>6 DEF RadioTune
    <3>11. RadioGain'  BY <1>0, <2>1, <2>2, <3>1 DEF RadioGain
    <3>12. RadioStop'  BY <1>0, <2>1, <2>2, <3>1, <3>6 DEF RadioStop
    <3> QED  BY <3>7, <3>8, <3>9, <3>10, <3>11, <3>12 DEF RadioInv
  <2>5. CASE ~ p2
    <3>1. p1' = p1 /\ p3' = p3 /\ p8' = p8 /\ p20' = p20 \cup {"tune"}
      BY <1>4, <2>5 DEF Link!TuneDone
    <3>2. RadioTypes'  BY <1>0, <2>1, <2>2, <3>1 DEF RadioTypes
    <3>3. RadioLink'  BY <1>0, <2>1, <2>3, <3>1 DEF RadioLink
    <3>4. RadioQueue' /\ RadioDown'  BY <1>0, <2>1, <2>2, <3>1 DEF RadioQueue, RadioDown, Truth
    <3>5. RadioPost' /\ RadioSocket'  BY <1>0, <2>1, <2>2 DEF RadioPost, RadioSocket
    <3>6. RadioTune'  BY <3>1 DEF RadioTune
    <3>7. RadioGain' /\ RadioStop'  BY <1>0, <2>1, <2>2, <3>1 DEF RadioGain, RadioStop
    <3> QED  BY <3>2, <3>3, <3>4, <3>5, <3>6, <3>7 DEF RadioInv
  <2> QED  BY <2>4, <2>5
<1>5. CASE Link!GainDone
  <2>1. /\ p7 # 99 /\ p7' = 99
        /\ IF p2 THEN p4' = p7 /\ p20' = p20 ELSE p20' = p20 \cup {"gain"} /\ p4' = p4
    BY <1>5 DEF Link!GainDone, Link!Unset
  <2>2. /\ p1' = p1 /\ p2' = p2 /\ p3' = p3 /\ p5' = p5 /\ p6' = p6 /\ p8' = p8 /\ p9' = p9
        /\ p10' = p10 /\ p11' = p11 /\ p19' = p19
    BY <1>5 DEF Link!GainDone
  <2>3. /\ p12' = p12 /\ p13' = p13 /\ p14' = p14 /\ p15' = p15 /\ p16' = p16 /\ p17' = p17
        /\ p18' = p18 /\ p21' = p21 /\ p22' = p22
    BY <1>5 DEF Link!GainDone, Link!page, Link!bounds
  <2>4. /\ "tune" \notin p20' => "tune" \notin p20
        /\ "stop" \notin p20' => "stop" \notin p20
        /\ p20' \subseteq {"tune", "gain", "stop"} /\ p4' \in Gains
    BY <1>0, <2>1 DEF RadioTypes
  <2>5. RadioTypes'  BY <1>0, <2>1, <2>2, <2>3, <2>4 DEF RadioTypes
  <2>6. RadioLink'  BY <1>0, <2>1, <2>2 DEF RadioLink
  <2>7. RadioQueue' /\ RadioDown'  BY <1>0, <2>2, <2>3 DEF RadioQueue, RadioDown, Truth
  <2>8. RadioPost' /\ RadioSocket'  BY <1>0, <2>2, <2>3 DEF RadioPost, RadioSocket
  <2>9. RadioTune'  BY <1>0, <2>2, <2>3, <2>4 DEF RadioTune
  <2>10. RadioGain'  BY <1>0, <2>1, <2>2, <2>3 DEF RadioGain
  <2>11. RadioStop'  BY <1>0, <2>2, <2>3, <2>4 DEF RadioStop
  <2> QED  BY <2>5, <2>6, <2>7, <2>8, <2>9, <2>10, <2>11 DEF RadioInv
<1> QED  BY <1>1, <1>2, <1>3, <1>4, <1>5

LEMMA RadioHandle == RadioInv /\ Link!Handle => RadioInv'
<1> SUFFICES ASSUME RadioInv, Link!Handle  PROVE RadioInv'
  OBVIOUS
<1>0. /\ RadioTypes /\ RadioLink /\ RadioQueue /\ RadioDown /\ RadioPost /\ RadioTune
      /\ RadioGain /\ RadioStop /\ RadioSocket
  BY DEF RadioInv
<1>m. 99 \notin Freqs /\ 99 \notin Gains  BY PanelsAssumption
<1>1. p9 # <<>> /\ p5 = Link!NoNode /\ p9' = Tail(p9) /\ p4' = p4 /\ p11' = p11
  BY DEF Link!Handle
<1>2. /\ p12' = p12 /\ p13' = p13 /\ p14' = p14 /\ p15' = p15 /\ p16' = p16 /\ p17' = p17
      /\ p18' = p18 /\ p21' = p21 /\ p22' = p22
  BY DEF Link!Handle, Link!page, Link!bounds
<1>3. p11  BY <1>0, <1>1 DEF RadioSocket
<1> DEFINE c == Head(p9)
<1>4. /\ p9' \in Seq(Commands) /\ c \in Commands
      /\ \A k : NoneOf(p9, k) <=> NoneOf(p9', k) /\ c.do # k
      /\ \A k, v : LastIs(p9, k, v) =>
           LastIs(p9', k, v) \/ (NoneOf(p9', k) /\ c.do = k /\ Val(c) = v)
  BY <1>0, <1>1, RadioTaken
<1>5. RadioPost' /\ RadioSocket'  BY <1>0, <1>1, <1>2, <1>3 DEF RadioPost, RadioSocket
<1>6. p22' \in 0..MaxEvents  BY <1>0, <1>2 DEF RadioTypes
<1>7. CASE c.do = "set" /\ Link!SetKiwi(c.node) /\ UNCHANGED p10
  <2>1. /\ c.node \in MaybeNodes /\ c.node # Link!NoNode /\ Val(c) = c.node.freq
        /\ Val(c) \in Freqs /\ p10' = p10
    BY <1>4, <1>7, CommandIs DEF MaybeNodes
  <2>2. CASE c.node.freq = 0
    <3>1. /\ p20' = p20 \cup {"tune"} /\ p1' = p1 /\ p2' = p2 /\ p3' = p3 /\ p5' = p5 /\ p6' = p6
          /\ p7' = p7 /\ p8' = p8 /\ p19' = p19
      BY <1>7, <2>2 DEF Link!SetKiwi
    <3>2. RadioTypes'  BY <1>0, <1>1, <1>2, <1>4, <2>1, <3>1 DEF RadioTypes
    <3>3. RadioLink' /\ RadioQueue'  BY <1>0, <3>1 DEF RadioLink, RadioQueue, Truth
    <3>4. RadioDown'  BY <1>0, <1>1, <1>2, <1>4, <1>7, <2>1, <3>1 DEF RadioDown
    <3>5. RadioTune'  BY <3>1 DEF RadioTune
    <3>6. RadioGain'  BY <1>0, <1>1, <1>2, <1>4, <1>7, <3>1 DEF RadioGain
    <3>7. RadioStop'  BY <1>0, <1>1, <1>2, <1>4, <1>7, <2>1, <3>1 DEF RadioStop
    <3> QED  BY <1>5, <3>2, <3>3, <3>4, <3>5, <3>6, <3>7 DEF RadioInv
  <2>3. CASE c.node.freq # 0 /\ p2 /\ p1.host = c.node.host
    <3>1. /\ p6' = c.node.freq /\ p1' = p1 /\ p2' = p2 /\ p3' = p3 /\ p5' = p5
          /\ p7' = p7 /\ p8' = p8 /\ p19' = p19 /\ p20' = p20
      BY <1>7, <2>3 DEF Link!SetKiwi
    <3>2. RadioTypes'  BY <1>0, <1>1, <1>2, <1>4, <2>1, <3>1 DEF RadioTypes
    <3>3. RadioLink' /\ RadioQueue'  BY <1>0, <2>3, <3>1 DEF RadioLink, RadioQueue, Truth
    <3>4. RadioDown'  BY <1>0, <1>1, <1>2, <1>4, <1>7, <2>1, <3>1 DEF RadioDown
    <3>5. RadioTune'
      <4> SUFFICES ASSUME p14, "tune" \notin p20, p15 # p16, HearsOnly(p10, p16),
                          HearsOnly(p8, p16)
                   PROVE  LastIs(p9', "set", p15) \/ (NoneOf(p9', "set") /\ p6' = p15)
        BY <1>1, <1>2, <1>3, <2>1, <3>1 DEF RadioTune
      <4>1. LastIs(p9, "set", p15) \/ NoneOf(p9, "set")  BY <1>0 DEF RadioTune
      <4>2. ~ NoneOf(p9, "set")  BY <1>4, <1>7
      <4> QED  BY <1>4, <2>1, <3>1, <4>1, <4>2
    <3>6. RadioGain'  BY <1>0, <1>1, <1>2, <1>4, <1>7, <3>1 DEF RadioGain
    <3>7. RadioStop'  BY <1>0, <1>1, <1>2, <1>4, <1>7, <2>1, <3>1 DEF RadioStop
    <3> QED  BY <1>5, <3>2, <3>3, <3>4, <3>5, <3>6, <3>7 DEF RadioInv
  <2>4. CASE c.node.freq # 0 /\ ~ (p2 /\ p1.host = c.node.host)
    <3>1. Link!Join(c.node)  BY <1>7, <2>4 DEF Link!SetKiwi
    <3>2. PICK n : n = c.node  OBVIOUS
    <3>3. /\ n \in MaybeNodes /\ n # Link!NoNode /\ Link!Join(n) /\ c.do = "set"
          /\ n.freq = Val(c)
      BY <1>7, <2>1, <3>1, <3>2
    <3> QED  BY <1>1, <1>2, <1>6, <2>1, <3>3, RadioJoins
  <2> QED  BY <2>2, <2>3, <2>4
<1>8. CASE c.do = "gain" /\ Link!SetGain(c.value) /\ UNCHANGED p10
  <2>1. /\ c.value \in Gains /\ Val(c) = c.value /\ p10' = p10
        /\ p1' = p1 /\ p2' = p2 /\ p3' = p3 /\ p5' = p5 /\ p6' = p6 /\ p8' = p8 /\ p19' = p19
    BY <1>4, <1>8, CommandIs DEF Link!SetGain
  <2>2. IF p2 THEN p7' = c.value /\ p20' = p20 ELSE p20' = p20 \cup {"gain"} /\ p7' = p7
    BY <1>8 DEF Link!SetGain
  <2>3. /\ "tune" \notin p20' => "tune" \notin p20
        /\ "stop" \notin p20' => "stop" \notin p20
        /\ p20' \subseteq {"tune", "gain", "stop"} /\ p7' \in Gains \cup {99}
    <3>1. p20' = p20 \/ p20' = p20 \cup {"gain"}  BY <2>2
    <3>2. p7' = p7 \/ p7' = c.value  BY <2>2
    <3>3. p7' \in Gains \cup {99}  BY <1>0, <2>1, <3>2 DEF RadioTypes
    <3> QED  BY <1>0, <3>1, <3>3 DEF RadioTypes
  <2>4. RadioTypes'  BY <1>0, <1>1, <1>2, <1>4, <2>1, <2>3 DEF RadioTypes
  <2>5. RadioLink' /\ RadioQueue'  BY <1>0, <2>1, <2>2 DEF RadioLink, RadioQueue, Truth
  <2>6. RadioDown'  BY <1>0, <1>1, <1>2, <1>4, <1>8, <2>1 DEF RadioDown
  <2>7. RadioTune'
    <3>1. \A v : LastIs(p9, "set", v) => LastIs(p9', "set", v)  BY <1>4, <1>8
    <3>2. NoneOf(p9, "set") => NoneOf(p9', "set")  BY <1>4
    <3> QED  BY <1>0, <1>1, <1>2, <2>1, <2>3, <3>1, <3>2 DEF RadioTune
  <2>8. RadioGain'
    <3> SUFFICES ASSUME p14, "gain" \notin p20'
                 PROVE  \/ LastIs(p9', "gain", p17)
                        \/ NoneOf(p9', "gain") /\ p17 = IF p7' # 99 THEN p7' ELSE p4
      BY <1>1, <1>2 DEF RadioGain
    <3>1. p7' = c.value /\ p7' # 99 /\ "gain" \notin p20  BY <1>m, <2>1, <2>2
    <3>2. LastIs(p9, "gain", p17) \/ NoneOf(p9, "gain")  BY <1>0, <3>1 DEF RadioGain
    <3>3. ~ NoneOf(p9, "gain")  BY <1>4, <1>8
    <3> QED  BY <1>4, <2>1, <3>1, <3>2, <3>3
  <2>9. RadioStop'  BY <1>0, <1>1, <1>2, <1>4, <1>8, <2>1, <2>3 DEF RadioStop
  <2> QED  BY <1>5, <2>4, <2>5, <2>6, <2>7, <2>8, <2>9 DEF RadioInv
<1>9. CASE /\ c.do = "get" /\ p10' = Append(p10, IF p2 THEN Link!Told(p3) ELSE Link!Off)
           /\ p19' = (p19 /\ p8 # <<>>)
           /\ UNCHANGED <<p5, p1, p2, p3, p8, p6, p7, p20>>
  <2>1. /\ p1' = p1 /\ p2' = p2 /\ p3' = p3 /\ p5' = p5 /\ p6' = p6 /\ p7' = p7 /\ p8' = p8
        /\ p20' = p20
    BY <1>9
  <2>2. PICK n : n = Truth  OBVIOUS
  <2>3. n \in MaybeNodes  BY <1>0, <2>2, NodeIs DEF RadioTypes, Truth
  <2>4. p10' = Append(p10, Link!Told(n))
    BY <1>0, <1>9, <2>2, MessageIs DEF RadioLink, Truth
  <2>5. p10 \in Seq(Messages) /\ Link!Told(n) \in Messages
    BY <1>0, <2>3, MessageIs DEF RadioTypes, Messages
  <2>6. /\ p10' \in Seq(Messages) /\ p10' # <<>> /\ p10'[Len(p10')] = Link!Told(n)
        /\ Has(p10, Link!Off) => Has(p10', Link!Off)
        /\ \A f : HearsOnly(p10', f) => HearsOnly(p10, f)
    BY <2>4, <2>5, AppendIs, LastMessage, HasAppend, HearsOnlyAppend
  <2>7. p19' \in BOOLEAN  BY <1>9
  <2>8. RadioTypes'  BY <1>0, <1>1, <1>2, <1>4, <2>1, <2>6, <2>7 DEF RadioTypes
  <2>a. (p19' => p19) /\ (~ p19' => ~ p19 \/ p8 = <<>>)  BY <1>9
  <2>9. RadioLink' /\ RadioQueue'  BY <1>0, <2>1, <2>a DEF RadioLink, RadioQueue, Truth
  <2>10. RadioDown'
    <3>1. p2 => Hears(p10'[Len(p10')]) = p1  BY <2>2, <2>3, <2>6, MessageIs DEF Truth
    <3>2. ~ p2 => p10'[Len(p10')] = Link!Off  BY <2>2, <2>6, MessageIs DEF Truth
    <3> QED  BY <2>1, <2>6, <3>1, <3>2 DEF RadioDown
  <2>11. RadioTune'
    <3>1. \A v : LastIs(p9, "set", v) => LastIs(p9', "set", v)  BY <1>4, <1>9
    <3>2. NoneOf(p9, "set") => NoneOf(p9', "set")  BY <1>4
    <3> QED  BY <1>0, <1>1, <1>2, <2>1, <2>6, <3>1, <3>2 DEF RadioTune
  <2>12. RadioGain'  BY <1>0, <1>1, <1>2, <1>4, <1>9, <2>1 DEF RadioGain
  <2>13. RadioStop'  BY <1>0, <1>1, <1>2, <1>4, <1>9, <2>1, <2>6 DEF RadioStop
  <2> QED  BY <1>5, <2>8, <2>9, <2>10, <2>11, <2>12, <2>13 DEF RadioInv
<1>10. CASE c.do = "disconnect" /\ Link!LinkOff /\ p1' = Link!NoNode /\ UNCHANGED <<p5, p10>>
  <2>1. p5' \in MaybeNodes /\ p10' = p10  BY <1>0, <1>10 DEF RadioTypes
  <2> QED  BY <1>1, <1>2, <1>6, <1>10, <2>1, RadioLeaves
<1> QED  BY <1>7, <1>8, <1>9, <1>10 DEF Link!Handle

LEMMA RadioOthers == RadioInv /\ Link!OtherCommand => RadioInv'
<1> SUFFICES ASSUME RadioInv, Link!OtherCommand  PROVE RadioInv'
  OBVIOUS
<1>0. /\ RadioTypes /\ RadioLink /\ RadioQueue /\ RadioDown /\ RadioPost /\ RadioTune
      /\ RadioGain /\ RadioStop /\ RadioSocket
  BY DEF RadioInv
<1>m. MaxEvents \in Nat /\ 99 \notin Freqs /\ 99 \notin Gains  BY PanelsAssumption
<1>1. /\ p5 = Link!NoNode /\ p4' = p4 /\ p9' = p9 /\ p10' = p10 /\ p11' = p11 /\ p21' = p21
      /\ p22 < MaxEvents /\ p22' = p22 + 1
  BY DEF Link!OtherCommand, Link!Event
<1>2. /\ p12' = p12 /\ p13' = p13 /\ p14' = p14 /\ p15' = p15 /\ p16' = p16 /\ p17' = p17
      /\ p18' = p18
  BY DEF Link!OtherCommand, Link!page
<1>3. p22' \in 0..MaxEvents  BY <1>0, <1>m, <1>1 DEF RadioTypes
<1>4. RadioPost' /\ RadioSocket'  BY <1>0, <1>1, <1>2 DEF RadioPost, RadioSocket
<1>5. CASE /\ p2 /\ p6' \in Freqs \ {0}
           /\ p20' = p20 \cup {c \in {"tune"} : p6 # Link!Unset}
           /\ UNCHANGED <<p5, p1, p2, p3, p8, p19, p7>>
  <2>1. /\ p1' = p1 /\ p2' = p2 /\ p3' = p3 /\ p5' = p5 /\ p7' = p7 /\ p8' = p8 /\ p19' = p19
        /\ p2 /\ p6' \in Freqs
    BY <1>5
  <2>2. /\ "tune" \notin p20' => "tune" \notin p20 /\ p6 = 99
        /\ "gain" \notin p20' => "gain" \notin p20
        /\ "stop" \notin p20' => "stop" \notin p20
        /\ p20' \subseteq {"tune", "gain", "stop"}
    BY <1>0, <1>5 DEF RadioTypes, Link!Unset
  <2>3. RadioTypes'  BY <1>0, <1>1, <1>2, <1>3, <2>1, <2>2 DEF RadioTypes
  <2>4. RadioLink' /\ RadioQueue' /\ RadioDown'
    BY <1>0, <1>1, <1>2, <2>1 DEF RadioLink, RadioQueue, RadioDown, Truth
  <2>5. RadioTune'
    <3> SUFFICES ASSUME p14, "tune" \notin p20', p15 # p16, HearsOnly(p10, p16),
                        HearsOnly(p8, p16)
                 PROVE  LastIs(p9, "set", p15)
      BY <1>0, <1>1, <1>2, <2>1, <2>2 DEF RadioTune
    <3>1. p15 # 99  BY <1>0, PanelsAssumption DEF RadioTypes
    <3> QED  BY <1>0, <1>1, <2>2, <3>1 DEF RadioTune
  <2>6. RadioGain' /\ RadioStop'  BY <1>0, <1>1, <1>2, <2>1, <2>2 DEF RadioGain, RadioStop
  <2> QED  BY <1>4, <2>3, <2>4, <2>5, <2>6 DEF RadioInv
<1>6. CASE /\ p2 /\ p7' \in Gains /\ p20' = p20 \cup {"gain"}
           /\ UNCHANGED <<p5, p1, p2, p3, p8, p19, p6>>
  <2>1. /\ p1' = p1 /\ p2' = p2 /\ p3' = p3 /\ p5' = p5 /\ p6' = p6 /\ p8' = p8 /\ p19' = p19
        /\ p2 /\ p7' \in Gains /\ p20' = p20 \cup {"gain"}
    BY <1>6
  <2>2. RadioTypes'  BY <1>0, <1>1, <1>2, <1>3, <2>1 DEF RadioTypes
  <2>3. RadioLink' /\ RadioQueue' /\ RadioDown'
    BY <1>0, <1>1, <1>2, <2>1 DEF RadioLink, RadioQueue, RadioDown, Truth
  <2>4. RadioTune' /\ RadioGain' /\ RadioStop'
    BY <1>0, <1>1, <1>2, <2>1 DEF RadioTune, RadioGain, RadioStop
  <2> QED  BY <1>4, <2>2, <2>3, <2>4 DEF RadioInv
<1>7. CASE Link!LinkOff /\ p1' = Link!NoNode /\ p5' = p5
  <2>1. p5' \in MaybeNodes  BY <1>0, <1>7 DEF RadioTypes
  <2> QED  BY <1>1, <1>2, <1>3, <1>7, <2>1, RadioLeaves
<1>8. ASSUME NEW h \in Hosts, NEW f \in Freqs \ {0}, Link!Join(Link!Node(h, f))
      PROVE  RadioInv'
  <2>1. Link!Node(h, f) \in MaybeNodes /\ Link!Node(h, f) # Link!NoNode  BY NodeIs
  <2>2. PICK n : n = Link!Node(h, f)  OBVIOUS
  <2>3. n \in MaybeNodes /\ n # Link!NoNode /\ Link!Join(n)  BY <1>8, <2>1, <2>2
  <2> QED  BY <1>1, <1>2, <1>3, <2>3, RadioJoins
<1> QED  BY <1>5, <1>6, <1>7, <1>8 DEF Link!OtherCommand

LEMMA RadioCarries ==
  RadioInv /\ (Link!Broadcast \/ Link!SocketOpens \/ Link!SocketLost) => RadioInv'
<1> SUFFICES ASSUME RadioInv, Link!Broadcast \/ Link!SocketOpens \/ Link!SocketLost
             PROVE  RadioInv'
  OBVIOUS
<1>0. /\ RadioTypes /\ RadioLink /\ RadioQueue /\ RadioDown /\ RadioPost /\ RadioTune
      /\ RadioGain /\ RadioStop /\ RadioSocket
  BY DEF RadioInv
<1>1. CASE Link!Broadcast
  <2>1. p8 # <<>> /\ p8' = Tail(p8) /\ p10' = IF p11 THEN Append(p10, Head(p8)) ELSE p10
    BY <1>1 DEF Link!Broadcast
  <2>2. /\ p1' = p1 /\ p2' = p2 /\ p3' = p3 /\ p4' = p4 /\ p5' = p5 /\ p6' = p6 /\ p7' = p7
        /\ p9' = p9 /\ p11' = p11 /\ p19' = p19 /\ p20' = p20
    BY <1>1 DEF Link!Broadcast
  <2>3. /\ p12' = p12 /\ p13' = p13 /\ p14' = p14 /\ p15' = p15 /\ p16' = p16 /\ p17' = p17
        /\ p18' = p18 /\ p21' = p21 /\ p22' = p22
    BY <1>1 DEF Link!Broadcast, Link!page, Link!bounds
  <2>4. p8 \in Seq(Statuses) /\ p10 \in Seq(Messages)  BY <1>0 DEF RadioTypes
  <2>5. /\ p8' \in Seq(Statuses) /\ Head(p8) \in Statuses
        /\ p8' # <<>> => p8'[Len(p8')] = p8[Len(p8)]
        /\ p8' = <<>> => p8[Len(p8)] = Head(p8)
        /\ Has(p8, Link!Off) <=> Has(p8', Link!Off) \/ Head(p8) = Link!Off
        /\ \A f : HearsOnly(p8, f)
             <=> HearsOnly(p8', f) /\ (Hears(Head(p8)) # Link!NoNode => Hears(Head(p8)).freq = f)
    <3>1. p8' \in Seq(Statuses) /\ Head(p8) \in Statuses  BY <2>1, <2>4, TailIs
    <3>2. p8' # <<>> => p8'[Len(p8')] = p8[Len(p8)]  BY <2>1, <2>4, <3>1, LastMessage
    <3>3. p8' = <<>> => p8[Len(p8)] = Head(p8)  BY <2>1, <2>4, <3>1, LastMessage
    <3>4. Has(p8, Link!Off) <=> Has(p8', Link!Off) \/ Head(p8) = Link!Off
      BY <2>1, <2>4, HasTail
    <3>5. \A f : HearsOnly(p8, f)
             <=> HearsOnly(p8', f) /\ (Hears(Head(p8)) # Link!NoNode => Hears(Head(p8)).freq = f)
      BY <2>1, <2>4, HearsOnlyTail
    <3> QED  BY <3>1, <3>2, <3>3, <3>4, <3>5
  <2>6. Head(p8) \in Messages  BY <2>5 DEF Messages
  <2>7. p11 => /\ p10' \in Seq(Messages) /\ p10' # <<>> /\ p10'[Len(p10')] = Head(p8)
               /\ Has(p10', Link!Off) <=> Has(p10, Link!Off) \/ Head(p8) = Link!Off
               /\ \A f : HearsOnly(p10', f) <=>
                    HearsOnly(p10, f) /\ (Hears(Head(p8)) # Link!NoNode => Hears(Head(p8)).freq = f)
    BY <2>1, <2>4, <2>6, AppendIs, LastMessage, HasAppend, HearsOnlyAppend
  <2>8. p10' \in Seq(Messages)  BY <2>1, <2>4, <2>7
  <2>9. RadioTypes'  BY <1>0, <2>2, <2>3, <2>5, <2>8 DEF RadioTypes
  <2>10. RadioLink' /\ RadioPost'  BY <1>0, <2>2, <2>3 DEF RadioLink, RadioPost
  <2>11. RadioQueue'  BY <1>0, <2>1, <2>2, <2>5 DEF RadioQueue, Truth
  <2>12. RadioDown'
    <3> SUFFICES ASSUME ~ p19, p8' = <<>>, p11
                 PROVE  IF p2 THEN Hears(p10'[Len(p10')]) = p1
                              ELSE p10'[Len(p10')] = Link!Off
      BY <2>2, <2>7 DEF RadioDown
    <3>1. PICK n : n = Truth  OBVIOUS
    <3>2. n \in MaybeNodes  BY <1>0, <3>1, NodeIs DEF RadioTypes, Truth
    <3>3. p10'[Len(p10')] = Link!Told(n)  BY <1>0, <2>1, <2>5, <2>7, <3>1 DEF RadioQueue
    <3>4. Hears(Link!Told(n)) = n /\ Link!Off = Link!Told(Link!NoNode)  BY <3>2, MessageIs
    <3> QED  BY <3>1, <3>3, <3>4 DEF Truth
  <2>13. RadioTune'
    <3> SUFFICES ASSUME p14, "tune" \notin p20, p15 # p16
                 PROVE  /\ p11
                        /\ HearsOnly(p10', p16) /\ HearsOnly(p8', p16) =>
                             \/ LastIs(p9, "set", p15)
                             \/ NoneOf(p9, "set")
                                /\ (p6 = p15 \/ (p5 # Link!NoNode /\ p5.freq = p15))
      BY <2>2, <2>3 DEF RadioTune
    <3>1. p11  BY <1>0 DEF RadioTune
    <3>2. HearsOnly(p10', p16) /\ HearsOnly(p8', p16) => HearsOnly(p10, p16) /\ HearsOnly(p8, p16)
      BY <2>5, <2>7, <3>1
    <3> QED  BY <1>0, <3>1, <3>2 DEF RadioTune
  <2>14. RadioGain'  BY <1>0, <2>2, <2>3 DEF RadioGain
  <2>15. RadioStop'  BY <1>0, <2>2, <2>3, <2>5, <2>7 DEF RadioStop
  <2>16. RadioSocket'  BY <1>0, <2>1, <2>2 DEF RadioSocket
  <2> QED
    BY <2>9, <2>10, <2>11, <2>12, <2>13, <2>14, <2>15, <2>16 DEF RadioInv
<1>2. CASE Link!SocketOpens
  <2>1. ~ p11 /\ p11' = TRUE /\ p10' = <<[hello |-> IF p2 THEN p3 ELSE Link!NoNode]>>
    BY <1>2 DEF Link!SocketOpens
  <2>2. /\ p1' = p1 /\ p2' = p2 /\ p3' = p3 /\ p4' = p4 /\ p5' = p5 /\ p6' = p6 /\ p7' = p7
        /\ p8' = p8 /\ p9' = p9 /\ p19' = p19 /\ p20' = p20
    BY <1>2 DEF Link!SocketOpens, Link!bridge
  <2>3. /\ p12' = p12 /\ p13' = p13 /\ p14' = p14 /\ p15' = p15 /\ p16' = p16 /\ p17' = p17
        /\ p18' = p18 /\ p21' = p21 /\ p22' = p22
    BY <1>2 DEF Link!SocketOpens, Link!page, Link!bounds
  <2>4. PICK n : n = Truth  OBVIOUS
  <2>5. n \in MaybeNodes  BY <1>0, <2>4, NodeIs DEF RadioTypes, Truth
  <2>6. p10' = <<[hello |-> n]>>  BY <1>0, <2>1, <2>4 DEF RadioLink, Truth
  <2>7. /\ [hello |-> n] \in Messages /\ Hears([hello |-> n]) = n
        /\ "hello" \in DOMAIN [hello |-> n]
    BY <2>5, MessageIs
  <2>8. Len(p10') = 1 /\ p10'[1] = [hello |-> n] /\ p10' # <<>> /\ p10' \in Seq(Messages)
    BY <2>6, <2>7
  <2>9. Greets(p10') /\ Hears(p10'[Len(p10')]) = n  BY <2>7, <2>8 DEF Greets
  <2>10. RadioTypes'  BY <1>0, <2>1, <2>2, <2>3, <2>8 DEF RadioTypes
  <2>11. RadioLink' /\ RadioQueue' /\ RadioPost'
    BY <1>0, <2>2, <2>3 DEF RadioLink, RadioQueue, RadioPost, Truth
  <2>12. RadioDown'  BY <2>2, <2>4, <2>8, <2>9 DEF RadioDown, Truth
  <2>13. RadioTune'  BY <1>0, <2>1, <2>2, <2>3 DEF RadioTune
  <2>14. RadioGain'  BY <1>0, <2>2, <2>3 DEF RadioGain
  <2>15. RadioStop'  BY <1>0, <2>1, <2>2, <2>3 DEF RadioStop
  <2>16. RadioSocket'  BY <2>1 DEF RadioSocket
  <2> QED  BY <2>10, <2>11, <2>12, <2>13, <2>14, <2>15, <2>16 DEF RadioInv
<1>3. CASE Link!SocketLost
  <2>1. /\ p11 /\ p11' = FALSE /\ p9' = <<>> /\ p10' = <<>> /\ p22 < MaxEvents /\ p22' = p22 + 1
        /\ p20' = p20 \cup {c \in {"tune"} : p15 # p16}
                      \cup {c \in {"gain"} : \E i \in DOMAIN p9 : p9[i].do = "gain"}
                      \cup {c \in {"stop"} : p18}
    BY <1>3 DEF Link!SocketLost, Link!Event
  <2>2. /\ p1' = p1 /\ p2' = p2 /\ p3' = p3 /\ p4' = p4 /\ p5' = p5 /\ p6' = p6 /\ p7' = p7
        /\ p8' = p8 /\ p19' = p19 /\ p21' = p21
    BY <1>3 DEF Link!SocketLost, Link!bridge
  <2>3. /\ p12' = p12 /\ p13' = p13 /\ p14' = p14 /\ p15' = p15 /\ p16' = p16 /\ p17' = p17
        /\ p18' = p18
    BY <1>3 DEF Link!SocketLost, Link!page
  <2>4. DOMAIN p9 = 1..Len(p9)  BY <1>0 DEF RadioTypes
  <2>5. /\ "tune" \notin p20' => p15 = p16
        /\ "gain" \notin p20' => "gain" \notin p20 /\ NoneOf(p9, "gain")
        /\ "stop" \notin p20' => ~ p18
    BY <2>1, <2>4 DEF NoneOf
  <2>6. p20' \subseteq {"tune", "gain", "stop"}  BY <1>0, <2>1 DEF RadioTypes
  <2>7. <<>> \in Seq(Commands) /\ <<>> \in Seq(Messages)  OBVIOUS
  <2>8. p22' \in 0..MaxEvents
    <3>1. MaxEvents \in Nat  BY PanelsAssumption
    <3> QED  BY <1>0, <2>1, <3>1 DEF RadioTypes
  <2>9. RadioTypes'  BY <1>0, <2>1, <2>2, <2>3, <2>6, <2>7, <2>8 DEF RadioTypes
  <2>10. RadioLink' /\ RadioQueue' /\ RadioPost'
    BY <1>0, <2>2, <2>3 DEF RadioLink, RadioQueue, RadioPost, Truth
  <2>11. RadioDown' /\ RadioSocket'  BY <2>1 DEF RadioDown, RadioSocket
  <2>12. RadioTune'  BY <2>3, <2>5 DEF RadioTune
  <2>13. RadioGain'
    <3> SUFFICES ASSUME p14, "gain" \notin p20'
                 PROVE  p17 = IF p7 # 99 THEN p7 ELSE p4
      BY <2>1, <2>2, <2>3, OfNothing DEF RadioGain
    <3> QED  BY <1>0, <2>5, LastIsSome DEF RadioGain
  <2>14. RadioStop'  BY <2>3, <2>5 DEF RadioStop
  <2> QED  BY <2>9, <2>10, <2>11, <2>12, <2>13, <2>14 DEF RadioInv
<1> QED  BY <1>1, <1>2, <1>3

(* The page takes what it is told, or a greeting, which it answers with    *)
(* the question for the link there is.                                     *)
LEMMA RadioReceives == RadioInv /\ Link!Receive => RadioInv'
<1> SUFFICES ASSUME RadioInv, Link!Receive  PROVE RadioInv'
  OBVIOUS
<1>0. /\ RadioTypes /\ RadioLink /\ RadioQueue /\ RadioDown /\ RadioPost /\ RadioTune
      /\ RadioGain /\ RadioStop /\ RadioSocket
  BY DEF RadioInv
<1>1. /\ p11 /\ p10 # <<>> /\ p10' = Tail(p10)
      /\ p1' = p1 /\ p2' = p2 /\ p3' = p3 /\ p4' = p4 /\ p5' = p5 /\ p6' = p6 /\ p7' = p7
      /\ p8' = p8 /\ p11' = p11 /\ p14' = p14 /\ p17' = p17 /\ p19' = p19 /\ p20' = p20
      /\ p21' = p21 /\ p22' = p22
  BY DEF Link!Receive, Link!bridge, Link!bounds
<1>2. PICK m : m = Head(p10)  OBVIOUS
<1>3. p10 \in Seq(Messages) /\ p10' \in Seq(Messages) /\ m \in Messages
  BY <1>0, <1>1, <1>2, TailIs DEF RadioTypes
<1>4. /\ p10' # <<>> => p10'[Len(p10')] = p10[Len(p10)]
      /\ p10' = <<>> => p10[Len(p10)] = m
      /\ Has(p10, Link!Off) <=> Has(p10', Link!Off) \/ m = Link!Off
      /\ Greets(p10) <=> Greets(p10') \/ "hello" \in DOMAIN m
      /\ \A f : HearsOnly(p10, f)
           <=> HearsOnly(p10', f) /\ (Hears(m) # Link!NoNode => Hears(m).freq = f)
  <2>1. (p10' # <<>> => p10'[Len(p10')] = p10[Len(p10)]) /\ (p10' = <<>> => p10[Len(p10)] = m)
    BY <1>1, <1>2, <1>3, LastMessage
  <2>2. Has(p10, Link!Off) <=> Has(p10', Link!Off) \/ m = Link!Off
    BY <1>1, <1>2, <1>3, HasTail
  <2>3. Greets(p10) <=> Greets(p10') \/ "hello" \in DOMAIN m
    BY <1>1, <1>2, <1>3, GreetsTail
  <2>4. \A f : HearsOnly(p10, f)
           <=> HearsOnly(p10', f) /\ (Hears(m) # Link!NoNode => Hears(m).freq = f)
    BY <1>1, <1>2, <1>3, HearsOnlyTail
  <2> QED  BY <2>1, <2>2, <2>3, <2>4
<1>5. PICK n : n = Hears(m)  OBVIOUS
<1>6. n \in MaybeNodes  BY <1>3, <1>5, MessageIs
<1>7. /\ p12' \in MaybeNodes /\ p13' \in BOOLEAN /\ Link!Follow
      /\ \/ /\ m = Link!Told(n) /\ p12' = n /\ p9' = p9
         \/ /\ m = [hello |-> n] /\ p12' = (IF n = Link!NoNode THEN p12 ELSE n)
            /\ p9' = Append(p9, Link!Get)
  <2>1. CASE "status" \in DOMAIN m /\ Link!Status(m.status) /\ p9' = p9
    <3>1. n = m.status /\ p12' = n /\ p13' = FALSE /\ Link!Follow
      BY <1>5, <2>1 DEF Hears, Link!Status
    <3>2. m \in Statuses
      BY <1>3, <2>1 DEF Messages, Statuses
    <3>3. m = Link!Told(n)  BY <3>1, <3>2, MessageIs
    <3> QED  BY <1>6, <2>1, <3>1, <3>3
  <2>2. CASE "hello" \in DOMAIN m /\ Link!Greeting(m.hello)
    <3>1. m \in [hello : MaybeNodes]  BY <1>3, <2>2, MessageIs DEF Messages
    <3>2. m.hello = n /\ m = [hello |-> n]  BY <1>5, <3>1 DEF Hears
    <3>3. /\ p12' = (IF n = Link!NoNode THEN p12 ELSE n) /\ Link!Follow
          /\ p9' = Append(p9, Link!Get) /\ p13' = p13
      BY <2>2, <3>2 DEF Link!Greeting
    <3>4. p12' \in MaybeNodes /\ p13' \in BOOLEAN  BY <1>0, <1>6, <3>3 DEF RadioTypes
    <3> QED  BY <3>2, <3>3, <3>4
  <2> QED  BY <1>2, <2>1, <2>2 DEF Link!Receive
<1>8. /\ p9' \in Seq(Commands)
      /\ \A k : k # "get" => (NoneOf(p9', k) <=> NoneOf(p9, k))
      /\ \A v : LastIs(p9', "set", v) <=> LastIs(p9, "set", v)
      /\ \A v : LastIs(p9', "gain", v) <=> LastIs(p9, "gain", v)
      /\ NoneOf(p9', "get") => NoneOf(p9, "get") /\ m = Link!Told(n) /\ p12' = n
  <2>1. CASE m = Link!Told(n) /\ p12' = n /\ p9' = p9
    BY <1>0, <2>1 DEF RadioTypes
  <2>2. CASE p9' = Append(p9, Link!Get)
    BY <1>0, <2>2, RadioSent, CommandIs
  <2> QED  BY <1>7, <2>1, <2>2
<1>9. /\ p14 /\ p12' # Link!NoNode /\ p12'.freq # p16 => p15' = p12'.freq /\ p16' = p12'.freq
      /\ ~ (p14 /\ p12' # Link!NoNode /\ p12'.freq # p16) => p15' = p15 /\ p16' = p16
      /\ p18' = (p18 /\ p12'.host = p12.host)
  BY <1>7 DEF Link!Follow
<1>10. p15' \in Freqs \cup {0} /\ p16' \in Freqs \cup {0} /\ p18' \in BOOLEAN
  BY <1>0, <1>7, <1>9, NodeIs DEF RadioTypes
<1>11. RadioTypes'  BY <1>0, <1>1, <1>3, <1>7, <1>8, <1>10 DEF RadioTypes
<1>12. RadioLink' /\ RadioQueue'  BY <1>0, <1>1 DEF RadioLink, RadioQueue, Truth
<1>13. RadioDown'
  <2> SUFFICES ASSUME ~ p19, p8 = <<>>
               PROVE  IF p2 THEN IF p10' = <<>> THEN p12' = p1 ELSE Hears(p10'[Len(p10')]) = p1
                      ELSE \/ Greets(p10') \/ ~ NoneOf(p9', "get")
                           \/ IF p10' = <<>> THEN p12' = Link!NoNode
                              ELSE p10'[Len(p10')] = Link!Off
    BY <1>1 DEF RadioDown
  <2>1. CASE p2
    <3>1. Hears(p10[Len(p10)]) = p1 /\ p1 # Link!NoNode
      BY <1>0, <1>1, <2>1 DEF RadioDown, RadioLink
    <3> QED  BY <1>4, <1>5, <1>7, <2>1, <3>1
  <2>2. CASE ~ p2
    <3> SUFFICES ASSUME NoneOf(p9', "get")
                 PROVE  Greets(p10') \/ IF p10' = <<>> THEN p12' = Link!NoNode
                                        ELSE p10'[Len(p10')] = Link!Off
      BY <2>2
    <3>1. NoneOf(p9, "get") /\ m = Link!Told(n) /\ p12' = n  BY <1>8
    <3>2. "hello" \notin DOMAIN m /\ (m = Link!Off <=> n = Link!NoNode)
      BY <1>6, <3>1, MessageIs
    <3>3. Greets(p10) \/ p10[Len(p10)] = Link!Off  BY <1>0, <1>1, <2>2, <3>1 DEF RadioDown
    <3> QED  BY <1>4, <3>1, <3>2, <3>3
  <2> QED  BY <2>1, <2>2
<1>14. RadioPost'  BY <1>1, <1>9 DEF RadioPost
<1>15. RadioTune'
  <2> SUFFICES ASSUME p14, "tune" \notin p20, p15' # p16'
               PROVE  /\ p11
                      /\ HearsOnly(p10', p16') /\ HearsOnly(p8, p16') =>
                           \/ LastIs(p9, "set", p15')
                           \/ NoneOf(p9, "set")
                              /\ (p6 = p15' \/ (p5 # Link!NoNode /\ p5.freq = p15'))
    BY <1>1, <1>8 DEF RadioTune
  <2>1. p15' = p15 /\ p16' = p16 /\ (p12' # Link!NoNode => p12'.freq = p16)  BY <1>9
  <2>2. n # Link!NoNode => n.freq = p16  BY <1>7, <2>1
  <2>3. HearsOnly(p10', p16) => HearsOnly(p10, p16)  BY <1>4, <1>5, <2>2
  <2> QED  BY <1>0, <2>1, <2>3 DEF RadioTune
<1>16. RadioGain'
  <2>1. NoneOf(p9', "gain") <=> NoneOf(p9, "gain")  BY <1>8
  <2> QED  BY <1>0, <1>1, <1>8, <2>1 DEF RadioGain
<1>17. RadioStop'
  <2> SUFFICES ASSUME p14, p18', "stop" \notin p20
               PROVE  /\ p11
                      /\ p12' # Link!NoNode =>
                           \/ ~ NoneOf(p9, "disconnect") \/ Has(p10', Link!Off)
                           \/ Has(p8, Link!Off)
    <3>1. NoneOf(p9', "disconnect") <=> NoneOf(p9, "disconnect")  BY <1>8
    <3> QED  BY <1>1, <3>1 DEF RadioStop
  <2>1. p18 /\ p12'.host = p12.host  BY <1>9
  <2>2. ASSUME p12' # Link!NoNode  PROVE p12 # Link!NoNode
    <3>1. p12'.host # 0  BY <1>7, <2>2, NodeIs
    <3> QED  BY <2>1, <3>1, NodeIs
  <2>3. ASSUME p12' # Link!NoNode  PROVE m # Link!Off
    <3>1. CASE m = Link!Told(n) /\ p12' = n
      BY <1>6, <2>3, <3>1, MessageIs
    <3>2. CASE m = [hello |-> n]
      BY <1>6, <3>2, MessageIs
    <3> QED  BY <1>7, <3>1, <3>2
  <2> QED  BY <1>0, <1>1, <1>4, <2>1, <2>2, <2>3 DEF RadioStop
<1>18. RadioSocket'  BY <1>1 DEF RadioSocket
<1> QED
  BY <1>11, <1>12, <1>13, <1>14, <1>15, <1>16, <1>17, <1>18 DEF RadioInv

(* A command of the page, other than a tune or a setting of the post.      *)
LEMMA RadioCommands ==
  ASSUME RadioInv, NEW c \in Commands, Link!Send(c), UNCHANGED Link!bridge, p10' = p10,
         p11' = p11, p12' = p12, p14' = p14, p15' = p15, p16' = p16, p17' = p17, p19' = p19,
         p22' = p22, p21' \in 0..MaxSent,
         \/ c.do = "set" /\ p20' = p20 \cup {"tune"} /\ p18' = p18
         \/ c.do = "set" /\ p20' = p20 /\ p18' = p18 /\ ~ p14
         \/ c.do = "disconnect" /\ p20' = p20 /\ p18' \in BOOLEAN
  PROVE  RadioInv'
<1>0. /\ RadioTypes /\ RadioLink /\ RadioQueue /\ RadioDown /\ RadioPost /\ RadioTune
      /\ RadioGain /\ RadioStop /\ RadioSocket
  BY DEF RadioInv
<1>1. /\ p1' = p1 /\ p2' = p2 /\ p3' = p3 /\ p4' = p4 /\ p5' = p5 /\ p6' = p6 /\ p7' = p7
      /\ p8' = p8
  BY DEF Link!bridge
<1>2. p11 /\ p9' = Append(p9, c) /\ p13' = (p13 \/ c.do = "set")  BY DEF Link!Send
<1>3. /\ p9' \in Seq(Commands)
      /\ \A k : NoneOf(p9', k) <=> NoneOf(p9, k) /\ c.do # k
      /\ \A k, v : c.do # k => (LastIs(p9', k, v) <=> LastIs(p9, k, v))
  BY <1>0, <1>2, RadioSent
<1>4. /\ "gain" \notin p20' => "gain" \notin p20
      /\ "stop" \notin p20' => "stop" \notin p20
      /\ p20' \subseteq {"tune", "gain", "stop"} /\ p18' \in BOOLEAN
      /\ c.do # "gain" /\ c.do # "get"
  BY <1>0 DEF RadioTypes
<1>5. p13' \in BOOLEAN  BY <1>2
<1>6. RadioTypes'  BY <1>0, <1>1, <1>3, <1>4, <1>5 DEF RadioTypes
<1>7. RadioLink' /\ RadioQueue' /\ RadioPost'
  BY <1>0, <1>1 DEF RadioLink, RadioQueue, RadioPost, Truth
<1>8. RadioDown'  BY <1>0, <1>1, <1>3 DEF RadioDown
<1>9. RadioTune'
  <2> SUFFICES ASSUME p14, "tune" \notin p20'
               PROVE  p15 # p16 =>
                 /\ p11
                 /\ HearsOnly(p10, p16) /\ HearsOnly(p8, p16) =>
                      \/ LastIs(p9', "set", p15)
                      \/ NoneOf(p9', "set") /\ (p6 = p15 \/ (p5 # Link!NoNode /\ p5.freq = p15))
    BY <1>1 DEF RadioTune
  <2>1. c.do = "disconnect" /\ p20' = p20  OBVIOUS
  <2> QED  BY <1>0, <1>3, <2>1 DEF RadioTune
<1>10. RadioGain'  BY <1>0, <1>1, <1>3, <1>4 DEF RadioGain
<1>11. RadioStop'
  <2>1. CASE c.do = "disconnect"
    BY <1>2, <1>3, <2>1 DEF RadioStop
  <2>2. CASE c.do # "disconnect"
    <3>1. p18' = p18  BY <2>2
    <3> QED  BY <1>0, <1>1, <1>2, <1>3, <1>4, <3>1 DEF RadioStop
  <2> QED  BY <2>1, <2>2
<1>12. RadioSocket'  BY <1>2 DEF RadioSocket
<1> QED  BY <1>6, <1>7, <1>8, <1>9, <1>10, <1>11, <1>12 DEF RadioInv

LEMMA RadioUsers ==
  ASSUME RadioInv,
         \/ Link!Unlock \/ Link!DisconnectNode \/ Link!OpenPost \/ Link!ClosePost \/ Link!Stop
         \/ \E h \in Hosts : Link!ConnectNode(h)
         \/ \E f \in Freqs : Link!SelectBand(f) \/ Link!EnterFrequency(f) \/ Link!Tune(f)
         \/ \E v \in Gains : Link!ChangeGain(v)
  PROVE  RadioInv'
<1>0. /\ RadioTypes /\ RadioLink /\ RadioQueue /\ RadioDown /\ RadioPost /\ RadioTune
      /\ RadioGain /\ RadioStop /\ RadioSocket
  BY DEF RadioInv
<1>m. MaxSent \in Nat /\ 0 \in Gains  BY PanelsAssumption
<1>u. Link!User => p21' \in 0..MaxSent  BY <1>0, <1>m DEF Link!User, RadioTypes
<1>1. CASE Link!Unlock
  <2>1. /\ p1' = p1 /\ p2' = p2 /\ p3' = p3 /\ p4' = p4 /\ p5' = p5 /\ p6' = p6 /\ p7' = p7
        /\ p8' = p8 /\ p9' = p9 /\ p10' = p10 /\ p11' = p11 /\ p12' = p12 /\ p13' = FALSE
    BY <1>1 DEF Link!Unlock, Link!bridge
  <2>2. /\ p14' = p14 /\ p15' = p15 /\ p16' = p16 /\ p17' = p17 /\ p18' = p18 /\ p19' = p19
        /\ p20' = p20 /\ p21' = p21 /\ p22' = p22
    BY <1>1 DEF Link!Unlock, Link!bounds
  <2>3. RadioTypes'  BY <1>0, <2>1, <2>2 DEF RadioTypes
  <2>4. RadioLink' /\ RadioQueue' /\ RadioDown' /\ RadioPost' /\ RadioSocket'
    BY <1>0, <2>1, <2>2 DEF RadioLink, RadioQueue, RadioDown, RadioPost, RadioSocket, Truth
  <2>5. RadioTune' /\ RadioGain' /\ RadioStop'
    BY <1>0, <2>1, <2>2 DEF RadioTune, RadioGain, RadioStop
  <2> QED  BY <2>3, <2>4, <2>5 DEF RadioInv
<1>2. CASE Link!DisconnectNode
  <2>1. Link!User /\ Link!Send(Link!Disconnect)  BY <1>2 DEF Link!DisconnectNode
  <2>2. /\ UNCHANGED Link!bridge /\ p10' = p10 /\ p11' = p11 /\ p12' = p12 /\ p14' = p14
        /\ p15' = p15 /\ p16' = p16 /\ p17' = p17 /\ p18' = p18 /\ p19' = p19 /\ p20' = p20
        /\ p22' = p22
    BY <1>2 DEF Link!DisconnectNode
  <2>3. p18' \in BOOLEAN  BY <1>0, <2>2 DEF RadioTypes
  <2> QED  BY <1>u, <2>1, <2>2, <2>3, CommandIs, RadioCommands
<1>3. CASE Link!OpenPost
  <2>1. /\ p14' = TRUE /\ p15' = p12.freq /\ p16' = p12.freq /\ p17' = 0 /\ p18' = FALSE
        /\ p20' = {"gain"} /\ Link!User
    BY <1>3 DEF Link!OpenPost
  <2>2. /\ p1' = p1 /\ p2' = p2 /\ p3' = p3 /\ p4' = p4 /\ p5' = p5 /\ p6' = p6 /\ p7' = p7
        /\ p8' = p8 /\ p9' = p9 /\ p10' = p10 /\ p11' = p11 /\ p12' = p12 /\ p13' = p13
        /\ p19' = p19 /\ p22' = p22
    BY <1>3 DEF Link!OpenPost, Link!bridge
  <2>3. p12.freq \in Freqs \cup {0}  BY <1>0, NodeIs DEF RadioTypes
  <2>4. RadioTypes'  BY <1>0, <1>m, <1>u, <2>1, <2>2, <2>3 DEF RadioTypes
  <2>5. RadioLink' /\ RadioQueue' /\ RadioDown' /\ RadioPost' /\ RadioSocket'
    BY <1>0, <2>1, <2>2 DEF RadioLink, RadioQueue, RadioDown, RadioPost, RadioSocket, Truth
  <2>6. RadioTune' /\ RadioGain' /\ RadioStop'
    BY <2>1 DEF RadioTune, RadioGain, RadioStop
  <2> QED  BY <2>4, <2>5, <2>6 DEF RadioInv
<1>4. CASE Link!ClosePost
  <2>1. p14' = FALSE /\ p18' = FALSE  BY <1>4 DEF Link!ClosePost
  <2>2. /\ p1' = p1 /\ p2' = p2 /\ p3' = p3 /\ p4' = p4 /\ p5' = p5 /\ p6' = p6 /\ p7' = p7
        /\ p8' = p8 /\ p9' = p9 /\ p10' = p10 /\ p11' = p11 /\ p12' = p12 /\ p13' = p13
    BY <1>4 DEF Link!ClosePost, Link!bridge
  <2>3. /\ p15' = p15 /\ p16' = p16 /\ p17' = p17 /\ p19' = p19 /\ p20' = p20 /\ p21' = p21
        /\ p22' = p22
    BY <1>4 DEF Link!ClosePost, Link!bounds
  <2>4. RadioTypes'  BY <1>0, <2>1, <2>2, <2>3 DEF RadioTypes
  <2>5. RadioLink' /\ RadioQueue' /\ RadioDown' /\ RadioSocket'
    BY <1>0, <2>2, <2>3 DEF RadioLink, RadioQueue, RadioDown, RadioSocket, Truth
  <2>6. RadioPost' /\ RadioTune' /\ RadioGain' /\ RadioStop'
    BY <2>1 DEF RadioPost, RadioTune, RadioGain, RadioStop
  <2> QED  BY <2>4, <2>5, <2>6 DEF RadioInv
<1>5. CASE Link!Stop
  <2>1. Link!User /\ Link!Send(Link!Disconnect) /\ p18' = TRUE  BY <1>5 DEF Link!Stop
  <2>2. /\ UNCHANGED Link!bridge /\ p10' = p10 /\ p11' = p11 /\ p12' = p12 /\ p14' = p14
        /\ p15' = p15 /\ p16' = p16 /\ p17' = p17 /\ p19' = p19 /\ p20' = p20 /\ p22' = p22
    BY <1>5 DEF Link!Stop
  <2> QED  BY <1>u, <2>1, <2>2, CommandIs, RadioCommands
<1>6. ASSUME NEW h \in Hosts, Link!ConnectNode(h)  PROVE RadioInv'
  <2>1. PICK f \in Freqs : Link!Send(Link!Set(h, f))  BY <1>6 DEF Link!ConnectNode
  <2>2. Link!User /\ p20' = p20 \cup {"tune"}  BY <1>6 DEF Link!ConnectNode
  <2>3. /\ UNCHANGED Link!bridge /\ p10' = p10 /\ p11' = p11 /\ p12' = p12 /\ p14' = p14
        /\ p15' = p15 /\ p16' = p16 /\ p17' = p17 /\ p18' = p18 /\ p19' = p19 /\ p22' = p22
    BY <1>6 DEF Link!ConnectNode
  <2>4. Link!Set(h, f) \in Commands /\ Link!Set(h, f).do = "set"  BY CommandIs
  <2> QED  BY <1>u, <2>1, <2>2, <2>3, <2>4, RadioCommands
<1>7. ASSUME NEW f \in Freqs, Link!SelectBand(f)  PROVE RadioInv'
  <2>1. Link!User /\ ~ p14 /\ p12 # Link!NoNode /\ Link!Send(Link!Set(p12.host, f))
    BY <1>7 DEF Link!SelectBand, Link!Retune
  <2>2. /\ UNCHANGED Link!bridge /\ p10' = p10 /\ p11' = p11 /\ p12' = p12 /\ p14' = p14
        /\ p15' = p15 /\ p16' = p16 /\ p17' = p17 /\ p18' = p18 /\ p19' = p19 /\ p20' = p20
        /\ p22' = p22
    BY <1>7 DEF Link!SelectBand
  <2>3. PICK c : c = Link!Set(p12.host, f)  OBVIOUS
  <2>4. p12.host \in Hosts  BY <1>0, <2>1, NodeIs DEF RadioTypes
  <2>5. c \in Commands /\ c.do = "set" /\ Link!Send(c)  BY <2>1, <2>3, <2>4, CommandIs
  <2> QED  BY <1>u, <2>1, <2>2, <2>5, RadioCommands
<1>8. ASSUME NEW f \in Freqs, Link!Tune(f)  PROVE RadioInv'
  <2>1. /\ Link!User /\ p14 /\ p12 # Link!NoNode /\ p15' = f /\ p20' = p20 \ {"tune"}
        /\ Link!Send(Link!Set(p12.host, f))
    BY <1>8 DEF Link!Tune
  <2>2. /\ p1' = p1 /\ p2' = p2 /\ p3' = p3 /\ p4' = p4 /\ p5' = p5 /\ p6' = p6 /\ p7' = p7
        /\ p8' = p8 /\ p10' = p10 /\ p11' = p11 /\ p12' = p12 /\ p14' = p14
        /\ p16' = p16 /\ p17' = p17 /\ p18' = p18 /\ p19' = p19 /\ p22' = p22
    BY <1>8 DEF Link!Tune, Link!bridge
  <2>3. PICK c : c = Link!Set(p12.host, f)  OBVIOUS
  <2>4. p12.host \in Hosts  BY <1>0, <2>1, NodeIs DEF RadioTypes
  <2>a. PICK h \in Hosts : h = p12.host  BY <2>4
  <2>b. /\ Link!Set(h, f) \in Commands /\ Link!Set(h, f).do = "set"
        /\ Val(Link!Set(h, f)) = f
    BY CommandIs
  <2>5. c \in Commands /\ c.do = "set" /\ Val(c) = f  BY <2>3, <2>a, <2>b
  <2>6. p11 /\ p9' = Append(p9, c) /\ p13' = (p13 \/ c.do = "set")
    BY <2>1, <2>3 DEF Link!Send
  <2>7. /\ p9' \in Seq(Commands)
        /\ \A k : NoneOf(p9', k) <=> NoneOf(p9, k) /\ c.do # k
        /\ \A k, v : /\ c.do # k => (LastIs(p9', k, v) <=> LastIs(p9, k, v))
                     /\ c.do = k /\ Val(c) = v => LastIs(p9', k, v)
    BY <1>0, <2>5, <2>6, RadioSent
  <2>8. p13' \in BOOLEAN  BY <2>6
  <2>9. /\ "gain" \notin p20' => "gain" \notin p20
        /\ "stop" \notin p20' => "stop" \notin p20
        /\ p20' \subseteq {"tune", "gain", "stop"}
    BY <1>0, <2>1 DEF RadioTypes
  <2>10. RadioTypes'  BY <1>0, <1>u, <2>1, <2>2, <2>7, <2>8, <2>9 DEF RadioTypes
  <2>11. RadioLink' /\ RadioQueue' /\ RadioPost'
    BY <1>0, <2>2 DEF RadioLink, RadioQueue, RadioPost, Truth
  <2>12. RadioDown'  BY <1>0, <2>2, <2>5, <2>7 DEF RadioDown
  <2>13. RadioTune'
    <3>1. LastIs(p9', "set", p15')  BY <2>1, <2>5, <2>7
    <3> QED  BY <2>2, <2>6, <3>1 DEF RadioTune
  <2>14. RadioGain'  BY <1>0, <2>2, <2>5, <2>7, <2>9 DEF RadioGain
  <2>15. RadioStop'  BY <1>0, <2>2, <2>5, <2>7, <2>9 DEF RadioStop
  <2>16. RadioSocket'  BY <2>2, <2>6 DEF RadioSocket
  <2> QED  BY <2>10, <2>11, <2>12, <2>13, <2>14, <2>15, <2>16 DEF RadioInv
<1>9. ASSUME NEW v \in Gains, Link!ChangeGain(v)  PROVE RadioInv'
  <2>1. Link!User /\ p14 /\ p17' = v  BY <1>9 DEF Link!ChangeGain
  <2>2. /\ p1' = p1 /\ p2' = p2 /\ p3' = p3 /\ p4' = p4 /\ p5' = p5 /\ p6' = p6 /\ p7' = p7
        /\ p8' = p8 /\ p10' = p10 /\ p11' = p11 /\ p12' = p12 /\ p14' = p14 /\ p15' = p15
        /\ p16' = p16 /\ p18' = p18 /\ p19' = p19 /\ p22' = p22
    BY <1>9 DEF Link!ChangeGain, Link!bridge
  <2>3. RadioLink' /\ RadioQueue' /\ RadioPost'
    BY <1>0, <2>2 DEF RadioLink, RadioQueue, RadioPost, Truth
  <2>4. CASE p12 # Link!NoNode /\ p11
    <3>1. PICK c : c = Link!Gain(v)  OBVIOUS
    <3>2. c \in Commands /\ c.do = "gain" /\ Val(c) = v  BY <3>1, CommandIs
    <3>3. /\ p9' = Append(p9, c) /\ p13' = (p13 \/ c.do = "set") /\ p20' = p20 \ {"gain"}
      BY <1>9, <2>4, <3>1 DEF Link!ChangeGain, Link!Send
    <3>4. /\ p9' \in Seq(Commands)
          /\ \A k : NoneOf(p9', k) <=> NoneOf(p9, k) /\ c.do # k
          /\ \A k, x : /\ c.do # k => (LastIs(p9', k, x) <=> LastIs(p9, k, x))
                       /\ c.do = k /\ Val(c) = x => LastIs(p9', k, x)
      BY <1>0, <3>2, <3>3, RadioSent
    <3>5. p13' \in BOOLEAN  BY <3>3
    <3>6. /\ "tune" \notin p20' => "tune" \notin p20
          /\ "stop" \notin p20' => "stop" \notin p20
          /\ p20' \subseteq {"tune", "gain", "stop"}
      BY <1>0, <3>3 DEF RadioTypes
    <3>7. RadioTypes'  BY <1>0, <1>u, <2>1, <2>2, <3>4, <3>5, <3>6 DEF RadioTypes
    <3>8. RadioDown'  BY <1>0, <2>2, <3>2, <3>4 DEF RadioDown
    <3>9. RadioTune'  BY <1>0, <2>2, <3>2, <3>4, <3>6 DEF RadioTune
    <3>10. RadioGain'
      <4>1. LastIs(p9', "gain", p17')  BY <2>1, <3>2, <3>4
      <4> QED  BY <4>1 DEF RadioGain
    <3>11. RadioStop'  BY <1>0, <2>2, <3>2, <3>4, <3>6 DEF RadioStop
    <3>12. RadioSocket'  BY <2>2, <2>4 DEF RadioSocket
    <3> QED  BY <2>3, <3>7, <3>8, <3>9, <3>10, <3>11, <3>12 DEF RadioInv
  <2>5. CASE ~ (p12 # Link!NoNode /\ p11)
    <3>1. p20' = p20 \cup {"gain"} /\ p9' = p9 /\ p13' = p13
      BY <1>9, <2>5 DEF Link!ChangeGain
    <3>2. RadioTypes'  BY <1>0, <1>u, <2>1, <2>2, <3>1 DEF RadioTypes
    <3>3. RadioDown' /\ RadioSocket'  BY <1>0, <2>2, <3>1 DEF RadioDown, RadioSocket
    <3>4. RadioTune' /\ RadioGain' /\ RadioStop'
      BY <1>0, <2>2, <3>1 DEF RadioTune, RadioGain, RadioStop
    <3> QED  BY <2>3, <3>2, <3>3, <3>4 DEF RadioInv
  <2> QED  BY <2>4, <2>5
<1> QED
  BY <1>1, <1>2, <1>3, <1>4, <1>5, <1>6, <1>7, <1>8, <1>9 DEF Link!EnterFrequency

LEMMA RadioNext == RadioInv /\ (Link!Next \/ UNCHANGED RadioVars) => RadioInv'
<1> SUFFICES ASSUME RadioInv, Link!Next \/ UNCHANGED RadioVars  PROVE RadioInv'
  OBVIOUS
<1>1. CASE UNCHANGED RadioVars
  <2>0. /\ RadioTypes /\ RadioLink /\ RadioQueue /\ RadioDown /\ RadioPost /\ RadioTune
        /\ RadioGain /\ RadioStop /\ RadioSocket
    BY DEF RadioInv
  <2>1. /\ p1' = p1 /\ p2' = p2 /\ p3' = p3 /\ p4' = p4 /\ p5' = p5 /\ p6' = p6 /\ p7' = p7
        /\ p8' = p8 /\ p9' = p9 /\ p10' = p10 /\ p11' = p11
    BY <1>1 DEF RadioVars, Link!vars, Link!bridge
  <2>2. /\ p12' = p12 /\ p13' = p13 /\ p14' = p14 /\ p15' = p15 /\ p16' = p16 /\ p17' = p17
        /\ p18' = p18 /\ p19' = p19 /\ p20' = p20 /\ p21' = p21 /\ p22' = p22
    BY <1>1 DEF RadioVars, Link!vars, Link!page, Link!bounds
  <2>3. RadioTypes'  BY <2>0, <2>1, <2>2 DEF RadioTypes
  <2>4. RadioLink' /\ RadioQueue' /\ RadioDown' /\ RadioPost' /\ RadioSocket'
    BY <2>0, <2>1, <2>2 DEF RadioLink, RadioQueue, RadioDown, RadioPost, RadioSocket, Truth
  <2>5. RadioTune' /\ RadioGain' /\ RadioStop'
    BY <2>0, <2>1, <2>2 DEF RadioTune, RadioGain, RadioStop
  <2> QED  BY <2>3, <2>4, <2>5 DEF RadioInv
<1>2. CASE Link!Next
  BY <1>2, RadioBridge, RadioHandle, RadioOthers, RadioCarries, RadioReceives, RadioUsers
  DEF Link!Next
<1> QED  BY <1>1, <1>2

-----------------------------------------------------------------------------
(***************************************************************************)
(* The panels together: a behaviour is one of a panel.                     *)
(***************************************************************************)
PanelsInv ==
  /\ panel = "radio" => RadioInv
  /\ panel = "panel" => SettingsInv
  /\ panel = "listen" => StreamInv
  /\ panel = "hud" => LayoutInv
  /\ panel = "accounts" => AdminInv
  /\ panel = "saved" => MissionInv
  /\ panel = "watchlist" => WatchInv
  /\ panel = "camera" => StyleInv
  /\ panel = "filters" => LayersInv

LEMMA PanelsStart == PanelsInit => PanelsInv
<1> SUFFICES ASSUME PanelsInit  PROVE PanelsInv
  OBVIOUS
<1>1. panel = "radio" => RadioInv  BY RadioInit DEF PanelsInit
<1>2. panel = "panel" => SettingsInv  BY SettingsInit DEF PanelsInit
<1>3. panel = "listen" => StreamInv  BY StreamInit DEF PanelsInit
<1>4. panel = "hud" => LayoutInv  BY LayoutInit DEF PanelsInit
<1>5. panel = "accounts" => AdminInv  BY AdminInit DEF PanelsInit
<1>6. panel = "saved" => MissionInv  BY MissionInit DEF PanelsInit
<1>7. panel = "watchlist" => WatchInv  BY WatchInit DEF PanelsInit
<1>8. panel = "camera" => StyleInv  BY StyleInit DEF PanelsInit
<1>9. panel = "filters" => LayersInv  BY LayersInit DEF PanelsInit
<1> QED  BY <1>1, <1>2, <1>3, <1>4, <1>5, <1>6, <1>7, <1>8, <1>9 DEF PanelsInv

LEMMA PanelsStep == PanelsInv /\ [PanelsNext]_panelsVars => PanelsInv'
<1> SUFFICES ASSUME PanelsInv, [PanelsNext]_panelsVars  PROVE PanelsInv'
  OBVIOUS
<1>0. panel' = panel  BY DEF PanelsNext, panelsVars
<1>1. ASSUME panel = "radio"  PROVE RadioInv'
  <2>1. Link!Next \/ UNCHANGED RadioVars
    <3>1. CASE PanelsNext  BY <1>1, <3>1 DEF PanelsNext
    <3>2. CASE UNCHANGED panelsVars
      BY <3>2 DEF panelsVars, RadioVars, Link!vars, Link!bridge, Link!page, Link!bounds
    <3> QED  BY <3>1, <3>2
  <2> QED  BY <1>1, <2>1, RadioNext DEF PanelsInv
<1>2. ASSUME panel = "panel"  PROVE SettingsInv'
  <2>1. [Settings!Next]_SettingsVars
    <3>1. CASE PanelsNext  BY <1>2, <3>1 DEF PanelsNext
    <3>2. CASE UNCHANGED panelsVars  BY <3>2 DEF panelsVars, SettingsVars, Settings!vars
    <3> QED  BY <3>1, <3>2
  <2> QED  BY <1>2, <2>1, SettingsNext DEF PanelsInv
<1>3. ASSUME panel = "listen"  PROVE StreamInv'
  <2>1. [Stream!Next]_StreamVars
    <3>1. CASE PanelsNext  BY <1>3, <3>1 DEF PanelsNext
    <3>2. CASE UNCHANGED panelsVars  BY <3>2 DEF panelsVars, StreamVars, Stream!vars
    <3> QED  BY <3>1, <3>2
  <2> QED  BY <1>3, <2>1, StreamNext DEF PanelsInv
<1>4. ASSUME panel = "hud"  PROVE LayoutInv'
  <2>1. [Layout!Next]_LayoutVars
    <3>1. CASE PanelsNext  BY <1>4, <3>1 DEF PanelsNext
    <3>2. CASE UNCHANGED panelsVars
      BY <3>2 DEF panelsVars, LayoutVars, Layout!vars, Layout!surfaces, Layout!reader
    <3> QED  BY <3>1, <3>2
  <2> QED  BY <1>4, <2>1, LayoutNext DEF PanelsInv
<1>5. ASSUME panel = "accounts"  PROVE AdminInv'
  <2>1. Admin!Next \/ UNCHANGED AdminVars
    <3>1. CASE PanelsNext  BY <1>5, <3>1 DEF PanelsNext
    <3>2. CASE UNCHANGED panelsVars  BY <3>2 DEF panelsVars, AdminVars, Admin!vars
    <3> QED  BY <3>1, <3>2
  <2> QED  BY <1>5, <2>1, AdminNext DEF PanelsInv
<1>6. ASSUME panel = "saved"  PROVE MissionInv'
  <2>1. Missions!Next \/ UNCHANGED MissionVars
    <3>1. CASE PanelsNext  BY <1>6, <3>1 DEF PanelsNext
    <3>2. CASE UNCHANGED panelsVars  BY <3>2 DEF panelsVars, MissionVars, Missions!vars
    <3> QED  BY <3>1, <3>2
  <2> QED  BY <1>6, <2>1, MissionNext DEF PanelsInv
<1>7. ASSUME panel = "watchlist"  PROVE WatchInv'
  <2>1. Watch!Next \/ UNCHANGED WatchVars
    <3>1. CASE PanelsNext  BY <1>7, <3>1 DEF PanelsNext
    <3>2. CASE UNCHANGED panelsVars  BY <3>2 DEF panelsVars, WatchVars, Watch!vars
    <3> QED  BY <3>1, <3>2
  <2> QED  BY <1>7, <2>1, WatchNext DEF PanelsInv
<1>8. ASSUME panel = "camera"  PROVE StyleInv'
  <2>1. Style!Next \/ UNCHANGED StyleVars
    <3>1. CASE PanelsNext  BY <1>8, <3>1 DEF PanelsNext
    <3>2. CASE UNCHANGED panelsVars  BY <3>2 DEF panelsVars, StyleVars, Style!vars
    <3> QED  BY <3>1, <3>2
  <2> QED  BY <1>8, <2>1, StyleNext DEF PanelsInv
<1>9. ASSUME panel = "filters"  PROVE LayersInv'
  <2>1. Layers!Next \/ UNCHANGED LayersVars
    <3>1. CASE PanelsNext  BY <1>9, <3>1 DEF PanelsNext
    <3>2. CASE UNCHANGED panelsVars  BY <3>2 DEF panelsVars, LayersVars, Layers!vars
    <3> QED  BY <3>1, <3>2
  <2> QED  BY <1>9, <2>1, LayersNext DEF PanelsInv
<1> QED  BY <1>0, <1>1, <1>2, <1>3, <1>4, <1>5, <1>6, <1>7, <1>8, <1>9 DEF PanelsInv

LEMMA PanelsImply == PanelsInv => ShownIsTrue /\ SharedListsAreWhole
<1> SUFFICES ASSUME PanelsInv  PROVE ShownIsTrue /\ SharedListsAreWhole
  OBVIOUS
<1>1. panel = "radio" => Link!TypeOK /\ Link!ShownIsLinked /\ Link!PostIsTruthful
  BY RadioImplies DEF PanelsInv
<1>2. panel = "panel" => Settings!TypeOK /\ Settings!FiltersAsShown
  BY DEF PanelsInv, SettingsInv
<1>3. panel = "listen" => Stream!TypeOK /\ Stream!OneStream  BY StreamImplies DEF PanelsInv
<1>4. panel = "hud" => Layout!TypeOK /\ Layout!OneSurface /\ Layout!ShownTogether
  BY LayoutImplies DEF PanelsInv
<1>5. panel = "camera" => Style!MapShowsChoice  BY StyleImplies DEF PanelsInv
<1>6. panel = "filters" => /\ Layers!TypeOK /\ Layers!SwitchShowsLayer /\ Layers!GroupIsTruthful
                           /\ Layers!RiskFollowsView /\ Layers!FeedAgreesWithMap
  BY LayersImplies DEF PanelsInv
<1>7. panel = "accounts" => Admin!TypeOK /\ Admin!AnAdminRemains  BY AdminImplies DEF PanelsInv
<1>8. panel = "saved" => Missions!ListsAreWhole  BY MissionImplies DEF PanelsInv
<1>9. panel = "watchlist" => Watch!TypeOK /\ Watch!PanelsShowList
  BY WatchImplies DEF PanelsInv
<1>10. ShownIsTrue  BY <1>1, <1>2, <1>3, <1>4, <1>5, <1>6 DEF ShownIsTrue
<1>11. SharedListsAreWhole  BY <1>7, <1>8, <1>9 DEF SharedListsAreWhole
<1> QED  BY <1>10, <1>11

(* Whatever crosses on the sockets, among the operators and with a reload, *)
(* for any number of nodes, people, missions, aircraft and layers: each    *)
(* panel but the notices and the chains keeps the invariant it needs.      *)
THEOREM PanelsInvariance == PanelsSpec => []PanelsInv
<1>1. PanelsInv /\ [PanelsNext]_panelsVars => PanelsInv'  BY PanelsStep
<1> QED  BY <1>1, PanelsStart, PTL DEF PanelsSpec

(* The radio shows the link there is once everything said has been heard,  *)
(* and so does the listening post what its own commands did; one stream of *)
(* each kind plays; one drawer is open at a time; the map has the style    *)
(* that was chosen; and the switches tell which layers are on.             *)
THEOREM ShownTrue == PanelsSpec => []ShownIsTrue
<1>1. PanelsInv => ShownIsTrue  BY PanelsImply
<1> QED  BY <1>1, PanelsInvariance, PTL

(* However the requests of several administrators, pages and operators     *)
(* interleave, an administrator remains unless changes raced, the saved    *)
(* missions stay in order and in bounds, and a panel whose requests did    *)
(* not cross shows the watchlist.                                          *)
THEOREM ListsWhole == PanelsSpec => []SharedListsAreWhole
<1>1. PanelsInv => SharedListsAreWhole  BY PanelsImply
<1> QED  BY <1>1, PanelsInvariance, PTL

(* No reload at an address that is up to date loses a layer that was on    *)
(* and has a default.                                                      *)
THEOREM ReloadKept == PanelsSpec => ReloadKeepsShown
<1>1. PanelsInv /\ [PanelsNext]_panelsVars
      => [panel = "filters" => Layers!ReloadKeeps]_panelsVars
  <2> SUFFICES ASSUME PanelsInv, PanelsNext, panel = "filters"  PROVE Layers!ReloadKeeps
    OBVIOUS
  <2>1. LayersInv  BY DEF PanelsInv
  <2>2. Layers!Next \/ UNCHANGED LayersVars  BY DEF PanelsNext
  <2> QED  BY <2>1, <2>2, LayersKept
<1> QED  BY <1>1, PanelsInvariance, PTL DEF PanelsSpec, ReloadKeepsShown
=============================================================================
