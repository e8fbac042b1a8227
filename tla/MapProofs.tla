------------------------------ MODULE MapProofs ------------------------------
(***************************************************************************)
(* What a map shows: the answers of the polled hooks, the tracks of the    *)
(* stream, and what is under the pointer and selected.                     *)
(***************************************************************************)
EXTENDS Feed, TrackStore, MapPicking, TLAPS

-----------------------------------------------------------------------------
(***************************************************************************)
(* Feed: what it promises holds for every number of subjects, versions,    *)
(* requests, turns and failures, and Feed implements Screen.               *)
(***************************************************************************)


(* The timers run only for a hook that has them, and while it is mounted.   *)
Timers ==
  /\ due => Is("debounced") /\ subject # Off
  /\ polling => Is("poll") /\ subject # Off

(* Nothing is from the future.                                             *)
NothingFromTheFuture ==
  /\ shown.at <= version
  /\ \A r \in requests : r.at <= version
  /\ \A s \in Subjects : kept[s] <= version

(* A hook that looks after its requests has none about anything else.      *)
Wanted == Guarded => \A r \in requests : r.of = subject

(* One in order has a single request, not older than what is shown.        *)
Ordered ==
  InOrder => /\ \A r, q \in requests : r = q
             /\ \A r \in requests : r.at # None => shown.at <= r.at

(* The subject an effect compares with is the one shown.                   *)
DoneIsShown == done # None /\ shown # Nothing => done = shown.of

FeedInv ==
  /\ FeedTypeOK /\ Timers /\ NothingFromTheFuture /\ Wanted /\ Ordered /\ DoneIsShown
  /\ NothingComesBack

\* Every policy is made of the flags.
LEMMA PoliciesAreTyped == Feeds \subseteq Policies
  BY DEF Feeds, Policies, Policy, Flags, Fallback, Cables, Outages, DarkVessels, Firms,
         DnsRoot, PeeringDb, RFSites, Towers, Buoys, SatNOGS, Passes, MaritimeRisk, Health,
         KiwiNodes, WebSDRNodes, Coverage, MapRisk, Clusters, Chains, News, Threats, Kp,
         Ticker, Conflicts, OutagePanel, Streams, Operations, GlobeActors, Features,
         SpaceWeather, Aurora, MiniHazards, GlobeRisk, HealthPanel, Trajectory, Badge,
         JammingHistory, Observations, MiniRisk, MiniClusters, Actors, Stats, EmComm,
         Verification

-----------------------------------------------------------------------------
(* Types.                                                                  *)

\* The initial state has the types.
LEMMA TypeInit == FeedInit => FeedTypeOK
<1> SUFFICES ASSUME FeedInit
             PROVE  FeedTypeOK
  OBVIOUS
<1>1. feed \in Policies /\ version \in Versions
  BY PoliciesAreTyped, BoundsAssumption DEF FeedInit, Versions
<1>2. kept \in [Subjects -> Versions \cup {None}]  BY DEF FeedInit
<1>3. turns \in 0..MaxTurns /\ faults \in 0..MaxFaults  BY BoundsAssumption DEF FeedInit
<1> QED  BY <1>1, <1>2, <1>3 DEF FeedInit, FeedTypeOK

\* A new request is a request.
LEMMA AskIsRequest == \A s \in Subjects : Ask(s) \in Request
  BY DEF Ask, Request

\* A cleanup leaves a part of the requests: none where it voids them all.
LEMMA SurvivorsAreRequests ==
  ASSUME FeedTypeOK
  PROVE  Survivors \subseteq requests /\ (Guarded => Survivors = {})
<1>1. feed.drop \in {"none", "flag", "early"}  BY DEF FeedTypeOK, Policies
<1> QED  BY <1>1 DEF Survivors, Guarded

\* What an effect that asks leaves, whether it looks into localStorage or not.
LEMMA AskedType ==
  ASSUME FeedTypeOK, NEW s \in Subjects, NEW old \in SUBSET Request, Asked(s, old)
  PROVE  /\ requests' \subseteq Request
         /\ shown' \in [of : Subjects, at : Versions] \cup {Nothing}
         /\ due' \in BOOLEAN /\ polling' \in BOOLEAN
         /\ done' \in Subjects \cup {None}
<1>1. CASE Is("cached") /\ kept[s] # None
  <2>1. kept[s] \in Versions  BY <1>1 DEF FeedTypeOK
  <2>2. requests' = old /\ shown' = [of |-> s, at |-> kept[s]] /\ done' = s
        /\ due' = FALSE /\ polling' = FALSE
    BY <1>1 DEF Asked
  <2> QED  BY <2>1, <2>2
<1>2. CASE ~ (Is("cached") /\ kept[s] # None)
  <2>1. due' = Is("debounced") /\ polling' = Is("poll")
    BY <1>2, Zenon DEF Asked
  <2>2. due' \in BOOLEAN /\ polling' \in BOOLEAN
    <3>1. Is("debounced") \in BOOLEAN /\ Is("poll") \in BOOLEAN  BY DEF Is
    <3> QED  BY <2>1, <3>1, Zenon
  <2>3. /\ requests' = old \cup (IF Is("debounced") THEN {} ELSE {Ask(s)})
        /\ shown' \in {shown, Nothing} /\ done' = done
    BY <1>2 DEF Asked
  <2> QED  BY <2>2, <2>3, AskIsRequest DEF FeedTypeOK
<1> QED  BY <1>1, <1>2

\* The same of an effect that may return at once.
LEMMA RerunType ==
  ASSUME FeedTypeOK, NEW s \in Subjects, Rerun(s)
  PROVE  /\ requests' \subseteq Request
         /\ shown' \in [of : Subjects, at : Versions] \cup {Nothing}
         /\ due' \in BOOLEAN /\ polling' \in BOOLEAN
         /\ done' \in Subjects \cup {None}
<1>1. Survivors \in SUBSET Request  BY SurvivorsAreRequests DEF FeedTypeOK
<1>2. CASE Is("skips") /\ done = s
  BY <1>1, <1>2 DEF FeedTypeOK, Rerun
<1>3. CASE ~ (Is("skips") /\ done = s)
  <2>1. Asked(s, Survivors)  BY <1>3 DEF Rerun
  <2> QED  BY <1>1, <2>1, AskedType
<1> QED  BY <1>2, <1>3

\* Every step keeps the types.
LEMMA TypeNext ==
  ASSUME FeedTypeOK, Timers, [FeedNext]_feedVars
  PROVE  FeedTypeOK'
<1>1. CASE SwitchOff
  <2>1. Survivors \subseteq Request  BY SurvivorsAreRequests DEF FeedTypeOK
  <2>2. turns' \in 0..MaxTurns  BY <1>1, BoundsAssumption DEF FeedTypeOK, SwitchOff
  <2>3. shown' \in [of : Subjects, at : Versions] \cup {Nothing}
    BY <1>1 DEF FeedTypeOK, SwitchOff
  <2> QED  BY <1>1, <2>1, <2>2, <2>3 DEF FeedTypeOK, SwitchOff
<1>2. CASE Renew
  <2>1. subject \in Subjects  BY <1>2 DEF FeedTypeOK, Renew
  <2>2. turns' \in 0..MaxTurns  BY <1>2, BoundsAssumption DEF FeedTypeOK, Renew
  <2> QED  BY <1>2, <2>1, <2>2, RerunType DEF FeedTypeOK, Renew, Versions
<1>3. CASE Debounced
  <2>1. subject \in Subjects  BY <1>3 DEF FeedTypeOK, Debounced, Timers
  <2> QED  BY <1>3, <2>1, AskIsRequest DEF FeedTypeOK, Debounced, Versions
<1>4. CASE Tick
  <2>1. subject \in Subjects  BY <1>4 DEF FeedTypeOK, Tick, Timers
  <2> QED  BY <1>4, <2>1, AskIsRequest DEF FeedTypeOK, Tick, Versions
<1>5. CASE Publish
  BY <1>5, BoundsAssumption DEF FeedTypeOK, Publish, Versions
<1>6. ASSUME NEW s \in Subjects, SwitchOn(s)
      PROVE  FeedTypeOK'
  <2>1. requests \in SUBSET Request /\ Asked(s, requests)
    BY <1>6 DEF FeedTypeOK, SwitchOn
  <2> QED  BY <1>6, <2>1, AskedType DEF FeedTypeOK, SwitchOn, Versions
<1>7. ASSUME NEW s \in Subjects, Turn(s)
      PROVE  FeedTypeOK'
  <2>1. turns' \in 0..MaxTurns  BY <1>7, BoundsAssumption DEF FeedTypeOK, Turn
  <2>2. CASE Is("rerun")
    BY <1>7, <2>1, <2>2, RerunType DEF FeedTypeOK, Turn, Versions
  <2>3. CASE ~ Is("rerun")
    BY <1>7, <2>1, <2>3 DEF FeedTypeOK, Turn, Versions
  <2> QED  BY <2>2, <2>3
<1>8. ASSUME NEW s \in Subjects, KeptExpires(s)
      PROVE  FeedTypeOK'
  BY <1>8 DEF FeedTypeOK, KeptExpires, Versions
<1>9. ASSUME NEW r \in requests, Read(r)
      PROVE  FeedTypeOK'
  <2>1. [r EXCEPT !.at = version] \in Request  BY DEF FeedTypeOK, Request
  <2> QED  BY <1>9, <2>1 DEF FeedTypeOK, Read, Versions
<1>10. ASSUME NEW r \in requests, Pass(r)
       PROVE  FeedTypeOK'
  <2>1. [r EXCEPT !.passed = TRUE] \in Request  BY DEF FeedTypeOK, Request
  <2> QED  BY <1>10, <2>1 DEF FeedTypeOK, Pass, Versions
<1>11. ASSUME NEW r \in requests, Answer(r)
       PROVE  FeedTypeOK'
  <2>1. r.of \in Subjects /\ r.at \in Versions  BY <1>11 DEF FeedTypeOK, Request, Answer
  <2>2. shown' \in [of : Subjects, at : Versions]  BY <1>11, <2>1 DEF Answer
  <2>3. kept' \in [Subjects -> Versions \cup {None}]  BY <1>11, <2>1 DEF FeedTypeOK, Answer
  <2> QED  BY <1>11, <2>1, <2>2, <2>3 DEF FeedTypeOK, Answer, Versions
<1>12. ASSUME NEW r \in requests, NEW how \in Fallback, Fail(r, how)
       PROVE  FeedTypeOK'
  BY <1>12, BoundsAssumption DEF FeedTypeOK, Fail, Versions
<1>13. CASE UNCHANGED feedVars
  BY <1>13 DEF FeedTypeOK, feedVars, Versions
<1> QED
  BY <1>1, <1>2, <1>3, <1>4, <1>5, <1>6, <1>7, <1>8, <1>9, <1>10, <1>11, <1>12, <1>13
     DEF FeedNext

-----------------------------------------------------------------------------
(* The invariant.                                                          *)

\* The initial state satisfies it.
LEMMA InvInit == FeedInit => FeedInv
<1> SUFFICES ASSUME FeedInit
             PROVE  FeedInv
  OBVIOUS
<1>1. NothingFromTheFuture
  BY BoundsAssumption DEF FeedInit, NothingFromTheFuture, Nothing, None, Off
<1> QED
  BY <1>1, TypeInit
     DEF FeedInit, FeedInv, Timers, Wanted, Ordered, DoneIsShown, NothingComesBack

\* After an effect that asks for s, with the requests that were left to it.
LEMMA AskedInv ==
  ASSUME FeedInv, NEW s \in Subjects, NEW old \in SUBSET requests, Asked(s, old),
         Guarded => old = {}, subject' = s, UNCHANGED <<feed, version, kept>>
  PROVE  Timers' /\ NothingFromTheFuture' /\ Wanted' /\ Ordered' /\ DoneIsShown' /\ NothingComesBack'
<1> USE DEF FeedInv
<1>1. s # Off /\ s # None  BY SubjectsAssumption DEF Off, None
<1>2. CASE Is("cached") /\ kept[s] # None
  <2>1. /\ requests' = old /\ shown' = [of |-> s, at |-> kept[s]] /\ done' = s
        /\ due' = FALSE /\ polling' = FALSE
    BY <1>2 DEF Asked
  <2>2. Timers'  BY <2>1 DEF Timers
  <2>3. NothingFromTheFuture'  BY <2>1 DEF NothingFromTheFuture, FeedTypeOK
  <2>4. Wanted'  BY <2>1 DEF Wanted, Guarded, Is
  <2>5. ~ InOrder'  BY <1>2 DEF InOrder, Is
  <2>6. DoneIsShown'  BY <2>1 DEF DoneIsShown
  <2>7. NothingComesBack'  BY <1>1, <2>1 DEF NothingComesBack
  <2> QED  BY <2>2, <2>3, <2>4, <2>5, <2>6, <2>7 DEF Ordered
<1>3. CASE ~ (Is("cached") /\ kept[s] # None)
  <2>1. /\ requests' = old \cup (IF Is("debounced") THEN {} ELSE {Ask(s)})
        /\ shown' = (IF Is("clearTurn") \/ Is("clearAsk") THEN Nothing ELSE shown)
        /\ done' = done
    BY <1>3 DEF Asked
  <2>2. due' = Is("debounced") /\ polling' = Is("poll")
    BY <1>3, Zenon DEF Asked
  <2>3. \A r \in requests' : r \in old \/ r = [of |-> s, at |-> None, passed |-> FALSE]
    BY <2>1 DEF Ask
  <2>4. Timers'
    <3>1. (due' => Is("debounced")) /\ (polling' => Is("poll"))  BY <2>2, Zenon
    <3> QED  BY <1>1, <3>1 DEF Timers, Is
  <2>5. NothingFromTheFuture'  BY <2>1, <2>3 DEF NothingFromTheFuture, FeedTypeOK, Versions, Nothing, None
  <2>6. Wanted'  BY <2>3 DEF Wanted, Guarded, Is
  <2>7. Ordered'
    <3>1. InOrder' => old = {}  BY DEF InOrder, Guarded, Is
    <3>2. InOrder' => \A r \in requests' : r = [of |-> s, at |-> None, passed |-> FALSE]
      BY <2>3, <3>1
    <3>3. InOrder' => \A r, q \in requests' : r = q  BY <3>2
    <3>4. InOrder' => \A r \in requests' : r.at = None  BY <3>2
    <3> QED  BY <3>3, <3>4, Zenon DEF Ordered
  <2>8. DoneIsShown'  BY <2>1 DEF DoneIsShown
  <2>9. NothingComesBack'  BY <1>1, <2>1 DEF NothingComesBack, Guarded, Is
  <2> QED  BY <2>4, <2>5, <2>6, <2>7, <2>8, <2>9
<1> QED  BY <1>2, <1>3

\* After an effect that runs again, and may find that it has s already.
LEMMA RerunInv ==
  ASSUME FeedInv, NEW s \in Subjects, Rerun(s), subject' = s, UNCHANGED <<feed, version, kept>>
  PROVE  Timers' /\ NothingFromTheFuture' /\ Wanted' /\ Ordered' /\ DoneIsShown' /\ NothingComesBack'
<1> USE DEF FeedInv
<1>1. Survivors \subseteq requests /\ (Guarded => Survivors = {})
  BY SurvivorsAreRequests
<1>2. CASE Is("skips") /\ done = s
  <2>1. /\ requests' = Survivors /\ due' = FALSE /\ polling' = FALSE
        /\ shown' = shown /\ done' = done
    BY <1>2 DEF Rerun
  <2>2. s # Off /\ s # None  BY SubjectsAssumption DEF Off, None
  <2>3. Timers' /\ DoneIsShown'  BY <2>1 DEF Timers, DoneIsShown
  <2>4. NothingFromTheFuture'  BY <1>1, <2>1 DEF NothingFromTheFuture
  <2>5. Wanted' /\ Ordered'
    BY <1>1, <2>1 DEF Wanted, Ordered, InOrder, Guarded, Is
  <2>6. NothingComesBack'
    BY <1>2, <2>1, <2>2 DEF NothingComesBack, DoneIsShown, Guarded, Is
  <2> QED  BY <2>3, <2>4, <2>5, <2>6
<1>3. CASE ~ (Is("skips") /\ done = s)
  <2>1. Asked(s, Survivors)  BY <1>3 DEF Rerun
  <2> QED  BY <1>1, <2>1, AskedInv
<1> QED  BY <1>2, <1>3

\* Every step preserves it.
LEMMA InvNext ==
  ASSUME FeedInv, [FeedNext]_feedVars
  PROVE  FeedInv'
<1>1. FeedTypeOK'  BY TypeNext DEF FeedInv
<1>2. Timers' /\ NothingFromTheFuture' /\ Wanted' /\ Ordered' /\ DoneIsShown' /\ NothingComesBack'
  <2> USE DEF FeedInv
  <2>1. CASE SwitchOff
    <3>1. Survivors \subseteq requests /\ (Guarded => Survivors = {})
      BY SurvivorsAreRequests
    <3>2. /\ subject' = Off /\ requests' = Survivors /\ due' = FALSE /\ polling' = FALSE
          /\ done' = None /\ shown' = (IF Is("clearOff") THEN Nothing ELSE shown)
          /\ feed' = feed /\ version' = version /\ kept' = kept
      BY <2>1 DEF SwitchOff
    <3>3. Timers' /\ DoneIsShown'  BY <3>2 DEF Timers, DoneIsShown
    <3>4. NothingFromTheFuture'  BY <3>1, <3>2 DEF NothingFromTheFuture, FeedTypeOK, Versions, Nothing, None
    <3>5. Wanted' /\ Ordered'
      BY <3>1, <3>2 DEF Wanted, Ordered, InOrder, Guarded, Is
    <3>6. NothingComesBack'  BY <3>2 DEF NothingComesBack, Guarded, Is
    <3> QED  BY <3>3, <3>4, <3>5, <3>6
  <2>2. CASE Renew
    <3>1. subject \in Subjects  BY <2>2 DEF FeedTypeOK, Renew
    <3> QED  BY <2>2, <3>1, RerunInv DEF Renew
  <2>3. CASE Debounced
    <3>1. Timers' /\ DoneIsShown' /\ NothingFromTheFuture' /\ NothingComesBack'
      BY <2>3 DEF Debounced, Timers, DoneIsShown, NothingFromTheFuture, NothingComesBack, Guarded, Is,
                  Ask, FeedTypeOK, Versions, None
    <3>2. Wanted'  BY <2>3 DEF Debounced, Wanted, Guarded, Is, Ask
    <3>3. ~ InOrder'  BY <2>3 DEF Debounced, Timers, InOrder, Is
    <3> QED  BY <3>1, <3>2, <3>3 DEF Ordered
  <2>4. CASE Tick
    <3>1. shown' \in {shown, Nothing}  BY <2>4 DEF Tick
    <3>2. Timers' /\ DoneIsShown'  BY <2>4, <3>1 DEF Tick, Timers, DoneIsShown, Is
    <3>3. NothingFromTheFuture'
      BY <2>4, <3>1 DEF Tick, NothingFromTheFuture, Ask, FeedTypeOK, Versions, None, Nothing
    <3>4. Wanted'  BY <2>4 DEF Tick, Wanted, Guarded, Is, Ask
    <3>5. ~ InOrder'  BY <2>4 DEF Tick, Timers, InOrder, Is
    <3>6. NothingComesBack'  BY <2>4, <3>1 DEF Tick, NothingComesBack, Guarded, Is
    <3> QED  BY <3>2, <3>3, <3>4, <3>5, <3>6 DEF Ordered
  <2>5. CASE Publish
    <3>1. Timers' /\ DoneIsShown' /\ NothingComesBack' /\ Wanted' /\ Ordered'
      BY <2>5 DEF Publish, Timers, DoneIsShown, NothingComesBack, Wanted, Ordered, InOrder,
                  Guarded, Is
    <3>2. NothingFromTheFuture'
      <4>1. version \in Nat /\ version' = version + 1  BY <2>5 DEF Publish, FeedTypeOK, Versions
      <4>2. shown.at \in Nat  BY DEF FeedTypeOK, Versions, Nothing, None
      <4>3. \A r \in requests : r.at \in Nat  BY DEF FeedTypeOK, Request, Versions, None
      <4>4. \A s \in Subjects : kept[s] \in Nat  BY DEF FeedTypeOK, Versions, None
      <4> QED  BY <2>5, <4>1, <4>2, <4>3, <4>4 DEF Publish, NothingFromTheFuture
    <3> QED  BY <3>1, <3>2
  <2>6. ASSUME NEW s \in Subjects, SwitchOn(s)
        PROVE  Timers' /\ NothingFromTheFuture' /\ Wanted' /\ Ordered' /\ DoneIsShown' /\ NothingComesBack'
    <3>1. Guarded => requests = {}
      BY <2>6, SubjectsAssumption DEF SwitchOn, Wanted, FeedTypeOK, Request, Off
    <3> QED  BY <2>6, <3>1, AskedInv DEF SwitchOn
  <2>7. ASSUME NEW s \in Subjects, Turn(s)
        PROVE  Timers' /\ NothingFromTheFuture' /\ Wanted' /\ Ordered' /\ DoneIsShown' /\ NothingComesBack'
    <3>1. CASE Is("rerun")
      BY <2>7, <3>1, RerunInv DEF Turn
    <3>2. CASE ~ Is("rerun")
      <4>1. ~ Guarded'  BY <2>7, <3>2 DEF Turn, Guarded, Is
      <4>2. s # Off  BY SubjectsAssumption DEF Off
      <4>3. Timers' /\ NothingFromTheFuture' /\ DoneIsShown'
        BY <2>7, <3>2, <4>2 DEF Turn, Timers, NothingFromTheFuture, DoneIsShown, Is
      <4> QED  BY <4>1, <4>3 DEF Wanted, Ordered, InOrder, NothingComesBack
    <3> QED  BY <3>1, <3>2
  <2>8. ASSUME NEW s \in Subjects, KeptExpires(s)
        PROVE  Timers' /\ NothingFromTheFuture' /\ Wanted' /\ Ordered' /\ DoneIsShown' /\ NothingComesBack'
    <3>1. NothingFromTheFuture'
      BY <2>8 DEF KeptExpires, NothingFromTheFuture, FeedTypeOK, Versions, None
    <3> QED
      BY <2>8, <3>1 DEF KeptExpires, Timers, Wanted, Ordered, InOrder, Guarded, DoneIsShown,
                        NothingComesBack, Is
  <2>9. ASSUME NEW r \in requests, NEW q, q.of = r.of, q.at = r.at \/ q.at = version,
               requests' = (requests \ {r}) \cup {q},
               UNCHANGED <<feed, subject, version, shown, due, polling, done, kept>>
        PROVE  Timers' /\ NothingFromTheFuture' /\ Wanted' /\ Ordered' /\ DoneIsShown' /\ NothingComesBack'
    <3>1. \A p \in requests' : p \in requests \ {r} \/ p = q  BY <2>9
    <3>2. Timers' /\ DoneIsShown' /\ NothingComesBack'
      BY <2>9 DEF Timers, DoneIsShown, NothingComesBack, Guarded, Is
    <3>3. NothingFromTheFuture'  BY <2>9, <3>1 DEF NothingFromTheFuture, FeedTypeOK, Versions
    <3>4. Wanted'  BY <2>9, <3>1 DEF Wanted, Guarded, Is
    <3>5. Ordered'  BY <2>9, <3>1 DEF Ordered, InOrder, Guarded, Is, NothingFromTheFuture
    <3> QED  BY <3>2, <3>3, <3>4, <3>5
  <2>10. ASSUME NEW r \in requests, Read(r)
         PROVE  Timers' /\ NothingFromTheFuture' /\ Wanted' /\ Ordered' /\ DoneIsShown' /\ NothingComesBack'
    <3>1. r \in Request  BY DEF FeedTypeOK
    <3>2. [r EXCEPT !.at = version].of = r.of /\ [r EXCEPT !.at = version].at = version
      BY <3>1 DEF Request
    <3> QED  BY <2>9, <2>10, <3>2 DEF Read
  <2>11. ASSUME NEW r \in requests, Pass(r)
         PROVE  Timers' /\ NothingFromTheFuture' /\ Wanted' /\ Ordered' /\ DoneIsShown' /\ NothingComesBack'
    <3>1. r \in Request  BY DEF FeedTypeOK
    <3>2. [r EXCEPT !.passed = TRUE].of = r.of /\ [r EXCEPT !.passed = TRUE].at = r.at
      BY <3>1 DEF Request
    <3> QED  BY <2>9, <2>11, <3>2 DEF Pass
  <2>12. ASSUME NEW r \in requests, Answer(r)
         PROVE  Timers' /\ NothingFromTheFuture' /\ Wanted' /\ Ordered' /\ DoneIsShown' /\ NothingComesBack'
    <3>1. r.of \in Subjects /\ r.at \in Versions /\ r.at <= version
      BY <2>12 DEF FeedTypeOK, Request, Answer, NothingFromTheFuture
    <3>2. /\ requests' = requests \ {r} /\ shown' = [of |-> r.of, at |-> r.at]
          /\ done' = r.of /\ kept' = (IF Is("cached") THEN [kept EXCEPT ![r.of] = r.at]
                                      ELSE kept)
          /\ UNCHANGED <<feed, subject, version, due, polling>>
      BY <2>12 DEF Answer
    <3>3. Timers' /\ DoneIsShown'  BY <3>2 DEF Timers, DoneIsShown, Is
    <3>4. NothingFromTheFuture'  BY <3>1, <3>2 DEF NothingFromTheFuture, FeedTypeOK
    <3>5. Wanted'  BY <3>2 DEF Wanted, Guarded, Is
    <3>6. Ordered'
      <4>1. InOrder => requests' = {}  BY <3>2 DEF Ordered
      <4>2. InOrder' => InOrder  BY <3>2 DEF InOrder, Guarded, Is
      <4> QED  BY <4>1, <4>2 DEF Ordered
    <3>7. NothingComesBack'
      BY <3>1, <3>2, SubjectsAssumption DEF NothingComesBack, Wanted, Guarded, Is, Off
    <3> QED  BY <3>3, <3>4, <3>5, <3>6, <3>7
  <2>13. ASSUME NEW r \in requests, NEW how \in Fallback, Fail(r, how)
         PROVE  Timers' /\ NothingFromTheFuture' /\ Wanted' /\ Ordered' /\ DoneIsShown' /\ NothingComesBack'
    <3>1. /\ requests' = requests \ {r} /\ shown' \in {shown, Nothing}
          /\ UNCHANGED <<feed, subject, version, due, polling, done, kept>>
      BY <2>13 DEF Fail
    <3>2. Timers' /\ DoneIsShown' /\ Wanted' /\ NothingComesBack'
      BY <3>1 DEF Timers, DoneIsShown, Wanted, NothingComesBack, Guarded, Is
    <3>3. NothingFromTheFuture'  BY <3>1 DEF NothingFromTheFuture, FeedTypeOK, Versions, Nothing, None
    <3>4. Ordered'
      BY <3>1 DEF Ordered, InOrder, Guarded, Is
    <3> QED  BY <3>2, <3>3, <3>4
  <2>14. CASE UNCHANGED feedVars
    BY <2>14 DEF feedVars, Timers, NothingFromTheFuture, Wanted, Ordered, InOrder, Guarded, DoneIsShown,
                 NothingComesBack, Is
  <2> QED
    BY <2>1, <2>2, <2>3, <2>4, <2>5, <2>6, <2>7, <2>8, <2>10, <2>11, <2>12, <2>13, <2>14
       DEF FeedNext
<1> QED  BY <1>1, <1>2 DEF FeedInv

\* The invariant holds in every reachable state.
THEOREM FeedInvariance == FeedSpec => []FeedInv
<1>1. FeedInit => FeedInv  BY InvInit
<1>2. FeedInv /\ [FeedNext]_feedVars => FeedInv'  BY InvNext
<1> QED  BY <1>1, <1>2, PTL DEF FeedSpec

\* The variables keep their types, for every instance.
THEOREM TypeCorrect == FeedSpec => []FeedTypeOK
<1>1. FeedInv => FeedTypeOK  BY DEF FeedInv
<1> QED  BY <1>1, FeedInvariance, PTL

\* An answer that comes late never brings back, in a hook that looks after
\* its requests, what was switched off or turned away from.
THEOREM LateAnswersStayAway == FeedSpec => []NothingComesBack
<1>1. FeedInv => NothingComesBack  BY DEF FeedInv
<1> QED  BY <1>1, FeedInvariance, PTL

-----------------------------------------------------------------------------
(* Feed implements Screen.                                                 *)

\* The initial states are those of a screen.
LEMMA ScreenInit == FeedInit => S!Init
  BY DEF FeedInit, S!Init, Promise, Off, S!Off, Nothing, S!Nothing, None

\* The versions a screen may show.
LEMMA ShownVersion ==
  ASSUME FeedInv, NEW v \in Versions, v <= version
  PROVE  v \in 1..version
  BY DEF FeedInv, FeedTypeOK, Versions

\* An effect that asks is a turn of the screen to its subject.
LEMMA AskedIsTurn ==
  ASSUME FeedInv, NEW s \in Subjects, NEW old, Asked(s, old), subject' = s,
         UNCHANGED <<feed, version>>
  PROVE  S!Next
<1>1. Promise' = Promise  BY DEF Promise, InOrder, Guarded, Is
<1>2. CASE Is("cached") /\ kept[s] # None
  <2>1. Promise # "in order"  BY <1>2 DEF Promise, InOrder, Is
  <2>2. kept[s] \in 1..version
    BY <1>2, ShownVersion DEF FeedInv, FeedTypeOK, NothingFromTheFuture
  <2>3. shown' = [of |-> s, at |-> kept[s]]  BY <1>2 DEF Asked
  <2> QED  BY <1>1, <2>1, <2>2, <2>3 DEF S!Next, S!TurnToKept
<1>3. CASE ~ (Is("cached") /\ kept[s] # None)
  <2>1. shown' \in {shown, Nothing}  BY <1>3 DEF Asked
  <2> QED
    BY <1>1, <2>1 DEF S!Next, S!Turn, S!Nothing, S!Off, Nothing, Off, None
<1> QED  BY <1>2, <1>3

\* So is one that may return at once.
LEMMA RerunIsTurn ==
  ASSUME FeedInv, NEW s \in Subjects, Rerun(s), subject' = s, UNCHANGED <<feed, version>>
  PROVE  S!Next
<1>1. CASE Is("skips") /\ done = s
  <2>1. Promise' = Promise /\ shown' = shown
    BY <1>1 DEF Rerun, Promise, InOrder, Guarded, Is
  <2> QED  BY <2>1 DEF S!Next, S!Turn
<1>2. CASE ~ (Is("skips") /\ done = s)
  <2>1. Asked(s, Survivors)  BY <1>2 DEF Rerun
  <2> QED  BY <2>1, AskedIsTurn
<1> QED  BY <1>1, <1>2

\* Every step of a hook is a step of the screen, or none.
LEMMA ScreenNext ==
  ASSUME FeedInv, [FeedNext]_feedVars
  PROVE  [S!Next]_(S!vars)
<1> USE DEF S!vars
<1>1. feed' = feed => Promise' = Promise
  BY DEF Promise, InOrder, Guarded, Is
<1>2. CASE SwitchOff
  <2>1. subject' = Off /\ shown' \in {shown, Nothing} /\ feed' = feed /\ version' = version
    BY <1>2 DEF SwitchOff
  <2> QED  BY <1>1, <2>1 DEF S!Next, S!Turn, S!Nothing, S!Off, Nothing, Off, None
<1>3. CASE Renew
  <2>1. subject \in Subjects  BY <1>3 DEF FeedInv, FeedTypeOK, Renew
  <2> QED  BY <1>3, <2>1, RerunIsTurn DEF Renew
<1>4. CASE Debounced
  BY <1>1, <1>4 DEF Debounced
<1>5. CASE Tick
  <2>1. shown' \in {shown, Nothing} /\ UNCHANGED <<feed, subject, version>>
    BY <1>5 DEF Tick
  <2> QED  BY <1>1, <2>1 DEF S!Next, S!Blank, S!Nothing, S!Off, Nothing, Off, None
<1>6. CASE Publish
  BY <1>1, <1>6 DEF Publish, S!Next, S!Publish
<1>7. ASSUME NEW s \in Subjects, SwitchOn(s)
      PROVE  S!Next
  BY <1>7, AskedIsTurn DEF SwitchOn
<1>8. ASSUME NEW s \in Subjects, Turn(s)
      PROVE  S!Next
  <2>1. CASE Is("rerun")
    BY <1>8, <2>1, RerunIsTurn DEF Turn
  <2>2. CASE ~ Is("rerun")
    BY <1>1, <1>8, <2>2 DEF Turn, S!Next, S!Turn
  <2> QED  BY <2>1, <2>2
<1>9. ASSUME NEW s \in Subjects, KeptExpires(s)
      PROVE  UNCHANGED S!vars
  BY <1>1, <1>9 DEF KeptExpires
<1>10. ASSUME NEW r \in requests, Read(r) \/ Pass(r)
       PROVE  UNCHANGED S!vars
  BY <1>1, <1>10 DEF Read, Pass
<1>11. ASSUME NEW r \in requests, Answer(r)
       PROVE  S!Show
  <2>1. r.of \in Subjects /\ r.at \in Versions /\ r.at <= version
    BY <1>11 DEF FeedInv, FeedTypeOK, Request, Answer, NothingFromTheFuture
  <2>2. r.at \in 1..version  BY <2>1, ShownVersion
  <2>3. Promise # "any" => r.of = subject  BY DEF Promise, FeedInv, Wanted, InOrder
  <2>4. Promise = "in order" => shown.at <= r.at
    BY <1>11 DEF Promise, FeedInv, Ordered, Answer
  <2>5. shown' = [of |-> r.of, at |-> r.at] /\ UNCHANGED <<feed, subject, version>>
    BY <1>11 DEF Answer
  <2> QED  BY <1>1, <2>1, <2>2, <2>3, <2>4, <2>5 DEF S!Show
<1>12. ASSUME NEW r \in requests, NEW how \in Fallback, Fail(r, how)
       PROVE  [S!Next]_(S!vars)
  <2>1. shown' \in {shown, Nothing} /\ UNCHANGED <<feed, subject, version>>
    BY <1>12 DEF Fail
  <2> QED  BY <1>1, <2>1 DEF S!Next, S!Blank, S!Nothing, S!Off, Nothing, Off, None
<1>13. CASE UNCHANGED feedVars
  BY <1>1, <1>13 DEF feedVars
<1> QED
  BY <1>2, <1>3, <1>4, <1>5, <1>6, <1>7, <1>8, <1>9, <1>10, <1>11, <1>12, <1>13
     DEF FeedNext, S!Next

\* Every hook keeps the promise of a screen: what is shown was once said by
\* the server, about the subject and never going back where that is promised.
THEOREM Implements == FeedSpec => IsScreen
<1>1. FeedInit => S!Init  BY ScreenInit
<1>2. FeedInv /\ [FeedNext]_feedVars => [S!Next]_(S!vars)  BY ScreenNext
<1> QED  BY <1>1, <1>2, FeedInvariance, PTL DEF FeedSpec, IsScreen, S!Spec

-----------------------------------------------------------------------------
(***************************************************************************)
(* TrackStore: what it says of the tracks a page holds is so for all of    *)
(* them together: for every number of objects, areas, alerts and times.    *)
(***************************************************************************)


(* A uid the page knows of was announced, but for the ships of a snapshot. *)
KnownIsAnnounced == \A u \in Tracks : u \in known => u \in open \/ u \in Sea

(* Who is on the watchlist has been on it.                                 *)
WatchedIsExempt == watched \subseteq exempt

StoreInv ==
  /\ TypeOK
  /\ DistressIsAlerted /\ HeldIsAnnounced /\ TracksAreInArea
  /\ KnownIsAnnounced /\ WatchedIsExempt

-----------------------------------------------------------------------------
(* Types.                                                                  *)

\* What is held is a track.
LEMMA HeldIsTrack ==
  ASSUME TypeOK, NEW u \in Tracks, Held(u)
  PROVE  ent[u] \in Track
  BY DEF TypeOK, Held

\* Taking tracks off the map leaves the others as they were.
LEMMA GoneType ==
  ASSUME TypeOK, NEW us
  PROVE  /\ Gone(us) \in [Tracks -> Track \cup {NoTrack}]
         /\ \A u \in Tracks : Gone(us)[u] = IF u \in us THEN NoTrack ELSE ent[u]
  BY DEF TypeOK, Gone

\* What a report that is accepted makes of its track.
LEMMA AcceptedType ==
  ASSUME TypeOK, NEW r \in Report, Accept(r)
  PROVE  LET u == r.uid
             held == HeldTime(u) IN
         /\ u \in Tracks /\ held \in Times
         /\ ent' \in [Tracks -> Track \cup {NoTrack}]
         /\ \A v \in Tracks : v # u => ent'[v] = ent[v]
         /\ ent'[u].src = IF r.time > 0 THEN r.time ELSE held
         /\ ent'[u].place = r.place /\ ent'[u].said = r.said
         /\ ent'[u].listed = (r.listed \/ (Held(u) /\ ent[u].listed))
<1> DEFINE u == r.uid
           held == HeldTime(u)
           new == [src |-> IF r.time > 0 THEN r.time ELSE held, place |-> r.place,
                   said |-> r.said, age |-> 0, revived |-> FALSE,
                   listed |-> r.listed \/ (Held(u) /\ ent[u].listed)]
<1>1. /\ u \in Tracks /\ r.time \in Times /\ r.place \in Places
      /\ r.said \in Keys \cup {Calm} /\ r.listed \in BOOLEAN
  BY DEF Report
<1>2. held \in Times
  BY <1>1, HeldIsTrack, TimeAssumption DEF HeldTime, Track, Times
<1>3. (r.listed \/ (Held(u) /\ ent[u].listed)) \in BOOLEAN
  OBVIOUS
<1>4. new \in Track
  BY <1>1, <1>2, <1>3 DEF Track
<1>5. ent' = [ent EXCEPT ![u] = new]  BY DEF Accept
<1>6. ent \in [Tracks -> Track \cup {NoTrack}]  BY DEF TypeOK
<1>7. ent'[u] = new /\ \A v \in Tracks : v # u => ent'[v] = ent[v]
  BY <1>1, <1>5, <1>6
<1>8. ent' \in [Tracks -> Track \cup {NoTrack}]  BY <1>4, <1>5, <1>6
<1> QED  BY <1>1, <1>2, <1>7, <1>8
\* The initial state.
LEMMA InitIInv == Init => StoreInv
<1> SUFFICES ASSUME Init
             PROVE  StoreInv
  OBVIOUS
<1>1. \A u \in Tracks : ~Held(u)  BY DEF Init, Held
<1>2. /\ ent \in [Tracks -> Track \cup {NoTrack}]
      /\ sat \in [Sats -> 0..MaxTime + 1]
      /\ snap \in [Sea -> Track \cup {NoTrack}]
      /\ alerted \in [Tracks -> Keys \cup {Calm}]
  BY TimeAssumption DEF Init
<1>3. /\ effectDue \in BOOLEAN /\ onStream \in BOOLEAN /\ drawing \in BOOLEAN
      /\ pendingSnap \in BOOLEAN
  BY DEF Init
<1>4. /\ mission \in Missions \cup {NoMission} /\ chosen \in Missions \cup {NoMission}
      /\ known = {} /\ watched = {} /\ open = {} /\ exempt = {}
  BY DEF Init
<1>5. TypeOK  BY <1>2, <1>3, <1>4 DEF TypeOK
<1> QED
  BY <1>1, <1>4, <1>5
     DEF StoreInv, DistressIsAlerted, HeldIsAnnounced, TracksAreInArea, KnownIsAnnounced,
         WatchedIsExempt

-----------------------------------------------------------------------------
(* The steps.                                                              *)

\* A party that takes tracks off the map keeps the invariant as long as it
\* forgets what the page knows of no other track.
LEMMA RemovalNext ==
  ASSUME StoreInv, NEW us,
         ent' = Gone(us),
         known' \subseteq known,
         \A u \in Tracks : u \notin us /\ u \in known => u \in known',
         open' \subseteq Tracks,
         \A u \in Tracks : u \in open /\ u \notin open' => u \notin known' /\ u \in us,
         alerted' \in [Tracks -> Keys \cup {Calm}],
         \A u \in Tracks : u \notin us => alerted'[u] = alerted[u],
         mission' \in Missions \cup {NoMission}, chosen' \in Missions \cup {NoMission},
         effectDue' \in BOOLEAN,
         (mission' # NoMission /\ ~effectDue') =>
            Tracks \subseteq us \/ (mission' = mission /\ ~effectDue),
         UNCHANGED <<sat, onStream, drawing, watched, exempt, snap, pendingSnap>>
  PROVE  StoreInv'
<1> USE DEF StoreInv
<1>1. /\ ent' \in [Tracks -> Track \cup {NoTrack}]
      /\ \A u \in Tracks : ent'[u] = IF u \in us THEN NoTrack ELSE ent[u]
  BY GoneType
<1>2. \A u \in Tracks : Held(u)' => u \notin us /\ Held(u) /\ ent'[u] = ent[u]
  BY <1>1 DEF Held
<1>3. TypeOK'  BY <1>1 DEF TypeOK
<1>4. DistressIsAlerted'  BY <1>2 DEF DistressIsAlerted
<1>5. KnownIsAnnounced'  BY DEF KnownIsAnnounced
<1>6. HeldIsAnnounced'
  BY <1>2, <1>5 DEF HeldIsAnnounced, KnownIsAnnounced
<1>7. TracksAreInArea'
  BY <1>2 DEF TracksAreInArea
<1>8. WatchedIsExempt'  BY DEF WatchedIsExempt
<1> QED  BY <1>3, <1>4, <1>5, <1>6, <1>7, <1>8

\* The parties that do so.
LEMMA RemovalsNext ==
  ASSUME StoreInv,
         \/ \E r \in Report : Evict(r)
         \/ Frame \/ Maintenance \/ MissionEffect
         \/ \E m \in Missions : SetFocus(m)
  PROVE  StoreInv'
<1> USE DEF env
<1>0. TypeOK  BY DEF StoreInv
<1>1. ASSUME NEW r \in Report, Evict(r)
      PROVE  StoreInv'
  <2>1. r.uid \in Tracks  BY DEF Report
  <2>2. /\ ent' = Gone({r.uid})
        /\ known' = known \ {r.uid}
        /\ alerted' = [alerted EXCEPT ![r.uid] = Calm]
        /\ open' = open \ {r.uid}
        /\ UNCHANGED <<sat, env, snap, pendingSnap>>
    BY <1>1 DEF Evict
  <2>3. /\ alerted' \in [Tracks -> Keys \cup {Calm}]
        /\ \A u \in Tracks : u \notin {r.uid} => alerted'[u] = alerted[u]
    BY <1>0, <2>1, <2>2 DEF TypeOK
  <2>4. /\ mission' \in Missions \cup {NoMission} /\ chosen' \in Missions \cup {NoMission}
        /\ effectDue' \in BOOLEAN /\ open' \subseteq Tracks
    BY <1>0, <2>2 DEF TypeOK
  <2> QED  BY <2>2, <2>3, <2>4, RemovalNext
<1>2. CASE Frame
  <2> DEFINE lost == Aged(Tracks, 1)
  <2>2. /\ ent' = Gone(lost) /\ known' = known \ lost
        /\ alerted' = [u \in Tracks |-> IF u \in lost THEN Calm ELSE alerted[u]]
        /\ open' = open \ lost
        /\ UNCHANGED <<sat, env, snap, pendingSnap>>
    BY <1>2 DEF Frame
  <2>3. /\ alerted' \in [Tracks -> Keys \cup {Calm}]
        /\ \A u \in Tracks : u \notin lost => alerted'[u] = alerted[u]
    BY <1>0, <2>2 DEF TypeOK
  <2>4. /\ mission' \in Missions \cup {NoMission} /\ chosen' \in Missions \cup {NoMission}
        /\ effectDue' \in BOOLEAN /\ open' \subseteq Tracks
    BY <1>0, <2>2 DEF TypeOK
  <2> HIDE DEF lost
  <2> QED  BY <2>2, <2>3, <2>4, RemovalNext
<1>3. CASE Maintenance
  <2> DEFINE stale == Aged(Tracks, IF onStream THEN 1 ELSE 2)
  <2>1. /\ ent' = Gone(stale) /\ known' = known \ stale
        /\ UNCHANGED <<sat, alerted, env, snap, pendingSnap, open>>
    BY <1>3 DEF Maintenance
  <2>2. /\ mission' \in Missions \cup {NoMission} /\ chosen' \in Missions \cup {NoMission}
        /\ effectDue' \in BOOLEAN /\ open' \subseteq Tracks
        /\ alerted' \in [Tracks -> Keys \cup {Calm}]
    BY <1>0, <2>1 DEF TypeOK
  <2> HIDE DEF stale
  <2> QED  BY <2>1, <2>2, RemovalNext
<1>4. CASE MissionEffect
  <2>1. /\ effectDue' = FALSE /\ mission' = chosen
        /\ ent' = Gone(Tracks) /\ known' = {}
        /\ UNCHANGED <<sat, alerted, chosen, onStream, drawing, watched,
                       exempt, snap, pendingSnap, open>>
    BY <1>4 DEF MissionEffect
  <2>2. /\ mission' \in Missions \cup {NoMission} /\ chosen' \in Missions \cup {NoMission}
        /\ open' \subseteq Tracks /\ alerted' \in [Tracks -> Keys \cup {Calm}]
    BY <1>0, <2>1 DEF TypeOK
  <2> QED  BY <2>1, <2>2, RemovalNext
<1>5. ASSUME NEW m \in Missions, SetFocus(m)
      PROVE  StoreInv'
  <2>1. /\ chosen' = m /\ effectDue' = TRUE /\ ent' = Gone(Tracks)
        /\ UNCHANGED <<sat, known, alerted, mission, onStream, drawing,
                       watched, exempt, snap, pendingSnap, open>>
    BY <1>5 DEF SetFocus
  <2>2. /\ mission' \in Missions \cup {NoMission} /\ chosen' \in Missions \cup {NoMission}
        /\ open' \subseteq Tracks /\ alerted' \in [Tracks -> Keys \cup {Calm}]
    BY <1>0, <2>1 DEF TypeOK
  <2> QED  BY <2>1, <2>2, RemovalNext
<1> QED  BY <1>1, <1>2, <1>3, <1>4, <1>5

\* A report that is accepted is announced, alerted of and in the area.
LEMMA AcceptNext ==
  ASSUME StoreInv, NEW r \in Report, Accept(r)
  PROVE  StoreInv'
<1> USE DEF StoreInv, env
<1> DEFINE u == r.uid
<1>1. /\ u \in Tracks
      /\ ent' \in [Tracks -> Track \cup {NoTrack}]
      /\ \A v \in Tracks : v # u => ent'[v] = ent[v]
      /\ ent'[u].place = r.place /\ ent'[u].said = r.said
      /\ ent'[u].listed = (r.listed \/ (Held(u) /\ ent[u].listed))
  BY AcceptedType
<1>2. /\ ~OutOfRange(r)
      /\ known' = known \cup {u} /\ open' = OpenAfter(u)
      /\ alerted' = [alerted EXCEPT ![u] = AlertAfter(u, r.said)]
      /\ UNCHANGED <<sat, env, snap>>
  BY DEF Accept
<1>3. pendingSnap' \in BOOLEAN
  <2>1. pendingSnap' \in {pendingSnap, TRUE}
    <3>1. CASE u \in Sea  BY <3>1 DEF Accept
    <3>2. CASE u \notin Sea  BY <3>2 DEF Accept
    <3> QED  BY <3>1, <3>2
  <2> QED  BY <2>1 DEF TypeOK
<1>4. /\ AlertAfter(u, r.said) \in Keys \cup {Calm}
      /\ r.said \in Keys => AlertAfter(u, r.said) = r.said
  BY DEF AlertAfter, Report
<1>5. /\ alerted' \in [Tracks -> Keys \cup {Calm}]
      /\ alerted'[u] = AlertAfter(u, r.said)
      /\ \A v \in Tracks : v # u => alerted'[v] = alerted[v]
  BY <1>1, <1>2, <1>4 DEF TypeOK
<1>6. /\ open \subseteq open' /\ open' \subseteq Tracks
      /\ u \in open' \/ u \in Sea
  <2>1. open' = open \/ open' = open \cup {u}  BY <1>2 DEF OpenAfter
  <2>2. Fresh(u) => u \in open'  BY <1>2 DEF OpenAfter
  <2>3. ~Fresh(u) => u \in open \/ u \in Sea
    BY <1>1 DEF Fresh, HeldIsAnnounced, KnownIsAnnounced
  <2> QED  BY <1>1, <2>1, <2>2, <2>3 DEF TypeOK
<1>7. known' \subseteq Tracks \cup Sats  BY <1>1, <1>2 DEF TypeOK
<1>8. TypeOK'  BY <1>1, <1>2, <1>3, <1>5, <1>6, <1>7 DEF TypeOK
<1>9. \A v \in Tracks : v # u /\ Held(v)' => Held(v)
  BY <1>1 DEF Held
<1>10. DistressIsAlerted'
  BY <1>1, <1>4, <1>5, <1>9 DEF DistressIsAlerted
<1>11. KnownIsAnnounced' /\ HeldIsAnnounced'
  BY <1>2, <1>6, <1>9 DEF KnownIsAnnounced, HeldIsAnnounced
<1>12. TracksAreInArea'
  <2> SUFFICES ASSUME mission' # NoMission, ~effectDue', NEW v \in Tracks, Held(v)',
                      ~ent'[v].listed, ~ent'[v].revived, v \notin exempt'
               PROVE  ent'[v].place \in Covers[mission']
    BY DEF TracksAreInArea
  <2>1. CASE v # u
    BY <1>1, <1>2, <1>9, <2>1 DEF TracksAreInArea
  <2>2. CASE v = u
    <3>1. ~r.listed /\ ~(Held(u) /\ ent[u].listed) /\ u \notin watched
      BY <1>1, <1>2, <2>2 DEF WatchedIsExempt
    <3> QED  BY <1>1, <1>2, <2>2, <3>1 DEF OutOfRange
  <2> QED  BY <2>1, <2>2
<1>13. WatchedIsExempt'  BY <1>2 DEF WatchedIsExempt
<1> QED  BY <1>8, <1>10, <1>11, <1>12, <1>13

\* A track grows older, and nothing else changes.
LEMMA AgesNext ==
  ASSUME StoreInv, NEW u \in Tracks, Ages(u)
  PROVE  StoreInv'
<1> USE DEF StoreInv, env
<1>1. /\ ent[u] \in Track /\ ent[u].age < 2
      /\ ent' = [ent EXCEPT ![u].age = @ + 1]
      /\ UNCHANGED <<sat, known, alerted, env, snap, pendingSnap, open>>
  BY HeldIsTrack DEF Ages
<1>2. /\ [ent[u] EXCEPT !.age = @ + 1] \in Track
      /\ ent' = [ent EXCEPT ![u] = [ent[u] EXCEPT !.age = @ + 1]]
  BY <1>1 DEF Track
<1>3. /\ ent' \in [Tracks -> Track \cup {NoTrack}]
      /\ \A v \in Tracks : v # u => ent'[v] = ent[v]
      /\ ent'[u] = [ent[u] EXCEPT !.age = @ + 1]
  BY <1>2 DEF TypeOK
<1>4. \A v \in Tracks :
        /\ Held(v)' => Held(v)
        /\ Held(v) => /\ ent'[v].said = ent[v].said /\ ent'[v].listed = ent[v].listed
                      /\ ent'[v].revived = ent[v].revived
                      /\ ent'[v].place = ent[v].place
  BY <1>1, <1>3 DEF Held, Ages, Track
<1>5. TypeOK'  BY <1>1, <1>3 DEF TypeOK
<1> QED
  BY <1>1, <1>4, <1>5 DEF DistressIsAlerted, HeldIsAnnounced, TracksAreInArea,
                          KnownIsAnnounced, WatchedIsExempt

\* A track of the snapshot comes back as one.
LEMMA RevivedType ==
  ASSUME NEW s \in Track
  PROVE  LET b == [s EXCEPT !.age = 0, !.revived = TRUE, !.listed = FALSE] IN
         b \in Track /\ b.revived
<1> DEFINE a == [s EXCEPT !.age = 0]
           b == [a EXCEPT !.revived = TRUE]
           c == [b EXCEPT !.listed = FALSE]
<1>1. a \in Track  BY DEF Track
<1>2. b \in Track /\ b.revived  BY <1>1 DEF Track
<1>3. c \in Track /\ c.revived  BY <1>2 DEF Track
<1> QED  BY <1>3

\* A reload keeps the ships of the snapshot, as known and as revived.
LEMMA ReloadNext ==
  ASSUME StoreInv, Reload
  PROVE  StoreInv'
<1> USE DEF StoreInv
<1> DEFINE back == {u \in Sea : snap[u] # NoTrack}
           Back(u) == [snap[u] EXCEPT !.age = 0, !.revived = TRUE, !.listed = FALSE]
<1>1. /\ ent' = [u \in Tracks |-> IF u \in back THEN Back(u) ELSE NoTrack]
      /\ known' = back /\ sat' = [u \in Sats |-> 0]
      /\ alerted' = [u \in Tracks |-> Calm]
      /\ onStream' = TRUE /\ watched' = {}
      /\ chosen' = NoMission /\ mission' = NoMission /\ effectDue' = FALSE
      /\ pendingSnap' = FALSE /\ open' = {} /\ exempt' = {}
      /\ UNCHANGED <<drawing, snap>>
  BY DEF Reload
<1>2. \A u \in back : snap[u] \in Track  BY DEF TypeOK
<1>3. \A u \in back : Back(u) \in Track /\ Back(u).revived
  BY <1>2, RevivedType
<1> HIDE DEF Back
<1>4. ent' \in [Tracks -> Track \cup {NoTrack}]
  BY <1>1, <1>3
<1>5. \A u \in Tracks : Held(u)' => u \in back /\ ent'[u].revived
  BY <1>1, <1>3 DEF Held
<1>6. /\ sat' \in [Sats -> 0..MaxTime + 1] /\ alerted' \in [Tracks -> Keys \cup {Calm}]
      /\ known' \subseteq Tracks \cup Sats
  BY <1>1, TimeAssumption DEF Tracks
<1>7. /\ onStream' \in BOOLEAN /\ effectDue' \in BOOLEAN /\ pendingSnap' \in BOOLEAN
      /\ drawing' \in BOOLEAN
  BY <1>1 DEF TypeOK
<1>8. snap' \in [Sea -> Track \cup {NoTrack}]
  BY <1>1 DEF TypeOK
<1>9. TypeOK'  BY <1>1, <1>4, <1>6, <1>7, <1>8 DEF TypeOK
<1>10. back \subseteq Sea  OBVIOUS
<1> HIDE DEF back
<1>11. DistressIsAlerted' /\ TracksAreInArea'
  BY <1>5 DEF DistressIsAlerted, TracksAreInArea
<1>12. HeldIsAnnounced' /\ KnownIsAnnounced' /\ WatchedIsExempt'
  BY <1>1, <1>5, <1>10 DEF HeldIsAnnounced, KnownIsAnnounced, WatchedIsExempt
<1> QED  BY <1>9, <1>11, <1>12

\* The reports of satellites, the snapshot and the surroundings leave the
\* tracks alone.
LEMMA RestNext ==
  ASSUME StoreInv,
         \/ \E u \in Sats, t \in Times : SatReport(u, t)
         \/ \E m \in Missions : Poll(m)
         \/ WriteSnapshot \/ SnapshotExpires \/ StreamState \/ Drawing \/ Watchlist
         \/ UNCHANGED vars
  PROVE  StoreInv'
<1> USE DEF StoreInv, env
<1>1. ASSUME TypeOK', UNCHANGED <<ent, alerted, open>>,
             \A u \in Tracks : u \in known' <=> u \in known,
             exempt \subseteq exempt', watched' \subseteq exempt',
             (mission' # NoMission /\ ~effectDue') => mission' = mission /\ ~effectDue
      PROVE  StoreInv'
  BY <1>1 DEF DistressIsAlerted, HeldIsAnnounced, TracksAreInArea, KnownIsAnnounced,
              WatchedIsExempt, Held
<1>2. ASSUME NEW u \in Sats, NEW t \in Times, SatReport(u, t)
      PROVE  StoreInv'
  <2>1. /\ sat' = [sat EXCEPT ![u] = IF t > 0 THEN t + 1 ELSE IF @ > 0 THEN @ ELSE 1]
        /\ known' = known \cup {u}
        /\ UNCHANGED <<ent, alerted, env, snap, pendingSnap, open>>
    BY <1>2 DEF SatReport
  <2>2. sat' \in [Sats -> 0..MaxTime + 1]
    BY <2>1, TimeAssumption DEF TypeOK, Times
  <2>3. TypeOK'  BY <2>1, <2>2 DEF TypeOK
  <2>4. u \notin Tracks  BY KindsAssumption DEF Tracks
  <2> QED  BY <1>1, <2>1, <2>3, <2>4 DEF WatchedIsExempt
<1>3. ASSUME NEW m \in Missions, Poll(m)
      PROVE  StoreInv'
  <2>1. /\ chosen' = m /\ effectDue' = TRUE
        /\ UNCHANGED <<ent, sat, known, alerted, mission, onStream, drawing, watched,
                       exempt, snap, pendingSnap, open>>
    BY <1>3 DEF Poll
  <2>2. TypeOK'  BY <2>1 DEF TypeOK
  <2> QED  BY <1>1, <2>1, <2>2 DEF WatchedIsExempt
<1>4. CASE WriteSnapshot \/ SnapshotExpires
  <2>1. /\ snap' \in [Sea -> Track \cup {NoTrack}] /\ pendingSnap' \in BOOLEAN
        /\ UNCHANGED <<ent, sat, known, alerted, env, open>>
    BY <1>4 DEF WriteSnapshot, SnapshotExpires, TypeOK, Tracks
  <2>2. TypeOK'  BY <2>1 DEF TypeOK
  <2> QED  BY <1>1, <2>1, <2>2 DEF WatchedIsExempt
<1>5. CASE StreamState \/ Drawing
  <2>1. /\ onStream' \in BOOLEAN /\ drawing' \in BOOLEAN
        /\ UNCHANGED <<ent, sat, known, alerted, mission, chosen, effectDue, watched,
                       exempt, snap, pendingSnap, open>>
    BY <1>5 DEF StreamState, Drawing, TypeOK
  <2>2. TypeOK'  BY <2>1 DEF TypeOK
  <2> QED  BY <1>1, <2>1, <2>2 DEF WatchedIsExempt
<1>6. CASE Watchlist
  <2>1. /\ watched' \in SUBSET Air /\ exempt' = exempt \cup watched'
        /\ UNCHANGED <<ent, sat, known, alerted, mission, chosen, effectDue, onStream, drawing,
                       snap, pendingSnap, open>>
    BY <1>6 DEF Watchlist
  <2>2. TypeOK'  BY <2>1 DEF TypeOK
  <2> QED  BY <1>1, <2>1, <2>2
<1>7. CASE UNCHANGED vars
  <2>1. TypeOK'  BY <1>7 DEF TypeOK, vars
  <2> QED  BY <1>1, <1>7, <2>1 DEF WatchedIsExempt, vars
<1> QED  BY <1>2, <1>3, <1>4, <1>5, <1>6, <1>7

\* Every step keeps the invariant.
LEMMA IInvNext ==
  ASSUME StoreInv, [Next]_vars
  PROVE  StoreInv'
<1>1. CASE \E r \in Report : Accept(r)  BY <1>1, AcceptNext
<1>2. CASE \/ \E r \in Report : Evict(r)
           \/ Frame \/ Maintenance \/ MissionEffect
           \/ \E m \in Missions : SetFocus(m)
  BY <1>2, RemovalsNext
<1>3. CASE \E u \in Tracks : Ages(u)  BY <1>3, AgesNext
<1>4. CASE Reload  BY <1>4, ReloadNext
<1>5. CASE \/ \E u \in Sats, t \in Times : SatReport(u, t)
           \/ \E m \in Missions : Poll(m)
           \/ WriteSnapshot \/ SnapshotExpires \/ StreamState \/ Drawing \/ Watchlist
           \/ UNCHANGED vars
  BY <1>5, RestNext
<1> QED  BY <1>1, <1>2, <1>3, <1>4, <1>5 DEF Next
-----------------------------------------------------------------------------
(* Time goes forward.                                                      *)

\* No step makes what is held of an object older, except a reload.
LEMMA ForwardNext ==
  ASSUME TypeOK, [Next]_vars
  PROVE  /\ \A u \in Tracks : Held(u) /\ Held(u)' =>
              ent'[u].src >= ent[u].src \/ ent'[u].revived
         /\ \A u \in Sats : sat[u] > 0 /\ sat'[u] > 0 => sat'[u] >= sat[u]
<1> DEFINE Forward ==
      /\ \A u \in Tracks : Held(u) /\ Held(u)' =>
           ent'[u].src >= ent[u].src \/ ent'[u].revived
      /\ \A u \in Sats : sat[u] > 0 /\ sat'[u] > 0 => sat'[u] >= sat[u]
<1>1. /\ \A u \in Tracks : Held(u) => ent[u] \in Track /\ ent[u].src \in Nat
      /\ \A u \in Sats : sat[u] \in Nat
  BY HeldIsTrack, TimeAssumption DEF TypeOK, Track, Times
<1>2. ASSUME NEW us, ent' = Gone(us), UNCHANGED sat
      PROVE  Forward
  BY <1>1, <1>2, GoneType DEF Held
<1>3. ASSUME UNCHANGED <<ent, sat>>
      PROVE  Forward
  BY <1>1, <1>3 DEF Held
<1>4. ASSUME NEW r \in Report, Accept(r)
      PROVE  Forward
  <2> DEFINE u == r.uid
             held == HeldTime(u)
  <2>1. /\ u \in Tracks /\ r.time \in Nat
        /\ \A v \in Tracks : v # u => ent'[v] = ent[v]
        /\ ent'[u].src = IF r.time > 0 THEN r.time ELSE held
    BY <1>4, AcceptedType, TimeAssumption DEF Report, Times
  <2>2. ~Stale(held, r.time) /\ UNCHANGED sat  BY <1>4 DEF Accept
  <2>3. Held(u) => held = ent[u].src /\ held \in Nat  BY <1>1, <2>1 DEF HeldTime
  <2>4. Held(u) => ent'[u].src >= ent[u].src
    BY <2>1, <2>2, <2>3 DEF Stale
  <2> QED  BY <1>1, <2>1, <2>2, <2>4 DEF Held
<1>5. ASSUME NEW u \in Sats, NEW t \in Times, SatReport(u, t)
      PROVE  Forward
  <2>1. /\ sat[u] > 0 => ~Stale(sat[u] - 1, t)
        /\ sat' = [sat EXCEPT ![u] = IF t > 0 THEN t + 1 ELSE IF @ > 0 THEN @ ELSE 1]
        /\ UNCHANGED ent
    BY <1>5 DEF SatReport
  <2>2. sat'[u] = (IF t > 0 THEN t + 1 ELSE IF sat[u] > 0 THEN sat[u] ELSE 1)
        /\ \A v \in Sats : v # u => sat'[v] = sat[v]
    BY <2>1 DEF TypeOK
  <2>3. t \in Nat  BY TimeAssumption DEF Times
  <2>4. sat[u] > 0 => sat'[u] >= sat[u]
    BY <1>1, <2>1, <2>2, <2>3 DEF Stale
  <2> QED  BY <1>1, <2>1, <2>2, <2>4 DEF Held
<1>6. ASSUME NEW u \in Tracks, Ages(u)
      PROVE  Forward
  <2>1. ent[u] \in Track /\ UNCHANGED sat  BY <1>1, <1>6 DEF Ages
  <2>2. ent' = [ent EXCEPT ![u] = [ent[u] EXCEPT !.age = @ + 1]]
    BY <1>6 DEF Ages
  <2>3. /\ ent'[u].src = ent[u].src
        /\ \A v \in Tracks : v # u => ent'[v] = ent[v]
    BY <2>1, <2>2 DEF TypeOK, Track
  <2> QED  BY <1>1, <2>1, <2>3 DEF Held
<1>7. CASE Reload
  <2>1. /\ \A u \in Tracks : Held(u)' => ent'[u].revived
        /\ \A u \in Sats : sat'[u] = 0
    <3>1. \A u \in Tracks : Held(u)' =>
            u \in Sea /\ snap[u] \in Track
            /\ ent'[u] = [snap[u] EXCEPT !.age = 0, !.revived = TRUE, !.listed = FALSE]
      BY <1>7 DEF Reload, Held, TypeOK
    <3>2. \A u \in Sats : sat'[u] = 0  BY <1>7 DEF Reload
    <3> QED  BY <3>1, <3>2, RevivedType
  <2> QED  BY <2>1
<1>8. ASSUME \/ \E r \in Report : Evict(r)
             \/ Frame \/ Maintenance \/ MissionEffect
             \/ \E m \in Missions : SetFocus(m)
      PROVE  (\E us \in SUBSET Tracks : ent' = Gone(us)) /\ UNCHANGED sat
  <2>1. Aged(Tracks, 1) \in SUBSET Tracks
        /\ Aged(Tracks, IF onStream THEN 1 ELSE 2) \in SUBSET Tracks
    BY DEF Aged
  <2>2. \A r \in Report : {r.uid} \in SUBSET Tracks  BY DEF Report
  <2>3. Tracks \in SUBSET Tracks  OBVIOUS
  <2>4. CASE \E r \in Report : Evict(r)  BY <2>2, <2>4 DEF Evict
  <2>5. CASE Frame  BY <2>1, <2>5 DEF Frame
  <2>6. CASE Maintenance  BY <2>1, <2>6 DEF Maintenance
  <2>7. CASE MissionEffect \/ \E m \in Missions : SetFocus(m)
    BY <2>3, <2>7 DEF MissionEffect, SetFocus
  <2> QED  BY <1>8, <2>4, <2>5, <2>6, <2>7
<1>9. ASSUME \/ \E m \in Missions : Poll(m)
             \/ WriteSnapshot \/ SnapshotExpires \/ StreamState \/ Drawing \/ Watchlist
             \/ UNCHANGED vars
      PROVE  UNCHANGED <<ent, sat>>
  BY <1>9 DEF Poll, WriteSnapshot, SnapshotExpires, StreamState, Drawing, Watchlist, vars
<1> QED
  BY <1>2, <1>3, <1>4, <1>5, <1>6, <1>7, <1>8, <1>9 DEF Next

-----------------------------------------------------------------------------
(* The theorems.                                                           *)

\* The tracks held, what is known of them and what they were alerted of agree
\* after every callback (useEntityWorker.ts, useAnimationLoop.ts).
THEOREM StoreInvariance == Spec => []StoreInv
  BY InitIInv, IInvNext, PTL DEF Spec

\* The tracks held are of the mission area, announced, and alerted of when
\* they say distress, whichever of the parties removed them before
\* (EntityFilterEngine.ts, useEntityWorker.ts, App.tsx).
THEOREM TracksCorrect == Spec => []TracksAreTruthful
<1>1. StoreInv => TracksAreTruthful  BY DEF StoreInv, TracksAreTruthful
<1> QED  BY StoreInvariance, <1>1, PTL

\* What is shown of an object never goes back in time, in whatever order its
\* reports arrive (useEntityWorker.ts).
THEOREM ForwardCorrect == Spec => NeverBack
<1>1. ASSUME StoreInv, [Next]_vars
      PROVE  [/\ \A u \in Tracks : Held(u) /\ Held(u)' =>
                   ent'[u].src >= ent[u].src \/ ent'[u].revived
              /\ \A u \in Sats : sat[u] > 0 /\ sat'[u] > 0 => sat'[u] >= sat[u]]_<<ent, sat>>
  BY <1>1, ForwardNext DEF StoreInv
<1> QED  BY StoreInvariance, <1>1, PTL DEF Spec, NeverBack

\* A track that was in a distress and still is stays under its alert
\* (alerts/, useEntityWorker.ts).
THEOREM AlertsStand == Spec => AlertStands
<1>1. ASSUME StoreInv, StoreInv', [Next]_vars
      PROVE  [\A u \in Tracks :
                Held(u) /\ Held(u)' /\ ent[u].said \in Keys /\ ent'[u].said = ent[u].said
                  => alerted'[u] = alerted[u] \/ ent[u].revived \/ ent'[u].revived]_<<ent, alerted>>
  BY <1>1 DEF StoreInv, DistressIsAlerted
<1> QED  BY StoreInvariance, <1>1, PTL DEF Spec, AlertStands
-----------------------------------------------------------------------------
(***************************************************************************)
(* MapPicking: what each guess of a type comes to, the invariant of the    *)
(* pointer and of the selection, and what is shown of both.                *)
(***************************************************************************)

(* The k-th entry of a list of guesses is the first one that applies.      *)
Finds(order, marks, k) ==
  /\ k \in DOMAIN order /\ order[k][2] \cap marks # {}
  /\ \A j \in 1..(k - 1) : order[j][2] \cap marks = {}

LEMMA FirstHit ==
  ASSUME NEW order, NEW n \in Nat, DOMAIN order = 1..n, NEW marks, NEW other,
         NEW k, Finds(order, marks, k)
  PROVE  FirstOf(order, marks, other) = order[k][1]
<1> USE DEF Finds
<1> DEFINE hits == {i \in DOMAIN order : order[i][2] \cap marks # {}}
<1>1. k \in hits /\ \A j \in hits : k <= j  OBVIOUS
<1>2. \A i \in hits : (\A j \in hits : i <= j) => i = k  BY <1>1
<1>3. (CHOOSE i \in hits : \A j \in hits : i <= j) = k  BY <1>1, <1>2
<1> QED  BY <1>1, <1>3 DEF FirstOf

LEMMA NoHit ==
  ASSUME NEW order, NEW marks, NEW other,
         \A j \in DOMAIN order : order[j][2] \cap marks = {}
  PROVE  FirstOf(order, marks, other) = other
BY DEF FirstOf

(* What follows goes through the lists entry by entry.                     *)
LEMMA UpTo9 ==
  \A j \in 1..9 :
    \/ j = 1 \/ j = 2 \/ j = 3 \/ j = 4 \/ j = 5 \/ j = 6 \/ j = 7 \/ j = 8
    \/ j = 9
OBVIOUS

LEMMA UpTo22 ==
  \A j \in 1..22 :
    \/ j = 1 \/ j = 2 \/ j = 3 \/ j = 4 \/ j = 5 \/ j = 6 \/ j = 7 \/ j = 8
    \/ j = 9 \/ j = 10 \/ j = 11 \/ j = 12 \/ j = 13 \/ j = 14 \/ j = 15 \/ j = 16
    \/ j = 17 \/ j = 18 \/ j = 19 \/ j = 20 \/ j = 21 \/ j = 22
OBVIOUS

LEMMA MarksAre ==
  /\ Marks("tower") = TowerMarks /\ Marks("nws_alert") = NwsMarks
  /\ Marks("outage") = OutageMarks /\ Marks("buoy") = BuoyMarks /\ Marks("iss") = IssMarks
  /\ Marks("dns") = DnsMarks /\ Marks("airspace") = AirspaceMarks
  /\ Marks("dark_vessel") = DarkMarks /\ Marks("firms_hotspot") = FirmsMarks
  /\ Marks("ixp") = IxpMarks /\ Marks("facility") = FacilityMarks
  /\ \A t : t \notin DOMAIN MarksOf => Marks(t) = {}
BY DEF Marks, MarksOf

LEMMA NoMarks == \A t \in EntityThings \cup {"cable", "landing"} : Marks(t) = {}
BY MarksAre DEF MarksOf, EntityThings, TrackThings, Cluster, Jamming, Hold, Gdelt, Clausal, RadioSite,
            JS8Station, Ground

LEMMA SignsAre ==
  /\ TypeSign("tower") = "type_tower" /\ TypeSign("buoy") = "type_buoy"
  /\ TypeSign("iss") = "type_iss" /\ TypeSign("nws_alert") = "type_nws_alert"
  /\ TypeSign("infra") = "type_infra" /\ TypeSign("outage") = "type_outage"
  /\ TypeSign("airspace") = "type_airspace"
  /\ TypeSign("firms_hotspot") = "type_firms_hotspot"
  /\ TypeSign("dark_vessel") = "type_dark_vessel"
  /\ \A as : as \notin DOMAIN SignOf => TypeSign(as) = as
BY DEF TypeSign, SignOf

(* The type the tactical map says an infra thing has, on hover and on     *)
(* click alike, though it guesses by different marks.                      *)
SaidOf(t) == IF t \in {"dns", "ixp", "facility", "cable", "landing"} THEN "infra" ELSE t

(* What the card of the tooltip and InfraView are guessed from.            *)
InfraSigns(t) == {TypeSign(SaidOf(t))} \cup Marks(t)

LEMMA SaidSigns ==
  /\ InfraSigns("tower") = {"type_tower", "fcc_id", "tower", "status"}
  /\ InfraSigns("nws_alert") = {"type_nws_alert", "event", "severity"}
  /\ InfraSigns("outage") = {"type_outage", "outage", "severity"}
  /\ InfraSigns("buoy") = {"type_buoy", "buoy_id"}
  /\ InfraSigns("iss") = {"type_iss", "iss"}
  /\ InfraSigns("dns") = {"type_infra", "letter", "ip"}
  /\ InfraSigns("airspace") = {"type_airspace", "zone_id"}
  /\ InfraSigns("dark_vessel") = {"type_dark_vessel", "dark", "risk_severity"}
  /\ InfraSigns("firms_hotspot") = {"type_firms_hotspot", "firms"}
  /\ InfraSigns("ixp") = {"type_infra", "layer_ixp"}
  /\ InfraSigns("facility") = {"type_infra", "layer_facility"}
  /\ InfraSigns("cable") = {"type_infra"}
  /\ InfraSigns("landing") = InfraSigns("cable")
BY SignsAre, MarksAre, NoMarks
  DEF SaidOf, InfraSigns, TowerMarks, NwsMarks, OutageMarks, BuoyMarks, IssMarks, DnsMarks,
      AirspaceMarks, DarkMarks, FirmsMarks, IxpMarks, FacilityMarks

(* One step per thing: which entry of the list finds it.                   *)
LEMMA HoverTypes ==
  \A t \in InfraThings : FirstOf(HoverOrder, Marks(t), "infra") = SaidOf(t)
<1>1. DOMAIN HoverOrder = 1..9  BY DEF HoverOrder
<1>2. /\ HoverOrder[1][1] = "buoy" /\ HoverOrder[2][1] = "tower"
      /\ HoverOrder[3][1] = "nws_alert" /\ HoverOrder[4][1] = "outage"
      /\ HoverOrder[5][1] = "iss" /\ HoverOrder[6][1] = "infra"
      /\ HoverOrder[7][1] = "airspace" /\ HoverOrder[8][1] = "dark_vessel"
      /\ HoverOrder[9][1] = "firms_hotspot"
  BY DEF HoverOrder
<1>3. ASSUME NEW marks, NEW k, Finds(HoverOrder, marks, k)
      PROVE  FirstOf(HoverOrder, marks, "infra") = HoverOrder[k][1]
  BY 9 \in Nat, <1>1, <1>3, FirstHit
<1>4. Finds(HoverOrder, TowerMarks, 2)
  BY <1>1, UpTo9 DEF Finds, HoverOrder, TowerMarks
<1>5. Finds(HoverOrder, NwsMarks, 3)
  BY <1>1, UpTo9 DEF Finds, HoverOrder, NwsMarks
<1>6. Finds(HoverOrder, OutageMarks, 4)
  BY <1>1, UpTo9 DEF Finds, HoverOrder, OutageMarks
<1>7. Finds(HoverOrder, BuoyMarks, 1)
  BY <1>1, UpTo9 DEF Finds, HoverOrder, BuoyMarks
<1>8. Finds(HoverOrder, IssMarks, 5)
  BY <1>1, UpTo9 DEF Finds, HoverOrder, IssMarks
<1>9. Finds(HoverOrder, DnsMarks, 6)
  BY <1>1, UpTo9 DEF Finds, HoverOrder, DnsMarks
<1>10. Finds(HoverOrder, AirspaceMarks, 7)
  BY <1>1, UpTo9 DEF Finds, HoverOrder, AirspaceMarks
<1>11. Finds(HoverOrder, DarkMarks, 8)
  BY <1>1, UpTo9 DEF Finds, HoverOrder, DarkMarks
<1>12. Finds(HoverOrder, FirmsMarks, 9)
  BY <1>1, UpTo9 DEF Finds, HoverOrder, FirmsMarks
<1>13. FirstOf(HoverOrder, IxpMarks, "infra") = "infra"
  BY <1>1, UpTo9, NoHit DEF HoverOrder, IxpMarks
<1>14. FirstOf(HoverOrder, FacilityMarks, "infra") = "infra"
  BY <1>1, UpTo9, NoHit DEF HoverOrder, FacilityMarks
<1>15. FirstOf(HoverOrder, {}, "infra") = "infra"
  BY <1>1, UpTo9, NoHit DEF HoverOrder
<1> QED  BY <1>2, <1>3, <1>4, <1>5, <1>6, <1>7, <1>8, <1>9, <1>10, <1>11, <1>12, <1>13,
          <1>14, <1>15, MarksAre, NoMarks DEF InfraThings, SaidOf

LEMMA ClickTypes ==
  \A t \in InfraThings : FirstOf(ClickOrder, Marks(t), "infra") = SaidOf(t)
<1>1. DOMAIN ClickOrder = 1..9  BY DEF ClickOrder
<1>2. /\ ClickOrder[1][1] = "buoy" /\ ClickOrder[2][1] = "tower"
      /\ ClickOrder[3][1] = "nws_alert" /\ ClickOrder[4][1] = "outage"
      /\ ClickOrder[5][1] = "iss" /\ ClickOrder[6][1] = "infra"
      /\ ClickOrder[7][1] = "airspace" /\ ClickOrder[8][1] = "dark_vessel"
      /\ ClickOrder[9][1] = "firms_hotspot"
  BY DEF ClickOrder
<1>3. ASSUME NEW marks, NEW k, Finds(ClickOrder, marks, k)
      PROVE  FirstOf(ClickOrder, marks, "infra") = ClickOrder[k][1]
  BY 9 \in Nat, <1>1, <1>3, FirstHit
<1>4. Finds(ClickOrder, TowerMarks, 2)
  BY <1>1, UpTo9 DEF Finds, ClickOrder, TowerMarks
<1>5. Finds(ClickOrder, NwsMarks, 3)
  BY <1>1, UpTo9 DEF Finds, ClickOrder, NwsMarks
<1>6. Finds(ClickOrder, OutageMarks, 4)
  BY <1>1, UpTo9 DEF Finds, ClickOrder, OutageMarks
<1>7. Finds(ClickOrder, BuoyMarks, 1)
  BY <1>1, UpTo9 DEF Finds, ClickOrder, BuoyMarks
<1>8. Finds(ClickOrder, IssMarks, 5)
  BY <1>1, UpTo9 DEF Finds, ClickOrder, IssMarks
<1>9. Finds(ClickOrder, DnsMarks, 6)
  BY <1>1, UpTo9 DEF Finds, ClickOrder, DnsMarks
<1>10. Finds(ClickOrder, AirspaceMarks, 7)
  BY <1>1, UpTo9 DEF Finds, ClickOrder, AirspaceMarks
<1>11. Finds(ClickOrder, DarkMarks, 8)
  BY <1>1, UpTo9 DEF Finds, ClickOrder, DarkMarks
<1>12. Finds(ClickOrder, FirmsMarks, 9)
  BY <1>1, UpTo9 DEF Finds, ClickOrder, FirmsMarks
<1>13. FirstOf(ClickOrder, IxpMarks, "infra") = "infra"
  BY <1>1, UpTo9, NoHit DEF ClickOrder, IxpMarks
<1>14. FirstOf(ClickOrder, FacilityMarks, "infra") = "infra"
  BY <1>1, UpTo9, NoHit DEF ClickOrder, FacilityMarks
<1>15. FirstOf(ClickOrder, {}, "infra") = "infra"
  BY <1>1, UpTo9, NoHit DEF ClickOrder
<1> QED  BY <1>2, <1>3, <1>4, <1>5, <1>6, <1>7, <1>8, <1>9, <1>10, <1>11, <1>12, <1>13,
          <1>14, <1>15, MarksAre, NoMarks DEF InfraThings, SaidOf

LEMMA InfraTooltips ==
  \A t \in InfraThings : FirstOf(TooltipOrder, InfraSigns(t), "aircraft") = Kind(t)
<1>1. DOMAIN TooltipOrder = 1..22  BY DEF TooltipOrder
<1>2. /\ TooltipOrder[1][1] = "hold" /\ TooltipOrder[2][1] = "satnogs"
      /\ TooltipOrder[3][1] = "repeater" /\ TooltipOrder[4][1] = "tower"
      /\ TooltipOrder[5][1] = "buoy" /\ TooltipOrder[6][1] = "ixp"
      /\ TooltipOrder[7][1] = "facility" /\ TooltipOrder[8][1] = "iss"
      /\ TooltipOrder[9][1] = "nws_alert" /\ TooltipOrder[10][1] = "dns"
      /\ TooltipOrder[11][1] = "infra" /\ TooltipOrder[12][1] = "outage"
      /\ TooltipOrder[13][1] = "gdelt" /\ TooltipOrder[14][1] = "cluster"
      /\ TooltipOrder[15][1] = "jamming" /\ TooltipOrder[16][1] = "airspace"
      /\ TooltipOrder[17][1] = "clausal" /\ TooltipOrder[18][1] = "firms_hotspot"
      /\ TooltipOrder[19][1] = "dark_vessel" /\ TooltipOrder[20][1] = "satellite"
      /\ TooltipOrder[21][1] = "js8" /\ TooltipOrder[22][1] = "ship"
  BY DEF TooltipOrder
<1>3. ASSUME NEW marks, NEW k, Finds(TooltipOrder, marks, k)
      PROVE  FirstOf(TooltipOrder, marks, "aircraft") = TooltipOrder[k][1]
  BY 22 \in Nat, <1>1, <1>3, FirstHit
<1>4. Finds(TooltipOrder, InfraSigns("tower"), 4)
  BY <1>1, UpTo22, SaidSigns DEF Finds, TooltipOrder
<1>5. Finds(TooltipOrder, InfraSigns("nws_alert"), 9)
  BY <1>1, UpTo22, SaidSigns DEF Finds, TooltipOrder
<1>6. Finds(TooltipOrder, InfraSigns("outage"), 12)
  BY <1>1, UpTo22, SaidSigns DEF Finds, TooltipOrder
<1>7. Finds(TooltipOrder, InfraSigns("buoy"), 5)
  BY <1>1, UpTo22, SaidSigns DEF Finds, TooltipOrder
<1>8. Finds(TooltipOrder, InfraSigns("iss"), 8)
  BY <1>1, UpTo22, SaidSigns DEF Finds, TooltipOrder
<1>9. Finds(TooltipOrder, InfraSigns("dns"), 10)
  BY <1>1, UpTo22, SaidSigns DEF Finds, TooltipOrder
<1>10. Finds(TooltipOrder, InfraSigns("airspace"), 16)
  BY <1>1, UpTo22, SaidSigns DEF Finds, TooltipOrder
<1>11. Finds(TooltipOrder, InfraSigns("dark_vessel"), 19)
  BY <1>1, UpTo22, SaidSigns DEF Finds, TooltipOrder
<1>12. Finds(TooltipOrder, InfraSigns("firms_hotspot"), 18)
  BY <1>1, UpTo22, SaidSigns DEF Finds, TooltipOrder
<1>13. Finds(TooltipOrder, InfraSigns("ixp"), 6)
  BY <1>1, UpTo22, SaidSigns DEF Finds, TooltipOrder
<1>14. Finds(TooltipOrder, InfraSigns("facility"), 7)
  BY <1>1, UpTo22, SaidSigns DEF Finds, TooltipOrder
<1>15. Finds(TooltipOrder, InfraSigns("cable"), 11)
  BY <1>1, UpTo22, SaidSigns DEF Finds, TooltipOrder
<1> QED  BY <1>2, <1>3, <1>4, <1>5, <1>6, <1>7, <1>8, <1>9, <1>10, <1>11, <1>12, <1>13,
          <1>14, <1>15, SaidSigns DEF InfraThings, Kind

LEMMA InfraPanels ==
  \A t \in InfraThings \ {"tower", "airspace"} : FirstOf(InfraViewOrder, InfraSigns(t), "infra") = Kind(t)
<1>1. DOMAIN InfraViewOrder = 1..9  BY DEF InfraViewOrder
<1>2. /\ InfraViewOrder[1][1] = "buoy" /\ InfraViewOrder[2][1] = "iss"
      /\ InfraViewOrder[3][1] = "nws_alert" /\ InfraViewOrder[4][1] = "ixp"
      /\ InfraViewOrder[5][1] = "facility" /\ InfraViewOrder[6][1] = "dns"
      /\ InfraViewOrder[7][1] = "firms_hotspot" /\ InfraViewOrder[8][1] = "dark_vessel"
      /\ InfraViewOrder[9][1] = "outage"
  BY DEF InfraViewOrder
<1>3. ASSUME NEW marks, NEW k, Finds(InfraViewOrder, marks, k)
      PROVE  FirstOf(InfraViewOrder, marks, "infra") = InfraViewOrder[k][1]
  BY 9 \in Nat, <1>1, <1>3, FirstHit
<1>4. Finds(InfraViewOrder, InfraSigns("nws_alert"), 3)
  BY <1>1, UpTo9, SaidSigns DEF Finds, InfraViewOrder
<1>5. Finds(InfraViewOrder, InfraSigns("outage"), 9)
  BY <1>1, UpTo9, SaidSigns DEF Finds, InfraViewOrder
<1>6. Finds(InfraViewOrder, InfraSigns("buoy"), 1)
  BY <1>1, UpTo9, SaidSigns DEF Finds, InfraViewOrder
<1>7. Finds(InfraViewOrder, InfraSigns("iss"), 2)
  BY <1>1, UpTo9, SaidSigns DEF Finds, InfraViewOrder
<1>8. Finds(InfraViewOrder, InfraSigns("dns"), 6)
  BY <1>1, UpTo9, SaidSigns DEF Finds, InfraViewOrder
<1>9. Finds(InfraViewOrder, InfraSigns("dark_vessel"), 8)
  BY <1>1, UpTo9, SaidSigns DEF Finds, InfraViewOrder
<1>10. Finds(InfraViewOrder, InfraSigns("firms_hotspot"), 7)
  BY <1>1, UpTo9, SaidSigns DEF Finds, InfraViewOrder
<1>11. Finds(InfraViewOrder, InfraSigns("ixp"), 4)
  BY <1>1, UpTo9, SaidSigns DEF Finds, InfraViewOrder
<1>12. Finds(InfraViewOrder, InfraSigns("facility"), 5)
  BY <1>1, UpTo9, SaidSigns DEF Finds, InfraViewOrder
<1>13. FirstOf(InfraViewOrder, InfraSigns("cable"), "infra") = "infra"
  BY <1>1, UpTo9, NoHit, SaidSigns DEF InfraViewOrder
<1> QED  BY <1>2, <1>3, <1>4, <1>5, <1>6, <1>7, <1>8, <1>9, <1>10, <1>11, <1>12, <1>13,
          SaidSigns DEF InfraThings, Kind

EntitySigns(t) == {TypeSign(EntityType(t))} \cup Marks(t)

LEMMA EntitySignsAre ==
  \A t \in EntityThings :
    EntitySigns(t) = {IF t = "clausal" THEN "clausal-state-change" ELSE t}
BY NoMarks, SignsAre
   DEF EntitySigns, EntityThings, TrackThings, Cluster, Jamming, Hold, Gdelt, Clausal, RadioSite,
       JS8Station, Ground, EntityType, SignOf

LEMMA EntityTooltips ==
  \A t \in EntityThings : FirstOf(TooltipOrder, EntitySigns(t), "aircraft") = t
<1>1. DOMAIN TooltipOrder = 1..22  BY DEF TooltipOrder
<1>2. /\ TooltipOrder[1][1] = "hold" /\ TooltipOrder[2][1] = "satnogs"
      /\ TooltipOrder[3][1] = "repeater" /\ TooltipOrder[4][1] = "tower"
      /\ TooltipOrder[5][1] = "buoy" /\ TooltipOrder[6][1] = "ixp"
      /\ TooltipOrder[7][1] = "facility" /\ TooltipOrder[8][1] = "iss"
      /\ TooltipOrder[9][1] = "nws_alert" /\ TooltipOrder[10][1] = "dns"
      /\ TooltipOrder[11][1] = "infra" /\ TooltipOrder[12][1] = "outage"
      /\ TooltipOrder[13][1] = "gdelt" /\ TooltipOrder[14][1] = "cluster"
      /\ TooltipOrder[15][1] = "jamming" /\ TooltipOrder[16][1] = "airspace"
      /\ TooltipOrder[17][1] = "clausal" /\ TooltipOrder[18][1] = "firms_hotspot"
      /\ TooltipOrder[19][1] = "dark_vessel" /\ TooltipOrder[20][1] = "satellite"
      /\ TooltipOrder[21][1] = "js8" /\ TooltipOrder[22][1] = "ship"
  BY DEF TooltipOrder
<1>3. ASSUME NEW marks, NEW k, Finds(TooltipOrder, marks, k)
      PROVE  FirstOf(TooltipOrder, marks, "aircraft") = TooltipOrder[k][1]
  BY 22 \in Nat, <1>1, <1>3, FirstHit
<1>4. Finds(TooltipOrder, EntitySigns("ship"), 22)
  BY <1>1, UpTo22, EntitySignsAre DEF Finds, TooltipOrder, EntityThings, TrackThings,
  Cluster, Jamming, Hold, Gdelt, Clausal, RadioSite, JS8Station, Ground
<1>5. Finds(TooltipOrder, EntitySigns("satellite"), 20)
  BY <1>1, UpTo22, EntitySignsAre DEF Finds, TooltipOrder, EntityThings, TrackThings,
  Cluster, Jamming, Hold, Gdelt, Clausal, RadioSite, JS8Station, Ground
<1>6. Finds(TooltipOrder, EntitySigns("cluster"), 14)
  BY <1>1, UpTo22, EntitySignsAre DEF Finds, TooltipOrder, EntityThings, TrackThings,
  Cluster, Jamming, Hold, Gdelt, Clausal, RadioSite, JS8Station, Ground
<1>7. Finds(TooltipOrder, EntitySigns("jamming"), 15)
  BY <1>1, UpTo22, EntitySignsAre DEF Finds, TooltipOrder, EntityThings, TrackThings,
  Cluster, Jamming, Hold, Gdelt, Clausal, RadioSite, JS8Station, Ground
<1>8. Finds(TooltipOrder, EntitySigns("hold"), 1)
  BY <1>1, UpTo22, EntitySignsAre DEF Finds, TooltipOrder, EntityThings, TrackThings,
  Cluster, Jamming, Hold, Gdelt, Clausal, RadioSite, JS8Station, Ground
<1>9. Finds(TooltipOrder, EntitySigns("gdelt"), 13)
  BY <1>1, UpTo22, EntitySignsAre DEF Finds, TooltipOrder, EntityThings, TrackThings,
  Cluster, Jamming, Hold, Gdelt, Clausal, RadioSite, JS8Station, Ground
<1>10. Finds(TooltipOrder, EntitySigns("clausal"), 17)
  BY <1>1, UpTo22, EntitySignsAre DEF Finds, TooltipOrder, EntityThings, TrackThings,
  Cluster, Jamming, Hold, Gdelt, Clausal, RadioSite, JS8Station, Ground
<1>11. Finds(TooltipOrder, EntitySigns("repeater"), 3)
  BY <1>1, UpTo22, EntitySignsAre DEF Finds, TooltipOrder, EntityThings, TrackThings,
  Cluster, Jamming, Hold, Gdelt, Clausal, RadioSite, JS8Station, Ground
<1>12. Finds(TooltipOrder, EntitySigns("js8"), 21)
  BY <1>1, UpTo22, EntitySignsAre DEF Finds, TooltipOrder, EntityThings, TrackThings,
  Cluster, Jamming, Hold, Gdelt, Clausal, RadioSite, JS8Station, Ground
<1>13. Finds(TooltipOrder, EntitySigns("satnogs"), 2)
  BY <1>1, UpTo22, EntitySignsAre DEF Finds, TooltipOrder, EntityThings, TrackThings,
  Cluster, Jamming, Hold, Gdelt, Clausal, RadioSite, JS8Station, Ground
<1>14. FirstOf(TooltipOrder, EntitySigns("aircraft"), "aircraft") = "aircraft"
  BY <1>1, UpTo22, NoHit, EntitySignsAre DEF TooltipOrder, EntityThings, TrackThings,
  Cluster, Jamming, Hold, Gdelt, Clausal, RadioSite, JS8Station, Ground
<1> QED  BY <1>2, <1>3, <1>4, <1>5, <1>6, <1>7, <1>8, <1>9, <1>10, <1>11, <1>12, <1>13,
          <1>14 DEF EntityThings, TrackThings, Cluster, Jamming, Hold, Gdelt, Clausal,
          RadioSite, JS8Station, Ground

(* All five lists together.                                                *)
LEMMA ShownRight ==
  ASSUME NEW v \in Views, NEW t \in InView(v) \cap Handled, t = "iss" => v = "TACTICAL"
  PROVE  Tooltip(v, t) = Kind(t) /\ Panel(v, t) = Kind(t)
<1>1. CASE t \in EntityThings
  <2>1. HoverType(v, t) = EntityType(t) /\ ClickType(v, t) = EntityType(t)
    BY <1>1 DEF HoverType, ClickType
  <2>2. Tooltip(v, t) = t  BY <1>1, <2>1, EntityTooltips DEF Tooltip, EntitySigns
  <2>3. EntityType(t) \notin InfraViewTypes
        /\ (EntityType(t) = "clausal-state-change" => t = "clausal")
        /\ Kind(t) = t
    BY <1>1 DEF EntityType, InfraViewTypes, Kind, EntityThings, TrackThings, Cluster, Jamming, Hold,
                Gdelt, Clausal, RadioSite, JS8Station, Ground
  <2>4. Panel(v, t) = t  BY <2>1, <2>3 DEF Panel, EntityType
  <2> QED  BY <2>2, <2>3, <2>4
<1>2. CASE t \notin EntityThings
  <2>1. v = "TACTICAL" /\ t \in InfraThings
    BY <1>2 DEF Views, InView, Handled, EntityThings, TrackThings, Cluster, Jamming, Clausal, Ground
  <2>2. HoverType(v, t) = SaidOf(t) /\ ClickType(v, t) = SaidOf(t)
    BY <1>2, <2>1, HoverTypes, ClickTypes DEF HoverType, ClickType
  <2>3. Tooltip(v, t) = Kind(t)  BY <2>1, <2>2, InfraTooltips DEF Tooltip, InfraSigns
  <2>4. CASE t \in {"tower", "airspace"}
    BY <2>2, <2>3, <2>4 DEF Panel, SaidOf, InfraViewTypes, Kind
  <2>5. CASE t \notin {"tower", "airspace"}
    <3>1. SaidOf(t) \in InfraViewTypes  BY <2>1, <2>5 DEF SaidOf, InfraThings, InfraViewTypes
    <3> QED  BY <2>1, <2>2, <2>3, <2>5, <3>1, InfraPanels DEF Panel, InfraSigns
  <2> QED  BY <2>4, <2>5
<1> QED  BY <1>1, <1>2
-----------------------------------------------------------------------------
(* The invariant: what was hit last is drawn unless something vanished,    *)
(* the tooltip is that of it, and a history is asked for what is selected. *)

PickInv ==
  /\ PickTypeOK /\ HistoryIsOfSelection
  /\ drawn \subseteq InView(view) /\ (gone = 0 => drawn = InView(view))
  /\ last \in InView(view) \cup {NoThing} /\ pointer \in {NoThing, last}
  /\ gone = 0 => Shown(hovered, placed) \in {NoThing, last}
  /\ asked \in {NoThing, selected}
  /\ selected = "clausal" => type # "aircraft"

LEMMA NothingIsNoThing == NoThing \notin Handled
BY DEF NoThing, Handled, InfraThings, EntityThings, TrackThings, Cluster, Jamming, Hold, Gdelt, Clausal,
       RadioSite, JS8Station, Ground

LEMMA OrbitalThings == InView("ORBITAL") \cap (InfraThings \cup Country) \subseteq {"iss"}
BY DEF InView, InfraThings, Country

LEMMA OrbitalIss == HoverType("ORBITAL", "iss") = "infra" /\ ClickType("ORBITAL", "iss") = "infra"
<1>1. "iss" \notin EntityThings
  BY DEF EntityThings, TrackThings, Cluster, Jamming, Hold, Gdelt, Clausal, RadioSite, JS8Station, Ground
<1>2. DOMAIN OrbitalHoverOrder = 1..2 /\ DOMAIN OrbitalClickOrder = 1..2
  BY DEF OrbitalHoverOrder, OrbitalClickOrder
<1>3. \A j \in 1..2 : j = 1 \/ j = 2  OBVIOUS
<1>4. FirstOf(OrbitalHoverOrder, Marks("iss"), "infra") = "infra"
  BY <1>2, <1>3, NoHit, MarksAre DEF OrbitalHoverOrder, IssMarks
<1>5. FirstOf(OrbitalClickOrder, Marks("iss"), "infra") = "infra"
  BY <1>2, <1>3, NoHit, MarksAre DEF OrbitalClickOrder, IssMarks
<1> QED  BY <1>1, <1>4, <1>5 DEF HoverType, ClickType

LEMMA ClickTypeIsSome ==
  ASSUME NEW v \in Views, NEW t \in InView(v) \cap Handled
  PROVE  ClickType(v, t) # NoThing /\ (t = "clausal" => ClickType(v, t) # "aircraft")
<1>1. CASE t \in EntityThings
  BY <1>1 DEF ClickType, EntityType, NoThing, EntityThings, TrackThings, Cluster, Jamming, Hold, Gdelt,
              Clausal, RadioSite, JS8Station, Ground
<1>2. CASE t \notin EntityThings /\ v = "TACTICAL"
  <2>1. t \in InfraThings  BY <1>2 DEF Handled
  <2>2. ClickType(v, t) = SaidOf(t)  BY <1>2, <2>1, ClickTypes DEF ClickType
  <2> QED  BY <2>1, <2>2 DEF SaidOf, InfraThings, NoThing
<1>3. CASE t \notin EntityThings /\ v = "ORBITAL"
  BY <1>3, OrbitalThings, OrbitalIss DEF Handled, NoThing
<1> QED  BY <1>1, <1>2, <1>3 DEF Views

(* The layer that is left takes back what it has put there.                *)
LEMMA Left ==
  ASSUME PickInv, NEW h, h = Leave([of |-> hovered, placed |-> placed], last)
  PROVE  /\ h.of \in Handled \cup {NoThing} /\ h.placed \in BOOLEAN
         /\ gone = 0 => h.of = NoThing \/ ~h.placed
<1> USE DEF PickInv, PickTypeOK
<1>1. CASE last = NoThing \/ last \notin drawn
  <2>1. h.of = hovered /\ h.placed = placed  BY <1>1 DEF Leave
  <2>2. gone = 0 => last = NoThing  BY <1>1
  <2> QED  BY <2>1, <2>2 DEF Shown
<1>2. CASE last \in drawn \cap EntityThings /\ last # NoThing
  <2>1. h.of = NoThing /\ h.placed = FALSE  BY <1>2 DEF Leave
  <2> QED  BY <2>1
<1>3. CASE last \in drawn \cap (InfraThings \cup Country) /\ last # NoThing /\ last \notin EntityThings
  <2>1. /\ h.of = IF hovered # NoThing /\ HoverType(view, hovered) \in Cleared(view)
                  THEN NoThing ELSE hovered
        /\ h.placed = (view = "ORBITAL" /\ placed)
    BY <1>3 DEF Leave
  <2>2. h.of \in {NoThing, hovered} /\ h.placed \in BOOLEAN  BY <2>1
  <2>3. CASE view = "TACTICAL"  BY <2>1, <2>2, <2>3
  <2>4. CASE view = "ORBITAL"
    <3>1. last = "iss"  BY <1>3, <2>4, OrbitalThings
    <3>2. hovered = "iss" => h.of = NoThing
      BY <2>1, <2>4, OrbitalIss DEF Cleared
    <3>3. h.placed => placed  BY <2>1
    <3> QED  BY <2>2, <3>1, <3>2, <3>3 DEF Shown
  <2> QED  BY <2>3, <2>4 DEF Views
<1>4. CASE last \in drawn /\ last # NoThing /\ last \notin EntityThings \cup InfraThings \cup Country
  <2>1. h.of = hovered /\ h.placed = placed  BY <1>4 DEF Leave
  <2>2. last \notin Handled  BY <1>4 DEF Handled
  <2> QED  BY <2>1, <2>2, NothingIsNoThing DEF Shown
<1> QED  BY <1>1, <1>2, <1>3, <1>4

LEMMA Moved ==
  ASSUME PickInv, NEW t, MovePointer(t)
  PROVE  /\ hovered' \in Handled \cup {NoThing} /\ placed' \in BOOLEAN
         /\ t \in Handled \cup {NoThing} => Shown(hovered', placed') = t
         /\ t \notin Handled \cup {NoThing} /\ gone = 0 => Shown(hovered', placed') = NoThing
<1> USE DEF PickInv, PickTypeOK
<1> DEFINE h == Leave([of |-> hovered, placed |-> placed], last)
           e == Enter(h, t)
<1>1. /\ h.of \in Handled \cup {NoThing} /\ h.placed \in BOOLEAN
      /\ gone = 0 => h.of = NoThing \/ ~h.placed
  BY Left
<1>2. hovered' = e.of /\ placed' = e.placed  BY DEF MovePointer
<1>3. t \in drawn \cup {NoThing} /\ t # pointer  BY DEF MovePointer
<1> HIDE DEF h
<1>4. CASE t \in Handled
  <2>1. e.of = t /\ e.placed = TRUE  BY <1>4 DEF Enter
  <2> QED  BY <1>2, <1>4, <2>1 DEF Shown
<1>5. CASE t \notin Handled /\ t \in Country
  <2>1. e = Leave(h, t)  BY <1>5 DEF Enter
  <2>2. t # NoThing /\ t \notin EntityThings  BY <1>5 DEF Country, NoThing, Handled
  <2>3. view = "TACTICAL"  BY <1>3, <1>5, <2>2, OrbitalThings DEF Views, Country
  <2>4. /\ e.of = IF h.of # NoThing /\ HoverType(view, h.of) \in Cleared(view)
                  THEN NoThing ELSE h.of
        /\ e.placed = (view = "ORBITAL" /\ h.placed)
    BY <1>3, <1>5, <2>1, <2>2 DEF Leave
  <2>5. e.placed = FALSE  BY <2>3, <2>4
  <2>6. e.of \in {NoThing, h.of}  BY <2>4
  <2> QED  BY <1>1, <1>2, <1>5, <2>2, <2>5, <2>6 DEF Shown
<1>6. CASE t \notin Handled /\ t \notin Country /\ t = NoThing
  <2>1. e.of = NoThing /\ e.placed = FALSE  BY <1>6 DEF Enter
  <2> QED  BY <1>2, <1>6, <2>1 DEF Shown
<1>7. CASE t \notin Handled /\ t \notin Country /\ t # NoThing
  <2>1. e = h  BY <1>7 DEF Enter
  <2> QED  BY <1>1, <1>2, <1>7, <2>1 DEF Shown
<1> QED  BY <1>4, <1>5, <1>6, <1>7

LEMMA PickInitInv == PickInit => PickInv
<1> SUFFICES ASSUME PickInit  PROVE PickInv
  OBVIOUS
<1> USE DEF PickInit
<1>1. InView(view) \subseteq Things  BY DEF InView
<1>2. PickTypeOK
  <2>1. clicks \in 0..MaxClicks /\ gone \in 0..MaxGone  BY PickAssumption
  <2>2. hovered \in Handled \cup {NoThing} /\ selected \in Handled \cup {NoThing}  OBVIOUS
  <2> QED  BY <1>1, <2>1, <2>2 DEF PickTypeOK
<1>3. HistoryIsOfSelection  BY DEF HistoryIsOfSelection
<1>4. Shown(hovered, placed) = NoThing  BY DEF Shown
<1> QED  BY <1>2, <1>3, <1>4 DEF PickInv, NoThing

(* Telemetry never changes what is selected: the state change of a clause  *)
(* has the uid of an aircraft, but not its type.                           *)
LEMMA Kept ==
  ASSUME PickInv, NEW t \in TrackThings, LiveUpdate(t)
  PROVE  UNCHANGED <<view, drawn, pointer, last, hovered, placed, selected, type, followed, history,
                     asked, clicks, gone>>
<1>1. /\ UNCHANGED <<view, drawn, pointer, last, hovered, placed, followed, history, asked, clicks, gone>>
      /\ Uid(selected) = t /\ IF type = t THEN selected' = t /\ type' = t ELSE UNCHANGED <<selected, type>>
  BY DEF LiveUpdate, hover, Uid, TrackThings
<1>2. selected = t \/ (selected = "clausal" /\ t = "aircraft")  BY <1>1 DEF Uid
<1>3. type = t => selected = t  BY <1>2 DEF PickInv
<1> QED  BY <1>1, <1>3

LEMMA PickNextInv == PickInv /\ [PickNext]_pickVars => PickInv'
<1> SUFFICES ASSUME PickInv, [PickNext]_pickVars  PROVE PickInv'
  OBVIOUS
<1> USE PickAssumption
<1>1. ASSUME NEW t \in Things \cup {NoThing}, MovePointer(t)  PROVE PickInv'
  <2>1. /\ pointer' = t /\ last' = t /\ t \in drawn \cup {NoThing}
        /\ UNCHANGED <<view, drawn, selected, type, followed, history, asked, clicks, gone>>
    BY <1>1 DEF MovePointer, selection
  <2>2. /\ hovered' \in Handled \cup {NoThing} /\ placed' \in BOOLEAN
        /\ t \in Handled \cup {NoThing} => Shown(hovered', placed') = t
        /\ t \notin Handled \cup {NoThing} /\ gone = 0 => Shown(hovered', placed') = NoThing
    BY <1>1, Moved
  <2>3. PickTypeOK'
    <3>1. /\ view' \in Views /\ drawn' \subseteq Things /\ {pointer', last'} \subseteq Things \cup {NoThing}
          /\ selected' \in Handled \cup {NoThing}
          /\ {history', asked'} \subseteq {NoThing, "aircraft", "hold"}
          /\ clicks' \in 0..MaxClicks /\ gone' \in 0..MaxGone
      BY <2>1 DEF PickInv, PickTypeOK
    <3>2. followed' \in BOOLEAN /\ ((type' = NoThing) <=> (selected' = NoThing))
      BY <2>1 DEF PickInv, PickTypeOK
    <3> QED  BY <2>2, <3>1, <3>2 DEF PickTypeOK
  <2>4. HistoryIsOfSelection'  BY <2>1 DEF PickInv, HistoryIsOfSelection, HasHistory
  <2>5. gone' = 0 => Shown(hovered', placed') \in {NoThing, last'}
    BY <2>1, <2>2
  <2>6. /\ drawn' \subseteq InView(view') /\ (gone' = 0 => drawn' = InView(view'))
        /\ last' \in InView(view') \cup {NoThing} /\ pointer' \in {NoThing, last'}
        /\ asked' \in {NoThing, selected'} /\ (selected' = "clausal" => type' # "aircraft")
    BY <2>1 DEF PickInv
  <2> QED  BY <2>3, <2>4, <2>5, <2>6 DEF PickInv, Shown
<1>2. ASSUME NEW t \in Things, Vanish(t)  PROVE PickInv'
  <2>1. /\ gone' = gone + 1 /\ gone < MaxGone /\ drawn' = drawn \ {t} /\ pointer' \in {NoThing, pointer}
        /\ UNCHANGED <<view, last, hovered, placed, selected, type, followed, history, asked, clicks>>
    BY <1>2 DEF Vanish, selection
  <2>2. gone' \in 1..MaxGone  BY <2>1 DEF PickInv, PickTypeOK
  <2>3. PickTypeOK'
    <3>1. /\ view' \in Views /\ drawn' \subseteq Things /\ {pointer', last'} \subseteq Things \cup {NoThing}
          /\ selected' \in Handled \cup {NoThing}
          /\ {history', asked'} \subseteq {NoThing, "aircraft", "hold"}
          /\ clicks' \in 0..MaxClicks /\ gone' \in 0..MaxGone /\ hovered' \in Handled \cup {NoThing}
      BY <2>1, <2>2 DEF PickInv, PickTypeOK
    <3>2. /\ followed' \in BOOLEAN /\ placed' \in BOOLEAN
          /\ (type' = NoThing) <=> (selected' = NoThing)
      BY <2>1 DEF PickInv, PickTypeOK
    <3> QED  BY <3>1, <3>2 DEF PickTypeOK
  <2>4. HistoryIsOfSelection'  BY <2>1 DEF PickInv, HistoryIsOfSelection, HasHistory
  <2>5. /\ drawn' \subseteq InView(view') /\ gone' # 0
        /\ last' \in InView(view') \cup {NoThing} /\ pointer' \in {NoThing, last'}
        /\ asked' \in {NoThing, selected'} /\ (selected' = "clausal" => type' # "aircraft")
    BY <2>1, <2>2 DEF PickInv
  <2> QED  BY <2>3, <2>4, <2>5 DEF PickInv
<1>3. ASSUME UNCHANGED <<view, drawn, pointer, last, hovered, placed, gone>>,
             selected' \in Handled \cup {NoThing}, (type' = NoThing) <=> (selected' = NoThing),
             followed' \in BOOLEAN, clicks' \in 0..MaxClicks,
             asked' \in {NoThing, selected'} \cap {NoThing, "aircraft", "hold"},
             history' \in {NoThing, "aircraft", "hold"},
             HasHistory(selected') => history' \in {NoThing, selected'},
             selected' = "clausal" => type' # "aircraft"
      PROVE  PickInv'
  <2>1. PickTypeOK'
    <3>1. /\ view' \in Views /\ drawn' \subseteq Things /\ {pointer', last'} \subseteq Things \cup {NoThing}
          /\ hovered' \in Handled \cup {NoThing} /\ gone' \in 0..MaxGone
      BY <1>3 DEF PickInv, PickTypeOK
    <3>2. placed' \in BOOLEAN  BY <1>3 DEF PickInv, PickTypeOK
    <3>3. {history', asked'} \subseteq {NoThing, "aircraft", "hold"}  BY <1>3
    <3> QED  BY <1>3, <3>1, <3>2, <3>3 DEF PickTypeOK
  <2>2. HistoryIsOfSelection'  BY <1>3 DEF HistoryIsOfSelection
  <2>3. Shown(hovered', placed') = Shown(hovered, placed)  BY <1>3
  <2>4. /\ drawn' \subseteq InView(view') /\ (gone' = 0 => drawn' = InView(view'))
        /\ last' \in InView(view') \cup {NoThing} /\ pointer' \in {NoThing, last'}
        /\ gone' = 0 => Shown(hovered', placed') \in {NoThing, last'}
    BY <1>3, <2>3 DEF PickInv
  <2> QED  BY <1>3, <2>1, <2>2, <2>4 DEF PickInv, Shown
<1> DEFINE Rest == UNCHANGED <<view, drawn, pointer, last, hovered, placed, gone>>
<1>t. /\ selected \in Handled \cup {NoThing} /\ followed \in BOOLEAN
      /\ (type = NoThing) <=> (selected = NoThing)
      /\ clicks \in 0..MaxClicks /\ {history, asked} \subseteq {NoThing, "aircraft", "hold"}
      /\ asked \in {NoThing, selected} /\ (selected = "clausal" => type # "aircraft")
      /\ HasHistory(selected) => history \in {NoThing, selected}
  BY DEF PickInv, PickTypeOK, HistoryIsOfSelection
<1>4. ASSUME NEW t \in Things, Click(t)  PROVE PickInv'
  <2>1. /\ Rest /\ clicks' = clicks + 1 /\ clicks < MaxClicks /\ t = pointer /\ t \in Handled
        /\ Select(NoThing, NoThing) \/ Select(t, ClickType(view, t))
    BY <1>4 DEF Click, hover
  <2>2. view \in Views /\ t \in InView(view) \cap Handled
    BY <2>1, NothingIsNoThing DEF PickInv, PickTypeOK
  <2>3. clicks' \in 0..MaxClicks  BY <2>1, <1>t
  <2>4. CASE Select(NoThing, NoThing)
    <3>1. /\ selected' = NoThing /\ type' = NoThing
          /\ history' = NoThing /\ followed' = FALSE /\ asked' = NoThing
      BY <2>4 DEF Select
    <3> QED  BY <1>3, <2>1, <2>3, <3>1 DEF NoThing
  <2>5. CASE Select(t, ClickType(view, t))
    <3>1. /\ selected' = t /\ type' = ClickType(view, t)
          /\ history' = NoThing /\ followed' = FALSE /\ asked' = NoThing
      BY <2>5 DEF Select
    <3>2. t # NoThing  BY <2>1, NothingIsNoThing
    <3> QED  BY <1>3, <2>1, <2>2, <2>3, <3>1, <3>2, ClickTypeIsSome
  <2> QED  BY <2>1, <2>4, <2>5
<1>5. ASSUME NEW t \in TrackThings, LiveUpdate(t)  PROVE PickInv'
  <2>1. Rest /\ selected' = selected /\ type' = type /\ UNCHANGED <<followed, history, asked, clicks>>
    BY <1>5, Kept
  <2> QED  BY <1>3, <1>t, <2>1
<1>6. ASSUME NEW t \in TrackThings, SelectFromList(t)  PROVE PickInv'
  <2>1. /\ Rest /\ clicks' = clicks + 1 /\ clicks < MaxClicks /\ Select(t, t)
    BY <1>6 DEF SelectFromList, hover
  <2>2. clicks' \in 0..MaxClicks  BY <2>1, <1>t
  <2>3. selected' = t /\ type' = t /\ history' = NoThing /\ followed' = FALSE /\ asked' = NoThing
    BY <2>1 DEF Select
  <2>4. t # NoThing /\ t \in Handled /\ t # "clausal"
    BY <1>6 DEF TrackThings, NoThing, Handled, EntityThings
  <2> QED  BY <1>3, <2>1, <2>2, <2>3, <2>4
<1>7. ASSUME SelectPass  PROVE PickInv'
  <2>1. /\ Rest /\ clicks' = clicks + 1 /\ clicks < MaxClicks
        /\ selected' = "satellite" /\ type' = "satellite" /\ asked' = NoThing
        /\ UNCHANGED <<followed, history>>
    BY <1>7 DEF SelectPass, hover
  <2>2. clicks' \in 0..MaxClicks  BY <2>1, <1>t
  <2>3. "satellite" \in Handled /\ ~HasHistory("satellite") /\ NoThing # "satellite"
    BY DEF Handled, EntityThings, TrackThings, HasHistory, NoThing
  <2> QED  BY <1>3, <1>t, <2>1, <2>2, <2>3
<1>8. ASSUME Close  PROVE PickInv'
  <2>1. /\ Rest /\ selected' = NoThing /\ type' = NoThing /\ history' = NoThing
        /\ followed' = FALSE /\ asked' = NoThing /\ clicks' = clicks
    BY <1>8 DEF Close, Select, hover
  <2> QED  BY <1>3, <1>t, <2>1 DEF NoThing
<1>9. ASSUME CenterMap \/ Drag  PROVE PickInv'
  <2>1. /\ Rest /\ followed' \in BOOLEAN /\ UNCHANGED <<selected, type, history, asked, clicks>>
    BY <1>9 DEF CenterMap, Drag, hover
  <2> QED  BY <1>3, <1>t, <2>1
<1>10. ASSUME AskHistory  PROVE PickInv'
  <2>1. /\ Rest /\ HasHistory(selected) /\ asked' = selected
        /\ UNCHANGED <<selected, type, followed, history, clicks>>
    BY <1>10 DEF AskHistory, hover
  <2> QED  BY <1>3, <1>t, <2>1 DEF HasHistory
<1>11. ASSUME HistoryAnswer \/ HistoryFails  PROVE PickInv'
  <2>1. /\ Rest /\ asked # NoThing /\ asked' = NoThing /\ history' \in {asked, history}
        /\ UNCHANGED <<selected, type, followed, clicks>>
    BY <1>11 DEF HistoryAnswer, HistoryFails, hover
  <2> QED  BY <1>3, <1>t, <2>1
<1>12. ASSUME NEW v \in Views, SwitchView(v)  PROVE PickInv'
  <2>1. /\ view' = v /\ drawn' = InView(v) /\ pointer' = NoThing /\ last' = NoThing
        /\ hovered' = NoThing /\ placed' = FALSE /\ selected' = NoThing /\ type' = NoThing
        /\ asked' = NoThing /\ UNCHANGED <<followed, history, clicks, gone>>
    BY <1>12 DEF SwitchView
  <2>2. InView(v) \subseteq Things  BY DEF InView
  <2>3. PickTypeOK'
    <3>1. followed' \in BOOLEAN /\ gone' \in 0..MaxGone  BY <2>1 DEF PickInv, PickTypeOK
    <3> QED  BY <1>12, <1>t, <2>1, <2>2, <3>1 DEF PickTypeOK
  <2>4. HistoryIsOfSelection'  BY <2>1 DEF HistoryIsOfSelection, HasHistory, NoThing
  <2>5. Shown(hovered', placed') = NoThing  BY <2>1 DEF Shown
  <2> QED  BY <2>1, <2>3, <2>4, <2>5 DEF PickInv, NoThing
<1>13. CASE UNCHANGED pickVars
  <2>1. Rest /\ UNCHANGED <<selected, type, followed, history, asked, clicks>>
    BY <1>13 DEF pickVars
  <2> QED  BY <1>3, <1>t, <2>1
<1> QED
  BY <1>1, <1>2, <1>4, <1>5, <1>6, <1>7, <1>8, <1>9, <1>10, <1>11, <1>12, <1>13 DEF PickNext

(***************************************************************************)
(* Tooltip and panel of everything a map draws are those of what it is,    *)
(* and the track behind what is selected is its own (MapTooltip,           *)
(* SidebarRight, InfraView, TrackHistoryPanel): for any things, and any    *)
(* number of selections and of things that vanish.                         *)
(***************************************************************************)
THEOREM PickedCorrect == PickSpec => []PickedIsTruthful
<1>1. PickInv => PickedIsTruthful
  <2> SUFFICES ASSUME PickInv  PROVE ShownAsWhatItIs
    BY DEF PickedIsTruthful, PickInv
  <2>1. view \in Views  BY DEF PickInv, PickTypeOK
  <2> QED  BY <2>1, ShownRight DEF ShownAsWhatItIs
<1> QED  BY <1>1, PickInitInv, PickNextInv, PTL DEF PickSpec

(***************************************************************************)
(* The tooltip follows the pointer, and the selection the user, whatever   *)
(* arrives late and whatever else has the same uid (onHover of the layers, *)
(* handleEntityLiveUpdate).                                                *)
(***************************************************************************)
THEOREM PickingCorrect == PickSpec => PickingFollowsUser
<1>1. ASSUME PickInv, [PickNext]_pickVars  PROVE [TooltipStep /\ SelectionStep]_pickVars
  <2>1. ASSUME NEW t \in Things \cup {NoThing}, MovePointer(t)  PROVE TooltipStep /\ SelectionStep
    <3>1. pointer' = t /\ selected' = selected  BY <2>1 DEF MovePointer, selection
    <3>2. /\ t \in Handled \cup {NoThing} => Shown(hovered', placed') = t
          /\ t \notin Handled \cup {NoThing} /\ gone = 0 => Shown(hovered', placed') = NoThing
      BY <1>1, <2>1, Moved
    <3> QED  BY <3>1, <3>2 DEF TooltipStep, SelectionStep
  <2>2. ASSUME NEW t \in Things, Vanish(t)  PROVE TooltipStep /\ SelectionStep
    <3>1. /\ t \in drawn /\ pointer' = IF pointer = t THEN NoThing ELSE pointer
          /\ last' = last /\ selected' = selected
      BY <2>2 DEF Vanish, selection
    <3>2. last' = pointer' => pointer' = pointer  BY <1>1, <3>1 DEF PickInv
    <3> QED  BY <3>1, <3>2 DEF TooltipStep, SelectionStep
  <2>3. ASSUME NEW v \in Views, SwitchView(v)  PROVE TooltipStep /\ SelectionStep
    <3>1. pointer' = NoThing /\ hovered' = NoThing /\ placed' = FALSE /\ selected' = NoThing
      BY <2>3 DEF SwitchView
    <3> QED  BY <3>1 DEF TooltipStep, SelectionStep, Shown
  <2>4. ASSUME pointer' = pointer, selected' # selected => clicks' > clicks \/ selected' = NoThing
        PROVE  TooltipStep /\ SelectionStep
    BY <2>4 DEF TooltipStep, SelectionStep
  <2>5. clicks + 1 > clicks  BY <1>1 DEF PickInv, PickTypeOK
  <2>6. ASSUME NEW t \in Things, Click(t)  PROVE TooltipStep /\ SelectionStep
    BY <2>4, <2>5, <2>6 DEF Click, hover
  <2>7. ASSUME NEW t \in TrackThings, LiveUpdate(t)  PROVE TooltipStep /\ SelectionStep
    BY <1>1, <2>4, <2>7, Kept
  <2>8. ASSUME NEW t \in TrackThings, SelectFromList(t)  PROVE TooltipStep /\ SelectionStep
    BY <2>4, <2>5, <2>8 DEF SelectFromList, hover
  <2>9. CASE SelectPass  BY <2>4, <2>5, <2>9 DEF SelectPass, hover
  <2>10. CASE Close  BY <2>4, <2>10 DEF Close, Select, hover
  <2>11. CASE CenterMap \/ Drag \/ AskHistory \/ HistoryAnswer \/ HistoryFails
    BY <2>4, <2>11 DEF CenterMap, Drag, AskHistory, HistoryAnswer, HistoryFails, hover
  <2>12. CASE UNCHANGED pickVars  BY <2>12
  <2> QED
    BY <1>1, <2>1, <2>2, <2>3, <2>6, <2>7, <2>8, <2>9, <2>10, <2>11, <2>12 DEF PickNext
<1> QED  BY <1>1, PickInitInv, PickNextInv, PTL DEF PickSpec, PickingFollowsUser
=============================================================================
