-------------------------- MODULE MissionSyncProofs --------------------------
(***************************************************************************)
(* What a tab shows is a mission the server was given, and what it caches  *)
(* is not older than its own last move unless its requests crossed: for    *)
(* every number of places, radii, calls, moves and failures.               *)
(***************************************************************************)
EXTENDS MissionSync, SequenceTheorems, TLAPS

(* Whatever has no mission is not fresh: it answers no question.           *)
EntriesGiven == \A e \in {cache, stored} : e.v = 0 => e.age = "old"

(* A request to move carries a mission, and the server has given the log   *)
(* the one it has applied.                                                 *)
PostsGiven ==
  \A k \in Calls :
    /\ post[k].state # "idle" => post[k].want \in Missions
    /\ post[k].state = "applied" =>
         post[k].v \in DOMAIN log /\ log[post[k].v] = post[k].want

(* Until two requests cross the tab has one at a time, and its answer is   *)
(* not older than the latest move the tab was told of.                     *)
OneAtATime ==
  crossed \/
    /\ \A k \in Calls : post[k].state # "idle" =>
         get = NotAsked /\ \A j \in Calls : post[j].state # "idle" => j = k
    /\ get > 0 => get >= own
    /\ \A k \in Calls : post[k].state = "applied" => post[k].v >= own

(* The tab was told of a move of its own only if its cache was.            *)
ToldIsCached == cache.v = 0 => own = 0

IInv ==
  /\ ShownWasActive /\ OwnMoveIsCached
  /\ EntriesGiven /\ PostsGiven /\ OneAtATime /\ ToldIsCached

-----------------------------------------------------------------------------
(* Types.                                                                  *)

\* An entry of the cache.
Entries(n) == [v : 0..n, age : {"new", "recent", "old"}]

\* A request to move.
Posts(n) == [state : {"idle", "sent", "applied", "refused"}, v : 0..n,
             want : Missions \cup {NoMission}]

\* The types, variable by variable.
LEMMA TypeParts ==
  ASSUME TypeOK
  PROVE  /\ log \in Seq(Missions) /\ Len(log) \in 1..(MaxMoves + 1)
         /\ Len(log) \in Nat /\ DOMAIN log = 1..Len(log)
         /\ MaxMoves \in Nat /\ MaxFaults \in Nat
         /\ operator \in BOOLEAN /\ visible \in BOOLEAN /\ crossed \in BOOLEAN
         /\ cache \in Entries(Len(log)) /\ stored \in Entries(Len(log))
         /\ get \in {NotAsked} \cup 0..Len(log)
         /\ waiting \subseteq Callers /\ (get = NotAsked => waiting = {})
         /\ post \in [Calls -> Posts(Len(log))]
         /\ current \in Missions \cup {NoMission} /\ ref \in Missions \cup {NoMission}
         /\ own \in 0..Len(log) /\ faults \in 0..MaxFaults
<1>1. log \in Seq(Missions) /\ Len(log) \in 1..(MaxMoves + 1)  BY DEF TypeOK
<1>2. Len(log) \in Nat /\ DOMAIN log = 1..Len(log)  BY <1>1, LenProperties
<1>3. MaxMoves \in Nat /\ MaxFaults \in Nat  BY BoundsAssumption
<1>4. cache \in Entries(Len(log)) /\ stored \in Entries(Len(log))
  BY DEF TypeOK, Entries
<1>5. post \in [Calls -> Posts(Len(log))]  BY DEF TypeOK, Posts
<1>6. current \in Missions \cup {NoMission} /\ ref \in Missions \cup {NoMission}
  BY DEF TypeOK
<1>7. /\ get \in {NotAsked} \cup 0..Len(log)
      /\ waiting \subseteq Callers /\ (get = NotAsked => waiting = {})
      /\ own \in 0..Len(log) /\ faults \in 0..MaxFaults
      /\ operator \in BOOLEAN /\ visible \in BOOLEAN /\ crossed \in BOOLEAN
  BY DEF TypeOK
<1> QED  BY <1>1, <1>2, <1>3, <1>4, <1>5, <1>6, <1>7

\* The missions of the log are missions.
LEMMA LogType ==
  ASSUME TypeOK, NEW i \in 1..Len(log)
  PROVE  log[i] \in Missions
  BY ElementOfSeq DEF TypeOK

\* A mission added to the log leaves the others where they are.
LEMMA LogGrows ==
  ASSUME TypeOK, NEW m \in Missions, log' = Append(log, m)
  PROVE  /\ log' \in Seq(Missions) /\ Len(log') = Len(log) + 1
         /\ DOMAIN log \subseteq DOMAIN log' /\ Len(log') \in DOMAIN log'
         /\ \A i \in DOMAIN log : log'[i] = log[i]
         /\ log'[Len(log')] = m
<1>1. log \in Seq(Missions) /\ Len(log) \in Nat /\ DOMAIN log = 1..Len(log)
  BY TypeParts
<1>2. /\ log' \in Seq(Missions) /\ Len(log') = Len(log) + 1
      /\ \A i \in 1..Len(log) : log'[i] = log[i]
      /\ log'[Len(log) + 1] = m
  BY <1>1, AppendProperties
<1>3. DOMAIN log' = 1..Len(log')  BY <1>2, LenProperties
<1> QED  BY <1>1, <1>2, <1>3

\* What a question is answered with is the cache or its copy, and a fresh
\* answer is a mission of the log.
LEMMA CachedType ==
  ASSUME TypeOK, EntriesGiven
  PROVE  /\ Cached \in Entries(Len(log)) /\ Cached \in {cache, stored}
         /\ Cached.age = "new" => Cached.v \in DOMAIN log
<1>1. /\ cache \in Entries(Len(log)) /\ stored \in Entries(Len(log))
      /\ DOMAIN log = 1..Len(log) /\ Len(log) \in Nat
  BY TypeParts
<1>2. Cached \in {cache, stored}  BY DEF Cached
<1>3. \A e \in {cache, stored} : e.age = "new" => e.v \in DOMAIN log
  BY <1>1 DEF EntriesGiven, Entries
<1> QED  BY <1>1, <1>2, <1>3

\* What the page receives of the log it may show.
LEMMA ReceiveType ==
  ASSUME ShownWasActive, NEW i \in DOMAIN log, NEW c, Receive(c, log[i]), UNCHANGED log
  PROVE  /\ current' \in Missions \cup {NoMission}
         /\ current' \in {log'[j] : j \in DOMAIN log'} \cup {NoMission}
<1>1. log[i] \in Missions  BY LogType, TypeParts DEF ShownWasActive
<1>2. current' \in {current, log[i]}  BY DEF Receive
<1>3. current \in Missions \cup {NoMission}  BY TypeParts DEF ShownWasActive
<1> QED  BY <1>1, <1>2, <1>3 DEF ShownWasActive
\* The initial state.
LEMMA InitIInv == Init => IInv
<1> SUFFICES ASSUME Init
             PROVE  IInv
  OBVIOUS
<1>1. [at |-> Home, r |-> DefaultRadius] \in Missions
  BY PlacesAssumption, RadiiAssumption DEF Missions
<1>2. log \in Seq(Missions) /\ Len(log) = 1 /\ DOMAIN log = 1..1
  BY <1>1 DEF Init
<1>3. MaxMoves \in Nat /\ MaxFaults \in Nat  BY BoundsAssumption
<1>4. /\ {cache, stored} \subseteq [v : 0..Len(log), age : {"new", "recent", "old"}]
      /\ post \in [Calls -> [state : {"idle", "sent", "applied", "refused"}, v : 0..Len(log),
                             want : Missions \cup {NoMission}]]
  BY <1>2 DEF Init, Nothing, Idle
<1>5. TypeOK
  <2>1. Len(log) \in 1..(MaxMoves + 1) /\ faults \in 0..MaxFaults
    BY <1>2, <1>3 DEF Init
  <2>2. operator \in BOOLEAN /\ visible \in BOOLEAN /\ crossed \in BOOLEAN
    BY DEF Init
  <2>3. {current, ref} \subseteq Missions \cup {NoMission} /\ waiting = {}
    BY DEF Init
  <2>4. get = NotAsked /\ own \in 0..Len(log)
    BY <1>2 DEF Init
  <2> QED  BY <1>2, <1>4, <2>1, <2>2, <2>3, <2>4 DEF TypeOK
<1>6. EntriesGiven /\ PostsGiven
  BY DEF Init, EntriesGiven, PostsGiven, Nothing, Idle
<1>7. OneAtATime /\ ToldIsCached /\ OwnMoveIsCached
  BY DEF Init, OneAtATime, ToldIsCached, OwnMoveIsCached, Idle, NotAsked, Nothing
<1>8. ShownWasActive  BY <1>5 DEF Init, ShownWasActive
<1> QED  BY <1>5, <1>6, <1>7, <1>8 DEF IInv

\* An entry made of a mission of the log is fresh.
LEMMA EntryType ==
  ASSUME NEW n \in Nat, NEW i \in 0..n
  PROVE  Entry(i) \in Entries(n) /\ Entry(i).v = i /\ Entry(i).age = "new"
  BY DEF Entry, Entries

-----------------------------------------------------------------------------
(* The steps.                                                              *)

\* What is asked keeps the invariant.
LEMMA AskNext ==
  ASSUME IInv, NEW c \in Callers, Ask(c)
  PROVE  IInv'
<1> USE DEF IInv, env, net, page
<1>1. TypeOK  BY DEF ShownWasActive
<1>2. /\ Cached \in Entries(Len(log)) /\ Cached \in {cache, stored}
      /\ Cached.age = "new" => Cached.v \in DOMAIN log
  BY <1>1, CachedType
<1>3. /\ cache' = Cached
      /\ UNCHANGED <<log, operator, visible, faults, stored, post, ref, own>>
  BY DEF Ask
<1>4. /\ current' \in Missions \cup {NoMission}
      /\ current' \in {log'[j] : j \in DOMAIN log'} \cup {NoMission}
  <2>1. CASE Cached.age = "new"
    BY <1>2, <1>3, <2>1, ReceiveType DEF Ask
  <2>2. CASE Cached.age # "new"
    BY <1>1, <1>3, <2>2, TypeParts DEF Ask, ShownWasActive
  <2> QED  BY <2>1, <2>2
<1>5. /\ get' \in {NotAsked} \cup 0..Len(log)
      /\ waiting' \subseteq Callers /\ (get' = NotAsked => waiting' = {})
      /\ crossed' \in BOOLEAN
      /\ \/ UNCHANGED <<get, crossed>>
         \/ /\ get' = IF get = NotAsked THEN 0 ELSE get
            /\ crossed' = (crossed \/ \E k \in Calls : post[k].state # "idle")
  <2>1. CASE Cached.age = "new"
    BY <1>1, <2>1, TypeParts DEF Ask
  <2>2. CASE Cached.age # "new"
    <3>1. /\ get' = IF get = NotAsked THEN 0 ELSE get
          /\ waiting' = waiting \cup {c}
          /\ crossed' = (crossed \/ \E k \in Calls : post[k].state # "idle")
      BY <2>2 DEF Ask
    <3>2. crossed' \in BOOLEAN  BY <1>1, <3>1, TypeParts
    <3>3. get' \in {NotAsked} \cup 0..Len(log) /\ get' # NotAsked
      BY <1>1, <3>1, TypeParts DEF NotAsked
    <3> QED  BY <1>1, <3>1, <3>2, <3>3, TypeParts
  <2> QED  BY <2>1, <2>2
<1>6. TypeOK'  BY <1>1, <1>2, <1>3, <1>4, <1>5, TypeParts DEF TypeOK, Entries, Posts
<1>7. ShownWasActive'  BY <1>4, <1>6 DEF ShownWasActive
<1>8. EntriesGiven' /\ PostsGiven'
  BY <1>2, <1>3 DEF EntriesGiven, PostsGiven
<1>9. OneAtATime'
  BY <1>1, <1>3, <1>5, TypeParts DEF OneAtATime, NotAsked
<1>10. ToldIsCached' /\ OwnMoveIsCached'
  <2>1. cache.v \in Nat /\ own \in Nat  BY <1>1, TypeParts DEF Entries
  <2>2. CASE Cached = cache
    BY <1>3, <1>5, <2>2 DEF ToldIsCached, OwnMoveIsCached
  <2>3. CASE Cached # cache
    <3>1. cache = Nothing /\ Cached = stored  BY <2>3 DEF Cached
    <3>2. own = 0  BY <3>1 DEF ToldIsCached, Nothing
    <3>3. stored.v \in Nat  BY <1>1, TypeParts DEF Entries
    <3> QED  BY <1>3, <3>1, <3>2, <3>3 DEF ToldIsCached, OwnMoveIsCached
  <2> QED  BY <2>2, <2>3
<1> QED  BY <1>7, <1>8, <1>9, <1>10

\* So do the steps of a question and of the cache.
LEMMA CacheNext ==
  ASSUME IInv, ServerReads \/ GetAnswer \/ GetFails \/ CacheAges \/ StoredAges
               \/ MissionEffect
  PROVE  IInv'
<1> USE DEF IInv, env, net, page
<1>1. TypeOK  BY DEF ShownWasActive
<1>2. CASE ServerReads
  <2>1. get = 0 /\ get' = Len(log)
        /\ UNCHANGED <<log, env, cache, stored, waiting, post, page, own, crossed>>
    BY <1>2 DEF ServerReads
  <2>2. TypeOK'  BY <1>1, <2>1, TypeParts DEF TypeOK, NotAsked
  <2>3. ShownWasActive' /\ EntriesGiven' /\ PostsGiven' /\ ToldIsCached' /\ OwnMoveIsCached'
    BY <2>1, <2>2 DEF ShownWasActive, EntriesGiven, PostsGiven, ToldIsCached,
                      OwnMoveIsCached
  <2>4. OneAtATime'
    BY <1>1, <2>1, TypeParts DEF OneAtATime, NotAsked
  <2> QED  BY <2>3, <2>4
<1>3. CASE GetAnswer
  <2>1. /\ get > 0 /\ get \in DOMAIN log
        /\ cache' = Entry(get) /\ stored' = Entry(get)
        /\ get' = NotAsked /\ waiting' = {}
        /\ Receive(waiting, log[get])
        /\ UNCHANGED <<log, env, post, ref, own, crossed>>
    BY <1>1, <1>3, TypeParts DEF GetAnswer, NotAsked
  <2>2. /\ current' \in Missions \cup {NoMission}
        /\ current' \in {log'[j] : j \in DOMAIN log'} \cup {NoMission}
    BY <2>1, ReceiveType
  <2>3. Entry(get) \in Entries(Len(log)) /\ Entry(get).v = get /\ Entry(get).age = "new"
    BY <1>1, <2>1, TypeParts, EntryType
  <2>4. TypeOK'
    BY <1>1, <2>1, <2>2, <2>3, TypeParts DEF TypeOK, Entries
  <2>5. ShownWasActive'  BY <2>2, <2>4 DEF ShownWasActive
  <2>6. EntriesGiven' /\ PostsGiven'
    BY <2>1, <2>3 DEF EntriesGiven, PostsGiven
  <2>7. OneAtATime'  BY <2>1 DEF OneAtATime, NotAsked
  <2>8. ToldIsCached' /\ OwnMoveIsCached'
    <3>1. crossed \/ get >= own  BY <2>1 DEF OneAtATime
    <3> QED  BY <2>1, <2>3, <3>1 DEF ToldIsCached, OwnMoveIsCached
  <2> QED  BY <2>5, <2>6, <2>7, <2>8
<1>4. CASE GetFails
  <2>1. /\ get' = NotAsked /\ waiting' = {} /\ faults' \in 0..MaxFaults
        /\ UNCHANGED <<log, operator, visible, cache, stored, post, page, own, crossed>>
    BY <1>1, <1>4, TypeParts DEF GetFails, Fault
  <2>2. TypeOK'  BY <1>1, <2>1 DEF TypeOK
  <2>3. ShownWasActive' /\ EntriesGiven' /\ PostsGiven' /\ ToldIsCached' /\ OwnMoveIsCached'
    BY <2>1, <2>2 DEF ShownWasActive, EntriesGiven, PostsGiven, ToldIsCached,
                      OwnMoveIsCached
  <2>4. OneAtATime'
    BY <2>1 DEF OneAtATime, NotAsked
  <2> QED  BY <2>3, <2>4
<1>5. CASE CacheAges \/ StoredAges
  <2>1. /\ cache' \in Entries(Len(log)) /\ stored' \in Entries(Len(log))
        /\ cache'.v = cache.v /\ stored'.v = stored.v
        /\ cache'.age \in {cache.age, "recent"} /\ (cache'.age # cache.age => cache.age = "new")
        /\ stored'.age = stored.age \/ stored.age # "old"
        /\ UNCHANGED <<log, env, get, waiting, post, page, own, crossed>>
    BY <1>1, <1>5, TypeParts DEF CacheAges, StoredAges, Entries
  <2>2. TypeOK'  BY <1>1, <2>1 DEF TypeOK, Entries
  <2>3. ShownWasActive' /\ PostsGiven' /\ ToldIsCached' /\ OneAtATime'
    BY <2>1, <2>2 DEF ShownWasActive, PostsGiven, ToldIsCached, OneAtATime
  <2>4. EntriesGiven'
    BY <2>1 DEF EntriesGiven
  <2>5. OwnMoveIsCached'
    BY <2>1 DEF OwnMoveIsCached, ToldIsCached, Nothing
  <2> QED  BY <2>3, <2>4, <2>5
<1>6. CASE MissionEffect
  <2>1. ref' = current /\ UNCHANGED <<log, env, net, current, own, crossed>>
    BY <1>6 DEF MissionEffect
  <2>2. TypeOK'  BY <1>1, <2>1 DEF TypeOK
  <2> QED
    BY <2>1, <2>2 DEF ShownWasActive, EntriesGiven, PostsGiven, ToldIsCached,
                      OwnMoveIsCached, OneAtATime
<1> QED  BY <1>2, <1>3, <1>4, <1>5, <1>6
\* So does a request to move: it crosses whatever is under way.
LEMMA FocusNext ==
  ASSUME IInv, MenuSetFocus \/ PresetSelect \/ SwitchMission \/ ReturnHome
  PROVE  IInv'
<1> USE DEF IInv, env, net, page
<1>1. TypeOK  BY DEF ShownWasActive
<1>2. ASSUME NEW m \in Missions, SetFocus(m)
      PROVE  IInv'
  <2>1. PICK k \in Calls :
          /\ post[k].state = "idle"
          /\ post' = [post EXCEPT ![k] = [state |-> "sent", v |-> 0, want |-> m]]
    BY <1>2 DEF SetFocus
  <2>2. /\ crossed' = (crossed \/ get # NotAsked \/ \E j \in Calls : post[j].state # "idle")
        /\ UNCHANGED <<log, env, cache, stored, get, waiting, page, own>>
    BY <1>2 DEF SetFocus
  <2>3. [state |-> "sent", v |-> 0, want |-> m] \in Posts(Len(log))
    BY <1>1, TypeParts DEF Posts
  <2>4. post' \in [Calls -> Posts(Len(log))]
    BY <1>1, <2>1, <2>3, TypeParts
  <2>5. crossed' \in BOOLEAN  BY <1>1, <2>2, TypeParts
  <2>6. TypeOK'
    BY <1>1, <2>2, <2>4, <2>5 DEF TypeOK, Posts
  <2>7. /\ post'[k] = [state |-> "sent", v |-> 0, want |-> m]
        /\ \A j \in Calls : j # k => post'[j] = post[j]
    BY <1>1, <2>1, TypeParts
  <2>8. PostsGiven'
    BY <2>2, <2>7 DEF PostsGiven
  <2>9. OneAtATime'
    <3>1. CASE crossed'  BY <3>1 DEF OneAtATime
    <3>2. CASE ~ crossed'
      <4>1. get = NotAsked /\ \A j \in Calls : post[j].state = "idle"
        BY <2>2, <3>2
      <4> QED  BY <2>2, <2>7, <4>1 DEF OneAtATime, NotAsked
    <3> QED  BY <3>1, <3>2
  <2>10. ShownWasActive' /\ EntriesGiven' /\ ToldIsCached' /\ OwnMoveIsCached'
    BY <2>2, <2>6 DEF ShownWasActive, EntriesGiven, ToldIsCached, OwnMoveIsCached
  <2> QED  BY <2>8, <2>9, <2>10
<1>3. Radius \in Radii
  BY <1>1, RadiiAssumption, TypeParts DEF Radius, Missions
<1>4. CASE MenuSetFocus
  BY <1>2, <1>3, <1>4 DEF MenuSetFocus, Missions
<1>5. CASE PresetSelect
  <2>1. PICK r \in Radii : SetFocus([ref EXCEPT !.r = r])  BY <1>5 DEF PresetSelect
  <2>2. ref \in Missions  BY <1>1, <1>5, TypeParts DEF PresetSelect
  <2>3. [ref EXCEPT !.r = r] \in Missions  BY <2>2 DEF Missions
  <2> QED  BY <1>2, <2>1, <2>3
<1>6. CASE SwitchMission
  BY <1>2, <1>6 DEF SwitchMission
<1>7. CASE ReturnHome
  BY <1>2, <1>7, PlacesAssumption, RadiiAssumption DEF ReturnHome, Missions
<1> QED  BY <1>4, <1>5, <1>6, <1>7

\* A mission the server is given leaves what was shown among those it was
\* given.
LEMMA LogKeeps ==
  ASSUME IInv, NEW m \in Missions, log' = Append(log, m), Len(log) <= MaxMoves,
         UNCHANGED <<operator, visible, faults, cache, stored, get, waiting, current,
                     ref, own, crossed>>,
         post' \in [Calls -> Posts(Len(log'))]
  PROVE  ShownWasActive' /\ EntriesGiven' /\ ToldIsCached' /\ OwnMoveIsCached'
<1>1. TypeOK  BY DEF IInv, ShownWasActive
<1>2. /\ log' \in Seq(Missions) /\ Len(log') = Len(log) + 1
      /\ DOMAIN log \subseteq DOMAIN log'
      /\ \A i \in DOMAIN log : log'[i] = log[i]
  BY <1>1, LogGrows
<1>3. /\ cache' \in Entries(Len(log')) /\ stored' \in Entries(Len(log'))
      /\ get' \in {NotAsked} \cup 0..Len(log')
      /\ own' \in 0..Len(log') /\ Len(log') \in 1..(MaxMoves + 1)
  BY <1>1, <1>2, TypeParts DEF Entries
<1>4. TypeOK'
  BY <1>1, <1>2, <1>3, TypeParts DEF TypeOK, Entries, Posts
<1>5. ShownWasActive'  BY <1>2, <1>4 DEF IInv, ShownWasActive
<1> QED  BY <1>5 DEF IInv, EntriesGiven, ToldIsCached, OwnMoveIsCached

\* The server's part of a request to move, and its answer.
LEMMA PostNext ==
  ASSUME IInv, NEW k \in Calls,
         ServerSets(k) \/ ServerRefuses(k) \/ SetAnswer(k) \/ SetFails(k)
  PROVE  IInv'
<1> USE DEF IInv, env, net, page
<1>1. TypeOK  BY DEF ShownWasActive
<1>2. /\ post \in [Calls -> Posts(Len(log))] /\ Len(log) \in Nat
      /\ DOMAIN log = 1..Len(log) /\ own \in 0..Len(log)
  BY <1>1, TypeParts
<1>3. CASE ServerSets(k)
  <2> DEFINE n == Len(log) + 1
             m == post[k].want
  <2>1. /\ post[k].state = "sent" /\ Len(log) <= MaxMoves
        /\ log' = Append(log, m)
        /\ post' = [post EXCEPT ![k].state = "applied", ![k].v = n]
        /\ UNCHANGED <<env, cache, stored, get, waiting, page, own, crossed>>
    BY <1>3 DEF ServerSets
  <2>2. m \in Missions  BY <2>1 DEF PostsGiven
  <2>3. /\ Len(log') = n /\ DOMAIN log \subseteq DOMAIN log' /\ n \in DOMAIN log'
        /\ \A i \in DOMAIN log : log'[i] = log[i]
        /\ log'[n] = m
    BY <1>1, <2>1, <2>2, LogGrows
  <2>4. /\ post'[k].state = "applied" /\ post'[k].v = n /\ post'[k].want = m
        /\ \A j \in Calls : j # k => post'[j] = post[j]
    BY <1>2, <2>1 DEF Posts
  <2>5. post' \in [Calls -> Posts(n)]
    <3>1. \A j \in Calls : post[j] \in Posts(n)  BY <1>2 DEF Posts
    <3>2. [post[k] EXCEPT !.state = "applied", !.v = n] \in Posts(n)
      <4>1. post[k] \in Posts(n) /\ n \in 0..n  BY <1>2, <3>1
      <4> QED  BY <4>1 DEF Posts
    <3> QED  BY <1>2, <2>1, <3>1, <3>2
  <2>6. ShownWasActive' /\ EntriesGiven' /\ ToldIsCached' /\ OwnMoveIsCached'
    BY <2>1, <2>2, <2>3, <2>5, LogKeeps
  <2>7. PostsGiven'
    BY <2>2, <2>3, <2>4 DEF PostsGiven
  <2>8. OneAtATime'
    BY <1>2, <2>1, <2>4 DEF OneAtATime
  <2> QED  BY <2>6, <2>7, <2>8
<1>4. ASSUME NEW e \in {"refused", "idle"},
             post' \in [Calls -> Posts(Len(log))],
             post'[k].state = e,
             e = "refused" => post[k].state # "idle" /\ post'[k].want \in Missions,
             \A j \in Calls : j # k => post'[j] = post[j],
             faults' \in 0..MaxFaults,
             UNCHANGED <<log, operator, visible, cache, stored, get, waiting, page, own,
                         crossed>>
      PROVE  IInv'
  <2>1. TypeOK'  BY <1>1, <1>4 DEF TypeOK, Posts
  <2>2. PostsGiven'  BY <1>4 DEF PostsGiven
  <2>3. OneAtATime'  BY <1>4 DEF OneAtATime
  <2> QED
    BY <1>4, <2>1, <2>2, <2>3
       DEF ShownWasActive, EntriesGiven, ToldIsCached, OwnMoveIsCached
<1>5. CASE ServerRefuses(k)
  <2>1. /\ post[k].state = "sent"
        /\ post' = [post EXCEPT ![k].state = "refused"]
        /\ UNCHANGED <<log, operator, visible, cache, stored, get, waiting, page, own, crossed>>
    BY <1>5 DEF ServerRefuses
  <2>2. faults' \in 0..MaxFaults
    BY <1>1, <1>5, TypeParts DEF ServerRefuses, Fault
  <2>3. /\ post' \in [Calls -> Posts(Len(log))]
        /\ post'[k].state = "refused" /\ post'[k].want = post[k].want
        /\ \A j \in Calls : j # k => post'[j] = post[j]
    BY <1>2, <2>1 DEF Posts
  <2>4. post[k].want \in Missions  BY <2>1 DEF PostsGiven
  <2> QED  BY <1>4, <2>1, <2>2, <2>3, <2>4
<1>6. ASSUME post' = [post EXCEPT ![k] = Idle]
      PROVE  /\ post' \in [Calls -> Posts(Len(log))]
             /\ post'[k].state = "idle"
             /\ \A j \in Calls : j # k => post'[j] = post[j]
  <2>1. Idle \in Posts(Len(log)) /\ Idle.state = "idle"  BY <1>2 DEF Idle, Posts
  <2> QED  BY <1>2, <1>6, <2>1
<1>7. CASE SetFails(k)
  <2>1. /\ post' = [post EXCEPT ![k] = Idle]
        /\ UNCHANGED <<log, env, cache, stored, get, waiting, page, own, crossed>>
    BY <1>7 DEF SetFails
  <2>2. faults' \in 0..MaxFaults  BY <1>1, <2>1, TypeParts
  <2> QED  BY <1>4, <1>6, <2>1, <2>2
<1>8. CASE SetAnswer(k)
  <2> DEFINE v == post[k].v
  <2>1. /\ post[k].state = "applied"
        /\ cache' = Entry(v) /\ stored' = Entry(v)
        /\ current' = post[k].want
        /\ own' = IF v > own THEN v ELSE own
        /\ post' = [post EXCEPT ![k] = Idle]
        /\ UNCHANGED <<log, env, get, waiting, ref, crossed>>
    BY <1>8 DEF SetAnswer
  <2>2. v \in DOMAIN log /\ log[v] = post[k].want /\ post[k].want \in Missions
    BY <2>1 DEF PostsGiven
  <2>3. Entry(v) \in Entries(Len(log)) /\ Entry(v).v = v /\ Entry(v).age = "new"
    BY <1>2, <2>2, EntryType
  <2>4. /\ post' \in [Calls -> Posts(Len(log))]
        /\ post'[k].state = "idle"
        /\ \A j \in Calls : j # k => post'[j] = post[j]
    BY <1>6, <2>1
  <2>5. v \in 0..Len(log) /\ v > 0 /\ own' \in 0..Len(log)
    BY <1>2, <2>1, <2>2
  <2>6. TypeOK'
    BY <1>1, <2>1, <2>2, <2>3, <2>4, <2>5 DEF TypeOK, Entries, Posts
  <2>7. ShownWasActive'  BY <2>1, <2>2, <2>6 DEF ShownWasActive
  <2>8. EntriesGiven' /\ ToldIsCached'
    BY <2>1, <2>3, <2>5 DEF EntriesGiven, ToldIsCached
  <2>9. PostsGiven'  BY <2>1, <2>4 DEF PostsGiven
  <2>10. crossed \/ (v >= own /\ get = NotAsked /\ \A j \in Calls : j # k => post[j].state = "idle")
    BY <2>1 DEF OneAtATime
  <2>11. OneAtATime'
    BY <2>1, <2>4, <2>10 DEF OneAtATime, NotAsked
  <2>12. OwnMoveIsCached'
    BY <1>2, <2>1, <2>3, <2>5, <2>10 DEF OwnMoveIsCached
  <2> QED  BY <2>7, <2>8, <2>9, <2>11, <2>12
<1> QED  BY <1>3, <1>5, <1>7, <1>8

\* The others, the tab and its reload.
LEMMA RestNext ==
  ASSUME IInv, OthersMove \/ OthersStore \/ Visibility \/ Reload \/ UNCHANGED vars
  PROVE  IInv'
<1> USE DEF IInv, env, net, page
<1>1. TypeOK  BY DEF ShownWasActive
<1>2. CASE OthersMove
  <2>1. PICK m \in Missions :
          /\ log' = Append(log, m) /\ Len(log) <= MaxMoves
          /\ UNCHANGED <<env, net, page, own, crossed>>
    BY <1>2 DEF OthersMove
  <2>2. /\ Len(log') = Len(log) + 1 /\ DOMAIN log \subseteq DOMAIN log'
        /\ \A i \in DOMAIN log : log'[i] = log[i]
    BY <1>1, <2>1, LogGrows
  <2>3. post' \in [Calls -> Posts(Len(log'))]
    <3>1. \A j \in Calls : post[j] \in Posts(Len(log'))
      BY <1>1, <2>2, TypeParts DEF Posts
    <3> QED  BY <1>1, <2>1, <3>1, TypeParts
  <2>4. ShownWasActive' /\ EntriesGiven' /\ ToldIsCached' /\ OwnMoveIsCached'
    BY <2>1, <2>3, LogKeeps
  <2>5. PostsGiven' /\ OneAtATime'
    BY <2>1, <2>2 DEF PostsGiven, OneAtATime
  <2> QED  BY <2>4, <2>5
<1>3. CASE OthersStore
  <2>1. PICK v \in DOMAIN log : stored' = Entry(v)  BY <1>3 DEF OthersStore
  <2>2. faults' \in 0..MaxFaults
        /\ UNCHANGED <<log, operator, visible, cache, get, waiting, post, page, own, crossed>>
    BY <1>1, <1>3, TypeParts DEF OthersStore, Fault
  <2>3. Entry(v) \in Entries(Len(log)) /\ Entry(v).v = v
    BY <1>1, TypeParts, EntryType
  <2>4. TypeOK'  BY <1>1, <2>1, <2>2, <2>3, TypeParts DEF TypeOK, Entries
  <2>5. ShownWasActive'  BY <2>2, <2>4 DEF ShownWasActive
  <2>6. EntriesGiven'
    <3>1. stored'.v # 0 /\ cache' = cache
      BY <1>1, <2>1, <2>2, <2>3, TypeParts
    <3> QED  BY <3>1 DEF EntriesGiven
  <2>7. PostsGiven' /\ OneAtATime' /\ ToldIsCached' /\ OwnMoveIsCached'
    BY <2>2 DEF PostsGiven, OneAtATime, ToldIsCached, OwnMoveIsCached
  <2> QED  BY <2>5, <2>6, <2>7
<1>4. CASE Visibility
  <2>1. faults' \in 0..MaxFaults /\ visible' \in BOOLEAN
        /\ UNCHANGED <<log, operator, net, page, own, crossed>>
    BY <1>1, <1>4, TypeParts DEF Visibility, Fault
  <2>2. TypeOK'  BY <1>1, <2>1 DEF TypeOK
  <2> QED
    BY <2>1, <2>2
       DEF ShownWasActive, EntriesGiven, PostsGiven, OneAtATime, ToldIsCached,
           OwnMoveIsCached
<1>5. CASE Reload
  <2>1. /\ cache' = Nothing /\ get' = NotAsked /\ waiting' = {}
        /\ post' = [c \in Calls |-> Idle]
        /\ current' = NoMission /\ ref' = NoMission /\ own' = 0 /\ crossed' = FALSE
        /\ UNCHANGED <<log, operator, visible, stored>>
    BY <1>5 DEF Reload
  <2>2. faults' \in 0..MaxFaults
    BY <1>1, <1>5, TypeParts DEF Reload, Fault
  <2>3. Nothing \in Entries(Len(log)) /\ Idle \in Posts(Len(log))
    BY <1>1, TypeParts DEF Entries, Posts, Nothing, Idle
  <2>4. post' \in [Calls -> Posts(Len(log))]  BY <2>1, <2>3
  <2>5. TypeOK'
    <3>1. {cache, stored}' \subseteq Entries(Len(log))
      BY <1>1, <2>1, <2>3, TypeParts
    <3>2. {current, ref}' \subseteq Missions \cup {NoMission}
      BY <2>1
    <3>3. own' \in 0..Len(log)
      BY <1>1, <2>1, TypeParts
    <3>4. crossed' \in BOOLEAN
      BY <2>1
    <3> QED  BY <1>1, <2>1, <2>2, <2>4, <3>1, <3>2, <3>3, <3>4 DEF TypeOK, Entries, Posts
  <2>6. ShownWasActive'  BY <2>1, <2>5 DEF ShownWasActive
  <2>7. EntriesGiven' /\ PostsGiven'
    BY <2>1 DEF EntriesGiven, PostsGiven, Nothing, Idle
  <2>8. OneAtATime' /\ ToldIsCached' /\ OwnMoveIsCached'
    BY <2>1 DEF OneAtATime, ToldIsCached, OwnMoveIsCached, NotAsked, Idle
  <2> QED  BY <2>6, <2>7, <2>8
<1>6. CASE UNCHANGED vars
  <2>1. TypeOK'  BY <1>1, <1>6 DEF TypeOK, vars
  <2> QED
    BY <1>6, <2>1
       DEF vars, ShownWasActive, EntriesGiven, PostsGiven, OneAtATime, ToldIsCached,
           OwnMoveIsCached
<1> QED  BY <1>2, <1>3, <1>4, <1>5, <1>6

-----------------------------------------------------------------------------
(* The theorems.                                                           *)

\* What is cached, asked and on its way is always of the missions the server
\* was given, and in order as long as nothing crossed (useMissionArea.ts,
\* missionArea.ts).
THEOREM Invariance == Spec => []IInv
<1>1. ASSUME IInv, [Next]_vars
      PROVE  IInv'
  <2>1. CASE Poll \/ OpenPanel
    BY <1>1, <2>1, AskNext DEF Poll, OpenPanel, Callers
  <2>2. CASE ServerReads \/ GetAnswer \/ GetFails \/ CacheAges \/ StoredAges \/ MissionEffect
    BY <1>1, <2>2, CacheNext
  <2>3. CASE MenuSetFocus \/ PresetSelect \/ SwitchMission \/ ReturnHome
    BY <1>1, <2>3, FocusNext
  <2>4. ASSUME NEW k \in Calls,
               ServerSets(k) \/ ServerRefuses(k) \/ SetAnswer(k) \/ SetFails(k)
        PROVE  IInv'
    BY <1>1, <2>4, PostNext
  <2>5. CASE OthersMove \/ OthersStore \/ Visibility \/ Reload \/ UNCHANGED vars
    BY <1>1, <2>5, RestNext
  <2> QED  BY <1>1, <2>1, <2>2, <2>3, <2>4, <2>5 DEF Next
<1> QED  BY InitIInv, <1>1, PTL DEF Spec

\* The page shows a mission the server was given, whatever failed, was
\* refused or came late (useMissionArea.ts, useMissionLocation.ts).
THEOREM ShownCorrect == Spec => []ShownWasActive
<1>1. IInv => ShownWasActive  BY DEF IInv
<1> QED  BY Invariance, <1>1, PTL

\* What the cache answers is not older than the tab's own last move, unless
\* requests of the tab crossed (api/missionArea.ts).
THEOREM OwnMoveCorrect == Spec => []OwnMoveIsCached
<1>1. IInv => OwnMoveIsCached  BY DEF IInv
<1> QED  BY Invariance, <1>1, PTL
=============================================================================
