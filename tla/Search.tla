-------------------------------- MODULE Search --------------------------------
(***************************************************************************)
(* The search field (frontend/src/components/widgets/SearchWidget.tsx): a  *)
(* query waits 300 ms, tracks on the map answer at once, the history       *)
(* answers late, and the live results are refreshed every two seconds.     *)
(***************************************************************************)
EXTENDS Naturals, FiniteSets

CONSTANTS
  Tracks,     \* the tracks there are
  Queries,    \* the queries of two letters or more
  Matches,    \* the tracks each query finds
  MaxTyped,   \* bound on changes of the query
  MaxMoves    \* bound on the positions of a track

VARIABLES
  at,         \* the position of each track by number, 0: not on the map
  query, debounced,   \* query and debouncedQuery, Short below two letters
  loading,
  results,    \* rows: the track, its position, isLive
  asks,       \* requests: the query and the rows found on the map
  current,    \* the number of the search that may answer
  typed

vars == <<at, query, debounced, loading, results, asks, current, typed>>

Short == 0
Rows == [uid : Tracks, at : 0..MaxMoves, live : BOOLEAN]

TypeOK ==
  /\ at \in [Tracks -> 0..MaxMoves] /\ {query, debounced} \subseteq Queries \cup {Short}
  /\ loading \in BOOLEAN /\ results \subseteq Rows /\ typed \in 0..MaxTyped
  /\ \A a \in asks : a.local \subseteq Rows /\ a.q \in Queries

Init ==
  /\ at = [t \in Tracks |-> 0] /\ query = Short /\ debounced = Short /\ loading = FALSE
  /\ results = {} /\ asks = {} /\ current = 0 /\ typed = 0

Found(q) == {t \in Matches[q] : at[t] > 0}

(* Reports of the stream, and the stale cleaner.                           *)
TrackMoves(t) ==
  /\ at[t] < MaxMoves /\ at' = [at EXCEPT ![t] = @ + 1]
  /\ UNCHANGED <<query, debounced, loading, results, asks, current, typed>>
TrackGoes(t) ==
  /\ at[t] = MaxMoves /\ at' = [at EXCEPT ![t] = 0]
  /\ UNCHANGED <<query, debounced, loading, results, asks, current, typed>>

(* The field, or its clear button.                                         *)
Type ==
  /\ typed < MaxTyped /\ typed' = typed + 1
  /\ \E q \in Queries \cup {Short} : q # query /\ query' = q
  /\ UNCHANGED <<at, debounced, loading, results, asks, current>>

(* 300 ms later: the search before is cancelled, its request goes on.      *)
Debounce ==
  /\ query # debounced /\ debounced' = query /\ current' = current + 1
  /\ \/ /\ query = Short /\ results' = {} /\ UNCHANGED <<asks, loading>>
     \/ /\ query # Short /\ loading' = TRUE /\ UNCHANGED results
        /\ asks' = asks \cup {[of |-> current + 1, q |-> query,
              local |-> {[uid |-> t, at |-> at[t], live |-> TRUE] : t \in Found(query)}]}
  /\ UNCHANGED <<at, query, typed>>

(* The rows of the history, without the tracks that are on the map.        *)
History(a, uids) ==
  {[uid |-> t, at |-> 0, live |-> FALSE] : t \in uids \ {r.uid : r \in a.local}}

Show(a, rows) ==
  IF a.of = current THEN results' = rows /\ loading' = FALSE
                    ELSE UNCHANGED <<results, loading>>

(* The backend answers with some of what it knows; an error leaves what    *)
(* was found on the map.                                                   *)
Answer(a) ==
  /\ asks' = asks \ {a}
  /\ \E uids \in SUBSET Matches[a.q] : Show(a, a.local \cup History(a, uids))
  /\ UNCHANGED <<at, query, debounced, current, typed>>

(* Every two seconds: live rows move, and stay when their track is gone.   *)
Refresh ==
  /\ debounced # Short /\ results # {}
  /\ results' = {IF r.live /\ r.uid \in Found(debounced) THEN [r EXCEPT !.at = at[r.uid]] ELSE r :
                   r \in results}
  /\ UNCHANGED <<at, query, debounced, loading, asks, current, typed>>

Next ==
  \/ \E t \in Tracks : TrackMoves(t) \/ TrackGoes(t)
  \/ Type \/ Debounce \/ Refresh \/ \E a \in asks : Answer(a)

(* The timers fire and requests are answered or refused.                   *)
SearchFairness == WF_vars(Debounce) /\ WF_vars(\E a \in asks : Answer(a))

Spec == Init /\ [][Next]_vars /\ SearchFairness

-----------------------------------------------------------------------------
(* Properties.                                                             *)

(* Once a search has ended, the rows are of the query that was searched,   *)
(* each track in one row, whatever requests of earlier queries answer; and *)
(* a search that has not ended has its request under way.                  *)
ResultsAreOfQuery ==
  /\ TypeOK /\ \A r, s \in results : r.uid = s.uid => r = s
  /\ debounced = Short => results = {}
  /\ debounced # Short =>
       IF loading THEN \E a \in asks : a.of = current /\ a.q = debounced
       ELSE {r.uid : r \in results} \subseteq Matches[debounced]

(* A query that stands is searched to its end.                             *)
Wanted(q) == query = q
Ended(q) == query # q \/ (debounced = q /\ ~ loading)
=============================================================================
