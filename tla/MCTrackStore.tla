---------------------------- MODULE MCTrackStore ----------------------------
(* Two mission areas, one within the other, and one object of each kind.   *)
(* No action relates two objects, so each behaviour is about one of them:  *)
(* the sum of three state spaces is explored instead of their product.     *)
EXTENDS TrackStore, TLC

CONSTANTS a1, s1, k1, p1, p2, m1, m2, squawk, aground

VARIABLE focus

MCCovers == m1 :> {p1} @@ m2 :> {p1, p2}

MCInit == Init /\ focus \in Tracks \cup Sats

MCNext ==
  /\ Next /\ UNCHANGED focus
  /\ \A u \in Tracks \ {focus} : ent'[u] = NoTrack
  /\ \A u \in Sats \ {focus} : sat'[u] = 0
  /\ watched' \subseteq {focus}

MCSpec == MCInit /\ [][MCNext]_<<vars, focus>>
=============================================================================
