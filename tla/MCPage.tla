------------------------------- MODULE MCPage -------------------------------
(* The bounds of each part: all the variables of a behaviour are of one.   *)
EXTENDS Page

MCRecords == {<<1, 3, 4>>, <<2, 2, 5>>}

(* Two queries, of which one finds all that the other does.                *)
MCMatches == [q \in {1, 2} |-> IF q = 1 THEN {1, 2} ELSE {2}]

-----------------------------------------------------------------------------
(* What is under way, and when it is over; i is a token, a query, a panel, *)
(* a position, a track.                                                    *)
Begun(i) ==
  \/ part = "session" /\ Auth!Refused(i)
  \/ part = "replay" /\ s2
  \/ part = "analyst" /\ s6
  \/ part = "search" /\ Finder!Wanted(i)
  \/ part = "iss" /\ Station!Taken(i + 1)
  \/ part = "assessment" /\ Risk!Waits(IF i = 1 THEN "region" ELSE "domain")
  \/ part = "follow" /\ Camera!Follows(i, 1)
Ended(i) ==
  \/ part = "session" /\ Auth!AtLogin
  \/ part = "replay" /\ ~ s2
  \/ part = "analyst" /\ ~ s6
  \/ part = "search" /\ Finder!Ended(i)
  \/ part = "iss" /\ Station!Reached(i + 1)
  \/ part = "assessment" /\ ~ Risk!Waits(IF i = 1 THEN "region" ELSE "domain")
  \/ part = "follow" /\ Camera!There(i, 1)

(* What is begun ends: a session the server does not accept at the login   *)
(* form, a playback, a stream of the analyst, a search, an assessment; and *)
(* what moves is followed, by the tracker of the space station and by the  *)
(* camera.                                                                 *)
WhatIsBegunEnds == \A i \in 1..2 : Begun(i) ~> Ended(i)
=============================================================================
