---------------------------- MODULE MCHistorian ----------------------------
(* Historian with one key, two hashes and messages of every kind but tx.   *)
EXTENDS Historian, TLC

CONSTANTS k1, h1, h2, none

Msg(kind, hash, ok) == [kind |-> kind, key |-> k1, hash |-> hash, ok |-> ok]

MCKeys == {k1}
MCHashes == {h1, h2}

(* A position, a position the database refuses, a site, two orbital        *)
(* elements of one satellite, a failed observation, a skip.  Transmitters  *)
(* are handled by the same actions as sites.                               *)
MCMessages ==
  {Msg("track", none, TRUE), Msg("track", none, FALSE), Msg("rf", none, TRUE),
   Msg("tle", h1, TRUE), Msg("tle", h2, TRUE), Msg("event", none, FALSE),
   Msg("skip", none, TRUE)}

(* Hashes are compared for equality only.                                  *)
HashSymmetry == Permutations(MCHashes)
=============================================================================
