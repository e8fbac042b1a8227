----------------------------- MODULE MCAviation -----------------------------
(* Overlapping areas of two cells each; two loops.                         *)
EXTENDS Aviation

MCRegion(m) == IF m = "home" THEN {1, 2} ELSE {2, 3}
=============================================================================
