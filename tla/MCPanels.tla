------------------------------ MODULE MCPanels ------------------------------
(***************************************************************************)
(* The panels with the bounds of each, and two that only TLC checks: the   *)
(* notices and the chains of clauses, whose lists are built by folds.      *)
(***************************************************************************)
EXTENDS Panels, TLC

CONSTANTS h1, h2, f1, f2   \* receivers and frequencies of the radio

MCFreqs == {0, f1, f2}

(* The radio compares receivers and frequencies, and nothing else does.    *)
Symmetry == Permutations({h1, h2}) \cup Permutations({f1, f2})

News == INSTANCE Notices WITH
  Holds <- {"hold"}, Zones <- {"zone"}, Storms <- {"storm"}, Passes <- {"pass"},
  Rise <- [p \in {"pass"} |-> 3],
  Again <- [s \in {"hold", "jam", "storm"} |-> IF s = "jam" THEN 2 ELSE 3], Window <- 2,
  Keep <- 3, Cap <- 3, Infra <- {"cables"}, MaxTime <- 4, MaxSteps <- 4, now <- p1,
  events <- p2, spoken <- p3, announced <- p4, mounted <- p5, mounts <- p6, named <- p7,
  layers <- p8, loaded <- p9, noticed <- p10, was <- p11, steps <- p12

Chain == INSTANCE Chains WITH
  Reasons <- {1, 2}, Suppressed <- {2}, Plain <- 0, Window <- 2, MaxClauses <- 6,
  clauses <- p1, visible <- p2, paths <- p3, dots <- p4, label <- p5

Init ==
  \/ PanelsInit
  \/ /\ panel = "notices" /\ News!Init
     /\ p13 = 0 /\ p14 = 0 /\ p15 = 0 /\ p16 = 0 /\ p17 = 0 /\ p18 = 0 /\ p19 = 0 /\ p20 = 0
     /\ p21 = 0 /\ p22 = 0
  \/ /\ panel = "chains" /\ Chain!Init
     /\ p6 = 0 /\ p7 = 0 /\ p8 = 0 /\ p9 = 0 /\ p10 = 0 /\ p11 = 0 /\ p12 = 0 /\ p13 = 0
     /\ p14 = 0 /\ p15 = 0 /\ p16 = 0 /\ p17 = 0 /\ p18 = 0 /\ p19 = 0 /\ p20 = 0 /\ p21 = 0
     /\ p22 = 0

Next ==
  \/ PanelsNext
  \/ /\ panel = "notices" /\ News!Next
     /\ UNCHANGED <<panel, p13, p14, p15, p16, p17, p18, p19, p20, p21, p22>>
  \/ /\ panel = "chains" /\ Chain!Next
     /\ UNCHANGED <<panel, p6, p7, p8, p9, p10, p11, p12, p13, p14, p15, p16, p17, p18, p19, p20,
                    p21, p22>>

Spec == Init /\ [][Next]_panelsVars

(* Of what goes on the list of notices repeats nothing too early and       *)
(* leaves out no alert, and of a chain of clauses is drawn what is near an *)
(* event.                                                                  *)
NoticedIsWhole ==
  /\ panel = "notices" => News!NoticesAreWhole
  /\ panel = "chains" => Chain!DrawnIsNear
=============================================================================
