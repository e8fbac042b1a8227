------------------------------ MODULE Assessment ------------------------------
(***************************************************************************)
(* The assessments a user asks for in the menu of the map: the risk of a   *)
(* region, and one domain of it (frontend/src/App.tsx,                     *)
(* components/map/MapContextMenu.tsx, api/h3Risk.ts).                      *)
(*                                                                         *)
(* Each has one panel, which any request writes when it is asked and again *)
(* when it ends; nothing is cancelled but by the clock of 15 seconds that  *)
(* the request for a region has.                                           *)
(***************************************************************************)
EXTENDS Naturals, FiniteSets

CONSTANTS
  Places,   \* regions, or regions with a domain
  MaxAsks   \* bound on what is asked

VARIABLES
  region,   \* regionalRiskUi
  domain,   \* domainAnalysisUi
  asks,     \* requests under way
  asked

vars == <<region, domain, asks, asked>>

Hidden == "hidden"
None == 0

(* The status, the place the panel names, and the place that what it says  *)
(* is about: a result, or an error.                                        *)
NoPanel == [status |-> Hidden, of |-> None, says |-> None]
Panels == [status : {"loading", "success", "partial", "error"}, of : Places,
           says : Places \cup {None}] \cup {NoPanel}
Loading(p) == [status |-> "loading", of |-> p, says |-> None]

Asks == [n : 1..MaxAsks, what : {"region", "domain"}, of : Places,
         router : {"open", "answered", "refused"}, risk : BOOLEAN, late : BOOLEAN]

TypeOK ==
  /\ {region, domain} \subseteq Panels /\ asks \subseteq Asks /\ asked \in 0..MaxAsks

Init == region = NoPanel /\ domain = NoPanel /\ asks = {} /\ asked = 0

Ask(what, p) ==
  /\ asked < MaxAsks /\ asked' = asked + 1
  /\ asks' = asks \cup {[n |-> asked + 1, what |-> what, of |-> p, router |-> "open",
                         risk |-> FALSE, late |-> FALSE]}

(* handleAnalyzeRegionalRisk(): the router and the cells of the mission    *)
(* are asked together.                                                     *)
AnalyzeRegion(p) ==
  /\ Ask("region", p) /\ region' = Loading(p)
  /\ UNCHANGED domain

(* handleDomainAnalyze()                                                   *)
AnalyzeDomain(p) ==
  /\ Ask("domain", p) /\ domain' = Loading(p)
  /\ UNCHANGED region

-----------------------------------------------------------------------------
(* The region.  Promise.all waits for both, or for the first that throws;  *)
(* the request for the cells never throws.                                 *)

Becomes(a, b) == asks' = (asks \ {a}) \cup {b}

RouterAnswers(a) ==
  /\ a.what = "region" /\ a.router = "open"
  /\ \E r \in {"answered", "refused"} : Becomes(a, [a EXCEPT !.router = r])
  /\ UNCHANGED <<region, domain, asked>>

CellsAnswer(a) ==
  /\ a.what = "region" /\ ~ a.risk /\ Becomes(a, [a EXCEPT !.risk = TRUE])
  /\ UNCHANGED <<region, domain, asked>>

RegionSays(a, status) == [status |-> status, of |-> a.of, says |-> a.of]

(* The connection breaks.                                                  *)
RouterFails(a) ==
  /\ a.what = "region" /\ a.router = "open" /\ asks' = asks \ {a}
  /\ region' = RegionSays(a, "error")
  /\ UNCHANGED <<domain, asked>>

(* Aborted, the router's request throws if it is open; if its answer has   *)
(* come, the reading of its body will.                                     *)
TimesOut(a) ==
  /\ a.what = "region" /\ ~ a.late
  /\ IF a.router = "open" THEN asks' = asks \ {a} /\ region' = RegionSays(a, "error")
     ELSE Becomes(a, [a EXCEPT !.late = TRUE]) /\ UNCHANGED region
  /\ UNCHANGED <<domain, asked>>

(* Both have answered.  The result has a narrative or not, or its body     *)
(* cannot be read.                                                         *)
Evaluated(a) ==
  /\ a.what = "region" /\ a.router # "open" /\ a.risk /\ asks' = asks \ {a}
  /\ \E status \in {"success", "partial", "error"} :
       /\ a.router = "refused" \/ a.late => status = "error"
       /\ region' = RegionSays(a, status)
  /\ UNCHANGED <<domain, asked>>

-----------------------------------------------------------------------------
(* The domain.                                                             *)

Analyzed(a) ==
  /\ a.what = "domain" /\ asks' = asks \ {a}
  /\ domain' = [status |-> "success", of |-> a.of, says |-> a.of]
  /\ UNCHANGED <<region, asked>>

(* An error goes to the panel that is there, if one is.                    *)
DomainFails(a) ==
  /\ a.what = "domain" /\ asks' = asks \ {a}
  /\ domain' = IF domain = NoPanel THEN NoPanel
               ELSE [domain EXCEPT !.status = "error", !.says = a.of]
  /\ UNCHANGED <<region, asked>>

-----------------------------------------------------------------------------
(* The buttons of the panels.  What is under way goes on.                  *)

DismissRegion ==
  /\ region # NoPanel /\ region' = NoPanel
  /\ UNCHANGED <<domain, asks, asked>>

DismissDomain ==
  /\ domain # NoPanel /\ domain' = NoPanel
  /\ UNCHANGED <<region, asks, asked>>

Next ==
  \/ \E p \in Places : AnalyzeRegion(p) \/ AnalyzeDomain(p)
  \/ \E a \in asks : \/ RouterAnswers(a) \/ CellsAnswer(a) \/ RouterFails(a) \/ TimesOut(a)
                     \/ Evaluated(a) \/ Analyzed(a) \/ DomainFails(a)
  \/ DismissRegion \/ DismissDomain

-----------------------------------------------------------------------------
(* Properties.                                                             *)

(* What the panel of a region says is about the region it names, however   *)
(* requests cross, time out and are dismissed; so is the result of a       *)
(* domain, but not its error.  A panel that is loading waits for a request *)
(* of its place.                                                           *)
SaidOfPlace ==
  /\ region.status \in {"success", "partial", "error"} => region.says = region.of
  /\ domain.status = "success" => domain.says = domain.of
  /\ region.status = "loading" => \E a \in asks : a.what = "region" /\ a.of = region.of
  /\ domain.status = "loading" => \E a \in asks : a.what = "domain" /\ a.of = domain.of

(* No panel loads for ever.                                                *)
Waits(what) == (IF what = "region" THEN region ELSE domain).status = "loading"
=============================================================================
