------------------------------ MODULE Analyst ------------------------------
(***************************************************************************)
(* The AI analyst panel: a run asks the analysis of a domain, falls back   *)
(* to a stream, and appends what it brings to one shared text              *)
(* (frontend/src/hooks/useAnalysis.ts, AIAnalystPanel.tsx).                *)
(*                                                                         *)
(* Only a run that has its reader can be cancelled.  One that still asks   *)
(* goes on behind a HALT, a closed panel or the next run.                  *)
(***************************************************************************)
EXTENDS Naturals

CONSTANTS
  Craft,     \* entities of a domain: air, sea, orbital
  Places,    \* other entities
  Sitrep,    \* the report on the intelligence view, one of Places
  MaxRuns,   \* bound on runs
  MaxOpens   \* bound on openings of the panel

VARIABLES
  open, selected,   \* the panel, and the entity it is about
  runs,             \* in flight: its number, its entity, what it waits for
  reader,           \* readerRef: the number of the run that streams
  text,             \* the runs the text is made of
  streaming,        \* isStreaming
  started, opens,   \* runs, openings so far
  left              \* history: a run was left behind that had no reader

vars == <<open, selected, runs, reader, text, streaming, started, opens, left>>

None == 0
Entities == Craft \cup Places
Run == [id : 1..MaxRuns, of : Entities, at : {"domain", "asking", "stream"}]

TypeOK ==
  /\ open \in BOOLEAN /\ selected \in Entities \cup {None}
  /\ runs \subseteq Run /\ reader \in 0..MaxRuns /\ text \subseteq 1..MaxRuns
  /\ streaming \in BOOLEAN /\ started \in 0..MaxRuns /\ opens \in 0..MaxOpens
  /\ left \in BOOLEAN

Init ==
  /\ open = FALSE /\ selected = None /\ runs = {} /\ reader = None /\ text = {}
  /\ streaming = FALSE /\ started = 0 /\ opens = 0 /\ left = FALSE

(* A cancelled reader ends its run as soon as the handler is done, which   *)
(* also puts isStreaming out.                                              *)
Cancelled == {r \in runs : r.id = reader}

LeavesBehind == \E r \in runs : r.id # reader

-----------------------------------------------------------------------------
(* The panel.                                                              *)

Reset ==
  /\ runs' = runs \ Cancelled /\ reader' = None /\ text' = {} /\ streaming' = FALSE
  /\ left' = (left \/ LeavesBehind)

(* The effect of a panel that is closed or has no entity.  Between two     *)
(* entities it does nothing.                                               *)
ResetEffect ==
  IF ~ open' \/ selected' = None THEN Reset
  ELSE UNCHANGED <<runs, reader, text, streaming, left>>

Open ==
  /\ ~ open /\ selected # None /\ opens < MaxOpens
  /\ open' = TRUE /\ opens' = opens + 1 /\ selected' = selected /\ ResetEffect
  /\ UNCHANGED started

GenerateSitrep ==
  /\ opens < MaxOpens /\ opens' = opens + 1
  /\ open' = TRUE /\ selected' = Sitrep /\ ResetEffect
  /\ UNCHANGED started

Close ==
  /\ open /\ open' = FALSE
  /\ selected' = (IF selected = Sitrep THEN None ELSE selected) /\ ResetEffect
  /\ UNCHANGED <<started, opens>>

Select(e) ==
  /\ e # selected /\ e # Sitrep /\ open' = open /\ selected' = e /\ ResetEffect
  /\ UNCHANGED <<started, opens>>

SwitchView ==
  /\ open \/ selected # None
  /\ open' = FALSE /\ selected' = None /\ ResetEffect
  /\ UNCHANGED <<started, opens>>

Halt ==
  /\ open /\ streaming /\ Reset
  /\ UNCHANGED <<open, selected, started, opens>>

-----------------------------------------------------------------------------
(* Runs.                                                                   *)

(* handleRun: the button is there while nothing streams.                   *)
Start ==
  /\ open /\ selected # None /\ ~ streaming /\ started < MaxRuns
  /\ started' = started + 1
  /\ runs' = (runs \ Cancelled)
             \cup {[id |-> started', of |-> selected,
                    at |-> IF selected \in Craft THEN "domain" ELSE "asking"]}
  /\ reader' = None /\ text' = {} /\ streaming' = (Cancelled = {})
  /\ left' = (left \/ LeavesBehind)
  /\ UNCHANGED <<open, selected, opens>>

(* A run that is over, with or without an answer.                          *)
Over(r) ==
  /\ runs' = runs \ {r} /\ reader' = None /\ streaming' = FALSE
  /\ UNCHANGED <<open, selected, started, opens, left>>

DomainAnswer(r) ==
  /\ r.at = "domain" /\ text' = {r.id} /\ Over(r)

DomainFails(r) ==
  /\ r.at = "domain" /\ runs' = (runs \ {r}) \cup {[r EXCEPT !.at = "asking"]}
  /\ UNCHANGED <<open, selected, reader, text, streaming, started, opens, left>>

StreamOpens(r) ==
  /\ r.at = "asking" /\ runs' = (runs \ {r}) \cup {[r EXCEPT !.at = "stream"]}
  /\ reader' = r.id
  /\ UNCHANGED <<open, selected, text, streaming, started, opens, left>>

Chunk(r) ==
  /\ r.at = "stream" /\ text' = text \cup {r.id}
  /\ UNCHANGED <<open, selected, runs, reader, streaming, started, opens, left>>

(* Refused, lost, an error event, the end of the stream.                   *)
Fails(r) == r.at # "domain" /\ UNCHANGED text /\ Over(r)

Next ==
  \/ Open \/ GenerateSitrep \/ Close \/ SwitchView \/ Halt \/ Start
  \/ \E e \in Entities \cup {None} : Select(e)
  \/ \E r \in runs :
       DomainAnswer(r) \/ DomainFails(r) \/ StreamOpens(r) \/ Chunk(r) \/ Fails(r)

(* What is asked is answered, and streams end.                             *)
Fairness == WF_vars(\E r \in runs : DomainAnswer(r) \/ StreamOpens(r)) /\
            WF_vars(\E r \in runs : Fails(r))

-----------------------------------------------------------------------------
(* Properties.                                                             *)

(* As long as no run was left behind without its reader, what the panel    *)
(* shows is of the last one alone, and the spinner turns exactly while it  *)
(* is under way, so that HALT stops what is there.                         *)
OneRun ==
  ~ left => /\ text \subseteq {started}
            /\ \A r, s \in runs : r = s
            /\ streaming <=> runs # {}
=============================================================================
