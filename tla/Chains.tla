-------------------------------- MODULE Chains --------------------------------
(***************************************************************************)
(* What is drawn of a clausal chain                                        *)
(* (frontend/src/layers/buildClausalChainLayer.ts): the stretches around   *)
(* its events, a dot for each event worth one, and one label.  A chain     *)
(* grows clause by clause between two polls.                               *)
(***************************************************************************)
EXTENDS Integers, Sequences, SequencesExt, FiniteSets, FiniteSetsExt

CONSTANTS
  Reasons,    \* reasons of a state change
  Suppressed, \* SUPPRESSED_EVENTS: reasons that are too common for a dot
  Plain,      \* a clause without a reason
  Window,     \* WINDOW
  MaxClauses  \* bound on the length of a chain

VARIABLES
  clauses,    \* the reasons of the clauses of a chain, oldest first
  visible,    \* showClausalChains
  paths,      \* the stretches drawn, as ranges of clauses
  dots,       \* the clauses with a dot
  label       \* the clause the label is at, 0 without one

vars == <<clauses, visible, paths, dots, label>>

Events(c) == {i \in DOMAIN c : c[i] # Plain}
IsInteresting(r) == r \in Reasons \ Suppressed
Interesting(c) == {i \in Events(c) : IsInteresting(c[i])}

TypeOK ==
  /\ clauses \in Seq(Reasons \cup {Plain}) /\ Len(clauses) <= MaxClauses /\ visible \in BOOLEAN
  /\ \A i \in DOMAIN paths : paths[i] \in [lo : DOMAIN clauses, hi : DOMAIN clauses]
  /\ dots \subseteq DOMAIN clauses /\ label \in DOMAIN clauses \cup {0}

(* A window that overlaps the one before, or touches it, widens it.        *)
Widen(ranges, lo, hi) ==
  IF ranges # <<>> /\ lo <= Last(ranges).hi + 1
  THEN Append(Front(ranges), [lo |-> Last(ranges).lo, hi |-> Max({Last(ranges).hi, hi})])
  ELSE Append(ranges, [lo |-> lo, hi |-> hi])

(* extractEventSegments(), event by event.                                 *)
ExtractEventSegments(c) ==
  FoldLeft(LAMBDA ranges, i : Widen(ranges, Max({1, i - Window}), Min({Len(c), i + Window})),
           <<>>, SetToSortSeq(Events(c), <))

(* A stretch of one clause is no path.                                     *)
PathData(c) == SelectSeq(ExtractEventSegments(c), LAMBDA s : s.hi > s.lo)

(* Common events have a dot only in a chain that has no others.            *)
EventData(c) == IF Interesting(c) = {} THEN Events(c) ELSE Interesting(c)

TextData(c) == IF Interesting(c) = {} THEN 0 ELSE Max(Interesting(c))

Draw ==
  /\ paths' = (IF visible' THEN PathData(clauses') ELSE <<>>)
  /\ dots' = (IF visible' THEN EventData(clauses') ELSE {})
  /\ label' = (IF visible' THEN TextData(clauses') ELSE 0)

Init ==
  /\ clauses = <<>> /\ visible \in BOOLEAN /\ paths = <<>> /\ dots = {} /\ label = 0

(* The next poll has one more clause.                                      *)
Grow ==
  /\ Len(clauses) < MaxClauses /\ \E r \in Reasons \cup {Plain} : clauses' = Append(clauses, r)
  /\ UNCHANGED visible /\ Draw

(* The lookback window moves on: the oldest clause is left out.            *)
Forget ==
  /\ clauses # <<>> /\ clauses' = Tail(clauses) /\ UNCHANGED visible /\ Draw

ToggleLayer == visible' = ~ visible /\ UNCHANGED clauses /\ Draw

Next == Grow \/ Forget \/ ToggleLayer

Spec == Init /\ [][Next]_vars

-----------------------------------------------------------------------------
(* Properties.                                                             *)

Near(c, i) == \E e \in Events(c) : i \in e - Window..e + Window

(* The paths are the longest stretches of clauses near an event: every     *)
(* such clause of a stretch of two or more is in exactly one, and no two   *)
(* stretches touch.  The label is at a dot, and a chain with an event has  *)
(* one.                                                                    *)
DrawnIsNear ==
  /\ TypeOK
  /\ visible =>
       /\ UNION {paths[k].lo..paths[k].hi : k \in DOMAIN paths}
            = {i \in DOMAIN clauses : Near(clauses, i)
                 /\ \E j \in {i - 1, i + 1} \cap DOMAIN clauses : Near(clauses, j)}
       /\ \A k \in 1..Len(paths) - 1 : paths[k].hi + 1 < paths[k + 1].lo
       /\ (dots = {}) <=> (Events(clauses) = {})
       /\ label # 0 => label \in dots /\ \A i \in dots : i <= label
=============================================================================
