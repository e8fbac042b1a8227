---------------------------- MODULE SavedMissions ----------------------------
(***************************************************************************)
(* The saved missions (frontend/src/hooks/useMissionLocations.ts), the     *)
(* form that saves one (components/map/SaveLocationForm.tsx) and the list  *)
(* that deletes one (components/widgets/MissionNavigator.tsx).  Each page  *)
(* holds its list and writes it as a whole over the one key all pages of   *)
(* the browser share.                                                      *)
(***************************************************************************)
EXTENDS Integers, Sequences

CONSTANTS
  Pages,      \* the pages of one browser
  MaxSaved,   \* MAX_SAVED_MISSIONS
  Nearest, Farthest,  \* the radii the form accepts, 10 and 250
  Start,      \* the radius it starts with, 150
  MaxEdits    \* bound on missions saved or deleted, reloads and refused writes

VARIABLES
  operator,   \* the pages of an operator
  saved,      \* savedMissions of each page, newest first: a number and a radius
  disk,       \* the list in localStorage
  writer,     \* the page whose list that is, or none after a refused write
  form,       \* the radius in the form of each page, Closed without one
  made,       \* missions saved so far
  edits

vars == <<operator, saved, disk, writer, form, made, edits>>

Closed == -1
NoPage == 0
Typed == 0..Farthest + 1      \* 0 also stands for what is no number

TypeOK ==
  /\ operator \subseteq Pages /\ writer \in Pages \cup {NoPage}
  /\ \A p \in Pages : form[p] \in Typed \cup {Closed}
  /\ made \in 0..MaxEdits /\ edits \in 0..MaxEdits

Init ==
  /\ operator \in SUBSET Pages /\ saved = [p \in Pages |-> <<>>] /\ disk = <<>> /\ writer = NoPage
  /\ form = [p \in Pages |-> Closed] /\ made = 0 /\ edits = 0

(* The effect of a change: setItem() may refuse, and the page goes on.     *)
Set(p, list) ==
  /\ edits < MaxEdits /\ edits' = edits + 1
  /\ saved' = [saved EXCEPT ![p] = list]
  /\ \/ disk' = list /\ writer' = p
     \/ UNCHANGED disk /\ writer' = NoPage

(* The context menu of an operator.  An open form keeps its fields.        *)
MenuSaveLocation(p) ==
  /\ p \in operator /\ form' = [form EXCEPT ![p] = IF @ = Closed THEN Start ELSE @]
  /\ UNCHANGED <<operator, saved, disk, writer, made, edits>>

Type(p) ==
  /\ form[p] # Closed /\ \E r \in Typed : form' = [form EXCEPT ![p] = r]
  /\ UNCHANGED <<operator, saved, disk, writer, made, edits>>

(* The two buttons beside the field.                                       *)
Adjust(p) ==
  /\ form[p] # Closed
  /\ \/ form[p] < Farthest /\ form' = [form EXCEPT ![p] = @ + 1]
     \/ form[p] > Nearest /\ form' = [form EXCEPT ![p] = @ - 1]
  /\ UNCHANGED <<operator, saved, disk, writer, made, edits>>

Limited(list) == SubSeq(list, 1, IF Len(list) < MaxSaved THEN Len(list) ELSE MaxSaved)

SaveMission(p, m) == Set(p, Limited(<<m>> \o saved[p]))

(* A name is asked for, and a radius in range: else the form stays.        *)
FormSubmit(p) ==
  /\ form[p] \in Nearest..Farthest
  /\ SaveMission(p, [n |-> made + 1, r |-> form[p]])
  /\ made' = made + 1 /\ form' = [form EXCEPT ![p] = Closed]
  /\ UNCHANGED operator

FormCancel(p) ==
  /\ form[p] # Closed /\ form' = [form EXCEPT ![p] = Closed]
  /\ UNCHANGED <<operator, saved, disk, writer, made, edits>>

DeleteMission(p) ==
  /\ p \in operator
  /\ \E i \in DOMAIN saved[p] :
       Set(p, SubSeq(saved[p], 1, i - 1) \o SubSeq(saved[p], i + 1, Len(saved[p])))
  /\ UNCHANGED <<operator, form, made>>

(* A page starts from what is stored, and writes it back.                  *)
Reload(p) ==
  /\ Set(p, disk) /\ form' = [form EXCEPT ![p] = Closed]
  /\ UNCHANGED <<operator, made>>

Next ==
  \E p \in Pages : \/ MenuSaveLocation(p) \/ Type(p) \/ Adjust(p) \/ FormSubmit(p) \/ FormCancel(p)
                   \/ DeleteMission(p) \/ Reload(p)

Spec == Init /\ [][Next]_vars

-----------------------------------------------------------------------------
(* Properties.                                                             *)

WellFormed(list) ==
  /\ Len(list) <= MaxSaved /\ \A i \in DOMAIN list : list[i].r \in Nearest..Farthest
  /\ \A i, j \in DOMAIN list : i < j => list[i].n > list[j].n

(* However the pages of a browser overwrite each other's list, every list  *)
(* has the newest first, each once, with a radius the pollers accept, and  *)
(* what is stored is what the page that wrote last shows.                  *)
ListsAreWhole ==
  /\ TypeOK /\ WellFormed(disk) /\ \A p \in Pages : WellFormed(saved[p])
  /\ writer # NoPage => disk = saved[writer]
=============================================================================
