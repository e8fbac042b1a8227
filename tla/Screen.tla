------------------------------- MODULE Screen -------------------------------
(***************************************************************************)
(* What a view promises of the data it polls, whatever hook fetches it: it *)
(* shows what the server once said of some subject.  A hook that looks     *)
(* after its requests promises that they do not land on another subject,   *)
(* and one that has a single request at a time that it never goes back.    *)
(* Implemented by Feed.                                                    *)
(***************************************************************************)
EXTENDS Naturals

CONSTANTS Subjects

Off == 0
Nothing == [of |-> Off, at |-> 0]

VARIABLES
  promise,   \* "any", "wanted" or "in order"; does not change
  subject,   \* what the view is about
  version,   \* what the server has
  shown

vars == <<promise, subject, version, shown>>

Init ==
  /\ promise \in {"any", "wanted", "in order"}
  /\ subject = Off /\ version = 1 /\ shown = Nothing

Publish == version' = version + 1 /\ UNCHANGED <<promise, subject, shown>>

Blank == shown' = Nothing /\ UNCHANGED <<promise, subject, version>>

(* The view turns to something else, with or without what it shows.        *)
Turn ==
  /\ subject' \in Subjects \cup {Off} /\ shown' \in {shown, Nothing}
  /\ UNCHANGED <<promise, version>>

(* What is kept in the browser may be older than what is shown.            *)
TurnToKept ==
  /\ promise # "in order" /\ subject' \in Subjects
  /\ \E v \in 1..version : shown' = [of |-> subject', at |-> v]
  /\ UNCHANGED <<promise, version>>

Show ==
  /\ \E s \in Subjects, v \in 1..version :
       /\ shown' = [of |-> s, at |-> v]
       /\ promise # "any" => s = subject
       /\ promise = "in order" => shown.at <= v
  /\ UNCHANGED <<promise, subject, version>>

Next == Publish \/ Blank \/ Turn \/ TurnToKept \/ Show

Spec == Init /\ [][Next]_vars
=============================================================================
