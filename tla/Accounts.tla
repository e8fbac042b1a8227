------------------------------ MODULE Accounts ------------------------------
(***************************************************************************)
(* The administration of accounts: the panels of administrators            *)
(* (frontend/src/components/widgets/UserManagementPanel.tsx, api/auth.ts)  *)
(* and the endpoints they call (backend/api/routers/auth.py).              *)
(*                                                                         *)
(* A request is authorised, counted where an administrator is to be        *)
(* deactivated, and written, each by a statement of its own; after every   *)
(* change the panel asks for the whole list again.                         *)
(***************************************************************************)
EXTENDS Naturals

CONSTANTS
  Users,      \* accounts there may be
  Panels,     \* those of them that have the panel open
  MaxRequests \* bound on what is asked

VARIABLES
  accounts,   \* the table: role and activity
  requests,   \* on their way, at work, or answered and not yet received
  list,       \* users of each panel; an empty function before the first
  loading, creating,
  raced,      \* history: a change was written on what was no longer so
  asked

vars == <<accounts, requests, list, loading, creating, raced, asked>>

Roles == {"admin", "viewer"}
Account == [role : Roles, active : BOOLEAN]
NoUsers == [u \in {} |-> [role |-> "viewer", active |-> FALSE]]
IsAdmin(u) == u \in DOMAIN accounts /\ accounts[u] = [role |-> "admin", active |-> TRUE]
Admins == {u \in DOMAIN accounts : IsAdmin(u)}

TypeOK ==
  /\ DOMAIN accounts \subseteq Users /\ \A u \in DOMAIN accounts : accounts[u] \in Account
  /\ \A a \in Panels : DOMAIN list[a] \subseteq Users
  /\ {loading, creating} \subseteq [Panels -> BOOLEAN] /\ raced \in BOOLEAN
  /\ asked \in 0..MaxRequests

(* The panels have been opened.                                            *)
Init ==
  /\ accounts = [u \in Panels |-> [role |-> "admin", active |-> TRUE]]
  /\ requests = {} /\ list = [a \in Panels |-> accounts]
  /\ loading = [a \in Panels |-> FALSE] /\ creating = loading
  /\ raced = FALSE /\ asked = 0

-----------------------------------------------------------------------------
(* The panel.                                                              *)

Request(a, what, who, value) ==
  [n |-> asked', by |-> a, what |-> what, who |-> who, value |-> value, at |-> "sent",
   after |-> what, counted |-> {}, result |-> NoUsers]

Send(a, what, who, value) ==
  /\ asked < MaxRequests /\ asked' = asked + 1
  /\ requests' = requests \cup {Request(a, what, who, value)}

(* fetchUsers()                                                            *)
Open(a) ==
  /\ ~ loading[a] /\ Send(a, "list", a, "viewer")
  /\ loading' = [loading EXCEPT ![a] = TRUE]
  /\ list' = [list EXCEPT ![a] = NoUsers]
  /\ UNCHANGED <<accounts, creating, raced>>

(* Nobody changes the own role.                                            *)
RoleChange(a, u, r) ==
  /\ ~ loading[a] /\ u \in DOMAIN list[a] \ {a} /\ list[a][u].role # r
  /\ Send(a, "role", u, r)
  /\ UNCHANGED <<accounts, list, loading, creating, raced>>

(* What is asked depends on what the panel shows.                          *)
ToggleActive(a, u) ==
  /\ ~ loading[a] /\ u \in DOMAIN list[a] \ {a}
  /\ Send(a, IF list[a][u].active THEN "off" ELSE "on", u, "viewer")
  /\ UNCHANGED <<accounts, list, loading, creating, raced>>

Create(a, u, r) ==
  /\ ~ creating[a] /\ creating' = [creating EXCEPT ![a] = TRUE]
  /\ Send(a, "create", u, r)
  /\ UNCHANGED <<accounts, list, loading, raced>>

-----------------------------------------------------------------------------
(* The endpoints.                                                          *)

At(q, stage) == requests' = (requests \ {q}) \cup {[q EXCEPT !.at = stage]}

(* require_role("admin"): the account of the token is read every time.     *)
Authorise(q) ==
  /\ q.at = "sent" /\ At(q, IF IsAdmin(q.by) THEN "authorised" ELSE "refused")
  /\ UNCHANGED <<accounts, list, loading, creating, raced, asked>>

(* Slip: administrators that are not active count as well.                 *)
CountSlip(q) ==
  /\ q.at = "authorised" /\ q.what = "off"
  /\ LET all == {u \in DOMAIN accounts : accounts[u].role = "admin"}
         last == accounts[q.who].role = "admin" /\ \A u, v \in all : u = v IN
     IF q.by = q.who \/ q.who \notin DOMAIN accounts \/ last
     THEN At(q, "refused")
     ELSE requests' = (requests \ {q}) \cup
                        {[q EXCEPT !.at = "counted", !.counted = Admins]}
  /\ UNCHANGED <<accounts, list, loading, creating, raced, asked>>

(* DELETE: not oneself, not an unknown account, not the last administrator *)
(* (a count is the set of those counted).                                  *)
Count(q) ==
  /\ q.at = "authorised" /\ q.what = "off"
  /\ LET last == accounts[q.who].role = "admin" /\ \A u, v \in Admins : u = v IN
     IF q.by = q.who \/ q.who \notin DOMAIN accounts \/ last
     THEN At(q, "refused")
     ELSE requests' = (requests \ {q}) \cup
                        {[q EXCEPT !.at = "counted", !.counted = Admins]}
  /\ UNCHANGED <<accounts, list, loading, creating, raced, asked>>

Entry(q) ==
  [role |-> IF q.what \in {"role", "create"} THEN q.value ELSE accounts[q.who].role,
   active |-> IF q.what = "role" THEN accounts[q.who].active ELSE q.what # "off"]
Written(q) ==
  [u \in DOMAIN accounts \cup {q.who} |-> IF u = q.who THEN Entry(q) ELSE accounts[u]]

(* The statement itself asks for nothing.  PATCH has no look at who        *)
(* remains.                                                                *)
Write(q) ==
  /\ q.at = IF q.what = "off" THEN "counted" ELSE "authorised"
  /\ q.what # "list" /\ (q.what = "create") = (q.who \notin DOMAIN accounts)
  /\ accounts' = Written(q)
  /\ At(q, "written")
  /\ raced' = (\/ raced
               \/ q.what = "role" /\ ~ IsAdmin(q.by)
               \/ q.what = "off" /\ q.counted # Admins)
  /\ UNCHANGED <<list, loading, creating, asked>>

(* An unknown account, or one that exists already.                         *)
Rejected(q) ==
  /\ q.at = "authorised" /\ q.what \in {"role", "on", "create"}
  /\ (q.what = "create") = (q.who \in DOMAIN accounts)
  /\ At(q, "refused")
  /\ UNCHANGED <<accounts, list, loading, creating, raced, asked>>

List(q) ==
  /\ q.at = "authorised" /\ q.what = "list"
  /\ requests' = (requests \ {q}) \cup {[q EXCEPT !.at = "written", !.result = accounts]}
  /\ UNCHANGED <<accounts, list, loading, creating, raced, asked>>

-----------------------------------------------------------------------------
(* Answers.                                                                *)

(* A change is followed by the list; the form is usable when that came.    *)
Changed(q) ==
  /\ q.at = "written" /\ q.what # "list"
  /\ requests' = (requests \ {q}) \cup {[q EXCEPT !.what = "list", !.at = "sent"]}
  /\ loading' = [loading EXCEPT ![q.by] = TRUE]
  /\ UNCHANGED <<accounts, list, creating, raced, asked>>

(* Answers of lists may cross: the last one stays.                         *)
Listed(q) ==
  /\ q.at = "written" /\ q.what = "list" /\ requests' = requests \ {q}
  /\ list' = [list EXCEPT ![q.by] = q.result] /\ loading' = [loading EXCEPT ![q.by] = FALSE]
  /\ creating' = [creating EXCEPT ![q.by] = @ /\ q.after # "create"]
  /\ UNCHANGED <<accounts, raced, asked>>

Fails(q) ==
  /\ q.at = "refused" \/ (q.what = "list" /\ q.at = "sent")
  /\ requests' = requests \ {q}
  /\ loading' = [loading EXCEPT ![q.by] = @ /\ q.what # "list"]
  /\ creating' = [creating EXCEPT ![q.by] = @ /\ q.after # "create"]
  /\ UNCHANGED <<accounts, list, raced, asked>>

Next ==
  \/ \E a \in Panels :
       \/ Open(a)
       \/ \E u \in Users : \/ ToggleActive(a, u)
                            \/ \E r \in Roles : RoleChange(a, u, r) \/ Create(a, u, r)
  \/ \E q \in requests : \/ Authorise(q) \/ Count(q) \/ Write(q) \/ Rejected(q) \/ List(q)
                         \/ Changed(q) \/ Listed(q) \/ Fails(q)

-----------------------------------------------------------------------------
(* Properties.                                                             *)

(* However the changes of several administrators cross, someone remains    *)
(* who can administer, unless a change was written on what was no longer   *)
(* so when it was: an own role lost meanwhile, a count of before.          *)
AnAdminRemains == raced \/ Admins # {}
=============================================================================
