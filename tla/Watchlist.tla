------------------------------- MODULE Watchlist -------------------------------
(***************************************************************************)
(* The watchlist of aircraft: the panels of operators                      *)
(* (frontend/src/hooks/useWatchlist.ts, components/widgets/                *)
(* WatchlistManager.tsx, api/watchlist.ts), the endpoints                  *)
(* (backend/api/routers/system.py), and the poller that adds what it sees  *)
(* for some days and removes what has expired                              *)
(* (backend/ingestion/aviation_poller/opensky_watchlist.py, service.py).   *)
(*                                                                         *)
(* The list is one sorted set in Redis whose scores are times of expiry,   *)
(* and each operation is one command.  A panel asks for the list when it   *)
(* is opened and after its own additions, and takes what it removed off    *)
(* the list it shows.                                                      *)
(***************************************************************************)
EXTENDS Naturals, FiniteSets

CONSTANTS
  Craft,      \* aircraft
  Panels,     \* panels of operators
  Ttl,        \* how long what was seen stays
  MaxTime,    \* bound on time
  MaxAsks     \* bound on requests

VARIABLES
  now,
  expiry,     \* the sorted set
  asks,       \* requests of the panels that are open
  shown,      \* what each panel lists
  loading, adding,
  crossed,    \* history: requests of the panel were under way together
  changed,    \* history: others, or time, changed the list since it was read
  asked

vars == <<now, expiry, asks, shown, loading, adding, crossed, changed, asked>>
panels == <<shown, loading, adding>>

Forever == MaxTime + Ttl + 1
NoEntries == [c \in {} |-> 0]
Active == {c \in DOMAIN expiry : expiry[c] >= now}
With(c, t) == [d \in DOMAIN expiry \cup {c} |-> IF d = c THEN t ELSE expiry[d]]
Without(gone) == [d \in DOMAIN expiry \ gone |-> expiry[d]]

TypeOK ==
  /\ now \in 0..MaxTime /\ DOMAIN expiry \subseteq Craft
  /\ \A c \in DOMAIN expiry : expiry[c] \in 0..Forever
  /\ shown \in [Panels -> SUBSET Craft]
  /\ {loading, adding, crossed, changed} \subseteq [Panels -> BOOLEAN]
  /\ asked \in 0..MaxAsks

Nobody == [p \in Panels |-> FALSE]
Init ==
  /\ now = 0 /\ expiry = NoEntries /\ asks = {} /\ shown = [p \in Panels |-> {}]
  /\ loading = Nobody /\ adding = Nobody /\ crossed = Nobody /\ changed = Nobody
  /\ asked = 0

-----------------------------------------------------------------------------
(* The panel.                                                              *)

Pending(p) == {a \in asks : a.by = p}
Ask(p, what, c) ==
  [n |-> asked + 1, by |-> p, what |-> what, who |-> c, at |-> "sent", got |-> {},
   after |-> what]

Send(p, what, c) ==
  /\ asked < MaxAsks /\ asked' = asked + 1
  /\ asks' = asks \cup {Ask(p, what, c)}
  /\ crossed' = [crossed EXCEPT ![p] = @ \/ Pending(p) # {}]

(* Mounted anew: what an earlier mount asked for is not heard of.          *)
Open(p) ==
  /\ asked < MaxAsks /\ asked' = asked + 1
  /\ asks' = (asks \ Pending(p)) \cup {Ask(p, "list", CHOOSE c \in Craft : TRUE)}
  /\ shown' = [shown EXCEPT ![p] = {}] /\ loading' = [loading EXCEPT ![p] = TRUE]
  /\ adding' = [adding EXCEPT ![p] = FALSE]
  /\ crossed' = [crossed EXCEPT ![p] = Pending(p) # {}]
  /\ UNCHANGED <<now, expiry, changed>>

(* The button waits for the one before; the key Enter does not.            *)
AddEntry(p, c) ==
  /\ Send(p, "add", c) /\ adding' = [adding EXCEPT ![p] = TRUE]
  /\ UNCHANGED <<now, expiry, shown, loading, changed>>

RemoveEntry(p, c) ==
  /\ c \in shown[p] /\ Send(p, "remove", c)
  /\ UNCHANGED <<now, expiry, panels, changed>>

-----------------------------------------------------------------------------
(* The endpoints.                                                          *)

Becomes(a, b) == asks' = (asks \ {a}) \cup {b}
OthersChange(p) == changed' = [q \in Panels |-> changed[q] \/ q # p]

GetWatchlist(a) ==
  /\ a.what = "list" /\ a.at = "sent"
  /\ Becomes(a, [a EXCEPT !.at = "done", !.got = Active])
  /\ changed' = [changed EXCEPT ![a.by] = FALSE]
  /\ UNCHANGED <<now, expiry, panels, crossed, asked>>

(* An entry of a panel is permanent, whatever it was before.               *)
AddToWatchlist(a) ==
  /\ a.what = "add" /\ a.at = "sent"
  /\ Becomes(a, [a EXCEPT !.at = "done"])
  /\ expiry' = With(a.who, Forever) /\ OthersChange(a.by)
  /\ UNCHANGED <<now, panels, crossed, asked>>

RemoveFromWatchlist(a) ==
  /\ a.what = "remove" /\ a.at = "sent"
  /\ Becomes(a, [a EXCEPT !.at = IF a.who \in DOMAIN expiry THEN "done" ELSE "refused"])
  /\ expiry' = Without({a.who}) /\ OthersChange(a.by)
  /\ UNCHANGED <<now, panels, crossed, asked>>

(* No such address, too many requests, no Redis.                           *)
Refuse(a) ==
  /\ a.at = "sent" /\ Becomes(a, [a EXCEPT !.at = "refused"])
  /\ UNCHANGED <<now, expiry, panels, crossed, changed, asked>>

-----------------------------------------------------------------------------
(* Answers.                                                                *)

(* What was added shows when the list has come again.                      *)
Added(a) ==
  /\ a.what = "add" /\ a.at = "done"
  /\ Becomes(a, [a EXCEPT !.what = "list", !.at = "sent"])
  /\ loading' = [loading EXCEPT ![a.by] = TRUE]
  /\ UNCHANGED <<now, expiry, shown, adding, crossed, changed, asked>>

Listed(a) ==
  /\ a.what = "list" /\ a.at = "done" /\ asks' = asks \ {a}
  /\ shown' = [shown EXCEPT ![a.by] = a.got]
  /\ loading' = [loading EXCEPT ![a.by] = FALSE]
  /\ adding' = [adding EXCEPT ![a.by] = @ /\ a.after # "add"]
  /\ UNCHANGED <<now, expiry, crossed, changed, asked>>

Removed(a) ==
  /\ a.what = "remove" /\ a.at = "done" /\ asks' = asks \ {a}
  /\ shown' = [shown EXCEPT ![a.by] = @ \ {a.who}]
  /\ UNCHANGED <<now, expiry, loading, adding, crossed, changed, asked>>

(* An error is said, and the list stays as it is.                          *)
Refused(a) ==
  /\ a.at = "refused" /\ asks' = asks \ {a}
  /\ loading' = [loading EXCEPT ![a.by] = @ /\ a.what # "list"]
  /\ adding' = [adding EXCEPT ![a.by] = @ /\ a.after # "add"]
  /\ changed' = [changed EXCEPT ![a.by] = @ \/ a.what = "list"]
  /\ UNCHANGED <<now, expiry, shown, crossed, asked>>

-----------------------------------------------------------------------------
(* The poller.  What it sees stays for some days, even if it was permanent.*)

Seed(c) ==
  /\ expiry' = With(c, now + Ttl) /\ changed' = [p \in Panels |-> TRUE]
  /\ UNCHANGED <<now, asks, panels, crossed, asked>>

CleanupExpired ==
  /\ expiry' = Without({c \in DOMAIN expiry : expiry[c] < now})
  /\ UNCHANGED <<now, asks, panels, crossed, changed, asked>>

Tick ==
  /\ now < MaxTime /\ now' = now + 1
  /\ changed' = [p \in Panels |-> changed[p] \/ \E c \in DOMAIN expiry : expiry[c] = now]
  /\ UNCHANGED <<expiry, asks, panels, crossed, asked>>

Next ==
  \/ \E p \in Panels : Open(p) \/ \E c \in Craft : AddEntry(p, c) \/ RemoveEntry(p, c)
  \/ \E a \in asks : \/ GetWatchlist(a) \/ AddToWatchlist(a) \/ RemoveFromWatchlist(a)
                     \/ Refuse(a) \/ Added(a) \/ Listed(a) \/ Removed(a) \/ Refused(a)
  \/ \E c \in Craft : Seed(c)
  \/ CleanupExpired \/ Tick

-----------------------------------------------------------------------------
(* Properties.                                                             *)

(* A panel that waits for nothing shows the list, unless its own requests  *)
(* were under way together or others changed the list since it was read;   *)
(* and it is neither loading nor adding, whatever crossed.                 *)
Fresh(p) == ~ crossed[p] /\ ~ changed[p] /\ Pending(p) = {}
PanelsShowList ==
  \A p \in Panels :
    /\ Fresh(p) => shown[p] = Active
    /\ Pending(p) = {} => ~ loading[p] /\ ~ adding[p]
=============================================================================
