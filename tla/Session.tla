------------------------------ MODULE Session ------------------------------
(***************************************************************************)
(* The session of a browser tab (frontend/src/hooks/useAuth.tsx,           *)
(* api/auth.ts, main.tsx, components/views/LoginView.tsx, App.tsx).        *)
(*                                                                         *)
(* The token is held in memory and in sessionStorage.  Every request goes  *)
(* through a wrapper of fetch that, on a 401 while there is a token, calls *)
(* logout() without waiting for it and asks for a reload; what runs in the *)
(* page runs on until the browser has the new document.                    *)
(***************************************************************************)
EXTENDS Naturals, FiniteSets

CONSTANTS
  Users,
  MaxTokens,   \* bound on logins
  MaxFaults    \* bound on failures of server and network

NoToken == 0
NoUser == "nobody"
Tokens == 1..MaxTokens

VARIABLES
  owner,      \* the server: whose the tokens it gave are
  valid,      \* and those it accepts
  accounts,   \* it has users: the first is made by the setup
  memory, stored,        \* _token and sw_token
  status, user,          \* of the AuthProvider
  setup,      \* setupRequired: unknown, or what the server said last
  asking,     \* getSetupStatus(), once whenever the status becomes unauthenticated
  call,       \* the step init(), login() or logout() has come to
  calls401,   \* logout() of the wrapper under way
  requests,   \* of the views: the tokens they carry
  reloading,  \* location.reload() was called
  stranded,   \* history: a login had its token and failed then
  faults

vars == <<owner, valid, accounts, memory, stored, status, user, setup, asking, call,
          calls401, requests, reloading, stranded, faults>>
server == <<owner, valid, accounts>>
held == <<memory, stored>>
shown == <<status, user, setup, asking>>

Idle == [at |-> "idle", who |-> NoUser, token |-> NoToken]
Step(at, who, token) == [at |-> at, who |-> who, token |-> token]

TypeOK ==
  /\ owner \in [Tokens -> Users \cup {NoUser}]
  /\ valid \subseteq {t \in Tokens : owner[t] # NoUser}
  /\ accounts \in BOOLEAN
  /\ {memory, stored} \subseteq {NoToken} \cup {t \in Tokens : owner[t] # NoUser}
  /\ status \in {"initialising", "authenticated", "unauthenticated"}
  /\ user \in Users \cup {NoUser}
  /\ setup \in {"unknown", "required", "done"} /\ asking \in {"no", "asked", "told"}
  /\ call.at \in {"idle", "init", "setup", "login", "me", "logout"}
  /\ calls401 \subseteq Tokens /\ requests \subseteq Tokens
  /\ reloading \in BOOLEAN /\ stranded \in BOOLEAN /\ faults \in 0..MaxFaults

(* A new document: the token of the last one may be in sessionStorage.     *)
Mount(token) ==
  /\ user' = NoUser /\ setup' = "unknown" /\ asking' = "no" /\ calls401' = {} /\ requests' = {}
  /\ reloading' = FALSE /\ memory' = token
  /\ status' = IF token = NoToken THEN "unauthenticated" ELSE "initialising"
  /\ call' = IF token = NoToken THEN Idle ELSE Step("init", NoUser, token)

Init ==
  /\ owner = [t \in Tokens |-> NoUser] /\ valid = {} /\ accounts \in BOOLEAN
  /\ memory = NoToken /\ stored = NoToken /\ status = "unauthenticated" /\ user = NoUser
  /\ setup = "unknown" /\ asking = "no" /\ call = Idle /\ calls401 = {} /\ requests = {}
  /\ reloading = FALSE /\ stranded = FALSE /\ faults = 0

Fault == faults < MaxFaults /\ faults' = faults + 1

-----------------------------------------------------------------------------
(* The wrapper: what a 401 does, with or without regard to whose it was.   *)

Token == IF memory # NoToken THEN memory ELSE stored

(* Slip: nobody asks for the reload.                                       *)
UnauthorisedSlip ==
  IF Token # NoToken
  THEN memory' = NoToken /\ UNCHANGED <<reloading, calls401>>
  ELSE UNCHANGED <<memory, reloading, calls401>>

Unauthorised ==
  IF Token # NoToken
  THEN /\ memory' = Token /\ reloading' = TRUE
       /\ calls401' = calls401 \cup {Token}
  ELSE UNCHANGED <<memory, reloading, calls401>>

(* The logout() of the wrapper ends when its own POST is answered, which   *)
(* may be another 401; the token in use then is the one that goes.         *)
WrapperLogout(t) ==
  /\ t \in calls401
  /\ calls401' = IF t \notin valid /\ Token # NoToken THEN calls401 ELSE calls401 \ {t}
  /\ reloading' = (reloading \/ (t \notin valid /\ Token # NoToken))
  /\ memory' = NoToken /\ stored' = NoToken
  /\ UNCHANGED <<server, shown, call, requests, stranded, faults>>

(* The browser has the new document.                                       *)
Reload ==
  /\ reloading
  /\ Mount(stored) /\ stranded' = FALSE
  /\ UNCHANGED <<server, stored, faults>>

-----------------------------------------------------------------------------
(* AuthProvider: the effect of the mount.                                  *)

InitAnswer ==
  /\ call.at = "init" /\ call' = Idle
  /\ \/ /\ call.token \in valid
        /\ user' = owner[call.token] /\ status' = "authenticated"
        /\ UNCHANGED <<held, reloading, calls401, faults>>
     \/ /\ call.token \notin valid /\ reloading' = TRUE /\ calls401' = calls401 \cup {Token}
        /\ memory' = NoToken /\ stored' = NoToken /\ status' = "unauthenticated"
        /\ UNCHANGED <<user, faults>>
     \/ /\ Fault /\ memory' = NoToken /\ stored' = NoToken /\ status' = "unauthenticated"
        /\ UNCHANGED <<user, reloading, calls401>>
  /\ UNCHANGED <<server, setup, asking, requests, stranded>>

-----------------------------------------------------------------------------
(* App and LoginView: which form, and its submission.                      *)

AskSetup ==
  /\ status = "unauthenticated" /\ asking = "no" /\ asking' = "asked"
  /\ UNCHANGED <<server, held, status, user, setup, call, calls401, requests, reloading,
                 stranded, faults>>

SetupAnswer ==
  /\ asking = "asked" /\ asking' = "told"
  /\ \/ setup' = (IF accounts THEN "done" ELSE "required") /\ UNCHANGED faults
     \/ setup' = "done" /\ Fault
  /\ UNCHANGED <<server, held, status, user, call, calls401, requests, reloading, stranded>>

(* The form is the one of the last answer, while another is awaited.       *)
Submit ==
  /\ status = "unauthenticated" /\ setup \in {"required", "done"} /\ call.at = "idle"
  /\ \E u \in Users :
       call' = Step(IF setup = "required" THEN "setup" ELSE "login", u, NoToken)
  /\ UNCHANGED <<server, held, shown, calls401, requests, reloading, stranded, faults>>

(* The first account; refused when there is one already.                   *)
SetupPost ==
  /\ call.at = "setup"
  /\ IF accounts THEN call' = Idle /\ UNCHANGED accounts
     ELSE accounts' = TRUE /\ call' = [call EXCEPT !.at = "login"]
  /\ UNCHANGED <<owner, valid, held, shown, calls401, requests, reloading, stranded, faults>>

(* Slip: a token that is held already is not replaced.                     *)
LoginPostSlip ==
  /\ call.at = "login" /\ accounts
  /\ \E t \in Tokens :
       /\ owner[t] = NoUser /\ \A s \in Tokens : s < t => owner[s] # NoUser
       /\ owner' = [owner EXCEPT ![t] = call.who] /\ valid' = valid \cup {t}
       /\ memory' = (IF Token = NoToken THEN t ELSE Token) /\ stored' = memory'
       /\ call' = Step("me", call.who, t)
  /\ UNCHANGED <<accounts, shown, calls401, requests, reloading, stranded, faults>>

(* login(): the token is put away before the profile is asked for.         *)
LoginPost ==
  /\ call.at = "login" /\ accounts
  /\ \E t \in Tokens :
       /\ owner[t] = NoUser /\ \A s \in Tokens : s < t => owner[s] # NoUser
       /\ owner' = [owner EXCEPT ![t] = call.who] /\ valid' = valid \cup {t}
       /\ memory' = t /\ stored' = t /\ call' = Step("me", call.who, t)
  /\ UNCHANGED <<accounts, shown, calls401, requests, reloading, stranded, faults>>

(* A wrong password is a 401 as well.                                      *)
LoginRefused ==
  /\ call.at = "login" /\ call' = Idle /\ Unauthorised
  /\ UNCHANGED <<server, stored, shown, requests, stranded, faults>>

LoginMe ==
  /\ call.at = "me" /\ call' = Idle
  /\ \/ /\ call.token \in valid
        /\ user' = owner[call.token] /\ status' = "authenticated" /\ asking' = "no"
        /\ UNCHANGED <<memory, calls401, reloading, stranded, faults>>
     \/ /\ call.token \notin valid /\ Unauthorised /\ stranded' = TRUE
        /\ UNCHANGED <<status, user, asking, faults>>
     \/ /\ Fault /\ stranded' = TRUE
        /\ UNCHANGED <<status, user, asking, memory, calls401, reloading>>
  /\ UNCHANGED <<server, stored, setup, requests>>

-----------------------------------------------------------------------------
(* The session.                                                            *)

Request ==
  /\ status = "authenticated" /\ Token # NoToken
  /\ requests' = requests \cup {Token} /\ memory' = Token
  /\ UNCHANGED <<server, stored, shown, call, calls401, reloading, stranded, faults>>

RequestAnswer(t) ==
  /\ t \in requests /\ requests' = requests \ {t}
  /\ IF t \in valid THEN UNCHANGED <<memory, calls401, reloading>> ELSE Unauthorised
  /\ UNCHANGED <<server, stored, shown, call, stranded, faults>>

(* The user menu closes with the click.                                    *)
Logout ==
  /\ status = "authenticated" /\ call.at = "idle"
  /\ call' = Step("logout", NoUser, memory)
  /\ UNCHANGED <<server, held, shown, calls401, requests, reloading, stranded, faults>>

(* Whatever the POST came to; a 401 is one for the wrapper, too.           *)
LogoutEnds ==
  /\ call.at = "logout" /\ call' = Idle
  /\ memory' = NoToken /\ stored' = NoToken /\ user' = NoUser
  /\ status' = "unauthenticated"
  /\ IF call.token # NoToken /\ call.token \notin valid /\ Token # NoToken
     THEN reloading' = TRUE /\ calls401' = calls401 \cup {Token}
     ELSE UNCHANGED <<reloading, calls401>>
  /\ UNCHANGED <<server, setup, asking, requests, stranded, faults>>

(* Expiry, a new password, or the account was closed.                      *)
Expire(t) ==
  /\ t \in valid /\ valid' = valid \ {t}
  /\ UNCHANGED <<owner, accounts, held, shown, call, calls401, requests, reloading, stranded,
                 faults>>

Next ==
  \/ Reload \/ InitAnswer \/ AskSetup \/ SetupAnswer \/ Submit \/ SetupPost \/ LoginPost
  \/ LoginRefused \/ LoginMe \/ Request \/ Logout \/ LogoutEnds
  \/ \E t \in Tokens : WrapperLogout(t) \/ RequestAnswer(t) \/ Expire(t)

(* The views poll, the server answers, and the browser reloads.  The new   *)
(* document is a round trip away, the handlers of an answer a few          *)
(* microtasks: they are not overtaken for ever.                            *)
Spec ==
  /\ Init /\ [][Next]_vars
  /\ WF_vars(Request) /\ WF_vars(Reload) /\ SF_vars(InitAnswer) /\ WF_vars(LogoutEnds)
  /\ \A t \in Tokens : SF_vars(RequestAnswer(t)) /\ WF_vars(WrapperLogout(t))

-----------------------------------------------------------------------------
(* Properties.                                                             *)

(* Whoever the page is shown to, the requests are made in his name or in   *)
(* nobody's, after any sequence of logins, logouts, expiries and reloads.  *)
UserOwnsToken ==
  status = "authenticated" => /\ user # NoUser
                              /\ Token # NoToken => owner[Token] = user

(* The login form is over no session that a reload would bring back,       *)
(* unless a login failed between its token and its profile.                *)
NoTokenLeftBehind ==
  status = "unauthenticated" /\ call.at # "me" => stranded \/ Token = NoToken

(* A session the server does not accept ends at the login form, and does   *)
(* not go round in reloads.                                                *)
Refused(t) == status = "authenticated" /\ Token = t /\ t \notin valid
AtLogin == status = "unauthenticated"
=============================================================================
