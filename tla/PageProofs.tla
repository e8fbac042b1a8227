----------------------------- MODULE PageProofs -----------------------------
(***************************************************************************)
(* What the page hears is the stream of its socket, and what its parts     *)
(* show is of what was asked: the stream and each part have an inductive   *)
(* invariant, and a behaviour of the page is one of a part.                *)
(*                                                                         *)
(* The modules of the parts are instantiated on s1, s2, ...: the comment   *)
(* at the head of a section says which variable is which.                  *)
(***************************************************************************)
EXTENDS TrackStream, Page, Sequences, SequenceTheorems, TLAPS

-----------------------------------------------------------------------------
(***************************************************************************)
(* The session: owner is s1, valid s2, accounts s3, memory s4, stored s5,  *)
(* status s6, user s7, setup s8, asking s9, call s10, calls401 s11,        *)
(* requests s12, reloading s13, stranded s14, faults s15.                  *)
(***************************************************************************)
Owned == {t \in 1..MaxTokens : s1[t] # "nobody"}

AuthServer ==
  s1 \in [1..MaxTokens -> Users \cup {"nobody"}] /\ s2 \subseteq Owned /\ s3 \in BOOLEAN
AuthHeld ==
  /\ s4 \in Owned \cup {0} /\ s5 \in Owned \cup {0}
  /\ s11 \subseteq 1..MaxTokens /\ s12 \subseteq 1..MaxTokens
AuthShown ==
  /\ s6 \in {"initialising", "authenticated", "unauthenticated"} /\ s7 \in Users \cup {"nobody"}
  /\ s8 \in {"unknown", "required", "done"} /\ s9 \in {"no", "asked", "told"}
  /\ s13 \in BOOLEAN /\ s14 \in BOOLEAN /\ s15 \in 0..MaxSessionFaults
AuthCall ==
  /\ s10.at \in {"idle", "init", "setup", "login", "me", "logout"} /\ s10.token \in Owned \cup {0}
  /\ s10.at \in {"setup", "login", "me"} => s10.who \in Users

(* A call under way and the status: the effect of the mount runs alone,    *)
(* and the token of a login is the one that is held, or none.              *)
AuthSteps ==
  /\ s10.at = "init" <=> s6 = "initialising"
  /\ s10.at = "init" => s10.token # 0 /\ s4 = s10.token /\ s5 = s10.token /\ s11 = {} /\ s12 = {}
  /\ s10.at \in {"setup", "login", "me"} => s6 = "unauthenticated"
  /\ s10.at = "me" => s10.token # 0 /\ s4 \in {0, s10.token} /\ s5 \in {0, s10.token}

(* The tokens that are held are the user's, or there is none.              *)
AuthOwned ==
  /\ s6 = "authenticated" => s7 # "nobody" /\ \A t \in {s4, s5} : t # 0 => s1[t] = s7
  /\ s6 = "unauthenticated" /\ s10.at # "me" /\ ~ s14 => s4 = 0 /\ s5 = 0

AuthInv ==
  AuthServer /\ AuthHeld /\ AuthShown /\ AuthCall /\ AuthSteps /\ AuthOwned

LEMMA AuthImplies == AuthInv => SessionIsOwned
<1> SUFFICES ASSUME AuthInv  PROVE SessionIsOwned
  OBVIOUS
<1>0. AuthServer /\ AuthHeld /\ AuthShown /\ AuthCall /\ AuthSteps /\ AuthOwned  BY DEF AuthInv
<1>1. Auth!TypeOK
  <2>1. Owned = {t \in Auth!Tokens : s1[t] # Auth!NoUser}  BY DEF Owned, Auth!Tokens, Auth!NoUser
  <2>2. {s4, s5} \subseteq {Auth!NoToken} \cup Owned  BY <1>0 DEF AuthHeld, Auth!NoToken
  <2>3. s1 \in [Auth!Tokens -> Users \cup {Auth!NoUser}] /\ s2 \subseteq Owned /\ s3 \in BOOLEAN
    BY <1>0 DEF AuthServer, Auth!Tokens, Auth!NoUser
  <2>4. s11 \subseteq Auth!Tokens /\ s12 \subseteq Auth!Tokens
    BY <1>0 DEF AuthHeld, Auth!Tokens
  <2>5. /\ s6 \in {"initialising", "authenticated", "unauthenticated"}
        /\ s7 \in Users \cup {Auth!NoUser}
        /\ s8 \in {"unknown", "required", "done"} /\ s9 \in {"no", "asked", "told"}
        /\ s13 \in BOOLEAN /\ s14 \in BOOLEAN /\ s15 \in 0..MaxSessionFaults
    BY <1>0 DEF AuthShown, Auth!NoUser
  <2>6. s10.at \in {"idle", "init", "setup", "login", "me", "logout"}  BY <1>0 DEF AuthCall
  <2> QED  BY <2>1, <2>2, <2>3, <2>4, <2>5, <2>6 DEF Auth!TypeOK
<1>2. Auth!UserOwnsToken
  BY <1>0 DEF AuthOwned, Auth!UserOwnsToken, Auth!Token, Auth!NoToken, Auth!NoUser
<1>3. Auth!NoTokenLeftBehind
  BY <1>0 DEF AuthOwned, AuthShown, Auth!NoTokenLeftBehind, Auth!Token, Auth!NoToken
<1> QED  BY <1>1, <1>2, <1>3 DEF SessionIsOwned

LEMMA AuthInit == Auth!Init => AuthInv
<1> SUFFICES ASSUME Auth!Init  PROVE AuthInv
  OBVIOUS
<1>0. /\ s1 = [t \in 1..MaxTokens |-> "nobody"] /\ s2 = {} /\ s3 \in BOOLEAN /\ s4 = 0 /\ s5 = 0
      /\ s6 = "unauthenticated" /\ s7 = "nobody" /\ s8 = "unknown" /\ s9 = "no"
      /\ s10 = [at |-> "idle", who |-> "nobody", token |-> 0] /\ s11 = {} /\ s12 = {}
      /\ s13 = FALSE /\ s14 = FALSE /\ s15 = 0
  BY DEF Auth!Init, Auth!Tokens, Auth!NoUser, Auth!NoToken, Auth!Idle
<1>1. AuthServer  BY <1>0 DEF AuthServer
<1>2. AuthHeld  BY <1>0 DEF AuthHeld
<1>3. AuthShown
  <2>1. 0 \in 0..MaxSessionFaults  BY PageAssumption
  <2> QED  BY <1>0, <2>1, Zenon DEF AuthShown
<1>4. AuthCall /\ AuthSteps  BY <1>0 DEF AuthCall, AuthSteps
<1>5. AuthOwned  BY <1>0 DEF AuthOwned
<1> QED  BY <1>1, <1>2, <1>3, <1>4, <1>5 DEF AuthInv

(* A 401 puts the token of sessionStorage in memory, if it has none.       *)
LEMMA AuthUnauthorised ==
  ASSUME AuthInv, Auth!Unauthorised
  PROVE  s4' \in {s4, s5} /\ s11' \subseteq 1..MaxTokens /\ s13' \in BOOLEAN
<1>1. AuthHeld /\ s13 \in BOOLEAN  BY DEF AuthInv, AuthShown
<1>2. CASE Auth!Token # 0
  <2>1. s4' = Auth!Token /\ s13' = TRUE /\ s11' = s11 \cup {Auth!Token}
    BY <1>2 DEF Auth!Unauthorised, Auth!NoToken
  <2>2. Auth!Token \in {s4, s5}  BY DEF Auth!Token
  <2> QED  BY <1>1, <1>2, <2>1, <2>2 DEF AuthHeld, Owned
<1>3. CASE Auth!Token = 0
  <2>1. UNCHANGED <<s4, s13, s11>>  BY <1>3 DEF Auth!Unauthorised, Auth!NoToken
  <2> QED  BY <1>1, <2>1 DEF AuthHeld
<1> QED  BY <1>2, <1>3

LEMMA AuthNext == AuthInv /\ [Auth!Next]_AuthVars => AuthInv'
<1> SUFFICES ASSUME AuthInv, [Auth!Next]_AuthVars  PROVE AuthInv'
  OBVIOUS
<1>0. AuthServer /\ AuthHeld /\ AuthShown /\ AuthCall /\ AuthSteps /\ AuthOwned  BY DEF AuthInv
<1>s. ASSUME AuthServer', AuthHeld', AuthShown', AuthCall', AuthSteps', AuthOwned'  PROVE AuthInv'
  BY <1>s DEF AuthInv
<1>o. s1' = s1 => Owned' = Owned  BY DEF Owned
<1>c. ASSUME s1' = s1, s10' = s10  PROVE AuthCall'  BY <1>0, <1>c, <1>o DEF AuthCall
<1>v. ASSUME UNCHANGED <<s1, s2, s3>>  PROVE AuthServer'  BY <1>0, <1>v, <1>o DEF AuthServer
<1>f. ASSUME Auth!Fault \/ s15' = s15  PROVE s15' \in 0..MaxSessionFaults
  BY <1>0, <1>f, PageAssumption DEF Auth!Fault, AuthShown
<1>i. ASSUME s1' = s1, s10' = Auth!Idle  PROVE AuthCall' /\ s10'.at = "idle"
  BY <1>i, <1>o DEF AuthCall, Auth!Idle, Auth!NoToken
<1>1. ASSUME NEW t \in 1..MaxTokens, Auth!WrapperLogout(t)  PROVE AuthInv'
  <2>1. UNCHANGED <<s1, s2, s3, s6, s7, s8, s9, s10, s12, s14, s15>> /\ s4' = 0 /\ s5' = 0
    BY <1>1 DEF Auth!WrapperLogout, Auth!server, Auth!shown, Auth!NoToken
  <2>2. t \in s11 /\ s11' \subseteq s11 /\ s13' \in BOOLEAN
    BY <1>0, <1>1 DEF Auth!WrapperLogout, AuthShown
  <2>3. AuthHeld'  BY <1>0, <1>o, <2>1, <2>2 DEF AuthHeld
  <2>4. AuthShown'  BY <1>0, <2>1, <2>2 DEF AuthShown
  <2>5. AuthSteps'  BY <1>0, <2>1, <2>2 DEF AuthSteps
  <2>6. AuthOwned'  BY <1>0, <2>1 DEF AuthOwned
  <2> QED  BY <1>s, <1>c, <1>v, <2>1, <2>3, <2>4, <2>5, <2>6
<1>2. CASE Auth!Reload
  <2>1. /\ UNCHANGED <<s1, s2, s3, s5, s15>> /\ s7' = "nobody" /\ s8' = "unknown" /\ s9' = "no"
        /\ s11' = {} /\ s12' = {} /\ s13' = FALSE /\ s14' = FALSE /\ s4' = s5
        /\ s6' = (IF s5 = 0 THEN "unauthenticated" ELSE "initialising")
        /\ s10' = (IF s5 = 0 THEN Auth!Idle ELSE [at |-> "init", who |-> "nobody", token |-> s5])
    BY <1>2 DEF Auth!Reload, Auth!Mount, Auth!server, Auth!NoToken, Auth!NoUser, Auth!Step
  <2>2. AuthHeld'  BY <1>0, <1>o, <2>1 DEF AuthHeld
  <2>3. AuthShown'  BY <1>0, <2>1 DEF AuthShown
  <2>4. CASE s5 = 0
    <3>1. AuthCall' /\ s10'.at = "idle" /\ s6' = "unauthenticated" /\ s4' = 0 /\ s5' = 0
      BY <1>i, <2>1, <2>4
    <3>2. AuthSteps' /\ AuthOwned'  BY <3>1 DEF AuthSteps, AuthOwned
    <3> QED  BY <1>s, <1>v, <2>1, <2>2, <2>3, <3>1, <3>2
  <2>5. CASE s5 # 0
    <3>1. s10'.at = "init" /\ s10'.token = s5 /\ s6' = "initialising"  BY <2>1, <2>5
    <3>2. AuthCall'  BY <1>0, <1>o, <2>1, <3>1 DEF AuthCall, AuthHeld
    <3>3. AuthSteps'  BY <2>1, <2>5, <3>1 DEF AuthSteps
    <3>4. AuthOwned'  BY <3>1 DEF AuthOwned
    <3> QED  BY <1>s, <1>v, <2>1, <2>2, <2>3, <3>2, <3>3, <3>4
  <2> QED  BY <2>4, <2>5
<1>3. CASE Auth!InitAnswer
  <2>1. UNCHANGED <<s1, s2, s3, s8, s9, s12, s14>> /\ s10.at = "init" /\ s10' = Auth!Idle
    BY <1>3 DEF Auth!InitAnswer, Auth!server
  <2>2. s10.token # 0 /\ s4 = s10.token /\ s5 = s10.token /\ s11 = {} /\ s12 = {}
    BY <1>0, <2>1 DEF AuthSteps
  <2>3. AuthCall' /\ s10'.at = "idle"  BY <1>i, <2>1
  <2>4. CASE s10.token \in s2 /\ s7' = s1[s10.token] /\ s6' = "authenticated"
             /\ UNCHANGED <<s4, s5, s13, s11, s15>>
    <3>1. s7' # "nobody" /\ s7' \in Users  BY <1>0, <2>4 DEF AuthServer, Owned
    <3>2. AuthHeld'  BY <1>0, <1>o, <2>1, <2>4 DEF AuthHeld
    <3>3. AuthShown'  BY <1>0, <2>1, <2>4, <3>1 DEF AuthShown
    <3>4. AuthSteps'  BY <2>3, <2>4 DEF AuthSteps
    <3>5. AuthOwned'  BY <2>1, <2>2, <2>4, <3>1 DEF AuthOwned
    <3> QED  BY <1>s, <1>v, <2>1, <2>3, <3>2, <3>3, <3>4, <3>5
  <2>5. ASSUME s4' = 0, s5' = 0, s6' = "unauthenticated", s7' = s7, s15' \in 0..MaxSessionFaults,
               s11' \subseteq 1..MaxTokens, s13' \in BOOLEAN
        PROVE  AuthInv'
    <3>2. AuthHeld'  BY <1>0, <1>o, <2>1, <2>5 DEF AuthHeld
    <3>3. AuthShown'  BY <1>0, <2>1, <2>5 DEF AuthShown
    <3>4. AuthSteps'  BY <2>3, <2>5 DEF AuthSteps
    <3>5. AuthOwned'  BY <2>5 DEF AuthOwned
    <3> QED  BY <1>s, <1>v, <2>1, <2>3, <3>2, <3>3, <3>4, <3>5
  <2>6. ASSUME s13' = TRUE, s11' = s11 \cup {Auth!Token}, s15' = s15
        PROVE  s11' \subseteq 1..MaxTokens /\ s13' \in BOOLEAN /\ s15' \in 0..MaxSessionFaults
    <3>1. Auth!Token \in 1..MaxTokens
      BY <1>0, <2>2 DEF Auth!Token, Auth!NoToken, AuthHeld, Owned
    <3> QED  BY <1>0, <1>f, <2>6, <3>1 DEF AuthHeld
  <2>7. ASSUME UNCHANGED <<s13, s11>>  PROVE s11' \subseteq 1..MaxTokens /\ s13' \in BOOLEAN
    BY <1>0, <2>7 DEF AuthHeld, AuthShown
  <2>8. \/ s10.token \in s2 /\ s7' = s1[s10.token] /\ s6' = "authenticated"
           /\ UNCHANGED <<s4, s5, s13, s11, s15>>
        \/ s13' = TRUE /\ s11' = s11 \cup {Auth!Token} /\ s4' = 0 /\ s5' = 0
           /\ s6' = "unauthenticated" /\ s7' = s7 /\ s15' = s15
        \/ Auth!Fault /\ s4' = 0 /\ s5' = 0 /\ s6' = "unauthenticated" /\ s7' = s7
           /\ UNCHANGED <<s13, s11>>
    BY <1>3 DEF Auth!InitAnswer, Auth!held, Auth!NoToken
  <2> QED  BY <1>f, <2>4, <2>5, <2>6, <2>7, <2>8
<1>4. CASE Auth!AskSetup \/ Auth!SetupAnswer
  <2>1. UNCHANGED <<s1, s2, s3, s4, s5, s6, s7, s10, s11, s12, s13, s14>>
    BY <1>4 DEF Auth!AskSetup, Auth!SetupAnswer, Auth!server, Auth!held
  <2>2. s9' \in {"asked", "told"} /\ s8' \in {s8, "done", "required"}
    BY <1>4 DEF Auth!AskSetup, Auth!SetupAnswer
  <2>3. s15' \in 0..MaxSessionFaults  BY <1>f, <1>4 DEF Auth!AskSetup, Auth!SetupAnswer
  <2>4. AuthHeld'  BY <1>0, <1>o, <2>1 DEF AuthHeld
  <2>5. AuthShown'  BY <1>0, <2>1, <2>2, <2>3 DEF AuthShown
  <2>6. AuthSteps' /\ AuthOwned'  BY <1>0, <2>1 DEF AuthSteps, AuthOwned
  <2> QED  BY <1>s, <1>v, <1>c, <2>1, <2>4, <2>5, <2>6
<1>5. CASE Auth!Submit
  <2>1. /\ UNCHANGED <<s1, s2, s3, s4, s5, s6, s7, s8, s9, s11, s12, s13, s14, s15>>
        /\ s6 = "unauthenticated" /\ s10.at = "idle"
    BY <1>5 DEF Auth!Submit, Auth!server, Auth!held, Auth!shown
  <2>2. PICK u \in Users, at \in {"setup", "login"} : s10' = [at |-> at, who |-> u, token |-> 0]
    BY <1>5 DEF Auth!Submit, Auth!Step, Auth!NoToken
  <2>3. s10'.at \in {"setup", "login"} /\ s10'.who \in Users /\ s10'.token = 0  BY <2>2
  <2>4. AuthHeld'  BY <1>0, <1>o, <2>1 DEF AuthHeld
  <2>5. AuthShown'  BY <1>0, <2>1 DEF AuthShown
  <2>6. AuthCall'  BY <2>3 DEF AuthCall
  <2>7. AuthSteps'  BY <1>0, <2>1, <2>3 DEF AuthSteps
  <2>8. AuthOwned'  BY <1>0, <2>1, <2>3 DEF AuthOwned
  <2> QED  BY <1>s, <1>v, <2>1, <2>4, <2>5, <2>6, <2>7, <2>8
<1>6. CASE Auth!SetupPost
  <2>1. /\ UNCHANGED <<s1, s2, s4, s5, s6, s7, s8, s9, s11, s12, s13, s14, s15>>
        /\ s10.at = "setup"
    BY <1>6 DEF Auth!SetupPost, Auth!held, Auth!shown
  <2>2. /\ s3' = s3 \/ s3' = TRUE
        /\ s10' = Auth!Idle \/ s10' = [s10 EXCEPT !.at = "login"]
    BY <1>6 DEF Auth!SetupPost
  <2>3. s6 = "unauthenticated"  BY <1>0, <2>1 DEF AuthSteps
  <2>4. AuthCall' /\ s10'.at \in {"idle", "login"}
    <3>1. CASE s10' = Auth!Idle  BY <1>i, <2>1, <3>1
    <3>2. CASE s10' = [s10 EXCEPT !.at = "login"]
      <4>1. s10.who \in Users /\ s10.token \in Owned \cup {0}  BY <1>0, <2>1 DEF AuthCall
      <4>2. s10'.at = "login" /\ s10'.who = s10.who /\ s10'.token = s10.token
        BY <2>1, <3>2
      <4> QED  BY <1>o, <2>1, <4>1, <4>2 DEF AuthCall
    <3> QED  BY <2>2, <3>1, <3>2
  <2>5. AuthServer'  BY <1>0, <1>o, <2>1, <2>2 DEF AuthServer
  <2>6. AuthHeld'  BY <1>0, <1>o, <2>1 DEF AuthHeld
  <2>7. AuthShown'  BY <1>0, <2>1 DEF AuthShown
  <2>8. AuthSteps'  BY <2>1, <2>3, <2>4 DEF AuthSteps
  <2>9. AuthOwned'  BY <1>0, <2>1, <2>3, <2>4 DEF AuthOwned
  <2> QED  BY <1>s, <2>4, <2>5, <2>6, <2>7, <2>8, <2>9
<1>7. CASE Auth!LoginPost
  <2>1. /\ UNCHANGED <<s3, s6, s7, s8, s9, s11, s12, s13, s14, s15>> /\ s10.at = "login"
    BY <1>7 DEF Auth!LoginPost, Auth!shown
  <2>2. PICK t \in 1..MaxTokens :
          /\ s1[t] = "nobody" /\ s1' = [s1 EXCEPT ![t] = s10.who] /\ s2' = s2 \cup {t}
          /\ s4' = t /\ s5' = t /\ s10' = [at |-> "me", who |-> s10.who, token |-> t]
    BY <1>7 DEF Auth!LoginPost, Auth!Tokens, Auth!NoUser, Auth!Step
  <2>3. s10.who \in Users /\ s10.who # "nobody" /\ s6 = "unauthenticated"
    BY <1>0, <2>1, PageAssumption DEF AuthCall, AuthSteps
  <2>4. s1' \in [1..MaxTokens -> Users \cup {"nobody"}] /\ s1'[t] = s10.who
        /\ \A u \in 1..MaxTokens : u # t => s1'[u] = s1[u]
    BY <1>0, <2>2, <2>3 DEF AuthServer
  <2>5. Owned' = Owned \cup {t}  BY <2>2, <2>3, <2>4 DEF Owned
  <2>6. AuthServer'  BY <1>0, <2>1, <2>2, <2>4, <2>5 DEF AuthServer
  <2>7. AuthHeld'  BY <1>0, <2>1, <2>2, <2>5 DEF AuthHeld
  <2>8. AuthShown'  BY <1>0, <2>1 DEF AuthShown
  <2>9. s10'.at = "me" /\ s10'.who \in Users /\ s10'.token = t /\ t # 0
    BY <2>2, <2>3, PageAssumption
  <2>10. AuthCall'  BY <2>5, <2>9 DEF AuthCall
  <2>11. AuthSteps'  BY <2>1, <2>2, <2>3, <2>9 DEF AuthSteps
  <2>12. AuthOwned'  BY <2>1, <2>3, <2>9 DEF AuthOwned
  <2> QED  BY <1>s, <2>6, <2>7, <2>8, <2>10, <2>11, <2>12
<1>8. CASE Auth!LoginRefused
  <2>1. /\ UNCHANGED <<s1, s2, s3, s5, s6, s7, s8, s9, s12, s14, s15>> /\ s10.at = "login"
        /\ s10' = Auth!Idle /\ Auth!Unauthorised
    BY <1>8 DEF Auth!LoginRefused, Auth!server, Auth!shown
  <2>2. s4' \in {s4, s5} /\ s11' \subseteq 1..MaxTokens /\ s13' \in BOOLEAN
    BY <2>1, AuthUnauthorised
  <2>3. s6 = "unauthenticated" /\ (~ s14 => s4 = 0 /\ s5 = 0)
    BY <1>0, <2>1 DEF AuthSteps, AuthOwned
  <2>4. AuthCall' /\ s10'.at = "idle"  BY <1>i, <2>1
  <2>5. AuthHeld'  BY <1>0, <1>o, <2>1, <2>2 DEF AuthHeld
  <2>6. AuthShown'  BY <1>0, <2>1, <2>2 DEF AuthShown
  <2>7. AuthSteps'  BY <2>1, <2>3, <2>4 DEF AuthSteps
  <2>8. AuthOwned'  BY <2>1, <2>2, <2>3 DEF AuthOwned
  <2> QED  BY <1>s, <1>v, <2>1, <2>4, <2>5, <2>6, <2>7, <2>8
<1>9. CASE Auth!LoginMe
  <2>1. UNCHANGED <<s1, s2, s3, s5, s8, s12>> /\ s10.at = "me" /\ s10' = Auth!Idle
    BY <1>9 DEF Auth!LoginMe, Auth!server
  <2>2. s6 = "unauthenticated" /\ s10.token # 0 /\ s4 \in {0, s10.token} /\ s5 \in {0, s10.token}
    BY <1>0, <2>1 DEF AuthSteps
  <2>3. AuthCall' /\ s10'.at = "idle"  BY <1>i, <2>1
  <2>4. CASE s10.token \in s2 /\ s7' = s1[s10.token] /\ s6' = "authenticated" /\ s9' = "no"
             /\ UNCHANGED <<s4, s11, s13, s14, s15>>
    <3>1. s7' # "nobody" /\ s7' \in Users  BY <1>0, <2>4 DEF AuthServer, Owned
    <3>2. AuthHeld'  BY <1>0, <1>o, <2>1, <2>4 DEF AuthHeld
    <3>3. AuthShown'  BY <1>0, <2>1, <2>4, <3>1 DEF AuthShown
    <3>4. AuthSteps'  BY <2>3, <2>4 DEF AuthSteps
    <3>5. AuthOwned'  BY <2>1, <2>2, <2>4, <3>1 DEF AuthOwned
    <3> QED  BY <1>s, <1>v, <2>1, <2>3, <3>2, <3>3, <3>4, <3>5
  <2>5. ASSUME s4' \in {s4, s5}, s11' \subseteq 1..MaxTokens, s13' \in BOOLEAN, s14' = TRUE,
               UNCHANGED <<s6, s7, s9>>, s15' \in 0..MaxSessionFaults
        PROVE  AuthInv'
    <3>2. AuthHeld'  BY <1>0, <1>o, <2>1, <2>5 DEF AuthHeld
    <3>3. AuthShown'  BY <1>0, <2>1, <2>5 DEF AuthShown
    <3>4. AuthSteps'  BY <2>2, <2>3, <2>5 DEF AuthSteps
    <3>5. AuthOwned'  BY <2>2, <2>5 DEF AuthOwned
    <3> QED  BY <1>s, <1>v, <2>1, <2>3, <3>2, <3>3, <3>4, <3>5
  <2>6. CASE Auth!Unauthorised /\ s14' = TRUE /\ UNCHANGED <<s6, s7, s9, s15>>
    BY <1>f, <2>5, <2>6, AuthUnauthorised
  <2>7. CASE Auth!Fault /\ s14' = TRUE /\ UNCHANGED <<s6, s7, s9, s4, s11, s13>>
    <3>1. s11' \subseteq 1..MaxTokens /\ s13' \in BOOLEAN  BY <1>0, <2>7 DEF AuthHeld, AuthShown
    <3> QED  BY <1>f, <2>5, <2>7, <3>1
  <2> QED  BY <1>9, <2>4, <2>6, <2>7 DEF Auth!LoginMe
<1>10. CASE Auth!Request
  <2>1. /\ UNCHANGED <<s1, s2, s3, s5, s6, s7, s8, s9, s10, s11, s13, s14, s15>>
        /\ s6 = "authenticated" /\ Auth!Token # 0 /\ s12' = s12 \cup {Auth!Token} /\ s4' = Auth!Token
    BY <1>10 DEF Auth!Request, Auth!server, Auth!shown, Auth!NoToken
  <2>2. Auth!Token \in {s4, s5}  BY DEF Auth!Token
  <2>3. s10.at \notin {"init", "setup", "login", "me"}  BY <1>0, <2>1 DEF AuthSteps
  <2>4. AuthHeld'  BY <1>0, <1>o, <2>1, <2>2 DEF AuthHeld, Owned
  <2>5. AuthShown'  BY <1>0, <2>1 DEF AuthShown
  <2>6. AuthSteps'  BY <2>1, <2>3 DEF AuthSteps
  <2>7. AuthOwned'  BY <1>0, <2>1, <2>2 DEF AuthOwned
  <2> QED  BY <1>s, <1>v, <1>c, <2>1, <2>4, <2>5, <2>6, <2>7
<1>11. ASSUME NEW t \in 1..MaxTokens, Auth!RequestAnswer(t)  PROVE AuthInv'
  <2>1. /\ UNCHANGED <<s1, s2, s3, s5, s6, s7, s8, s9, s10, s14, s15>>
        /\ t \in s12 /\ s12' = s12 \ {t} /\ (UNCHANGED <<s4, s11, s13>> \/ Auth!Unauthorised)
    BY <1>11 DEF Auth!RequestAnswer, Auth!server, Auth!shown
  <2>2. s4' \in {s4, s5} /\ s11' \subseteq 1..MaxTokens /\ s13' \in BOOLEAN
    BY <1>0, <2>1, AuthUnauthorised DEF AuthHeld, AuthShown
  <2>3. s10.at # "init"  BY <1>0, <2>1 DEF AuthSteps
  <2>4. AuthHeld'  BY <1>0, <1>o, <2>1, <2>2 DEF AuthHeld
  <2>5. AuthShown'  BY <1>0, <2>1, <2>2 DEF AuthShown
  <2>6. AuthSteps'  BY <1>0, <2>1, <2>2, <2>3 DEF AuthSteps
  <2>7. AuthOwned'  BY <1>0, <2>1, <2>2 DEF AuthOwned
  <2> QED  BY <1>s, <1>v, <1>c, <2>1, <2>4, <2>5, <2>6, <2>7
<1>12. CASE Auth!Logout
  <2>1. /\ UNCHANGED <<s1, s2, s3, s4, s5, s6, s7, s8, s9, s11, s12, s13, s14, s15>>
        /\ s6 = "authenticated" /\ s10' = [at |-> "logout", who |-> "nobody", token |-> s4]
    BY <1>12 DEF Auth!Logout, Auth!server, Auth!held, Auth!shown, Auth!Step, Auth!NoUser
  <2>2. s10'.at = "logout" /\ s10'.token = s4  BY <2>1
  <2>3. AuthHeld'  BY <1>0, <1>o, <2>1 DEF AuthHeld
  <2>4. AuthShown'  BY <1>0, <2>1 DEF AuthShown
  <2>5. AuthCall'  BY <1>0, <1>o, <2>1, <2>2 DEF AuthCall, AuthHeld
  <2>6. AuthSteps'  BY <2>1, <2>2 DEF AuthSteps
  <2>7. AuthOwned'  BY <1>0, <2>1 DEF AuthOwned
  <2> QED  BY <1>s, <1>v, <2>1, <2>3, <2>4, <2>5, <2>6, <2>7
<1>13. CASE Auth!LogoutEnds
  <2>1. /\ UNCHANGED <<s1, s2, s3, s8, s9, s12, s14, s15>> /\ s10' = Auth!Idle
        /\ s4' = 0 /\ s5' = 0 /\ s7' = "nobody" /\ s6' = "unauthenticated"
        /\ \/ Auth!Token # 0 /\ s13' = TRUE /\ s11' = s11 \cup {Auth!Token}
           \/ UNCHANGED <<s13, s11>>
    BY <1>13 DEF Auth!LogoutEnds, Auth!server, Auth!NoToken, Auth!NoUser
  <2>2. Auth!Token # 0 => Auth!Token \in 1..MaxTokens
    BY <1>0 DEF Auth!Token, AuthHeld, Owned
  <2>3. AuthCall' /\ s10'.at = "idle"  BY <1>i, <2>1
  <2>4. s11' \subseteq 1..MaxTokens /\ s13' \in BOOLEAN
    BY <1>0, <2>1, <2>2 DEF AuthHeld, AuthShown
  <2>5. AuthHeld'  BY <1>0, <1>o, <2>1, <2>4 DEF AuthHeld
  <2>6. AuthShown'  BY <1>0, <2>1, <2>4 DEF AuthShown
  <2>7. AuthSteps'  BY <2>1, <2>3 DEF AuthSteps
  <2>8. AuthOwned'  BY <2>1 DEF AuthOwned
  <2> QED  BY <1>s, <1>v, <2>1, <2>3, <2>5, <2>6, <2>7, <2>8
<1>14. ASSUME NEW t \in 1..MaxTokens, Auth!Expire(t)  PROVE AuthInv'
  <2>1. UNCHANGED <<s1, s3, s4, s5, s6, s7, s8, s9, s10, s11, s12, s13, s14, s15>> /\ s2' \subseteq s2
    BY <1>14 DEF Auth!Expire, Auth!held, Auth!shown
  <2>2. AuthServer'  BY <1>0, <1>o, <2>1 DEF AuthServer
  <2>3. AuthHeld'  BY <1>0, <1>o, <2>1 DEF AuthHeld
  <2>4. AuthShown'  BY <1>0, <2>1 DEF AuthShown
  <2>5. AuthSteps' /\ AuthOwned'  BY <1>0, <2>1 DEF AuthSteps, AuthOwned
  <2> QED  BY <1>s, <1>c, <2>1, <2>2, <2>3, <2>4, <2>5
<1>15. CASE UNCHANGED AuthVars
  <2>1. UNCHANGED <<s1, s2, s3, s4, s5, s6, s7, s8, s9, s10, s11, s12, s13, s14, s15>>
    BY <1>15 DEF AuthVars, Auth!vars
  <2>2. AuthHeld'  BY <1>0, <1>o, <2>1 DEF AuthHeld
  <2>3. AuthShown'  BY <1>0, <2>1 DEF AuthShown
  <2>4. AuthSteps' /\ AuthOwned'  BY <1>0, <2>1 DEF AuthSteps, AuthOwned
  <2> QED  BY <1>s, <1>c, <1>v, <2>1, <2>2, <2>3, <2>4
<1> QED
  BY <1>1, <1>2, <1>3, <1>4, <1>5, <1>6, <1>7, <1>8, <1>9, <1>10, <1>11, <1>12, <1>13, <1>14, <1>15
  DEF Auth!Next, Auth!Tokens

-----------------------------------------------------------------------------
(***************************************************************************)
(* The analyst: open is s1, selected s2, runs s3, reader s4, text s5,      *)
(* streaming s6, started s7, opens s8, left s9.                            *)
(***************************************************************************)
RunFlags == s1 \in BOOLEAN /\ s6 \in BOOLEAN /\ s9 \in BOOLEAN
RunTypes ==
  /\ s2 \in Report!Entities \cup {0} /\ s3 \subseteq Report!Run /\ s4 \in 0..MaxRuns
  /\ s5 \subseteq 1..MaxRuns /\ s7 \in 0..MaxRuns /\ s8 \in 0..MaxOpens

(* What is under way, and what is shown, is of the last run.               *)
LastRun ==
  /\ s5 \subseteq {s7} /\ (s6 <=> s3 # {})
  /\ \A r \in s3 : r.id = s7 /\ s3 = {r}

RunInv == RunFlags /\ RunTypes /\ (~ s9 => LastRun)

LEMMA RunImplies == RunInv => Report!TypeOK /\ Report!OneRun
<1> SUFFICES ASSUME RunInv  PROVE Report!TypeOK /\ Report!OneRun
  OBVIOUS
<1>1. Report!TypeOK  BY DEF RunInv, RunFlags, RunTypes, Report!TypeOK, Report!None
<1>2. Report!OneRun  BY DEF RunInv, LastRun, Report!OneRun
<1> QED  BY <1>1, <1>2

LEMMA RunInit == Report!Init => RunInv
<1> SUFFICES ASSUME Report!Init  PROVE RunInv
  OBVIOUS
<1>1. RunFlags  BY DEF Report!Init, RunFlags
<1>2. RunTypes  BY PageAssumption DEF Report!Init, Report!None, RunTypes
<1>3. LastRun  BY DEF Report!Init, LastRun
<1> QED  BY <1>1, <1>2, <1>3 DEF RunInv

(* A reset ends the run that has its reader, and marks the others.         *)
LEMMA RunReset ==
  ASSUME RunInv, Report!Reset
  PROVE  /\ s3' \subseteq Report!Run /\ s4' = 0 /\ s5' = {} /\ s6' = FALSE /\ s9' \in BOOLEAN
         /\ ~ s9' => s3' = {}
<1>1. /\ s3' = s3 \ Report!Cancelled /\ s4' = 0 /\ s5' = {} /\ s6' = FALSE
      /\ s9' = (s9 \/ Report!LeavesBehind)
  BY DEF Report!Reset, Report!None
<1>2. s3' \subseteq Report!Run  BY <1>1 DEF RunInv, RunTypes
<1>3. s9' \in BOOLEAN  BY <1>1 DEF RunInv, RunFlags, Report!LeavesBehind
<1>4. ASSUME ~ s9'  PROVE s3' = {}
  <2>1. \A r \in s3 : r.id = s4  BY <1>1, <1>4 DEF Report!LeavesBehind
  <2> QED  BY <1>1, <2>1 DEF Report!Cancelled
<1> QED  BY <1>1, <1>2, <1>3, <1>4

(* The panel and its entity change, and the effect of a panel that is      *)
(* closed or has no entity resets.                                         *)
LEMMA RunEffect ==
  ASSUME RunInv, Report!ResetEffect, s1' \in BOOLEAN, s2' \in Report!Entities \cup {0},
         s7' = s7, s8' \in 0..MaxOpens
  PROVE  RunInv'
<1>0. RunFlags /\ RunTypes /\ (~ s9 => LastRun)  BY DEF RunInv
<1>1. CASE Report!Reset
  <2>1. /\ s3' \subseteq Report!Run /\ s4' = 0 /\ s5' = {} /\ s6' = FALSE /\ s9' \in BOOLEAN
        /\ ~ s9' => s3' = {}
    BY <1>1, RunReset
  <2>2. RunFlags'  BY <2>1 DEF RunFlags
  <2>3. RunTypes'  BY <1>0, <2>1, PageAssumption DEF RunTypes, Report!Run, Report!Entities
  <2>4. ~ s9' => LastRun'  BY <2>1 DEF LastRun
  <2> QED  BY <2>2, <2>3, <2>4 DEF RunInv
<1>2. CASE UNCHANGED <<s3, s4, s5, s6, s9>>
  <2>1. RunFlags'  BY <1>0, <1>2 DEF RunFlags
  <2>2. RunTypes'  BY <1>0, <1>2 DEF RunTypes, Report!Run, Report!Entities
  <2>3. ~ s9' => LastRun'  BY <1>0, <1>2 DEF LastRun
  <2> QED  BY <2>1, <2>2, <2>3 DEF RunInv
<1> QED  BY <1>1, <1>2 DEF Report!ResetEffect

LEMMA RunNext == RunInv /\ [Report!Next]_ReportVars => RunInv'
<1> SUFFICES ASSUME RunInv, [Report!Next]_ReportVars  PROVE RunInv'
  OBVIOUS
<1>0. RunFlags /\ RunTypes /\ (~ s9 => LastRun)  BY DEF RunInv
<1>b. MaxRuns \in Nat /\ MaxOpens \in Nat /\ Sitrep \in Report!Entities
  BY PageAssumption DEF Report!Entities
<1>t. /\ s1 \in BOOLEAN /\ s2 \in Report!Entities \cup {0} /\ s8 \in 0..MaxOpens
      /\ s3 \subseteq Report!Run /\ s4 \in 0..MaxRuns /\ s5 \subseteq 1..MaxRuns /\ s7 \in 0..MaxRuns
      /\ s9 \in BOOLEAN /\ s6 \in BOOLEAN
  BY <1>0 DEF RunFlags, RunTypes
<1>o. ASSUME s8 < MaxOpens, s8' = s8 + 1  PROVE s8' \in 0..MaxOpens
  BY <1>b, <1>t, <1>o
<1>1. CASE Report!Open
  <2>1. s1' = TRUE /\ s2' = s2 /\ s7' = s7 /\ s8 < MaxOpens /\ s8' = s8 + 1 /\ Report!ResetEffect
    BY <1>1 DEF Report!Open
  <2> QED  BY <1>t, <1>o, <2>1, RunEffect
<1>2. CASE Report!GenerateSitrep
  <2>1. s1' = TRUE /\ s2' = Sitrep /\ s7' = s7 /\ s8 < MaxOpens /\ s8' = s8 + 1 /\ Report!ResetEffect
    BY <1>2 DEF Report!GenerateSitrep
  <2> QED  BY <1>b, <1>o, <2>1, RunEffect
<1>3. CASE Report!Close
  <2>1. s1' = FALSE /\ s2' \in {0, s2} /\ s7' = s7 /\ s8' = s8 /\ Report!ResetEffect
    BY <1>3 DEF Report!Close, Report!None
  <2> QED  BY <1>t, <2>1, RunEffect
<1>4. ASSUME NEW e \in Report!Entities \cup {0}, Report!Select(e)  PROVE RunInv'
  <2>1. s1' = s1 /\ s2' = e /\ s7' = s7 /\ s8' = s8 /\ Report!ResetEffect
    BY <1>4 DEF Report!Select
  <2> QED  BY <1>t, <2>1, RunEffect
<1>5. CASE Report!SwitchView
  <2>1. s1' = FALSE /\ s2' = 0 /\ s7' = s7 /\ s8' = s8 /\ Report!ResetEffect
    BY <1>5 DEF Report!SwitchView, Report!None
  <2> QED  BY <1>t, <2>1, RunEffect
<1>6. CASE Report!Halt
  <2>1. /\ s1' = s1 /\ s2' = s2 /\ s7' = s7 /\ s8' = s8 /\ s3' \subseteq Report!Run /\ s4' = 0
        /\ s5' = {} /\ s6' = FALSE /\ s9' \in BOOLEAN /\ (~ s9' => s3' = {})
    BY <1>6, RunReset DEF Report!Halt
  <2>2. RunFlags'  BY <1>t, <2>1 DEF RunFlags
  <2>3. RunTypes'  BY <1>t, <1>b, <2>1 DEF RunTypes, Report!Run, Report!Entities
  <2>4. ~ s9' => LastRun'  BY <2>1 DEF LastRun
  <2> QED  BY <2>2, <2>3, <2>4 DEF RunInv
<1>7. CASE Report!Start
  <2> DEFINE new == [id |-> s7', of |-> s2, at |-> IF s2 \in Craft THEN "domain" ELSE "asking"]
  <2>1. /\ s2 # 0 /\ ~ s6 /\ s7 < MaxRuns /\ s7' = s7 + 1
        /\ s3' = (s3 \ Report!Cancelled) \cup {new} /\ s4' = 0 /\ s5' = {}
        /\ s6' = (Report!Cancelled = {}) /\ s9' = (s9 \/ Report!LeavesBehind)
        /\ s1' = s1 /\ s2' = s2 /\ s8' = s8
    BY <1>7 DEF Report!Start, Report!None
  <2>2. s7' \in 1..MaxRuns  BY <1>b, <1>t, <2>1
  <2>3. new \in Report!Run /\ new.id = s7'  BY <1>t, <2>1, <2>2 DEF Report!Run
  <2> HIDE DEF new
  <2>4. RunFlags'  BY <1>t, <2>1 DEF RunFlags, Report!LeavesBehind
  <2>5. RunTypes'
    <3>1. s3' \subseteq Report!Run  BY <1>t, <2>1, <2>3
    <3>2. s7' \in 0..MaxRuns /\ 0 \in 0..MaxRuns  BY <1>b, <2>2
    <3>3. s2' \in Report!Entities \cup {0} /\ s8' \in 0..MaxOpens
      BY <1>t, <2>1
    <3>4. s5' \subseteq 1..MaxRuns /\ s4' \in 0..MaxRuns  BY <2>1, <3>2
    <3> QED  BY <3>1, <3>2, <3>3, <3>4 DEF RunTypes, Report!Run, Report!Entities
  <2>6. ASSUME ~ s9'  PROVE LastRun'
    <3>1. ~ s9  BY <2>1, <2>6
    <3>2. s3 = {} /\ Report!Cancelled = {}
      BY <1>0, <2>1, <3>1 DEF LastRun, Report!Cancelled
    <3>3. s3' = {new} /\ s6' = TRUE  BY <2>1, <3>2
    <3> QED  BY <2>1, <2>3, <3>3 DEF LastRun
  <2> QED  BY <2>4, <2>5, <2>6 DEF RunInv
<1>8. ASSUME NEW r \in s3, Report!DomainAnswer(r) \/ Report!Fails(r)  PROVE RunInv'
  <2>1. /\ UNCHANGED <<s1, s2, s7, s8, s9>> /\ s3' = s3 \ {r} /\ s4' = 0 /\ s6' = FALSE
        /\ s5' = {r.id} \/ s5' = s5
    BY <1>8 DEF Report!DomainAnswer, Report!Fails, Report!Over, Report!None
  <2>2. r.id \in 1..MaxRuns  BY <1>t DEF Report!Run
  <2>3. RunFlags'  BY <1>t, <2>1 DEF RunFlags
  <2>4. RunTypes'
    <3>1. s5' \subseteq 1..MaxRuns  BY <1>t, <2>1, <2>2
    <3>2. s3' \subseteq Report!Run  BY <1>t, <2>1
    <3>3. s4' \in 0..MaxRuns  BY <1>b, <2>1
    <3> QED  BY <1>t, <2>1, <3>1, <3>2, <3>3 DEF RunTypes, Report!Run, Report!Entities
  <2>5. ASSUME ~ s9'  PROVE LastRun'
    <3>1. r.id = s7 /\ s3 = {r} /\ s5 \subseteq {s7}  BY <1>0, <2>1, <2>5 DEF LastRun
    <3>2. s3' = {} /\ s5' \subseteq {s7} /\ s7' = s7 /\ s6' = FALSE  BY <2>1, <3>1
    <3> QED  BY <3>2 DEF LastRun
  <2> QED  BY <2>3, <2>4, <2>5 DEF RunInv
<1>9. ASSUME NEW r \in s3, Report!DomainFails(r) \/ Report!StreamOpens(r)  PROVE RunInv'
  <2>1. PICK at \in {"asking", "stream"} :
          /\ UNCHANGED <<s1, s2, s5, s6, s7, s8, s9>> /\ s4' \in {s4, r.id}
          /\ s3' = (s3 \ {r}) \cup {[r EXCEPT !.at = at]}
    BY <1>9 DEF Report!DomainFails, Report!StreamOpens
  <2> DEFINE new == [r EXCEPT !.at = at]
  <2>2. r.id \in 1..MaxRuns /\ new \in Report!Run /\ new.id = r.id  BY <1>t DEF Report!Run
  <2>3. s3' = (s3 \ {r}) \cup {new}  BY <2>1
  <2> HIDE DEF new
  <2>4. RunFlags'  BY <1>t, <2>1 DEF RunFlags
  <2>5. RunTypes'  BY <1>t, <1>b, <2>1, <2>2, <2>3 DEF RunTypes, Report!Run, Report!Entities
  <2>6. ASSUME ~ s9'  PROVE LastRun'
    <3>1. r.id = s7 /\ s3 = {r} /\ s5 \subseteq {s7} /\ s6 = TRUE
      BY <1>0, <1>t, <2>1, <2>6 DEF LastRun
    <3>2. s3' = {new} /\ s5' = s5 /\ s7' = s7 /\ s6' = TRUE  BY <2>1, <2>3, <3>1
    <3> QED  BY <2>2, <3>1, <3>2 DEF LastRun
  <2> QED  BY <2>4, <2>5, <2>6 DEF RunInv
<1>10. ASSUME NEW r \in s3, Report!Chunk(r)  PROVE RunInv'
  <2>1. UNCHANGED <<s1, s2, s3, s4, s6, s7, s8, s9>> /\ s5' = s5 \cup {r.id}
    BY <1>10 DEF Report!Chunk
  <2>2. r.id \in 1..MaxRuns  BY <1>t DEF Report!Run
  <2>3. RunFlags' /\ RunTypes'
    BY <1>t, <2>1, <2>2 DEF RunFlags, RunTypes, Report!Run, Report!Entities
  <2>4. ~ s9' => LastRun'  BY <1>0, <2>1 DEF LastRun
  <2> QED  BY <2>3, <2>4 DEF RunInv
<1>11. CASE UNCHANGED ReportVars
  <2>1. UNCHANGED <<s1, s2, s3, s4, s5, s6, s7, s8, s9>>
    BY <1>11 DEF ReportVars, Report!vars
  <2> QED
    BY <1>0, <2>1 DEF RunInv, RunFlags, RunTypes, LastRun, Report!Run, Report!Entities
<1> QED
  BY <1>1, <1>2, <1>3, <1>4, <1>5, <1>6, <1>7, <1>8, <1>9, <1>10, <1>11
  DEF Report!Next, Report!None

-----------------------------------------------------------------------------
(***************************************************************************)
(* The search: at is s1, query s2, debounced s3, loading s4, results s5,   *)
(* asks s6, current s7, typed s8.                                          *)
(***************************************************************************)
FindTypes ==
  /\ s1 \in [Tracks -> 0..MaxTrackMoves] /\ s2 \in Queries \cup {0} /\ s3 \in Queries \cup {0}
  /\ s4 \in BOOLEAN /\ s7 \in Nat /\ s8 \in 0..MaxTyped

(* Rows of which no two are of a track, and rows of a query.               *)
Once(rows) == rows \subseteq Finder!Rows /\ \A r, s \in rows : r.uid = s.uid => r = s
Answers(rows, q) == Once(rows) /\ \A r \in rows : r.uid \in Matches[q]

(* The request of the last search is of the query that was searched.       *)
FindAsks ==
  \A a \in s6 :
    /\ a.of \in Nat /\ a.of <= s7 /\ (a.of = s7 => a.q = s3)
    /\ a.q \in Queries /\ Answers(a.local, a.q)

FindShown ==
  /\ Once(s5)
  /\ s3 = 0 => s5 = {}
  /\ s3 # 0 /\ s4 => \E a \in s6 : a.of = s7
  /\ s3 # 0 /\ ~ s4 => Answers(s5, s3)

FindInv == FindTypes /\ FindAsks /\ FindShown

LEMMA FindImplies == FindInv => Finder!ResultsAreOfQuery
<1> SUFFICES ASSUME FindInv  PROVE Finder!ResultsAreOfQuery
  OBVIOUS
<1>1. Finder!TypeOK
  <2>1. s5 \subseteq Finder!Rows /\ \A a \in s6 : a.local \subseteq Finder!Rows /\ a.q \in Queries
    BY DEF FindInv, FindAsks, FindShown, Answers, Once
  <2> QED  BY <2>1 DEF FindInv, FindTypes, Finder!TypeOK, Finder!Short
<1>2. \A r, s \in s5 : r.uid = s.uid => r = s  BY DEF FindInv, FindShown, Once
<1>3. s3 = 0 => s5 = {}  BY DEF FindInv, FindShown
<1>4. ASSUME s3 # 0, s4  PROVE \E a \in s6 : a.of = s7 /\ a.q = s3
  BY <1>4 DEF FindInv, FindShown, FindAsks
<1>5. ASSUME s3 # 0, ~ s4  PROVE {r.uid : r \in s5} \subseteq Matches[s3]
  BY <1>5 DEF FindInv, FindShown, Answers
<1> QED  BY <1>1, <1>2, <1>3, <1>4, <1>5 DEF Finder!ResultsAreOfQuery, Finder!Short

LEMMA FindInit == Finder!Init => FindInv
<1> SUFFICES ASSUME Finder!Init  PROVE FindInv
  OBVIOUS
<1>1. FindTypes
  <2>1. 0 \in 0..MaxTrackMoves /\ 0 \in 0..MaxTyped /\ 0 \in Nat  BY PageAssumption
  <2> QED  BY <2>1, Zenon DEF Finder!Init, Finder!Short, FindTypes
<1>2. FindAsks  BY DEF Finder!Init, FindAsks
<1>3. FindShown  BY DEF Finder!Init, Finder!Short, FindShown, Once
<1> QED  BY <1>1, <1>2, <1>3 DEF FindInv

(* What is found on the map, and what the history adds to it.              *)
LEMMA FoundAnswers ==
  ASSUME FindInv, NEW q \in Queries
  PROVE  Answers({[uid |-> t, at |-> s1[t], live |-> TRUE] : t \in Finder!Found(q)}, q)
<1> DEFINE row(t) == [uid |-> t, at |-> s1[t], live |-> TRUE]
<1>1. ASSUME NEW t \in Finder!Found(q)
      PROVE  t \in Matches[q] /\ row(t) \in Finder!Rows
  <2>1. t \in Matches[q] /\ t \in Tracks  BY <1>1, PageAssumption DEF Finder!Found
  <2>2. s1[t] \in 0..MaxTrackMoves  BY <2>1 DEF FindInv, FindTypes
  <2> QED  BY <2>1, <2>2 DEF Finder!Rows
<1> DEFINE rows == {row(t) : t \in Finder!Found(q)}
<1>2. \A r \in rows : r \in Finder!Rows /\ r.uid \in Matches[q] /\ r = row(r.uid)
  BY <1>1
<1>3. Answers(rows, q)
  <2> HIDE DEF rows, row
  <2> QED  BY <1>2 DEF Answers, Once
<1> QED  BY <1>3

LEMMA HistoryAnswers ==
  ASSUME FindInv, NEW a \in s6, NEW uids \in SUBSET Matches[a.q]
  PROVE  Answers(a.local \cup Finder!History(a, uids), a.q)
<1>1. a.q \in Queries /\ Answers(a.local, a.q)  BY DEF FindInv, FindAsks
<1>2. Matches[a.q] \subseteq Tracks  BY <1>1, PageAssumption
<1>3. ASSUME NEW r \in Finder!History(a, uids)
      PROVE  /\ r \in Finder!Rows /\ r.uid \in Matches[a.q] /\ \A s \in a.local : s.uid # r.uid
             /\ \A s \in Finder!History(a, uids) : s.uid = r.uid => s = r
  <2>1. PICK t \in uids \ {s.uid : s \in a.local} : r = [uid |-> t, at |-> 0, live |-> FALSE]
    BY DEF Finder!History
  <2>2. t \in Tracks /\ 0 \in 0..MaxTrackMoves  BY <1>2, PageAssumption
  <2>3. r \in Finder!Rows  BY <2>1, <2>2 DEF Finder!Rows
  <2>4. r.uid = t /\ t \in Matches[a.q] /\ \A s \in a.local : s.uid # t  BY <2>1
  <2>5. \A s \in Finder!History(a, uids) : s = [uid |-> s.uid, at |-> 0, live |-> FALSE]
    BY DEF Finder!History
  <2> QED  BY <2>1, <2>3, <2>4, <2>5
<1> QED  BY <1>1, <1>3 DEF Answers, Once

LEMMA FindNext == FindInv /\ [Finder!Next]_FinderVars => FindInv'
<1> SUFFICES ASSUME FindInv, [Finder!Next]_FinderVars  PROVE FindInv'
  OBVIOUS
<1>i. FindTypes /\ FindAsks /\ FindShown  BY DEF FindInv
<1>1. ASSUME NEW t \in Tracks, Finder!TrackMoves(t) \/ Finder!TrackGoes(t)  PROVE FindInv'
  <2>1. UNCHANGED <<s2, s3, s4, s5, s6, s7, s8>>  BY <1>1 DEF Finder!TrackMoves, Finder!TrackGoes
  <2>2. s1' \in [Tracks -> 0..MaxTrackMoves]
    <3>1. s1[t] \in 0..MaxTrackMoves /\ MaxTrackMoves \in Nat /\ s1 \in [Tracks -> 0..MaxTrackMoves]
      BY <1>i, PageAssumption DEF FindTypes
    <3>2. CASE Finder!TrackMoves(t)
      <4>1. s1[t] + 1 \in 0..MaxTrackMoves  BY <3>1, <3>2 DEF Finder!TrackMoves
      <4> QED  BY <3>1, <3>2, <4>1 DEF Finder!TrackMoves
    <3>3. CASE Finder!TrackGoes(t)  BY <3>1, <3>3 DEF Finder!TrackGoes
    <3> QED  BY <1>1, <3>2, <3>3
  <2> QED  BY <1>i, <2>1, <2>2 DEF FindInv, FindTypes, FindAsks, FindShown
<1>2. CASE Finder!Type
  <2>1. /\ UNCHANGED <<s1, s3, s4, s5, s6, s7>> /\ s2' \in Queries \cup {0}
        /\ s8 < MaxTyped /\ s8' = s8 + 1
    BY <1>2 DEF Finder!Type, Finder!Short
  <2>2. s8' \in 0..MaxTyped  BY <1>i, <2>1, PageAssumption DEF FindTypes
  <2> QED  BY <1>i, <2>1, <2>2 DEF FindInv, FindTypes, FindAsks, FindShown
<1>3. CASE Finder!Debounce
  <2>1. UNCHANGED <<s1, s2, s8>> /\ s3' = s2 /\ s7' = s7 + 1 /\ s7 \in Nat /\ s2 \in Queries \cup {0}
    BY <1>3, <1>i DEF Finder!Debounce, FindTypes
  <2>2. CASE s2 = 0 /\ s5' = {} /\ UNCHANGED <<s6, s4>>
    <3>1. FindTypes'  BY <1>i, <2>1, <2>2 DEF FindTypes
    <3>2. FindAsks'
      <4> SUFFICES ASSUME NEW a \in s6
                   PROVE  /\ a.of \in Nat /\ a.of <= s7' /\ (a.of = s7' => a.q = s3')
                          /\ a.q \in Queries /\ Answers(a.local, a.q)
        BY <2>2 DEF FindAsks, Answers, Once
      <4>1. a.of \in Nat /\ a.of <= s7 /\ a.q \in Queries /\ Answers(a.local, a.q)
        BY <1>i DEF FindAsks
      <4> QED  BY <2>1, <4>1
    <3>3. FindShown'  BY <2>1, <2>2 DEF FindShown, Once
    <3> QED  BY <3>1, <3>2, <3>3 DEF FindInv
  <2>3. ASSUME s2 # 0, s4' = TRUE, UNCHANGED s5, s6' = s6 \cup {[of |-> s7 + 1, q |-> s2,
               local |-> {[uid |-> t, at |-> s1[t], live |-> TRUE] : t \in Finder!Found(s2)}]}
        PROVE  FindInv'
    <3> DEFINE found == {[uid |-> t, at |-> s1[t], live |-> TRUE] : t \in Finder!Found(s2)}
               new == [of |-> s7 + 1, q |-> s2, local |-> found]
    <3>1. FindTypes'  BY <1>i, <2>1, <2>3 DEF FindTypes
    <3>2. s2 \in Queries /\ Answers(found, s2)  BY <2>1, <2>3, FoundAnswers
    <3>3. s6' = s6 \cup {new}  BY <2>3
    <3>4. new.of = s7 + 1 /\ new.q = s2 /\ new.local = found  OBVIOUS
    <3> HIDE DEF found, new
    <3>5. FindAsks'
      <4> SUFFICES ASSUME NEW a \in s6'
                   PROVE  /\ a.of \in Nat /\ a.of <= s7' /\ (a.of = s7' => a.q = s3')
                          /\ a.q \in Queries /\ Answers(a.local, a.q)
        BY DEF FindAsks, Answers, Once
      <4>1. CASE a \in s6
        <5>1. a.of \in Nat /\ a.of <= s7 /\ a.q \in Queries /\ Answers(a.local, a.q)
          BY <1>i, <4>1 DEF FindAsks
        <5> QED  BY <2>1, <5>1
      <4>2. CASE a = new  BY <2>1, <3>2, <3>4, <4>2
      <4> QED  BY <3>3, <4>1, <4>2
    <3>6. FindShown'
      <4>1. \E a \in s6' : a.of = s7'  BY <2>1, <3>3, <3>4
      <4>2. Once(s5)'  BY <1>i, <2>3 DEF FindShown, Once
      <4>3. s3' # 0 /\ s4'  BY <2>1, <2>3
      <4> QED  BY <4>1, <4>2, <4>3 DEF FindShown
    <3> QED  BY <3>1, <3>5, <3>6 DEF FindInv
  <2> QED  BY <1>3, <2>2, <2>3 DEF Finder!Debounce, Finder!Short
<1>4. CASE Finder!Refresh
  <2>1. UNCHANGED <<s1, s2, s3, s4, s6, s7, s8>> /\ s3 # 0
    BY <1>4 DEF Finder!Refresh, Finder!Short
  <2> DEFINE new(r) == IF r.live /\ r.uid \in Finder!Found(s3) THEN [r EXCEPT !.at = s1[r.uid]] ELSE r
  <2>2. s5' = {new(r) : r \in s5}  BY <1>4 DEF Finder!Refresh
  <2>3. ASSUME NEW r \in s5  PROVE new(r) \in Finder!Rows /\ new(r).uid = r.uid
    <3>1. r \in Finder!Rows  BY <1>i DEF FindShown, Once
    <3>2. s1[r.uid] \in 0..MaxTrackMoves  BY <1>i, <3>1 DEF FindTypes, Finder!Rows
    <3> QED  BY <3>1, <3>2 DEF Finder!Rows
  <2> HIDE DEF new
  <2>4. Once(s5)'
    <3>1. \A r, s \in s5 : r.uid = s.uid => r = s  BY <1>i DEF FindShown, Once
    <3>2. s5' \subseteq Finder!Rows  BY <2>2, <2>3
    <3>3. ASSUME NEW r \in s5', NEW s \in s5', r.uid = s.uid  PROVE r = s
      <4>1. PICK p \in s5 : r = new(p)  BY <2>2
      <4>2. PICK q \in s5 : s = new(q)  BY <2>2
      <4>3. p.uid = q.uid  BY <2>3, <3>3, <4>1, <4>2
      <4> QED  BY <3>1, <4>1, <4>2, <4>3
    <3> QED  BY <3>2, <3>3 DEF Once
  <2>5. ASSUME Answers(s5, s3)  PROVE Answers(s5, s3)'
    <3>1. \A r \in s5' : r.uid \in Matches[s3]  BY <2>2, <2>3, <2>5 DEF Answers
    <3> QED  BY <2>1, <2>4, <3>1 DEF Answers
  <2>6. FindTypes' /\ FindAsks'  BY <1>i, <2>1 DEF FindTypes, FindAsks, Answers, Once
  <2>7. s3' = 0 => s5' = {}  BY <2>1
  <2>8. s3' # 0 /\ s4' => \E a \in s6' : a.of = s7'  BY <1>i, <2>1 DEF FindShown
  <2>9. s3' # 0 /\ ~ s4' => Answers(s5, s3)'  BY <1>i, <2>1, <2>5 DEF FindShown
  <2> QED  BY <2>4, <2>6, <2>7, <2>8, <2>9 DEF FindInv, FindShown
<1>5. ASSUME NEW a \in s6, Finder!Answer(a)  PROVE FindInv'
  <2>1. UNCHANGED <<s1, s2, s3, s7, s8>> /\ s6' = s6 \ {a}  BY <1>5 DEF Finder!Answer
  <2>2. FindAsks'  BY <1>i, <2>1 DEF FindAsks, Answers, Once
  <2>3. PICK uids \in SUBSET Matches[a.q] : Finder!Show(a, a.local \cup Finder!History(a, uids))
    BY <1>5 DEF Finder!Answer
  <2> DEFINE rows == a.local \cup Finder!History(a, uids)
  <2>4. Answers(rows, a.q)  BY HistoryAnswers
  <2>5. IF a.of = s7 THEN s5' = rows /\ s4' = FALSE ELSE UNCHANGED <<s5, s4>>
    BY <2>3 DEF Finder!Show
  <2> HIDE DEF rows
  <2>6. FindTypes'  BY <1>i, <2>1, <2>5 DEF FindTypes
  <2>7. CASE a.of = s7
    <3>1. a.q = s3 /\ s3 # 0  BY <1>i, <2>7, PageAssumption DEF FindAsks
    <3>2. s5' = rows /\ s4' = FALSE /\ s3' = s3  BY <2>1, <2>5, <2>7
    <3>3. Answers(s5, s3)'  BY <2>4, <3>1, <3>2 DEF Answers, Once
    <3>4. FindShown'  BY <3>1, <3>2, <3>3 DEF FindShown, Answers
    <3> QED  BY <2>2, <2>6, <3>4 DEF FindInv
  <2>8. CASE a.of # s7
    <3>1. UNCHANGED <<s5, s4, s3, s7>> /\ s6' = s6 \ {a}  BY <2>1, <2>5, <2>8
    <3>2. s3' # 0 /\ s4' => \E b \in s6' : b.of = s7'  BY <1>i, <2>8, <3>1 DEF FindShown
    <3>3. FindShown'  BY <1>i, <3>1, <3>2 DEF FindShown, Answers, Once
    <3> QED  BY <2>2, <2>6, <3>3 DEF FindInv
  <2> QED  BY <2>7, <2>8
<1>6. CASE UNCHANGED FinderVars
  <2>1. UNCHANGED <<s1, s2, s3, s4, s5, s6, s7, s8>>  BY <1>6 DEF FinderVars, Finder!vars
  <2> QED  BY <1>i, <2>1 DEF FindInv, FindTypes, FindAsks, FindShown, Answers, Once
<1> QED  BY <1>1, <1>2, <1>3, <1>4, <1>5, <1>6 DEF Finder!Next

-----------------------------------------------------------------------------
(***************************************************************************)
(* The assessments: region is s1, domain s2, asks s3, asked s4.            *)
(***************************************************************************)
RiskInv == Risk!TypeOK /\ Risk!SaidOfPlace

LEMMA RiskInit == Risk!Init => RiskInv
<1> SUFFICES ASSUME Risk!Init  PROVE RiskInv
  OBVIOUS
<1>1. Risk!TypeOK  BY PageAssumption DEF Risk!Init, Risk!TypeOK, Risk!Panels
<1>2. Risk!SaidOfPlace  BY DEF Risk!Init, Risk!SaidOfPlace, Risk!NoPanel, Risk!Hidden
<1> QED  BY <1>1, <1>2 DEF RiskInv

(* A request under way for a place. *)
Pending(what, p) == \E a \in s3 : a.what = what /\ a.of = p

LEMMA RiskPanels ==
  ASSUME NEW status \in {"loading", "success", "partial", "error"}, NEW p \in Regions,
         NEW says \in Regions \cup {0}
  PROVE  [status |-> status, of |-> p, says |-> says] \in Risk!Panels
BY DEF Risk!Panels, Risk!None

LEMMA RiskAsk ==
  ASSUME Risk!TypeOK, NEW what \in {"region", "domain"}, NEW p \in Regions, Risk!Ask(what, p)
  PROVE  /\ s3' \subseteq Risk!Asks /\ s4' \in 0..MaxAsks /\ s3 \subseteq s3' /\ Pending(what, p)'
<1> DEFINE new == [n |-> s4 + 1, what |-> what, of |-> p, router |-> "open", risk |-> FALSE,
                   late |-> FALSE]
<1>1. s3' = s3 \cup {new} /\ s4' = s4 + 1 /\ s4 < MaxAsks  BY DEF Risk!Ask
<1>2. s4 \in 0..MaxAsks /\ s3 \subseteq Risk!Asks  BY DEF Risk!TypeOK
<1>3. s4 + 1 \in 1..MaxAsks  BY <1>1, <1>2, PageAssumption
<1>4. new \in Risk!Asks  BY <1>3 DEF Risk!Asks
<1>5. new.what = what /\ new.of = p  OBVIOUS
<1> HIDE DEF new
<1> QED  BY <1>1, <1>2, <1>3, <1>4, <1>5 DEF Pending

LEMMA RiskBecomes ==
  ASSUME Risk!TypeOK, NEW a \in s3, NEW b \in Risk!Asks, Risk!Becomes(a, b),
         b.what = a.what, b.of = a.of
  PROVE  s3' \subseteq Risk!Asks /\ \A what, p : Pending(what, p) => Pending(what, p)'
<1>1. s3' = (s3 \ {a}) \cup {b} /\ s3 \subseteq Risk!Asks  BY DEF Risk!Becomes, Risk!TypeOK
<1> QED  BY <1>1 DEF Pending

LEMMA RiskNext == RiskInv /\ [Risk!Next]_RiskVars => RiskInv'
<1> SUFFICES ASSUME RiskInv, [Risk!Next]_RiskVars  PROVE RiskInv'
  OBVIOUS
<1> USE DEF RiskInv
<1>t. /\ s1 \in Risk!Panels /\ s2 \in Risk!Panels /\ s3 \subseteq Risk!Asks /\ s4 \in 0..MaxAsks
      /\ s1.status \in {"success", "partial", "error"} => s1.says = s1.of
      /\ s2.status = "success" => s2.says = s2.of
      /\ s1.status = "loading" => Pending("region", s1.of)
      /\ s2.status = "loading" => Pending("domain", s2.of)
  BY DEF Risk!TypeOK, Risk!SaidOfPlace, Pending
<1>s. ASSUME s1' \in Risk!Panels, s2' \in Risk!Panels, s3' \subseteq Risk!Asks, s4' \in 0..MaxAsks,
             s1'.status \in {"success", "partial", "error"} => s1'.says = s1'.of,
             s2'.status = "success" => s2'.says = s2'.of,
             s1'.status = "loading" => Pending("region", s1.of)',
             s2'.status = "loading" => Pending("domain", s2.of)'
      PROVE  RiskInv'
  BY <1>s DEF Risk!TypeOK, Risk!SaidOfPlace, Pending
<1>1. ASSUME NEW p \in Regions, Risk!AnalyzeRegion(p)  PROVE RiskInv'
  <2>1. Risk!Ask("region", p) /\ s1' = Risk!Loading(p) /\ s2' = s2  BY <1>1 DEF Risk!AnalyzeRegion
  <2>2. s3' \subseteq Risk!Asks /\ s4' \in 0..MaxAsks /\ s3 \subseteq s3' /\ Pending("region", p)'
    BY <2>1, RiskAsk
  <2>3. s1' \in Risk!Panels /\ s1'.status = "loading" /\ s1'.of = p
    BY <2>1, RiskPanels DEF Risk!Loading, Risk!None
  <2>4. s2'.status = "loading" => Pending("domain", s2.of)'  BY <1>t, <2>1, <2>2 DEF Pending
  <2> QED  BY <1>s, <1>t, <2>1, <2>2, <2>3, <2>4
<1>2. ASSUME NEW p \in Regions, Risk!AnalyzeDomain(p)  PROVE RiskInv'
  <2>1. Risk!Ask("domain", p) /\ s2' = Risk!Loading(p) /\ s1' = s1  BY <1>2 DEF Risk!AnalyzeDomain
  <2>2. s3' \subseteq Risk!Asks /\ s4' \in 0..MaxAsks /\ s3 \subseteq s3' /\ Pending("domain", p)'
    BY <2>1, RiskAsk
  <2>3. s2' \in Risk!Panels /\ s2'.status = "loading" /\ s2'.of = p
    BY <2>1, RiskPanels DEF Risk!Loading, Risk!None
  <2>4. s1'.status = "loading" => Pending("region", s1.of)'  BY <1>t, <2>1, <2>2 DEF Pending
  <2> QED  BY <1>s, <1>t, <2>1, <2>2, <2>3, <2>4
<1>3. ASSUME NEW a \in s3, NEW b \in Risk!Asks, Risk!Becomes(a, b), b.what = a.what, b.of = a.of,
             UNCHANGED <<s1, s2, s4>>
      PROVE  RiskInv'
  <2>1. s3' \subseteq Risk!Asks /\ \A what, p : Pending(what, p) => Pending(what, p)'
    BY <1>3, RiskBecomes
  <2> QED  BY <1>s, <1>t, <1>3, <2>1
<1>4. ASSUME NEW a \in s3, Risk!RouterAnswers(a)  PROVE RiskInv'
  <2>1. PICK r \in {"answered", "refused"} : Risk!Becomes(a, [a EXCEPT !.router = r])
    BY <1>4 DEF Risk!RouterAnswers
  <2>2. [a EXCEPT !.router = r] \in Risk!Asks  BY <1>t DEF Risk!Asks
  <2> QED  BY <1>3, <1>4, <1>t, <2>1, <2>2 DEF Risk!RouterAnswers, Risk!Asks
<1>5. ASSUME NEW a \in s3, Risk!CellsAnswer(a)  PROVE RiskInv'
  <2>1. [a EXCEPT !.risk = TRUE] \in Risk!Asks  BY <1>t DEF Risk!Asks
  <2> QED  BY <1>3, <1>5, <1>t, <2>1 DEF Risk!CellsAnswer, Risk!Asks
<1>6. ASSUME NEW a \in s3, a.what = "region", s3' = s3 \ {a}, UNCHANGED <<s2, s4>>,
             NEW status \in {"success", "partial", "error"}, s1' = Risk!RegionSays(a, status)
      PROVE  RiskInv'
  <2>1. a.of \in Regions  BY <1>t DEF Risk!Asks
  <2>2. s1' \in Risk!Panels /\ s1'.status = status /\ s1'.says = s1'.of
    BY <1>6, <2>1, RiskPanels DEF Risk!RegionSays
  <2>3. s2'.status = "loading" => Pending("domain", s2.of)'  BY <1>t, <1>6 DEF Pending
  <2> QED  BY <1>s, <1>t, <1>6, <2>2, <2>3
<1>7. ASSUME NEW a \in s3, Risk!RouterFails(a)  PROVE RiskInv'
  BY <1>6, <1>7 DEF Risk!RouterFails
<1>8. ASSUME NEW a \in s3, Risk!TimesOut(a)  PROVE RiskInv'
  <2>1. CASE a.router = "open"  BY <1>6, <1>8, <2>1 DEF Risk!TimesOut
  <2>2. CASE a.router # "open"
    <3>1. [a EXCEPT !.late = TRUE] \in Risk!Asks  BY <1>t DEF Risk!Asks
    <3> QED  BY <1>3, <1>8, <1>t, <2>2, <3>1 DEF Risk!TimesOut, Risk!Asks
  <2> QED  BY <2>1, <2>2
<1>9. ASSUME NEW a \in s3, Risk!Evaluated(a)  PROVE RiskInv'
  BY <1>6, <1>9 DEF Risk!Evaluated
<1>10. ASSUME NEW a \in s3, a.what = "domain", s3' = s3 \ {a}, UNCHANGED <<s1, s4>>,
              s2' \in Risk!Panels, s2'.status # "loading", s2'.status = "success" => s2'.says = s2'.of
       PROVE  RiskInv'
  <2>1. s1'.status = "loading" => Pending("region", s1.of)'  BY <1>t, <1>10 DEF Pending
  <2> QED  BY <1>s, <1>t, <1>10, <2>1
<1>11. ASSUME NEW a \in s3, Risk!Analyzed(a)  PROVE RiskInv'
  <2>1. a.of \in Regions  BY <1>t DEF Risk!Asks
  <2>2. s2' \in Risk!Panels /\ s2'.status = "success" /\ s2'.says = s2'.of
    BY <1>11, <2>1, RiskPanels DEF Risk!Analyzed
  <2> QED  BY <1>10, <1>11, <2>2 DEF Risk!Analyzed
<1>12. ASSUME NEW a \in s3, Risk!DomainFails(a)  PROVE RiskInv'
  <2>1. a.of \in Regions  BY <1>t DEF Risk!Asks
  <2>2. CASE s2 = Risk!NoPanel
    <3>1. s2' = s2 /\ s2.status # "loading" /\ s2.status # "success"
      BY <1>12, <2>2 DEF Risk!DomainFails, Risk!NoPanel, Risk!Hidden
    <3> QED  BY <1>10, <1>12, <1>t, <3>1 DEF Risk!DomainFails
  <2>3. CASE s2 # Risk!NoPanel
    <3>1. s2' = [s2 EXCEPT !.status = "error", !.says = a.of]
      BY <1>12, <2>3 DEF Risk!DomainFails
    <3>2. s2' \in Risk!Panels /\ s2'.status = "error"
      BY <1>t, <2>1, <2>3, <3>1 DEF Risk!Panels, Risk!None
    <3> QED  BY <1>10, <1>12, <3>2 DEF Risk!DomainFails
  <2> QED  BY <2>2, <2>3
<1>13. ASSUME Risk!DismissRegion  PROVE RiskInv'
  BY <1>s, <1>t, <1>13 DEF Risk!DismissRegion, Risk!NoPanel, Risk!Hidden, Risk!Panels, Pending
<1>14. ASSUME Risk!DismissDomain  PROVE RiskInv'
  BY <1>s, <1>t, <1>14 DEF Risk!DismissDomain, Risk!NoPanel, Risk!Hidden, Risk!Panels, Pending
<1>15. CASE UNCHANGED RiskVars
  BY <1>s, <1>t, <1>15 DEF RiskVars, Risk!vars, Pending
<1> QED
  BY <1>1, <1>2, <1>4, <1>5, <1>7, <1>8, <1>9, <1>11, <1>12, <1>13, <1>14, <1>15 DEF Risk!Next

-----------------------------------------------------------------------------
(***************************************************************************)
(* The tracker of the station: now is s1, enabled s2, connecting s3, open  *)
(* s4, timer s5, delay s6, rest s7, asks s8, position s9, track s10,       *)
(* connected s11, faults s12, toggles s13.                                 *)
(***************************************************************************)
IssFlags == s2 \in BOOLEAN /\ s5 \in BOOLEAN /\ s7 \in BOOLEAN /\ s11 \in BOOLEAN
IssCounts ==
  s1 \in 1..MaxPositions /\ s6 \in 0..Delays /\ s12 \in 0..MaxCloses /\ s13 \in 0..MaxToggles
IssAsks == s8 \subseteq [what : {"position", "track"}, by : 0..MaxPositions]
IssShown ==
  s9 \in 0..MaxPositions /\ s10 \in Seq(1..MaxPositions) /\ Len(s10) <= TrackLength

(* One socket, or the timer for the next, while it is on; requests while   *)
(* no socket is open and the timer is set.                                 *)
IssSource ==
  /\ s3 \in Nat /\ s4 \in Nat
  /\ s2 /\ ~ s5 => s3 + s4 = 1
  /\ ~ s2 \/ s5 => s3 = 0 /\ s4 = 0
  /\ s5 => s2 /\ s7
  /\ (s11 <=> s4 > 0)
  /\ s7 => s2 /\ s4 = 0

IssInv == IssFlags /\ IssCounts /\ IssAsks /\ IssShown /\ IssSource

LEMMA IssImplies == IssInv => Station!TypeOK /\ Station!OneSource
<1> SUFFICES ASSUME IssInv  PROVE Station!TypeOK /\ Station!OneSource
  OBVIOUS
<1>1. Station!TypeOK
  <2>1. Len(s10) <= TrackLength /\ \A i \in DOMAIN s10 : s10[i] \in (0..MaxPositions) \ {0}
    <3>0. s10 \in Seq(1..MaxPositions) /\ Len(s10) <= TrackLength  BY DEF IssInv, IssShown
    <3>1. \A i \in DOMAIN s10 : s10[i] \in 1..MaxPositions  BY <3>0, ElementOfSeq, LenProperties
    <3>2. MaxPositions \in Nat  BY PageAssumption
    <3>3. \A i \in DOMAIN s10 : s10[i] \in (0..MaxPositions) \ {0}  BY <3>1, <3>2
    <3> QED  BY <3>0, <3>3
  <2>2. {s1, s9} \subseteq 0..MaxPositions /\ {s2, s5, s7, s11} \subseteq BOOLEAN
    BY DEF IssInv, IssCounts, IssShown, IssFlags
  <2> QED
    BY <2>1, <2>2 DEF IssInv, IssCounts, IssSource, Station!TypeOK, Station!Positions
<1>2. Station!OneSource
  BY DEF IssInv, IssFlags, IssSource, Station!OneSource
<1> QED  BY <1>1, <1>2

LEMMA IssInit == Station!Init => IssInv
<1> SUFFICES ASSUME Station!Init  PROVE IssInv
  OBVIOUS
<1>b. {MaxPositions, Delays, MaxCloses, MaxToggles, TrackLength} \subseteq Nat /\ MaxPositions > 0
  BY PageAssumption
<1>1. IssFlags /\ IssSource
  <2>1. 0 \in Nat /\ ~ (0 > 0)  OBVIOUS
  <2> QED  BY <2>1, Zenon DEF Station!Init, IssFlags, IssSource
<1>2. IssCounts /\ IssAsks  BY <1>b DEF Station!Init, IssCounts, IssAsks
<1>3. IssShown  BY <1>b DEF Station!Init, IssShown
<1> QED  BY <1>1, <1>2, <1>3 DEF IssInv

(* A position taken is the first of the track.                             *)
LEMMA IssTake ==
  ASSUME IssInv, NEW p \in 1..MaxPositions, Station!Take(p)  PROVE IssShown'
<1> DEFINE all == <<p>> \o s10
           n == IF Len(s10) < TrackLength THEN Len(s10) + 1 ELSE TrackLength
<1>1. s10 \in Seq(1..MaxPositions) /\ Len(s10) \in Nat /\ Len(s10) <= TrackLength /\ TrackLength \in Nat
  BY PageAssumption DEF IssInv, IssShown
<1>2. all \in Seq(1..MaxPositions) /\ Len(all) = Len(s10) + 1
  <2>1. <<p>> \in Seq(1..MaxPositions) /\ Len(<<p>>) = 1  OBVIOUS
  <2> QED  BY <1>1, <2>1, ConcatProperties
<1>3. n \in Nat /\ n <= TrackLength /\ n <= Len(all)  BY <1>1, <1>2
<1>4. \A i \in 1..n : all[i] \in 1..MaxPositions
  <2>1. \A i \in 1..n : i \in 1..Len(all)  BY <1>2, <1>3, <1>1
  <2> HIDE DEF all, n
  <2> QED  BY <1>2, <2>1, ElementOfSeq
<1>5. s9' = p /\ s10' = SubSeq(all, 1, n)  BY DEF Station!Take
<1> HIDE DEF all, n
<1>6. s10' \in Seq(1..MaxPositions) /\ Len(s10') = (IF 1 <= n THEN n - 1 + 1 ELSE 0)
  BY <1>3, <1>4, <1>5, SubSeqProperties
<1> QED  BY <1>1, <1>3, <1>5, <1>6 DEF IssShown

LEMMA IssNext == IssInv /\ [Station!Next]_StationVars => IssInv'
<1> SUFFICES ASSUME IssInv, [Station!Next]_StationVars  PROVE IssInv'
  OBVIOUS
<1>b. {MaxPositions, Delays, MaxCloses, MaxToggles, TrackLength} \subseteq Nat
  BY PageAssumption
<1>i. IssFlags /\ IssCounts /\ IssAsks /\ IssShown /\ IssSource  BY DEF IssInv
<1>s. ASSUME IssFlags', IssCounts', IssAsks', IssShown', IssSource'  PROVE IssInv'
  BY <1>s DEF IssInv
<1>a. ASSUME NEW what \in {"position", "track"}
      PROVE  Station!Ask(what, 0) \in [what : {"position", "track"}, by : 0..MaxPositions]
  BY <1>b DEF Station!Ask
<1>h. UNCHANGED <<s9, s10>> => IssShown'  BY <1>i DEF IssShown
<1>1. CASE Station!Moves
  <2>1. /\ UNCHANGED <<s2, s3, s4, s5, s6, s7, s8, s9, s10, s11, s12, s13>>
        /\ s1 < MaxPositions /\ s1' = s1 + 1
    BY <1>1 DEF Station!Moves
  <2> QED
    BY <1>b, <1>i, <1>s, <1>h, <2>1 DEF IssFlags, IssCounts, IssAsks, IssSource
<1>2. CASE Station!Enable
  <2>1. /\ UNCHANGED <<s1, s4, s5, s6, s7, s9, s10, s11, s12>> /\ ~ s2 /\ s2' = TRUE
        /\ s13 < MaxToggles /\ s13' = s13 + 1 /\ s3' = s3 + 1
        /\ s8' = s8 \cup {Station!Ask("track", 0), Station!Ask("position", 0)}
    BY <1>2 DEF Station!Enable
  <2>2. IssAsks'  BY <1>a, <1>i, <2>1 DEF IssAsks
  <2>3. IssCounts'  BY <1>b, <1>i, <2>1 DEF IssCounts
  <2>4. IssFlags'  BY <1>i, <2>1 DEF IssFlags
  <2>5. IssSource'
    <3>1. s3 \in Nat /\ s4 \in Nat  BY <1>i DEF IssSource
    <3> QED  BY <1>i, <2>1, <3>1 DEF IssFlags, IssSource
  <2> QED  BY <1>s, <1>h, <2>1, <2>2, <2>3, <2>4, <2>5
<1>3. CASE Station!Disable
  <2>1. /\ UNCHANGED <<s1, s6, s8, s12, s13>> /\ s2' = FALSE /\ s5' = FALSE /\ s7' = FALSE
        /\ s3' = 0 /\ s4' = 0 /\ s9' = 0 /\ s10' = <<>> /\ s11' = FALSE
    BY <1>3 DEF Station!Disable
  <2>2. IssShown'
    <3>1. <<>> \in Seq(1..MaxPositions) /\ Len(<<>>) = 0  OBVIOUS
    <3>2. 0 \in 0..MaxPositions /\ 0 <= TrackLength  BY <1>b
    <3> QED  BY <2>1, <3>1, <3>2 DEF IssShown
  <2>3. IssFlags' /\ IssSource'
    <3>1. 0 \in Nat /\ ~ (0 > 0)  OBVIOUS
    <3> QED  BY <2>1, <3>1, Zenon DEF IssFlags, IssSource
  <2> QED  BY <1>i, <1>s, <2>1, <2>2, <2>3 DEF IssCounts, IssAsks
<1>4. CASE Station!Opens
  <2>1. /\ UNCHANGED <<s1, s2, s5, s8, s9, s10, s12, s13>> /\ s3 > 0 /\ s3' = s3 - 1
        /\ s4' = s4 + 1 /\ s11' = TRUE /\ s6' = 0 /\ s7' = FALSE
    BY <1>4 DEF Station!Opens
  <2>2. IssCounts' /\ IssAsks'  BY <1>b, <1>i, <2>1 DEF IssCounts, IssAsks
  <2>3. IssFlags' /\ IssSource'
    <3>1. s2 /\ ~ s5 /\ s3 \in Nat /\ s4 \in Nat /\ s3 + s4 = 1  BY <1>i, <2>1 DEF IssSource
    <3>2. s3' \in Nat /\ s4' \in Nat /\ s3' + s4' = 1 /\ s4' > 0  BY <2>1, <3>1
    <3> QED  BY <1>i, <2>1, <3>1, <3>2, Zenon DEF IssFlags, IssSource
  <2> QED  BY <1>s, <1>h, <2>1, <2>2, <2>3
<1>5. CASE Station!Message
  <2>1. /\ UNCHANGED <<s1, s2, s3, s4, s5, s6, s7, s8, s11, s12, s13>> /\ Station!Take(s1)
    BY <1>5 DEF Station!Message
  <2>2. IssShown'  BY <1>i, <2>1, IssTake DEF IssInv, IssCounts
  <2> QED  BY <1>i, <1>s, <2>1, <2>2 DEF IssFlags, IssCounts, IssAsks, IssSource
<1>6. CASE Station!Closes
  <2>1. /\ UNCHANGED <<s1, s2, s9, s10, s13>> /\ s12 < MaxCloses /\ s12' = s12 + 1
        /\ \/ s3 > 0 /\ s3' = s3 - 1 /\ s4' = s4
           \/ s4 > 0 /\ s4' = s4 - 1 /\ s3' = s3
        /\ s11' = FALSE /\ s7' = TRUE /\ s5' = TRUE
        /\ s8' = s8 \/ s8' = s8 \cup {Station!Ask("position", 0)}
        /\ s6' = (IF s6 < Delays THEN s6 + 1 ELSE s6)
    BY <1>6 DEF Station!Closes, Station!Closed
  <2>2. IssAsks'  BY <1>a, <1>i, <2>1 DEF IssAsks
  <2>3. IssCounts'  BY <1>b, <1>i, <2>1 DEF IssCounts
  <2>4. IssFlags'  BY <1>i, <2>1 DEF IssFlags
  <2>5. IssSource'
    <3>1. s3 \in Nat /\ s4 \in Nat  BY <1>i DEF IssSource
    <3> QED  BY <1>i, <2>1, <3>1 DEF IssFlags, IssSource
  <2> QED  BY <1>s, <1>h, <2>1, <2>2, <2>3, <2>4, <2>5
<1>7. CASE Station!Reconnect
  <2>1. /\ UNCHANGED <<s1, s2, s4, s6, s7, s8, s9, s10, s11, s12, s13>> /\ s5 /\ s5' = FALSE
        /\ s3' = (IF s2 THEN s3 + 1 ELSE s3)
    BY <1>7 DEF Station!Reconnect
  <2>2. IssFlags' /\ IssSource'
    <3>1. s2 /\ s7 /\ s3 = 0 /\ s4 = 0 /\ s3' = s3 + 1  BY <1>i, <2>1 DEF IssSource
    <3>2. s3' \in Nat /\ s4' \in Nat /\ s3' + s4' = 1 /\ ~ (s4' > 0) /\ s4' = 0  BY <2>1, <3>1
    <3> QED  BY <1>i, <2>1, <3>1, <3>2, Zenon DEF IssFlags, IssSource
  <2> QED  BY <1>i, <1>s, <1>h, <2>1, <2>2 DEF IssCounts, IssAsks
<1>8. CASE Station!RestTick
  <2>1. /\ UNCHANGED <<s1, s2, s3, s4, s5, s6, s7, s9, s10, s11, s12, s13>>
        /\ s8' = s8 \cup {Station!Ask("position", 0)}
    BY <1>8 DEF Station!RestTick
  <2>2. IssAsks'  BY <1>a, <1>i, <2>1 DEF IssAsks
  <2> QED  BY <1>i, <1>s, <1>h, <2>1, <2>2 DEF IssFlags, IssCounts, IssSource
<1>9. ASSUME NEW a \in s8, Station!Served(a)  PROVE IssInv'
  <2>1. /\ UNCHANGED <<s1, s2, s3, s4, s5, s6, s7, s9, s10, s11, s12, s13>>
        /\ s8' = (s8 \ {a}) \cup {[a EXCEPT !.by = s1]}
    BY <1>9 DEF Station!Served
  <2>2. [a EXCEPT !.by = s1] \in [what : {"position", "track"}, by : 0..MaxPositions]
    <3>1. s1 \in 0..MaxPositions  BY <1>b, <1>i DEF IssCounts
    <3> QED  BY <1>i, <3>1 DEF IssAsks
  <2>3. IssAsks'  BY <1>i, <2>1, <2>2 DEF IssAsks
  <2> QED  BY <1>i, <1>s, <1>h, <2>1, <2>3 DEF IssFlags, IssCounts, IssSource
<1>10. ASSUME NEW a \in s8, Station!Answer(a)  PROVE IssInv'
  <2>1. /\ UNCHANGED <<s1, s2, s3, s4, s5, s6, s7, s11, s12, s13>> /\ s8' = s8 \ {a} /\ a.by # 0
        /\ \/ Station!Take(a.by)
           \/ /\ s9' = s9
              /\ s10' = [i \in 1..(IF a.by < TrackLength THEN a.by ELSE TrackLength) |-> a.by + 1 - i]
    BY <1>10 DEF Station!Answer
  <2>2. a.by \in 1..MaxPositions
    <3>1. a.by \in 0..MaxPositions  BY <1>i DEF IssAsks
    <3> QED  BY <1>b, <2>1, <3>1
  <2>3. IssShown'
    <3>1. CASE Station!Take(a.by)  BY <2>2, <3>1, IssTake
    <3>2. ASSUME s9' = s9,
                 s10' = [i \in 1..(IF a.by < TrackLength THEN a.by ELSE TrackLength) |-> a.by + 1 - i]
          PROVE  IssShown'
      <4> DEFINE n == IF a.by < TrackLength THEN a.by ELSE TrackLength
      <4>1. n \in Nat /\ n <= TrackLength /\ n <= a.by  BY <1>b, <2>2
      <4>2. \A i \in 1..n : a.by + 1 - i \in 1..MaxPositions  BY <1>b, <2>2, <4>1
      <4>3. s10' = [i \in 1..n |-> a.by + 1 - i]  BY <3>2
      <4> HIDE DEF n
      <4>4. s10' \in Seq(1..MaxPositions) /\ Len(s10') = n  BY <4>1, <4>2, <4>3
      <4> QED  BY <1>i, <3>2, <4>1, <4>4 DEF IssShown
    <3> QED  BY <2>1, <3>1, <3>2
  <2>4. IssAsks'  BY <1>i, <2>1 DEF IssAsks
  <2> QED  BY <1>i, <1>s, <2>1, <2>3, <2>4 DEF IssFlags, IssCounts, IssSource
<1>11. ASSUME NEW a \in s8, Station!AskFails(a)  PROVE IssInv'
  <2>1. /\ UNCHANGED <<s1, s2, s3, s4, s5, s6, s7, s9, s10, s11, s13>> /\ s8' = s8 \ {a}
        /\ s12 < MaxCloses /\ s12' = s12 + 1
    BY <1>11 DEF Station!AskFails
  <2>2. IssAsks'  BY <1>i, <2>1 DEF IssAsks
  <2>3. IssCounts'  BY <1>b, <1>i, <2>1 DEF IssCounts
  <2> QED  BY <1>i, <1>s, <1>h, <2>1, <2>2, <2>3 DEF IssFlags, IssSource
<1>12. CASE UNCHANGED StationVars
  <2>1. UNCHANGED <<s1, s2, s3, s4, s5, s6, s7, s8, s9, s10, s11, s12, s13>>
    BY <1>12 DEF StationVars, Station!vars
  <2> QED  BY <1>i, <1>s, <1>h, <2>1 DEF IssFlags, IssCounts, IssAsks, IssSource
<1> QED
  BY <1>1, <1>2, <1>3, <1>4, <1>5, <1>6, <1>7, <1>8, <1>9, <1>10, <1>11, <1>12 DEF Station!Next

-----------------------------------------------------------------------------
(***************************************************************************)
(* The camera that follows: at is s1, selected s2, follow s3, ending s4,   *)
(* following s5, grace s6, touching s7, easing s8, camera s9, taken s10,   *)
(* lost s11, moves s12.                                                    *)
(***************************************************************************)
CameraFlags == {s3, s4, s5, s6, s7, s10, s11} \subseteq BOOLEAN
CameraPlaces ==
  /\ s1 \in [Targets -> Spots] /\ s2 \in Targets \cup {0} /\ s9 \in Spots
  /\ s8 \in Spots \cup {99} /\ s12 \in 0..MaxMoves
CameraRules == (s10 /\ ~ s11 => ~ s5) /\ (s5 => s3) /\ (s3 /\ ~ s5 /\ ~ s11 => s4)

LEMMA CameraParts == Camera!FollowInv <=> CameraFlags /\ CameraPlaces /\ CameraRules
<1>1. Camera!TypeOK <=> CameraFlags /\ CameraPlaces
  BY DEF Camera!TypeOK, Camera!None, Camera!Nothing, CameraFlags, CameraPlaces
<1> QED  BY <1>1 DEF Camera!FollowInv, Camera!UserWins, CameraRules

LEMMA CameraInit == Camera!Init => Camera!FollowInv
<1> SUFFICES ASSUME Camera!Init  PROVE CameraFlags /\ CameraPlaces /\ CameraRules
  BY CameraParts
<1>1. CameraFlags /\ CameraRules  BY DEF Camera!Init, CameraFlags, CameraRules
<1>2. CameraPlaces  BY PageAssumption DEF Camera!Init, Camera!None, Camera!Nothing, CameraPlaces
<1> QED  BY <1>1, <1>2

LEMMA CameraNext == Camera!FollowInv /\ [Camera!Next]_CameraVars => Camera!FollowInv'
<1>p. CameraFlags' /\ CameraPlaces' /\ CameraRules' => Camera!FollowInv'
  BY DEF Camera!FollowInv, Camera!UserWins, Camera!TypeOK, Camera!None, Camera!Nothing,
         CameraFlags, CameraPlaces, CameraRules
<1> SUFFICES ASSUME CameraFlags, CameraPlaces, CameraRules, [Camera!Next]_CameraVars
             PROVE  CameraFlags' /\ CameraPlaces' /\ CameraRules'
  BY <1>p, CameraParts
<1>f. /\ s3 \in BOOLEAN /\ s4 \in BOOLEAN /\ s5 \in BOOLEAN /\ s6 \in BOOLEAN /\ s7 \in BOOLEAN
      /\ s10 \in BOOLEAN /\ s11 \in BOOLEAN
  BY DEF CameraFlags
<1>m. s12 < MaxMoves /\ s12' = s12 + 1 => s12' \in 0..MaxMoves  BY PageAssumption DEF CameraPlaces
<1>1. CASE Camera!TargetMoves
  <2>1. UNCHANGED <<s2, s3, s4, s5, s6, s7, s8, s9, s10, s11>>  BY <1>1 DEF Camera!TargetMoves
  <2>2. s1' \in [Targets -> Spots] /\ s12' \in 0..MaxMoves
    BY <1>1, <1>m DEF Camera!TargetMoves, Camera!Move, CameraPlaces
  <2> QED  BY <2>1, <2>2 DEF CameraFlags, CameraPlaces, CameraRules
<1>2. CASE \E t \in Targets \cup {0} : Camera!Select(t) \/ Camera!SelectPass(t)
  <2>1. /\ UNCHANGED <<s1, s3, s5, s6, s7, s8, s9, s10, s11>> /\ s2' \in Targets \cup {0}
        /\ s12' \in 0..MaxMoves
    BY <1>2, <1>m DEF Camera!Select, Camera!SelectPass, Camera!Move
  <2>2. s4' = TRUE \/ s4' = s4  BY <1>2 DEF Camera!Select, Camera!SelectPass
  <2>3. CameraFlags' /\ CameraRules'
    BY <1>f, <2>1, <2>2 DEF CameraFlags, CameraRules
  <2> QED  BY <2>1, <2>3 DEF CameraPlaces
<1>3. CASE Camera!CenterMap
  <2>1. /\ UNCHANGED <<s1, s2, s7, s9>> /\ s2 # 0 /\ s8' = s1[s2] /\ s12' \in 0..MaxMoves
    BY <1>3, <1>m DEF Camera!CenterMap, Camera!Move, Camera!None
  <2>2. CameraPlaces'  BY <2>1 DEF CameraPlaces
  <2>3. /\ s3' = TRUE /\ s4' = FALSE /\ s5' = (s5 \/ ~ s3) /\ s6' = (s6 \/ (~ s3 /\ ~ s5))
        /\ s10' = FALSE /\ s11' = (s3 /\ ~ s5) /\ s7' = s7
    BY <1>3 DEF Camera!CenterMap
  <2>4. CameraFlags' /\ CameraRules'  BY <1>f, <2>3 DEF CameraFlags, CameraRules
  <2> QED  BY <2>2, <2>4
<1>4. CASE Camera!Render
  <2>1. UNCHANGED <<s1, s2, s6, s7, s8, s9, s10, s12>>  BY <1>4 DEF Camera!Render
  <2>2. s4' = FALSE /\ s3' = FALSE /\ s5' = (IF s3 THEN FALSE ELSE s5) /\ s11' = FALSE
    BY <1>4 DEF Camera!Render
  <2>3. s5' = FALSE  BY <1>f, <2>2 DEF CameraRules
  <2>4. CameraFlags' /\ CameraRules'  BY <1>f, <2>1, <2>2, <2>3 DEF CameraFlags, CameraRules
  <2> QED  BY <2>1, <2>4 DEF CameraPlaces
<1>5. CASE Camera!Touch
  <2>1. UNCHANGED <<s1, s2, s3, s4, s5, s6, s8, s9, s10, s11>> /\ s12' \in 0..MaxMoves
    BY <1>5, <1>m DEF Camera!Touch, Camera!Move
  <2>2. s7' = ~ s7  BY <1>5 DEF Camera!Touch
  <2>3. CameraFlags' /\ CameraRules'  BY <1>f, <2>1, <2>2 DEF CameraFlags, CameraRules
  <2> QED  BY <2>1, <2>3 DEF CameraPlaces
<1>6. CASE Camera!UserMoves
  <2>1. UNCHANGED <<s1, s2, s3, s6, s7, s11>> /\ s9' = 0 /\ s8' = 99 /\ s12' \in 0..MaxMoves
    BY <1>6, <1>m DEF Camera!UserMoves, Camera!Move, Camera!None, Camera!Nothing
  <2>2. s10' = TRUE /\ s5' = FALSE /\ s4' = (s4 \/ s5)  BY <1>6 DEF Camera!UserMoves
  <2>3. CameraFlags' /\ CameraRules'  BY <1>f, <2>1, <2>2 DEF CameraFlags, CameraRules
  <2> QED  BY <2>1, <2>3, PageAssumption DEF CameraPlaces
<1>7. CASE Camera!Frame
  <2> DEFINE ends == s7 /\ s5 /\ ~ s6
  <2>1. UNCHANGED <<s1, s2, s3, s6, s7, s8, s10, s11, s12>>  BY <1>7 DEF Camera!Frame
  <2>2. s5' = (s5 /\ ~ ends) /\ s4' = (ends \/ s4)  BY <1>7 DEF Camera!Frame
  <2>3. CameraFlags' /\ CameraRules'  BY <1>f, <2>1, <2>2 DEF CameraFlags, CameraRules
  <2>4. s9' = s9 \/ (s2 # 0 /\ s9' = s1[s2])
    BY <1>7 DEF Camera!Frame, Camera!Centred, Camera!None
  <2> QED  BY <2>1, <2>3, <2>4 DEF CameraPlaces
<1>8. CASE Camera!Lands
  <2>1. /\ UNCHANGED <<s1, s2, s3, s4, s5, s6, s7, s10, s11, s12>> /\ s8 # 99 /\ s9' = s8 /\ s8' = 99
    BY <1>8 DEF Camera!Lands, Camera!Nothing
  <2> QED  BY <2>1 DEF CameraFlags, CameraPlaces, CameraRules
<1>9. CASE Camera!GraceEnds
  <2>1. UNCHANGED <<s1, s2, s3, s4, s5, s7, s8, s9, s10, s11, s12>> /\ s6' = FALSE
    BY <1>9 DEF Camera!GraceEnds
  <2> QED  BY <2>1 DEF CameraFlags, CameraPlaces, CameraRules
<1>10. CASE Camera!SwitchView
  <2>1. /\ UNCHANGED <<s1, s3, s4, s10, s11>> /\ s2' = 0 /\ s8' = 99 /\ s9' = 0 /\ s12' \in 0..MaxMoves
    BY <1>10, <1>m DEF Camera!SwitchView, Camera!Move, Camera!None, Camera!Nothing
  <2>2. ~ s4 /\ s5' = s3 /\ s6' = FALSE /\ s7' = FALSE  BY <1>10 DEF Camera!SwitchView
  <2>3. CameraFlags' /\ CameraRules'  BY <1>f, <2>1, <2>2 DEF CameraFlags, CameraRules
  <2> QED  BY <2>1, <2>3, PageAssumption DEF CameraPlaces
<1>11. CASE UNCHANGED CameraVars
  BY <1>11 DEF CameraVars, Camera!vars, CameraFlags, CameraPlaces, CameraRules
<1> QED
  BY <1>1, <1>2, <1>3, <1>4, <1>5, <1>6, <1>7, <1>8, <1>9, <1>10, <1>11
  DEF Camera!Next, Camera!None

-----------------------------------------------------------------------------
(***************************************************************************)
(* The page: what holds of the part a behaviour has.                       *)
(***************************************************************************)
PageInv ==
  /\ part = "session" => AuthInv
  /\ part = "analyst" => RunInv
  /\ part = "search" => FindInv
  /\ part = "assessment" => RiskInv
  /\ part = "iss" => IssInv
  /\ part = "follow" => Camera!FollowInv

LEMMA PageStart == PageInit => PageInv
<1> SUFFICES ASSUME PageInit  PROVE PageInv
  OBVIOUS
<1>1. /\ part = "session" => Auth!Init
      /\ part = "analyst" => Report!Init
      /\ part = "search" => Finder!Init
      /\ part = "assessment" => Risk!Init
      /\ part = "iss" => Station!Init
      /\ part = "follow" => Camera!Init
  BY DEF PageInit
<1> QED
  BY <1>1, AuthInit, RunInit, FindInit, RiskInit, IssInit, CameraInit DEF PageInv

LEMMA PageStep == PageInv /\ [PageNext]_pageVars => PageInv'
<1> SUFFICES ASSUME PageInv, [PageNext]_pageVars  PROVE PageInv'
  OBVIOUS
<1>1. part' = part  BY DEF PageNext, pageVars
<1>2. ASSUME part = "session"  PROVE AuthInv'
  <2>1. [Auth!Next]_AuthVars
    <3>1. CASE PageNext  BY <1>2, <3>1 DEF PageNext
    <3>2. CASE UNCHANGED pageVars  BY <3>2 DEF pageVars, AuthVars, Auth!vars
    <3> QED  BY <3>1, <3>2
  <2> QED  BY <1>2, <2>1, AuthNext DEF PageInv
<1>3. ASSUME part = "analyst"  PROVE RunInv'
  <2>1. [Report!Next]_ReportVars
    <3>1. CASE PageNext  BY <1>3, <3>1 DEF PageNext
    <3>2. CASE UNCHANGED pageVars  BY <3>2 DEF pageVars, ReportVars, Report!vars
    <3> QED  BY <3>1, <3>2
  <2> QED  BY <1>3, <2>1, RunNext DEF PageInv
<1>4. ASSUME part = "search"  PROVE FindInv'
  <2>1. [Finder!Next]_FinderVars
    <3>1. CASE PageNext  BY <1>4, <3>1 DEF PageNext
    <3>2. CASE UNCHANGED pageVars  BY <3>2 DEF pageVars, FinderVars, Finder!vars
    <3> QED  BY <3>1, <3>2
  <2> QED  BY <1>4, <2>1, FindNext DEF PageInv
<1>5. ASSUME part = "assessment"  PROVE RiskInv'
  <2>1. [Risk!Next]_RiskVars
    <3>1. CASE PageNext  BY <1>5, <3>1 DEF PageNext
    <3>2. CASE UNCHANGED pageVars  BY <3>2 DEF pageVars, RiskVars, Risk!vars
    <3> QED  BY <3>1, <3>2
  <2> QED  BY <1>5, <2>1, RiskNext DEF PageInv
<1>6. ASSUME part = "iss"  PROVE IssInv'
  <2>1. [Station!Next]_StationVars
    <3>1. CASE PageNext  BY <1>6, <3>1 DEF PageNext
    <3>2. CASE UNCHANGED pageVars  BY <3>2 DEF pageVars, StationVars, Station!vars
    <3> QED  BY <3>1, <3>2
  <2> QED  BY <1>6, <2>1, IssNext DEF PageInv
<1>7. ASSUME part = "follow"  PROVE Camera!FollowInv'
  <2>1. [Camera!Next]_CameraVars
    <3>1. CASE PageNext  BY <1>7, <3>1 DEF PageNext
    <3>2. CASE UNCHANGED pageVars  BY <3>2 DEF pageVars, CameraVars, Camera!vars
    <3> QED  BY <3>1, <3>2
  <2> QED  BY <1>7, <2>1, CameraNext DEF PageInv
<1> QED  BY <1>1, <1>2, <1>3, <1>4, <1>5, <1>6, <1>7 DEF PageInv

LEMMA PageImplies == PageInv => ShownIsOfAsked
<1> SUFFICES ASSUME PageInv  PROVE ShownIsOfAsked
  OBVIOUS
<1>1. part = "session" => SessionIsOwned  BY AuthImplies DEF PageInv
<1>2. part = "analyst" => Report!TypeOK /\ Report!OneRun  BY RunImplies DEF PageInv
<1>3. part = "search" => Finder!ResultsAreOfQuery  BY FindImplies DEF PageInv
<1>4. part = "assessment" => Risk!TypeOK /\ Risk!SaidOfPlace  BY DEF PageInv, RiskInv
<1>5. part = "iss" => Station!TypeOK /\ Station!OneSource  BY IssImplies DEF PageInv
<1>6. part = "follow" => Camera!UserWins  BY DEF PageInv, Camera!FollowInv
<1> QED  BY <1>1, <1>2, <1>3, <1>4, <1>5, <1>6 DEF ShownIsOfAsked

(* However logins, reloads, expiries and late answers interleave, and      *)
(* whatever the number of tokens, runs, requests and moves: each part      *)
(* keeps the invariant it needs.                                           *)
THEOREM PageInvariance == PageSpec => []PageInv
<1>1. PageInv /\ [PageNext]_pageVars => PageInv'  BY PageStep
<1> QED  BY <1>1, PageStart, PTL DEF PageSpec

(* The page is shown to the owner of the token it uses, the analyst shows  *)
(* one run, the search rows of its query, an assessment is of its region,  *)
(* the station has one source and the camera stays where the user moved    *)
(* it.                                                                     *)
THEOREM ShownCorrect == PageSpec => []ShownIsOfAsked
<1>1. PageInv => ShownIsOfAsked  BY PageImplies
<1> QED  BY <1>1, PageInvariance, PTL

-----------------------------------------------------------------------------
(***************************************************************************)
(* The stream: the connection state the page shows is the one of its       *)
(* socket, a cleanup leaves nothing behind, and no frame is decoded too    *)
(* early or left undecoded: for every number of sockets, failures, nudges  *)
(* and frames.                                                             *)
(***************************************************************************)
(* The worker lives as long as the page has not cleaned up, and has loaded *)
(* the schema by the time the page connects.                               *)
WorkerLives ==
  /\ cleaning <=> schema = "ended"
  /\ workerReady /\ ~cleaning => schema = "ready"
  /\ late => cleaning

(* Before it has heard that the worker is ready the page has no socket;    *)
(* from then on its variable points to one, old or new.                    *)
SocketsAwaitWorker ==
  /\ workerReady => ws \in Slots
  /\ ~workerReady =>
       /\ ws = 0 /\ \A s \in Slots : sock[s] = "none"
       /\ ~heartbeat /\ ~reconnect

(* Until sockets overlap, none is alive but the one pointed to.            *)
OneSocket == overlapped \/ \A s \in Slots : s = ws \/ sock[s] = "none"

(* A connection on its way leaves no timer to replace it.                  *)
ConnectingIsAwaited ==
  (workerReady /\ ~cleaning /\ ~overlapped) => (sock[ws] = "connecting" => ~reconnect)

(* After the cleanup nothing is to be decoded and nothing reconnects.      *)
NothingPending ==
  cleaning => inbox = 0 /\ batch = 0 /\ timers = 0 /\ ~reconnect

(* The worker's variable stands for a timer that will fire.                *)
TimerIsSet == flushTimer => timers > 0

StreamInv ==
  /\ StreamIsTruthful
  /\ WorkerLives /\ SocketsAwaitWorker /\ OneSocket /\ ConnectingIsAwaited
  /\ NothingPending /\ TimerIsSet

-----------------------------------------------------------------------------
(* Types.                                                                  *)

\* A slot is not 0, which stands for no socket.
LEMMA SlotsArePositive == Slots \subseteq Nat /\ 0 \notin Slots
  BY SlotsAssumption

\* The bounds are numbers.
LEMMA BoundsAreNumbers ==
  /\ Cap \in Nat /\ MaxInbox \in Nat /\ MaxNudges \in Nat /\ MaxFaults \in Nat
  /\ MaxServed \in Nat /\ MaxTimers \in Nat /\ BatchSize \in Nat /\ BatchSize > 0
  BY SizesAssumption, BoundsAssumption

\* What a batch is after one more entity, and what its timer.
LEMMA PushedType ==
  ASSUME NEW h \in [batch : 0..BatchSize - 1, flushTimer : BOOLEAN, timers : Nat],
         h.flushTimer => h.timers > 0,  h.batch > 0 => h.timers > 0
  PROVE  /\ Pushed(h) \in [batch : 0..BatchSize - 1, flushTimer : BOOLEAN, timers : Nat]
         /\ Pushed(h).flushTimer => Pushed(h).timers > 0
         /\ Pushed(h).batch > 0 => Pushed(h).timers > 0
<1>1. CASE h.batch + 1 >= BatchSize
  BY <1>1, BoundsAreNumbers DEF Pushed
<1>2. CASE ~(h.batch + 1 >= BatchSize)
  <2>1. Pushed(h) = [batch |-> h.batch + 1, flushTimer |-> TRUE,
                     timers |-> IF h.flushTimer THEN h.timers ELSE h.timers + 1]
    BY <1>2 DEF Pushed
  <2>2. h.batch + 1 \in 0..BatchSize - 1  BY <1>2, BoundsAreNumbers
  <2>3. (IF h.flushTimer THEN h.timers ELSE h.timers + 1) \in Nat  OBVIOUS
  <2>4. (IF h.flushTimer THEN h.timers ELSE h.timers + 1) > 0  OBVIOUS
  <2> QED  BY <2>1, <2>2, <2>3, <2>4
<1> QED  BY <1>1, <1>2

\* A decoded frame leaves a batch of the right size, and a timer for it.
LEMMA DecodeStep ==
  ASSUME TypeOK, TimerIsSet, DecodedIsFlushed, Decode
  PROVE  /\ inbox' \in 0..MaxInbox /\ batch' \in 0..BatchSize - 1
         /\ flushTimer' \in BOOLEAN /\ timers' \in 0..MaxTimers
         /\ TimerIsSet' /\ DecodedIsFlushed'
<1> DEFINE Batches == [batch : 0..BatchSize - 1, flushTimer : BOOLEAN, timers : Nat]
           held == [batch |-> batch, flushTimer |-> flushTimer, timers |-> timers]
<1>1. /\ held \in Batches
      /\ held.flushTimer => held.timers > 0
      /\ held.batch > 0 => held.timers > 0
  BY BoundsAreNumbers DEF TypeOK, TimerIsSet, DecodedIsFlushed
<1>2. /\ Pushed(held) \in Batches
      /\ Pushed(held).flushTimer => Pushed(held).timers > 0
      /\ Pushed(held).batch > 0 => Pushed(held).timers > 0
  BY <1>1, PushedType
<1>3. /\ Pushed(Pushed(held)) \in Batches
      /\ Pushed(Pushed(held)).flushTimer => Pushed(Pushed(held)).timers > 0
      /\ Pushed(Pushed(held)).batch > 0 => Pushed(Pushed(held)).timers > 0
  BY <1>2, PushedType
<1>4. PICK h \in {held, Pushed(held), Pushed(Pushed(held))} :
        h.timers <= MaxTimers /\ batch' = h.batch /\ flushTimer' = h.flushTimer
        /\ timers' = h.timers
  BY DEF Decode
<1> HIDE DEF held
<1>5. h \in Batches /\ (h.flushTimer => h.timers > 0) /\ (h.batch > 0 => h.timers > 0)
  BY <1>1, <1>2, <1>3
<1>6. batch' \in 0..BatchSize - 1 /\ flushTimer' \in BOOLEAN /\ timers' \in 0..MaxTimers
  BY <1>4, <1>5, BoundsAreNumbers
<1>7. inbox' \in 0..MaxInbox
  BY BoundsAreNumbers DEF Decode, TypeOK
<1> QED  BY <1>4, <1>5, <1>6, <1>7 DEF TimerIsSet, DecodedIsFlushed

\* What connect() does: nothing beside an open socket, and otherwise a free
\* object becomes the socket.
LEMMA ConnectStep ==
  ASSUME TypeOK, OneSocket, Connect
  PROVE  /\ sock' \in [Slots -> {"none", "connecting", "open", "closing"}]
         /\ ws' \in Slots \cup {0} /\ overlapped' \in BOOLEAN /\ reconnect' = FALSE
         /\ \A s \in Slots : sock[s] # "none" => sock'[s] = sock[s]
         /\ OneSocket'
         /\ \/ Open(ws) /\ UNCHANGED <<sock, ws, overlapped>>
            \/ /\ ws' \in Slots /\ sock'[ws'] = "connecting"
               /\ ~overlapped' => ~overlapped /\ \A t \in Slots : sock[t] = "none"
<1>1. CASE Open(ws)
  BY <1>1 DEF Connect, TypeOK, OneSocket
<1>2. CASE ~Open(ws)
  <2>1. PICK s \in Slots :
          /\ sock[s] = "none" /\ sock' = [sock EXCEPT ![s] = "connecting"]
          /\ ws' = s /\ reconnect' = FALSE
          /\ overlapped' = (overlapped \/ \E t \in Slots : sock[t] # "none")
    BY <1>2 DEF Connect, Free
  <2>2. sock \in [Slots -> {"none", "connecting", "open", "closing"}] /\ overlapped \in BOOLEAN
    BY DEF TypeOK
  <2>3. /\ sock' \in [Slots -> {"none", "connecting", "open", "closing"}]
        /\ sock'[s] = "connecting" /\ \A t \in Slots : t # s => sock'[t] = sock[t]
    BY <2>1, <2>2
  <2>4. overlapped' \in BOOLEAN
        /\ (~overlapped' => ~overlapped /\ \A t \in Slots : sock[t] = "none")
    BY <2>1, <2>2
  <2>5. OneSocket'
    BY <2>1, <2>3, <2>4 DEF OneSocket
  <2>6. \A t \in Slots : sock[t] # "none" => sock'[t] = sock[t]
    BY <2>1, <2>3
  <2> QED  BY <2>1, <2>3, <2>4, <2>5, <2>6
<1> QED  BY <1>1, <1>2

\* The types by the part of the state they are about.
LinkType ==
  /\ sock \in [Slots -> {"none", "connecting", "open", "closing"}]
  /\ ws \in Slots \cup {0}
  /\ silent \subseteq {s \in Slots : sock[s] # "none"}
  /\ heartbeat \in BOOLEAN /\ reconnect \in BOOLEAN
  /\ quiet \in BOOLEAN /\ connected \in BOOLEAN
  /\ overlapped \in BOOLEAN /\ late \in BOOLEAN
  /\ attempts \in 0..Cap

\* Those of the worker.
DecoderType ==
  /\ inbox \in 0..MaxInbox /\ batch \in 0..BatchSize - 1
  /\ flushTimer \in BOOLEAN /\ timers \in 0..MaxTimers

\* Those of the watchlist.
ListType ==
  served \in 0..MaxServed /\ watched \in 0..MaxServed /\ asks \subseteq 0..MaxServed

\* And the others.
PageType ==
  /\ schema \in {"loading", "ready", "failed", "ended"}
  /\ workerReady \in BOOLEAN /\ cleaning \in BOOLEAN

\* Counts of what the environment may do.
EnvironmentType == nudges \in 0..MaxNudges /\ faults \in 0..MaxFaults

\* TypeOK is these parts.
LEMMA TypeParts ==
  TypeOK <=> LinkType /\ DecoderType /\ ListType /\ PageType /\ EnvironmentType
  BY Zenon DEF TypeOK, LinkType, DecoderType, ListType, PageType, EnvironmentType

\* So are they in the next state.
LEMMA TypePartsNext ==
  LinkType' /\ DecoderType' /\ ListType' /\ PageType' /\ EnvironmentType' => TypeOK'
  BY TypeParts, PTL

\* A step that leaves a part of the state alone leaves its types.
LEMMA Untouched ==
  /\ LinkType /\ UNCHANGED link => LinkType'
  /\ DecoderType /\ UNCHANGED decoder => DecoderType'
  /\ ListType /\ UNCHANGED list => ListType'
  /\ PageType /\ UNCHANGED <<schema, workerReady, cleaning>> => PageType'
  /\ EnvironmentType /\ UNCHANGED <<nudges, faults>> => EnvironmentType'
<1>1. LinkType /\ UNCHANGED link => LinkType'
  BY Zenon DEF LinkType, link
<1>2. DecoderType /\ UNCHANGED decoder => DecoderType'
  BY Zenon DEF DecoderType, decoder
<1>3. ListType /\ UNCHANGED list => ListType'
  BY Zenon DEF ListType, list
<1>4. PageType /\ UNCHANGED <<schema, workerReady, cleaning>> => PageType'
  BY DEF PageType
<1>5. EnvironmentType /\ UNCHANGED <<nudges, faults>> => EnvironmentType'
  BY DEF EnvironmentType
<1> QED  BY <1>1, <1>2, <1>3, <1>4, <1>5

\* Only so many nudges and failures happen.
LEMMA EnvironmentNext ==
  ASSUME TypeOK, [Next]_vars
  PROVE  EnvironmentType'
<1> USE BoundsAreNumbers
<1>1. nudges \in 0..MaxNudges /\ faults \in 0..MaxFaults
  BY TypeParts DEF EnvironmentType
<1>2. nudges' = nudges \/ (nudges < MaxNudges /\ nudges' = nudges + 1)
  BY DEF Next, SocketNext, ListNext, vars, SchemaLoads, SchemaFails, WorkerReady, Opened,
     Frame, Alert, CloseEvent, Drop, GoesSilent, QuietFor15s, Heartbeat, Reconnect, Nudge,
     Cleanup, Decode, Flush, SyncWatchlist, WatchlistEdited, WatchlistAnswer, WatchlistFails
<1>3. faults' = faults \/ (faults < MaxFaults /\ faults' = faults + 1)
  BY DEF Next, SocketNext, ListNext, vars, SchemaLoads, SchemaFails, WorkerReady, Opened,
     Frame, Alert, CloseEvent, Drop, GoesSilent, QuietFor15s, Heartbeat, Reconnect, Nudge,
     Cleanup, Decode, Flush, SyncWatchlist, WatchlistEdited, WatchlistAnswer, WatchlistFails
<1> QED  BY <1>1, <1>2, <1>3 DEF EnvironmentType

\* Every callback preserves the types.
LEMMA TypeNext ==
  ASSUME StreamInv, [Next]_vars
  PROVE  TypeOK'
<1> USE BoundsAreNumbers, SlotsArePositive
<1>0. TypeOK /\ OneSocket /\ TimerIsSet /\ DecodedIsFlushed
  BY DEF StreamInv, StreamIsTruthful
<1>a. LinkType /\ DecoderType /\ ListType /\ PageType
  BY <1>0, TypeParts
<1>b. EnvironmentType'  BY <1>0, EnvironmentNext
<1>1. CASE SchemaLoads \/ SchemaFails
  <2>1. UNCHANGED <<workerReady, link, cleaning, decoder, list>>
        /\ schema' \in {"ready", "failed"}
    BY <1>1 DEF SchemaLoads, SchemaFails
  <2>2. PageType'  BY <1>a, <2>1 DEF PageType
  <2> QED  BY <1>a, <1>b, <2>1, <2>2, Untouched, TypePartsNext
<1>2. CASE WorkerReady \/ Reconnect \/ Nudge
  <2>1. Connect  BY <1>2 DEF WorkerReady, Reconnect, Nudge
  <2>2. /\ sock' \in [Slots -> {"none", "connecting", "open", "closing"}]
        /\ ws' \in Slots \cup {0} /\ overlapped' \in BOOLEAN /\ reconnect' \in BOOLEAN
        /\ \A s \in Slots : sock[s] # "none" => sock'[s] = sock[s]
    BY <1>0, <2>1, ConnectStep
  <2>3. UNCHANGED <<schema, silent, heartbeat, quiet, connected, late, cleaning,
                    decoder, list, faults>>
    BY <1>2 DEF WorkerReady, Reconnect, Nudge
  <2>4. silent' \subseteq {s \in Slots : sock'[s] # "none"}
    BY <1>a, <2>2, <2>3 DEF LinkType
  <2>5. workerReady' \in {workerReady, TRUE}
    BY <1>2 DEF WorkerReady, Reconnect, Nudge
  <2>6. attempts' \in {attempts, 0}
    BY <1>2 DEF WorkerReady, Reconnect, Nudge
  <2>7. PageType'  BY <1>a, <2>3, <2>5 DEF PageType
  <2>8. attempts' \in 0..Cap  BY <1>a, <2>6 DEF LinkType
  <2>9. LinkType'  BY <1>a, <2>2, <2>3, <2>4, <2>8 DEF LinkType
  <2> QED  BY <1>a, <1>b, <2>3, <2>7, <2>9, Untouched, TypePartsNext
<1>3. ASSUME NEW s \in Slots, Opened(s)  PROVE TypeOK'
  <2>1. LinkType'
    <3>1. sock' \in [Slots -> {"none", "connecting", "open", "closing"}]
          /\ silent' \subseteq {t \in Slots : sock'[t] # "none"}
      BY <1>a, <1>3 DEF LinkType, Opened
    <3>2. attempts' \in 0..Cap  BY <1>3 DEF Opened
    <3>3. quiet' \in BOOLEAN /\ heartbeat' \in BOOLEAN /\ connected' \in BOOLEAN
          /\ UNCHANGED <<ws, reconnect, overlapped, late>>
      BY <1>3 DEF Opened
    <3> QED  BY <1>a, <3>1, <3>2, <3>3 DEF LinkType
  <2>2. UNCHANGED <<schema, workerReady, cleaning, decoder, list>>  BY <1>3 DEF Opened
  <2> QED  BY <1>a, <1>b, <2>1, <2>2, Untouched, TypePartsNext
<1>4. ASSUME NEW s \in Slots, Frame(s)  PROVE TypeOK'
  <2>1. LinkType'
    <3>1. quiet' \in BOOLEAN
          /\ UNCHANGED <<sock, ws, silent, heartbeat, reconnect, attempts, connected,
                         overlapped, late>>
      BY <1>4 DEF Frame
    <3> QED  BY <1>a, <3>1 DEF LinkType
  <2>2. DecoderType'
    <3>1. inbox' \in 0..MaxInbox
      <4>1. inbox < MaxInbox /\ (inbox' = inbox \/ inbox' = inbox + 1)  BY <1>4 DEF Frame
      <4> QED  BY <1>a, <4>1 DEF DecoderType
    <3>2. UNCHANGED <<batch, flushTimer, timers>>  BY <1>4 DEF Frame
    <3> QED  BY <1>a, <3>1, <3>2 DEF DecoderType
  <2>3. UNCHANGED <<schema, workerReady, cleaning, list>>  BY <1>4 DEF Frame
  <2> QED  BY <1>a, <1>b, <2>1, <2>2, <2>3, Untouched, TypePartsNext
<1>5. ASSUME NEW s \in Slots, Alert(s)  PROVE TypeOK'
  <2>1. LinkType'
    <3>1. quiet' \in BOOLEAN /\ late' \in BOOLEAN
          /\ UNCHANGED <<sock, ws, silent, heartbeat, reconnect, attempts, connected,
                         overlapped>>
      BY <1>5 DEF Alert
    <3> QED  BY <1>a, <3>1 DEF LinkType
  <2>2. UNCHANGED <<schema, workerReady, cleaning, decoder, list>>  BY <1>5 DEF Alert
  <2> QED  BY <1>a, <1>b, <2>1, <2>2, Untouched, TypePartsNext
<1>6. ASSUME NEW s \in Slots, GoesSilent(s)  PROVE TypeOK'
  <2>1. LinkType'
    <3>1. silent' \subseteq {t \in Slots : sock[t] # "none"}
          /\ UNCHANGED <<sock, ws, heartbeat, reconnect, attempts, quiet, connected,
                         overlapped, late>>
      BY <1>a, <1>6 DEF LinkType, GoesSilent, Open
    <3> QED  BY <1>a, <3>1 DEF LinkType
  <2>2. UNCHANGED <<schema, workerReady, cleaning, decoder, list>>  BY <1>6 DEF GoesSilent
  <2> QED  BY <1>a, <1>b, <2>1, <2>2, Untouched, TypePartsNext
<1>7. ASSUME NEW s \in Slots, CloseEvent(s) \/ Drop(s)  PROVE TypeOK'
  <2>1. Closed(s, [sock EXCEPT ![s] = "none"])  BY <1>7 DEF CloseEvent, Drop
  <2>2. /\ sock' \in [Slots -> {"none", "connecting", "open", "closing"}]
        /\ silent' \subseteq {t \in Slots : sock'[t] # "none"}
    BY <1>a, <2>1 DEF LinkType, Closed
  <2>3. /\ heartbeat' \in {heartbeat, FALSE} /\ reconnect' \in {reconnect, TRUE}
        /\ connected' \in {connected, FALSE}
    BY <2>1 DEF Closed
  <2>4. attempts' = attempts \/ (attempts < Cap /\ attempts' = attempts + 1)
    BY <2>1 DEF Closed
  <2>5. attempts' \in 0..Cap  BY <1>a, <2>4 DEF LinkType
  <2>6. UNCHANGED <<schema, workerReady, ws, quiet, overlapped, late, cleaning,
                    decoder, list>>
    BY <1>7 DEF CloseEvent, Drop
  <2>7. LinkType'  BY <1>a, <2>2, <2>3, <2>5, <2>6 DEF LinkType
  <2> QED  BY <1>a, <1>b, <2>6, <2>7, Untouched, TypePartsNext
<1>8. CASE QuietFor15s \/ Heartbeat
  <2>1. UNCHANGED <<schema, workerReady, ws, silent, heartbeat, reconnect, attempts,
                    connected, overlapped, late, cleaning, decoder, list>>
        /\ quiet' \in {quiet, TRUE}
    BY <1>8 DEF QuietFor15s, Heartbeat
  <2>2. /\ sock' \in [Slots -> {"none", "connecting", "open", "closing"}]
        /\ \A s \in Slots : sock[s] # "none" => sock'[s] # "none"
    BY <1>a, <1>8 DEF QuietFor15s, Heartbeat, LinkType, Open
  <2>3. LinkType'  BY <1>a, <2>1, <2>2 DEF LinkType
  <2> QED  BY <1>a, <1>b, <2>1, <2>3, Untouched, TypePartsNext
<1>9. CASE Cleanup
  <2>1. UNCHANGED <<workerReady, ws, silent, attempts, quiet, connected, overlapped,
                    late, list>>
        /\ reconnect' = FALSE /\ heartbeat' = FALSE
    BY <1>9 DEF Cleanup
  <2>2. /\ sock' \in [Slots -> {"none", "connecting", "open", "closing"}]
        /\ \A s \in Slots : sock[s] # "none" => sock'[s] # "none"
    BY <1>a, <1>9 DEF Cleanup, LinkType
  <2>3. LinkType'  BY <1>a, <2>1, <2>2 DEF LinkType
  <2>4. DecoderType'
    <3>1. inbox' = 0 /\ batch' = 0 /\ timers' = 0 /\ flushTimer' = FALSE
      BY <1>9 DEF Cleanup
    <3>2. inbox' \in 0..MaxInbox /\ batch' \in 0..BatchSize - 1 /\ timers' \in 0..MaxTimers
      BY <3>1
    <3> QED  BY <3>1, <3>2 DEF DecoderType
  <2>5. PageType'  BY <1>a, <1>9, <2>1 DEF Cleanup, PageType
  <2> QED  BY <1>a, <1>b, <2>1, <2>3, <2>4, <2>5, Untouched, TypePartsNext
<1>10. CASE Decode
  <2>1. DecoderType'  BY <1>0, <1>10, DecodeStep DEF DecoderType
  <2>2. UNCHANGED <<schema, workerReady, link, cleaning, list>>
    BY <1>10 DEF Decode
  <2> QED  BY <1>a, <1>b, <2>1, <2>2, Untouched, TypePartsNext
<1>11. CASE Flush
  <2>1. timers > 0 /\ timers' = timers - 1 /\ batch' = 0 /\ flushTimer' = FALSE
        /\ inbox' = inbox
    BY <1>11 DEF Flush
  <2>2. inbox \in 0..MaxInbox /\ timers \in 0..MaxTimers  BY <1>a DEF DecoderType
  <2>3. timers' \in 0..MaxTimers /\ inbox' \in 0..MaxInbox  BY <2>1, <2>2
  <2>4. batch' \in 0..BatchSize - 1
    <3>1. batch' = 0  BY <2>1
    <3> QED  BY <3>1
  <2>5. DecoderType'
    <3>1. flushTimer' \in BOOLEAN  BY <2>1
    <3> QED  BY <2>3, <2>4, <3>1 DEF DecoderType
  <2>6. UNCHANGED <<schema, workerReady, link, cleaning, list>>
    BY <1>11 DEF Flush
  <2> QED  BY <1>a, <1>b, <2>5, <2>6, Untouched, TypePartsNext
<1>12. CASE ListNext
  <2>1. UNCHANGED <<schema, workerReady, link, cleaning, decoder>>
    BY <1>12 DEF ListNext, SyncWatchlist, WatchlistEdited, WatchlistAnswer, WatchlistFails
  <2>2. served' = served \/ (served < MaxServed /\ served' = served + 1)
    BY <1>12 DEF ListNext, SyncWatchlist, WatchlistEdited, WatchlistAnswer, WatchlistFails
  <2>3. watched' = watched \/ watched' \in asks
    BY <1>12 DEF ListNext, SyncWatchlist, WatchlistEdited, WatchlistAnswer, WatchlistFails
  <2>4. asks' \subseteq asks \cup {served}
    BY <1>12 DEF ListNext, SyncWatchlist, WatchlistEdited, WatchlistAnswer, WatchlistFails
  <2>5. served \in 0..MaxServed /\ watched \in 0..MaxServed /\ asks \subseteq 0..MaxServed
    BY <1>a DEF ListType
  <2>6. served' \in 0..MaxServed  BY <2>2, <2>5
  <2>7. watched' \in 0..MaxServed  BY <2>3, <2>5
  <2>8. asks' \subseteq 0..MaxServed  BY <2>4, <2>5
  <2>9. ListType'  BY <2>6, <2>7, <2>8 DEF ListType
  <2> QED  BY <1>a, <1>b, <2>1, <2>9, Untouched, TypePartsNext
<1>13. CASE UNCHANGED vars
  <2>1. UNCHANGED <<schema, workerReady, link, cleaning, decoder, list>>  BY <1>13 DEF vars
  <2> QED  BY <1>a, <1>b, <2>1, Untouched, TypePartsNext
<1> QED
  BY <1>1, <1>2, <1>3, <1>4, <1>5, <1>6, <1>7, <1>8, <1>9, <1>10, <1>11, <1>12, <1>13
     DEF Next, SocketNext

-----------------------------------------------------------------------------
(* The worker.                                                             *)

\* Nothing is decoded before the schema is loaded, nothing decoded is left
\* without a timer, and nothing is left at all by the cleanup.
LEMMA WorkerNext ==
  ASSUME StreamInv, [Next]_vars
  PROVE  /\ WorkerLives' /\ DecodedIsFlushed' /\ TimerIsSet'
         /\ SchemaBeforeFrames' /\ NothingPending'
<1> USE DEF WorkerLives, DecodedIsFlushed, TimerIsSet, SchemaBeforeFrames, NothingPending
<1>0. /\ TypeOK /\ WorkerLives /\ DecodedIsFlushed /\ TimerIsSet
      /\ SchemaBeforeFrames /\ NothingPending /\ SocketsAwaitWorker /\ OneSocket
  BY DEF StreamInv, StreamIsTruthful
<1>1. CASE SchemaLoads \/ SchemaFails
  BY <1>0, <1>1 DEF SchemaLoads, SchemaFails, link, decoder, TypeOK
<1>2. CASE WorkerReady \/ Reconnect \/ Nudge
  <2>1. Connect  BY <1>2 DEF WorkerReady, Reconnect, Nudge
  <2>2. reconnect' = FALSE  BY <1>0, <2>1, ConnectStep
  <2>3. UNCHANGED <<schema, late, cleaning, decoder>>
    BY <1>2 DEF WorkerReady, Reconnect, Nudge
  <2>4. workerReady' = workerReady \/ schema = "ready"
    BY <1>2 DEF WorkerReady, Reconnect, Nudge
  <2> QED  BY <1>0, <2>2, <2>3, <2>4 DEF decoder
<1>3. ASSUME NEW s \in Slots,
             Opened(s) \/ Frame(s) \/ Alert(s) \/ GoesSilent(s) \/ CloseEvent(s) \/ Drop(s)
      PROVE  /\ WorkerLives' /\ DecodedIsFlushed' /\ TimerIsSet'
             /\ SchemaBeforeFrames' /\ NothingPending'
  <2>1. UNCHANGED <<schema, workerReady, cleaning, batch, flushTimer, timers>>
    BY <1>3 DEF Opened, Frame, Alert, GoesSilent, CloseEvent, Drop, decoder
  <2>2. late' => late \/ cleaning
    BY <1>3 DEF Opened, Frame, Alert, GoesSilent, CloseEvent, Drop
  <2>3. cleaning => reconnect' = reconnect
    BY <1>3 DEF Opened, Frame, Alert, GoesSilent, CloseEvent, Drop, Closed
  <2>4. (inbox' = inbox) \/ (~cleaning /\ Open(s))
    BY <1>3 DEF Opened, Frame, Alert, GoesSilent, CloseEvent, Drop, decoder
  <2>5. Open(s) => workerReady
    BY <1>0 DEF Open, SocketsAwaitWorker
  <2> QED  BY <1>0, <2>1, <2>2, <2>3, <2>4, <2>5
<1>4. CASE QuietFor15s \/ Heartbeat
  BY <1>0, <1>4 DEF QuietFor15s, Heartbeat, decoder
<1>5. CASE Cleanup
  BY <1>0, <1>5, BoundsAreNumbers DEF Cleanup
<1>6. CASE Decode
  <2>1. DecodedIsFlushed' /\ TimerIsSet'  BY <1>0, <1>6, DecodeStep
  <2>2. UNCHANGED <<schema, workerReady, cleaning, late>> /\ schema = "ready"
    BY <1>6 DEF Decode, link
  <2> QED  BY <1>0, <2>1, <2>2
<1>7. CASE Flush
  BY <1>0, <1>7, BoundsAreNumbers DEF Flush, link, TypeOK
<1>8. CASE ListNext \/ UNCHANGED vars
  <2>1. UNCHANGED <<schema, workerReady, link, cleaning, decoder>>
    BY <1>8 DEF ListNext, SyncWatchlist, WatchlistEdited, WatchlistAnswer, WatchlistFails, vars
  <2> QED  BY <1>0, <2>1 DEF link, decoder
<1> QED
  BY <1>1, <1>2, <1>3, <1>4, <1>5, <1>6, <1>7, <1>8 DEF Next, SocketNext

-----------------------------------------------------------------------------
(* The connection.                                                         *)

\* The parts of the invariant that speak of sockets and timers.
LinkInv ==
  /\ StateIsTruthful /\ CleanupIsComplete
  /\ SocketsAwaitWorker /\ OneSocket /\ ConnectingIsAwaited

\* They hold after every callback.
LEMMA LinkNext ==
  ASSUME StreamInv, [Next]_vars
  PROVE  LinkInv'
<1> USE SlotsArePositive
<1>0. /\ TypeOK /\ LinkType /\ PageType /\ WorkerLives /\ LinkInv /\ NothingPending
      /\ StateIsTruthful /\ CleanupIsComplete /\ SocketsAwaitWorker /\ OneSocket
      /\ ConnectingIsAwaited
  BY TypeParts DEF StreamInv, StreamIsTruthful, LinkInv
<1>1. CASE UNCHANGED <<workerReady, sock, ws, heartbeat, reconnect, connected, overlapped,
                       late, cleaning>>
  BY <1>0, <1>1 DEF LinkInv, StateIsTruthful, CleanupIsComplete, SocketsAwaitWorker,
     OneSocket, ConnectingIsAwaited, TornDown, Open
<1>2. CASE WorkerReady \/ Reconnect \/ Nudge
  <2>1. Connect  BY <1>2 DEF WorkerReady, Reconnect, Nudge
  <2>2. /\ ws' \in Slots \cup {0} /\ overlapped' \in BOOLEAN /\ reconnect' = FALSE
        /\ OneSocket'
        /\ \/ Open(ws) /\ UNCHANGED <<sock, ws, overlapped>>
           \/ /\ ws' \in Slots /\ sock'[ws'] = "connecting"
              /\ ~overlapped' => ~overlapped /\ \A t \in Slots : sock[t] = "none"
    BY <1>0, <2>1, ConnectStep
  <2>3. UNCHANGED <<heartbeat, connected, late, cleaning>> /\ ~cleaning
    BY <1>0, <1>2 DEF WorkerReady, Reconnect, Nudge, NothingPending
  <2>4. workerReady' = TRUE
    BY <1>0, <1>2 DEF WorkerReady, Reconnect, Nudge, SocketsAwaitWorker, PageType
  <2>5. CASE Open(ws) /\ UNCHANGED <<sock, ws, overlapped>>
    <3>1. ws \in Slots /\ workerReady
      BY <1>0, <2>5 DEF Open, SocketsAwaitWorker, LinkType
    <3> QED
      BY <1>0, <2>2, <2>3, <2>4, <2>5, <3>1
         DEF LinkInv, StateIsTruthful, CleanupIsComplete, SocketsAwaitWorker, OneSocket,
             ConnectingIsAwaited, Open
  <2>6. CASE ws' \in Slots /\ sock'[ws'] = "connecting"
    BY <1>0, <2>2, <2>3, <2>4, <2>6
       DEF LinkInv, StateIsTruthful, CleanupIsComplete, SocketsAwaitWorker, OneSocket,
           ConnectingIsAwaited, Open
  <2> QED  BY <2>2, <2>5, <2>6
<1>3. ASSUME NEW s \in Slots, Opened(s)  PROVE LinkInv'
  <2>1. /\ sock[s] = "connecting" /\ sock' = [sock EXCEPT ![s] = "open"]
        /\ heartbeat' = TRUE /\ connected' = TRUE
        /\ UNCHANGED <<workerReady, ws, reconnect, overlapped, late, cleaning>>
    BY <1>3 DEF Opened
  <2>2. sock'[s] = "open" /\ \A t \in Slots : t # s => sock'[t] = sock[t]
    BY <1>0, <2>1 DEF LinkType
  <2>3. workerReady /\ (~overlapped => s = ws)
    BY <1>0, <2>1 DEF SocketsAwaitWorker, OneSocket
  <2>4. cleaning => overlapped
    BY <1>0, <2>1 DEF CleanupIsComplete, TornDown
  <2> QED
    BY <1>0, <2>1, <2>2, <2>3, <2>4
       DEF LinkInv, StateIsTruthful, CleanupIsComplete, SocketsAwaitWorker, OneSocket,
           ConnectingIsAwaited, Open
<1>4. ASSUME NEW s \in Slots, Alert(s)  PROVE LinkInv'
  <2>1. /\ Open(s) /\ late' = (late \/ cleaning)
        /\ UNCHANGED <<workerReady, sock, ws, heartbeat, reconnect, connected, overlapped,
                       cleaning>>
    BY <1>4 DEF Alert
  <2>2. cleaning => overlapped
    BY <1>0, <2>1 DEF CleanupIsComplete, TornDown, Open
  <2> QED
    BY <1>0, <2>1, <2>2
       DEF LinkInv, StateIsTruthful, CleanupIsComplete, SocketsAwaitWorker, OneSocket,
           ConnectingIsAwaited, Open
<1>5. ASSUME NEW s \in Slots, CloseEvent(s) \/ Drop(s)  PROVE LinkInv'
  <2>1. /\ sock[s] # "none" /\ Closed(s, [sock EXCEPT ![s] = "none"])
        /\ UNCHANGED <<workerReady, ws, overlapped, late, cleaning>>
    BY <1>5 DEF CloseEvent, Drop
  <2>2. sock'[s] = "none" /\ \A t \in Slots : t # s => sock'[t] = sock[t]
    BY <1>0, <2>1 DEF LinkType, Closed
  <2>3. workerReady /\ (~overlapped => s = ws)
    BY <1>0, <2>1 DEF SocketsAwaitWorker, OneSocket
  <2>4. /\ cleaning => UNCHANGED <<heartbeat, reconnect, connected>>
        /\ ~cleaning => heartbeat' = FALSE /\ connected' = FALSE /\ reconnect' = TRUE
    BY <2>1 DEF Closed
  <2> QED
    BY <1>0, <2>1, <2>2, <2>3, <2>4
       DEF LinkInv, StateIsTruthful, CleanupIsComplete, SocketsAwaitWorker, OneSocket,
           ConnectingIsAwaited, Open, TornDown
<1>6. CASE Heartbeat
  <2>1. /\ Open(ws) /\ sock' = [sock EXCEPT ![ws] = "closing"]
        /\ UNCHANGED <<workerReady, ws, heartbeat, reconnect, connected, overlapped, late,
                       cleaning>>
    BY <1>6 DEF Heartbeat
  <2>2. ws \in Slots /\ workerReady
    BY <1>0, <2>1 DEF Open, SocketsAwaitWorker, LinkType
  <2>3. sock'[ws] = "closing" /\ \A t \in Slots : t # ws => sock'[t] = sock[t]
    BY <1>0, <2>1, <2>2 DEF LinkType
  <2> QED
    BY <1>0, <2>1, <2>2, <2>3
       DEF LinkInv, StateIsTruthful, CleanupIsComplete, SocketsAwaitWorker, OneSocket,
           ConnectingIsAwaited, Open, TornDown
<1>7. CASE Cleanup
  <2>1. /\ ~cleaning /\ cleaning' = TRUE /\ reconnect' = FALSE /\ heartbeat' = FALSE
        /\ UNCHANGED <<workerReady, ws, connected, overlapped, late>>
    BY <1>7 DEF Cleanup
  <2>2. \A t \in Slots : t # ws => sock'[t] = sock[t]
    BY <1>0, <1>7 DEF Cleanup, LinkType
  <2>3. ws \in Slots => sock'[ws] \in {"none", "closing"}
    BY <1>0, <1>7 DEF Cleanup, LinkType
  <2>4. ~late  BY <1>0, <2>1 DEF WorkerLives
  <2>5. CleanupIsComplete'
    BY <1>0, <2>1, <2>2, <2>3, <2>4 DEF CleanupIsComplete, TornDown, OneSocket
  <2>6. SocketsAwaitWorker' /\ OneSocket'
    BY <1>0, <2>1, <2>2 DEF SocketsAwaitWorker, OneSocket
  <2> QED
    BY <2>1, <2>5, <2>6 DEF LinkInv, StateIsTruthful, ConnectingIsAwaited
<1>8. CASE SchemaLoads \/ SchemaFails \/ QuietFor15s \/ Decode \/ Flush \/ ListNext
           \/ (\E s \in Slots : Frame(s) \/ GoesSilent(s)) \/ UNCHANGED vars
  BY <1>1, <1>8
     DEF SchemaLoads, SchemaFails, QuietFor15s, Decode, Flush, ListNext, Frame, GoesSilent,
         SyncWatchlist, WatchlistEdited, WatchlistAnswer, WatchlistFails, vars, link
<1> QED
  BY <1>2, <1>3, <1>4, <1>5, <1>6, <1>7, <1>8 DEF Next, SocketNext

-----------------------------------------------------------------------------
(* The theorems.                                                           *)

\* The page starts without a socket, and with the schema to load.
LEMMA StreamInit == Init => StreamInv
<1> SUFFICES ASSUME Init PROVE StreamInv
  OBVIOUS
<1> USE BoundsAreNumbers, SlotsArePositive
<1>1. LinkType
  <2>1. sock = [s \in Slots |-> "none"] /\ ws = 0 /\ silent = {}  BY DEF Init
  <2>2. attempts = 0  BY DEF Init
  <2>3. attempts \in 0..Cap  BY <2>2
  <2>4. /\ heartbeat = FALSE /\ reconnect = FALSE /\ quiet = FALSE /\ connected = TRUE
        /\ overlapped = FALSE /\ late = FALSE
    BY DEF Init
  <2> QED  BY <2>1, <2>3, <2>4 DEF LinkType
<1>2. DecoderType /\ ListType
  <2>1. inbox = 0 /\ batch = 0 /\ timers = 0  BY DEF Init
  <2>2. inbox \in 0..MaxInbox /\ batch \in 0..BatchSize - 1 /\ timers \in 0..MaxTimers
    BY <2>1
  <2>3. flushTimer = FALSE  BY DEF Init
  <2>4. served = 0 /\ watched = 0 /\ asks = {0}  BY DEF Init
  <2>5. served \in 0..MaxServed /\ watched \in 0..MaxServed /\ asks \subseteq 0..MaxServed
    BY <2>4
  <2> QED  BY <2>2, <2>3, <2>5 DEF DecoderType, ListType
<1>3. PageType /\ EnvironmentType
  <2>1. schema = "loading" /\ workerReady = FALSE /\ cleaning = FALSE  BY DEF Init
  <2>2. nudges = 0 /\ faults = 0  BY DEF Init
  <2>3. nudges \in 0..MaxNudges /\ faults \in 0..MaxFaults  BY <2>2
  <2> QED  BY <2>1, <2>3 DEF PageType, EnvironmentType
<1>4. TypeOK  BY <1>1, <1>2, <1>3, TypeParts
<1>5. LinkInv
  BY DEF Init, LinkInv, StateIsTruthful, CleanupIsComplete, SocketsAwaitWorker, OneSocket,
         ConnectingIsAwaited
<1>6. WorkerLives /\ DecodedIsFlushed /\ TimerIsSet /\ SchemaBeforeFrames /\ NothingPending
  BY DEF Init, WorkerLives, DecodedIsFlushed, TimerIsSet, SchemaBeforeFrames, NothingPending
<1> QED  BY <1>4, <1>5, <1>6 DEF StreamInv, StreamIsTruthful, LinkInv

\* The invariant is inductive.
LEMMA StreamNext == StreamInv /\ [Next]_vars => StreamInv'
  BY TypeNext, WorkerNext, LinkNext DEF StreamInv, StreamIsTruthful, LinkInv

\* Sockets, timers, the worker and what is shown of them agree after every
\* callback (WorkerProtocol.ts, tak.worker.ts).
THEOREM StreamInvariance == Spec => []StreamInv
  BY StreamInit, StreamNext, PTL DEF Spec

\* The connection state shown is that of the socket, an open socket is watched
\* and a lost one replaced, nothing survives a cleanup, and no frame is decoded
\* too early or left undecoded (WorkerProtocol.ts, tak.worker.ts).
THEOREM StreamCorrect == Spec => []StreamIsTruthful
<1>1. StreamInv => StreamIsTruthful  BY DEF StreamInv
<1> QED  BY StreamInvariance, <1>1, PTL
=============================================================================
