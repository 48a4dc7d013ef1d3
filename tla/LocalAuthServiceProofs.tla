----------------------- MODULE LocalAuthServiceProofs -----------------------
(***************************************************************************)
(* What LocalAuthService does for any users, browsers, requests in flight, *)
(* sessions and tokens, wherever people sign in and open recovery links:   *)
(* its types, the two promises of a password reset, what the cookies of a  *)
(* browser may name, and the three promises that rest on it: a signed-in   *)
(* browser has a profile, logout ends the session that was signed in, and  *)
(* signing out elsewhere spares that session only.                         *)
(***************************************************************************)
EXTENDS LocalAuthService, TLAPS

Version == 0..MaxPasswords
SessionType == [user : User \union {NoUser}, purpose : Purpose, revoked : BOOLEAN,
                expired : BOOLEAN, via : Token \union {NoToken}, since : Version]
TokenType == [user : User \union {NoUser}, used : BOOLEAN, expired : BOOLEAN, since : Version]
ReqType == [op : OneTransaction \union ManySteps \union {"none"},
            stage : {"idle", "tx", "project", "access", "refresh", "keep", "reply"},
            from : Browser \union {NoBrowser}, cookies : Cookies,
            pw : Version, user : User \union {NoUser},
            session : Session \union {NoSession},
            set : Session \union {NoSession}, clear : BOOLEAN]

StoreType ==
    /\ password \in [User -> Version] /\ cutoff \in [User -> Version]
    /\ disabled \subseteq User
    /\ session \in [Session -> SessionType]
    /\ token \in [Token -> TokenType]
    /\ resets \in [Token -> 0..2]
    /\ mix \in Mixes

(* A recovery session knows the token it came from. *)
ViaInv == \A s \in Session : session[s].purpose = "recovery" => session[s].via \in Token

(* What a request has found out by the stage it is at. *)
Knows(r) ==
    /\ r.stage = "project" => r.user \in User /\ r.session \in Session
    /\ r.op \in ManySteps /\ r.stage \in {"tx", "keep"} => r.user \in User /\ r.session \in Session
    /\ r.stage = "refresh" => r.cookies.refresh \in Session
    /\ r.stage = "reply" /\ ~r.clear => r.set \in Session
    /\ r.stage \in {"access", "refresh", "keep"} => r.op \in ManySteps
    /\ r.stage # "idle" => r.from \in Browser

WebInv ==
    /\ profiled \subseteq User
    /\ jar \in [Browser -> Cookies]
    /\ req \in [Slot -> ReqType]
    /\ \A q \in Slot : Knows(req[q])

TypeInv == StoreType /\ ViaInv /\ WebInv

-----------------------------------------------------------------------------
LEMMA NullTypes ==
    /\ NoRow \in SessionType /\ NoRecord \in TokenType
    /\ NoCookies \in Cookies /\ Idle \in ReqType /\ Knows(Idle)
<1>1. 0 \in Version
  BY ServiceAssumption DEF Version
<1>2. NoCookies \in Cookies
  BY DEF NoCookies, Cookies, Cookie
<1>3. NoRow \in SessionType /\ NoRecord \in TokenType
  BY <1>1 DEF NoRow, NoRecord, SessionType, TokenType, Purpose
<1>4. Idle \in ReqType
  BY <1>1, <1>2 DEF Idle, ReqType
<1>5. Knows(Idle)
  BY DEF Knows, Idle
<1> QED
  BY <1>2, <1>3, <1>4, <1>5

(* A request moves on to the record r. *)
LEMMA MoveOn ==
    ASSUME WebInv, NEW q \in Slot, NEW r \in ReqType, Knows(r), req' = [req EXCEPT ![q] = r]
    PROVE  req' \in [Slot -> ReqType] /\ \A p \in Slot : Knows(req'[p])
BY DEF WebInv

LEMMA ReplyType ==
    ASSUME WebInv, NEW q \in Slot, req[q].stage # "idle",
           NEW s \in Session \union {NoSession}, NEW clear \in BOOLEAN, Reply(q, s, clear)
    PROVE  req' \in [Slot -> ReqType] /\ \A p \in Slot : Knows(req'[p])
<1> DEFINE r == [Idle EXCEPT !.stage = "reply", !.from = req[q].from, !.set = s, !.clear = clear]
<1>1. req[q] \in ReqType /\ Knows(req[q])
  BY DEF WebInv
<1>2. CASE s = NoSession /\ ~clear
  BY <1>2, NullTypes, MoveOn DEF Reply
<1>3. CASE s # NoSession \/ clear
  <2>1. r \in ReqType
    BY <1>1, NullTypes DEF ReqType, Idle
  <2>2. Knows(r)
    BY <1>1, <1>3, NullTypes DEF Knows, Idle
  <2>3. req' = [req EXCEPT ![q] = r]
    BY <1>3 DEF Reply
  <2> HIDE DEF r
  <2> QED
    BY <2>1, <2>2, <2>3, MoveOn
<1> QED
  BY <1>2, <1>3

LEMMA ProjectType ==
    ASSUME WebInv, NEW u \in User, Project(u) PROVE profiled' \subseteq User
BY DEF WebInv, Project

(* A transaction that creates a session, and one that revokes sessions.    *)
LEMMA CreateType ==
    ASSUME StoreType, ViaInv, NEW s \in Session, NEW u \in User, NEW purpose \in Purpose,
           NEW t \in Token \union {NoToken}, NEW since \in Version,
           purpose = "recovery" => t \in Token, CreateSession(s, u, purpose, t, since)
    PROVE  session' \in [Session -> SessionType] /\ ViaInv'
<1> DEFINE row == [NoRow EXCEPT !.user = u, !.purpose = purpose, !.via = t, !.since = since]
<1>1. row \in SessionType /\ row.purpose = purpose /\ row.via = t
  BY NullTypes DEF SessionType, NoRow
<1>2. session' = [session EXCEPT ![s] = row]
  BY DEF CreateSession
<1> HIDE DEF row
<1> QED
  BY <1>1, <1>2 DEF StoreType, ViaInv

LEMMA RevokeType ==
    ASSUME StoreType, ViaInv, NEW u, NEW keep, RevokeForUser(u, keep)
    PROVE  session' \in [Session -> SessionType] /\ ViaInv'
<1>1. \A s \in Session : /\ session'[s] \in SessionType
                         /\ session'[s].purpose = session[s].purpose
                         /\ session'[s].via = session[s].via
  BY DEF RevokeForUser, StoreType, SessionType
<1>2. session' = [s \in Session |-> session'[s]]
  BY DEF RevokeForUser
<1> QED
  BY <1>1, <1>2 DEF ViaInv

LEMMA EndOneType ==
    ASSUME StoreType, ViaInv, NEW s \in Session,
           \/ session' = [session EXCEPT ![s].revoked = TRUE]
           \/ session' = [session EXCEPT ![s].expired = TRUE]
    PROVE  session' \in [Session -> SessionType] /\ ViaInv'
<1>1. /\ [session[s] EXCEPT !.revoked = TRUE] \in SessionType
      /\ [session[s] EXCEPT !.expired = TRUE] \in SessionType
  BY DEF StoreType, SessionType
<1>2. session' \in [Session -> SessionType]
  BY <1>1 DEF StoreType
<1>3. \A x \in Session : session'[x].purpose = session[x].purpose /\ session'[x].via = session[x].via
  BY DEF StoreType, SessionType
<1> QED
  BY <1>2, <1>3 DEF ViaInv

-----------------------------------------------------------------------------
LEMMA TypeInit == Init => TypeInv
<1> SUFFICES ASSUME Init PROVE TypeInv
  OBVIOUS
<1>1. 0 \in Version
  BY ServiceAssumption DEF Version
<1>2. StoreType
  BY <1>1, NullTypes DEF Init, StoreType
<1>3. ViaInv
  BY DEF Init, ViaInv, NoRow
<1>4. WebInv
  BY NullTypes DEF Init, WebInv
<1> QED
  BY <1>2, <1>3, <1>4 DEF TypeInv

(* The records. *)
LEMMA StoreStep == TypeInv /\ [Next]_vars => StoreType' /\ ViaInv'
<1> SUFFICES ASSUME StoreType, ViaInv, WebInv, [Next]_vars PROVE StoreType' /\ ViaInv'
  BY DEF TypeInv
<1>0. ASSUME UNCHANGED <<store, history>> PROVE StoreType' /\ ViaInv'
  BY <1>0 DEF store, history, StoreType, ViaInv
<1>1. ASSUME NEW q \in Slot, NEW u \in User, NEW s \in Session, Register(q, u, s)
      PROVE  StoreType' /\ ViaInv'
  <2>1. CASE UNCHANGED <<password, session>>
    BY <1>0, <1>1, <2>1 DEF Register, store
  <2>2. CASE /\ MaxPasswords > 0 /\ password' = [password EXCEPT ![u] = 1]
             /\ CreateSession(s, u, "normal", NoToken, 1)
    <3>1. 1 \in Version
      BY <2>2, ServiceAssumption DEF Version
    <3>2. session' \in [Session -> SessionType] /\ ViaInv'
      BY <2>2, <3>1, CreateType DEF Purpose
    <3>3. password' \in [User -> Version]
      BY <2>2, <3>1 DEF StoreType
    <3> QED
      BY <1>1, <3>2, <3>3 DEF Register, history, StoreType
  <2> QED
    BY <1>1, <2>1, <2>2 DEF Register
<1>2. ASSUME NEW q \in Slot, NEW u \in User, NEW s \in Session, Login(q, u, s)
      PROVE  StoreType' /\ ViaInv'
  <2>1. CASE UNCHANGED session
    BY <1>0, <1>2, <2>1 DEF Login, store
  <2>2. CASE CreateSession(s, u, "normal", NoToken, req[q].pw)
    <3>1. req[q].pw \in Version
      BY DEF WebInv, ReqType
    <3>2. session' \in [Session -> SessionType] /\ ViaInv'
      BY <2>2, <3>1, CreateType DEF Purpose
    <3> QED
      BY <1>2, <3>2 DEF Login, history, StoreType
  <2> QED
    BY <1>2, <2>1, <2>2 DEF Login
<1>3. ASSUME NEW q \in Slot, NEW u \in User, NEW s \in Session, DevLoginAs(q, u, s)
      PROVE  StoreType' /\ ViaInv'
  <2>1. CASE UNCHANGED session
    BY <1>0, <1>3, <2>1 DEF DevLoginAs, store
  <2>2. CASE CreateSession(s, u, "dev-auth", NoToken, password[u])
    <3>1. session' \in [Session -> SessionType] /\ ViaInv'
      BY <2>2, CreateType DEF Purpose, StoreType
    <3> QED
      BY <1>3, <3>1 DEF DevLoginAs, history, StoreType
  <2> QED
    BY <1>3, <2>1, <2>2 DEF DevLoginAs
<1>4. ASSUME NEW q \in Slot, NEW u \in User, NEW t \in Token, RequestPasswordReset(q, u, t)
      PROVE  StoreType' /\ ViaInv'
  <2>1. [NoRecord EXCEPT !.user = u, !.since = password[u]] \in TokenType
    BY NullTypes DEF TokenType, NoRecord, StoreType
  <2>2. token' \in [Token -> TokenType]
    BY <1>4, <2>1 DEF RequestPasswordReset, StoreType
  <2> QED
    BY <1>4, <2>2 DEF RequestPasswordReset, history, StoreType, ViaInv
<1>5. ASSUME NEW q \in Slot, NEW t \in Token, NEW s \in Session,
             CompletePasswordRecovery(q, t, s)
      PROVE  StoreType' /\ ViaInv'
  <2>1. CASE UNCHANGED <<token, session>>
    BY <1>0, <1>5, <2>1 DEF CompletePasswordRecovery, store
  <2>2. CASE /\ Usable(t) /\ token' = [token EXCEPT ![t].used = TRUE]
             /\ CreateSession(s, token[t].user, "recovery", t, token[t].since)
    <3>1. token[t].user \in User /\ token[t].since \in Version
      BY <2>2 DEF Usable, StoreType, TokenType
    <3>2. session' \in [Session -> SessionType] /\ ViaInv'
      BY <2>2, <3>1, CreateType DEF Purpose
    <3>3. token' \in [Token -> TokenType]
      BY <2>2 DEF StoreType, TokenType
    <3> QED
      BY <1>5, <3>2, <3>3 DEF CompletePasswordRecovery, history, StoreType
  <2> QED
    BY <1>5, <2>1, <2>2 DEF CompletePasswordRecovery
<1>6. ASSUME NEW q \in Slot, ResetPassword(q) PROVE StoreType' /\ ViaInv'
  <2> DEFINE s == req[q].cookies.recovery
             u == session[s].user
  <2>1. CASE UNCHANGED <<password, session, token, history>>
    BY <1>0, <1>6, <2>1 DEF ResetPassword, store
  <2>2. CASE /\ s \in Session /\ Live(s) /\ session[s].purpose = "recovery"
             /\ password[u] < MaxPasswords
             /\ password' = [password EXCEPT ![u] = @ + 1]
             /\ RevokeForUser(u, NoSession)
             /\ ConsumeForUser(u)
             /\ cutoff' = [cutoff EXCEPT ![u] = password[u] + 1]
             /\ resets' = [resets EXCEPT ![session[s].via] = IF @ < 2 THEN @ + 1 ELSE @]
             /\ mix' = mix
    <3>1. u \in User /\ session[s].via \in Token
      BY <2>2 DEF Live, ViaInv
    <3>a. password[u] \in 0..MaxPasswords /\ password[u] < MaxPasswords
      BY <2>2, <3>1 DEF StoreType, Version
    <3>2. password[u] + 1 \in Version
      BY <3>a, ServiceAssumption DEF Version
    <3>3. password' \in [User -> Version] /\ cutoff' \in [User -> Version]
      BY <2>2, <3>1, <3>2 DEF StoreType
    <3>4. session' \in [Session -> SessionType] /\ ViaInv'
      BY <2>2, RevokeType
    <3>5. token' \in [Token -> TokenType]
      <4>1. \A t \in Token : token[t] \in TokenType /\ [token[t] EXCEPT !.used = TRUE] \in TokenType
        BY DEF StoreType, TokenType
      <4>2. token' = [t \in Token |-> IF token[t].user = u THEN [token[t] EXCEPT !.used = TRUE]
                                      ELSE token[t]]
        BY <2>2 DEF ConsumeForUser
      <4> QED
        BY <4>1, <4>2
    <3>6. resets' \in [Token -> 0..2]
      <4>1. resets \in [Token -> 0..2]
        BY DEF StoreType
      <4>2. (IF resets[session[s].via] < 2 THEN resets[session[s].via] + 1
             ELSE resets[session[s].via]) \in 0..2
        BY <3>1, <4>1
      <4> QED
        BY <2>2, <4>1, <4>2
    <3> QED
      BY <1>6, <2>2, <3>3, <3>4, <3>5, <3>6 DEF ResetPassword, StoreType
  <2> QED
    BY <1>6, <2>1, <2>2 DEF ResetPassword
<1>7. ASSUME NEW q \in Slot, Logout(q) PROVE StoreType' /\ ViaInv'
  <2>1. CASE UNCHANGED session
    BY <1>0, <1>7, <2>1 DEF Logout, store
  <2>2. CASE /\ req[q].cookies.refresh \in Session
             /\ session' = [session EXCEPT ![req[q].cookies.refresh].revoked = TRUE]
    BY <1>7, <2>2, EndOneType DEF Logout, history, StoreType
  <2> QED
    BY <1>7, <2>1, <2>2 DEF Logout
<1>8. ASSUME NEW q \in Slot, ChangePassword(q) PROVE StoreType' /\ ViaInv'
  <2> DEFINE u == req[q].user
  <2>1. u \in User
    BY <1>8 DEF ChangePassword, At, WebInv, Knows, ManySteps
  <2>2. password' \in [User -> Version]
    BY <1>8, <2>1, ServiceAssumption DEF ChangePassword, StoreType, Version
  <2> QED
    BY <1>8, <2>2 DEF ChangePassword, history, StoreType, ViaInv
<1>9. ASSUME NEW q \in Slot, RevokeOthers(q) PROVE StoreType' /\ ViaInv'
  BY <1>9, RevokeType DEF RevokeOthers, history, StoreType
<1>10. ASSUME NEW s \in Session, SessionExpires(s) PROVE StoreType' /\ ViaInv'
  BY <1>10, EndOneType DEF SessionExpires, history, StoreType
<1>11. ASSUME NEW t \in Token, TokenExpires(t) PROVE StoreType' /\ ViaInv'
  BY <1>11 DEF TokenExpires, history, StoreType, TokenType, ViaInv
<1>12. ASSUME NEW u \in User, Disable(u) PROVE StoreType' /\ ViaInv'
  BY <1>12 DEF Disable, history, StoreType, ViaInv
<1>13. ASSUME NEW q \in Slot,
              \/ \E b \in Browser, op \in mix, pw \in 0..MaxPasswords : Send(q, b, op, pw)
              \/ ProjectRegistered(q) \/ AccessTokenCheck(q) \/ RefreshTokenCheck(q)
              \/ \E s \in Session : RefuseDevSession(q, s)
              \/ ResolveOwnSession(q) \/ Throws(q) \/ Deliver(q) \/ LoseReply(q)
       PROVE  StoreType' /\ ViaInv'
  BY <1>0, <1>13 DEF Send, ProjectRegistered, AccessTokenCheck, RefreshTokenCheck,
        RefuseDevSession, ResolveOwnSession, Throws, Deliver, LoseReply
<1>14. ASSUME NEW b \in Browser, CookieExpires(b) PROVE StoreType' /\ ViaInv'
  BY <1>0, <1>14 DEF CookieExpires
<1>15. CASE UNCHANGED vars
  BY <1>0, <1>15 DEF vars
<1> QED
  BY <1>1, <1>2, <1>3, <1>4, <1>5, <1>6, <1>7, <1>8, <1>9, <1>10, <1>11, <1>12, <1>13, <1>14,
     <1>15 DEF Next

(* A request that has learnt its user and session goes on. *)
LEMMA LearnType ==
    ASSUME WebInv, NEW q \in Slot, req[q].stage # "idle", NEW u \in User, NEW s \in Session,
           NEW st \in {"project", "tx", "keep"},
           st = "keep" => req[q].op \in ManySteps,
           req' = [req EXCEPT ![q].user = u, ![q].session = s, ![q].stage = st]
    PROVE  req' \in [Slot -> ReqType] /\ \A p \in Slot : Knows(req'[p])
<1> DEFINE r == [req[q] EXCEPT !.user = u, !.session = s, !.stage = st]
<1>1. req \in [Slot -> ReqType] /\ Knows(req[q])
  BY DEF WebInv
<1>2. r \in ReqType
  BY <1>1 DEF ReqType
<1>3. Knows(r)
  BY <1>1 DEF Knows, ReqType
<1>4. req' = [req EXCEPT ![q] = r]
  BY <1>1 DEF ReqType
<1> HIDE DEF r
<1> QED
  BY <1>2, <1>3, <1>4, MoveOn

(* The continuation of authenticateRequest for the session it found. *)
LEMMA ContinueType ==
    ASSUME StoreType, WebInv, NEW q \in Slot, req[q].stage \in {"access", "refresh"},
           NEW s \in Session, Authenticates(s), NEW refreshed \in BOOLEAN,
           Continue(q, s, refreshed)
    PROVE  /\ req' \in [Slot -> ReqType] /\ \A p \in Slot : Knows(req'[p])
           /\ profiled' \subseteq User
<1>1. session[s].user \in User
  BY DEF Authenticates, Valid, Live
<1>2. req[q].op \in ManySteps /\ req[q].stage # "idle"
  BY DEF WebInv, Knows
<1>3. profiled' \subseteq User
  BY <1>1, ProjectType DEF Continue, WebInv
<1>4. ASSUME NEW st \in {"tx", "keep"},
             req' = [req EXCEPT ![q].user = session[s].user, ![q].session = s, ![q].stage = st]
      PROVE  req' \in [Slot -> ReqType] /\ \A p \in Slot : Knows(req'[p])
  BY <1>1, <1>2, <1>4, LearnType
<1>5. ASSUME NEW c \in Session \union {NoSession}, Reply(q, c, FALSE)
      PROVE  req' \in [Slot -> ReqType] /\ \A p \in Slot : Knows(req'[p])
  BY <1>2, <1>5, ReplyType
<1> QED
  BY <1>3, <1>4, <1>5 DEF Continue, Fail

LEMMA CookiesType ==
    ASSUME NEW c \in Cookies, NEW s \in Session
    PROVE  WriteSessionCookies(c, s) \in Cookies
BY DEF WriteSessionCookies, Cookies, Cookie

(* The requests and the cookies. *)
LEMMA WebStep == TypeInv /\ [Next]_vars => WebInv'
<1> SUFFICES ASSUME StoreType, ViaInv, WebInv, [Next]_vars PROVE WebInv'
  BY DEF TypeInv
<1> DEFINE Req == req' \in [Slot -> ReqType] /\ \A p \in Slot : Knows(req'[p])
<1>0. ASSUME UNCHANGED <<profiled, jar, req>> PROVE WebInv'
  BY <1>0 DEF WebInv
<1>a. ASSUME NEW q \in Slot, req[q].stage # "idle", Fail(q) PROVE Req
  BY <1>a, ReplyType DEF Fail
<1>1. ASSUME NEW q \in Slot, NEW b \in Browser, NEW op \in mix, NEW pw \in 0..MaxPasswords,
             Send(q, b, op, pw)
      PROVE  WebInv'
  <2> DEFINE st == IF op \in OneTransaction THEN "tx" ELSE "access"
             c == IF op \in UsesCookies THEN jar[b] ELSE NoCookies
             r == [Idle EXCEPT !.op = op, !.from = b, !.pw = pw, !.cookies = c, !.stage = st]
  <2>1. op \in OneTransaction \union ManySteps
    BY ServiceAssumption DEF StoreType
  <2>2. c \in Cookies
    BY NullTypes DEF WebInv
  <2>3. /\ st \in {"tx", "access"}
        /\ st = "tx" => op \notin ManySteps
        /\ st = "access" => op \in ManySteps
    BY <2>1 DEF OneTransaction, ManySteps
  <2> HIDE DEF c, st
  <2>4. r \in ReqType
    BY <2>1, <2>2, <2>3, NullTypes DEF ReqType, Idle, Version
  <2>5. Knows(r)
    BY <2>3 DEF Knows, Idle
  <2>6. req' = [req EXCEPT ![q] = r]
    BY <1>1 DEF Send, st, c
  <2> HIDE DEF r
  <2>7. Req
    BY <2>4, <2>5, <2>6, MoveOn
  <2> QED
    BY <1>1, <2>7 DEF Send, WebInv
<1>2. ASSUME NEW q \in Slot, NEW u \in User, NEW s \in Session, Register(q, u, s) PROVE WebInv'
  <2>1. CASE Fail(q)
    BY <1>2, <2>1, <1>a DEF Register, At, WebInv
  <2>2. CASE req' = [req EXCEPT ![q].stage = "project", ![q].user = u, ![q].session = s]
    <3>1. req' = [req EXCEPT ![q].user = u, ![q].session = s, ![q].stage = "project"]
      BY <2>2 DEF WebInv, ReqType
    <3>2. Req
      BY <1>2, <3>1, LearnType DEF Register, At
    <3> QED
      BY <1>2, <3>2 DEF Register, WebInv
  <2> QED
    BY <1>2, <2>1, <2>2 DEF Register
<1>3. ASSUME NEW q \in Slot, ProjectRegistered(q) PROVE WebInv'
  <2>1. req[q].stage # "idle" /\ req[q].user \in User /\ req[q].session \in Session
    BY <1>3 DEF ProjectRegistered, At, WebInv, Knows
  <2>2. Req
    BY <1>3, <2>1, <1>a, ReplyType DEF ProjectRegistered
  <2>3. profiled' \subseteq User
    BY <1>3, <2>1, ProjectType DEF ProjectRegistered, WebInv
  <2> QED
    BY <1>3, <2>2, <2>3 DEF ProjectRegistered, WebInv
<1>4. ASSUME NEW q \in Slot, NEW u \in User, NEW s \in Session, Login(q, u, s) PROVE WebInv'
  <2>1. Req
    BY <1>4, <1>a, ReplyType DEF Login, At
  <2>2. profiled' \subseteq User
    BY <1>4, ProjectType DEF Login, WebInv
  <2> QED
    BY <1>4, <2>1, <2>2 DEF Login, WebInv
<1>5. ASSUME NEW q \in Slot, NEW u \in User, NEW s \in Session, DevLoginAs(q, u, s) PROVE WebInv'
  <2>1. Req
    BY <1>5, <1>a, ReplyType DEF DevLoginAs, At
  <2> QED
    BY <1>5, <2>1 DEF DevLoginAs, WebInv
<1>6. ASSUME NEW q \in Slot, NEW u \in User, NEW t \in Token, RequestPasswordReset(q, u, t)
      PROVE  WebInv'
  BY <1>6, <1>a DEF RequestPasswordReset, At, WebInv
<1>7. ASSUME NEW q \in Slot, NEW t \in Token, NEW s \in Session,
             CompletePasswordRecovery(q, t, s)
      PROVE  WebInv'
  <2>1. Req
    BY <1>7, <1>a, ReplyType DEF CompletePasswordRecovery, At
  <2>2. profiled' \subseteq User
    BY <1>7, ProjectType DEF CompletePasswordRecovery, Usable, WebInv
  <2> QED
    BY <1>7, <2>1, <2>2 DEF CompletePasswordRecovery, WebInv
<1>8. ASSUME NEW q \in Slot, ResetPassword(q) PROVE WebInv'
  <2>1. Req
    BY <1>8, <1>a, ReplyType DEF ResetPassword, At
  <2> QED
    BY <1>8, <2>1 DEF ResetPassword, WebInv
<1>9. ASSUME NEW q \in Slot, Logout(q) PROVE WebInv'
  <2>1. Req
    BY <1>9, ReplyType DEF Logout, At
  <2> QED
    BY <1>9, <2>1 DEF Logout, WebInv
<1>10. ASSUME NEW q \in Slot, ChangePassword(q) PROVE WebInv'
  BY <1>10, <1>a DEF ChangePassword, At, WebInv
<1>11. ASSUME NEW q \in Slot, RevokeOthers(q) PROVE WebInv'
  BY <1>11, <1>a DEF RevokeOthers, At, WebInv
<1>b. ASSUME NEW q \in Slot, req[q].stage # "idle", NEW clear \in BOOLEAN, Deny(q, clear)
      PROVE  Req /\ profiled' = profiled
  <2>1. (clear /\ req[q].op = "session") \in BOOLEAN
    OBVIOUS
  <2> QED
    BY <1>b, <2>1, ReplyType DEF Deny
<1>12. ASSUME NEW q \in Slot, AccessTokenCheck(q) PROVE WebInv'
  <2> DEFINE s == req[q].cookies.access
  <2>0. req[q].stage = "access" /\ req[q] \in ReqType /\ Knows(req[q])
    BY <1>12 DEF AccessTokenCheck, WebInv
  <2>1. CASE s \in Session /\ Authenticates(s) /\ Continue(q, s, FALSE)
    BY <1>12, <2>0, <2>1, ContinueType DEF AccessTokenCheck, WebInv
  <2>2. CASE Deny(q, s # NoSession)
    BY <1>12, <1>b, <2>0, <2>2 DEF AccessTokenCheck, WebInv
  <2>3. CASE /\ req[q].cookies.refresh # NoSession /\ UNCHANGED profiled
             /\ req' = [req EXCEPT ![q].stage = "refresh"]
    <3>1. req[q].cookies.refresh \in Session
      BY <2>0, <2>3 DEF ReqType, Cookies, Cookie
    <3>2. [req[q] EXCEPT !.stage = "refresh"] \in ReqType
      BY <2>0 DEF ReqType
    <3>3. Knows([req[q] EXCEPT !.stage = "refresh"])
      BY <2>0, <3>1 DEF Knows, ReqType
    <3>4. Req
      BY <2>3, <3>2, <3>3, MoveOn
    <3> QED
      BY <1>12, <2>3, <3>4 DEF AccessTokenCheck, WebInv
  <2> QED
    BY <1>12, <2>1, <2>2, <2>3 DEF AccessTokenCheck
<1>13. ASSUME NEW q \in Slot, RefreshTokenCheck(q) PROVE WebInv'
  <2> DEFINE s == req[q].cookies.refresh
  <2>0. req[q].stage = "refresh" /\ s \in Session
    BY <1>13 DEF RefreshTokenCheck, WebInv, Knows
  <2>1. CASE Authenticates(s) /\ Continue(q, s, TRUE)
    BY <1>13, <2>0, <2>1, ContinueType DEF RefreshTokenCheck, WebInv
  <2>2. CASE Deny(q, ~Valid(s))
    <3> DEFINE gone == ~Valid(s)
    <3>1. gone \in BOOLEAN
      <4>1. CASE gone
        <5>1. gone = TRUE
          BY <4>1
        <5> QED
          BY <5>1
      <4>2. CASE ~gone
        <5>1. gone = FALSE
          BY <4>2
        <5> QED
          BY <5>1
      <4> QED
        BY <4>1, <4>2
    <3>2. Deny(q, gone)
      BY <2>2
    <3> HIDE DEF gone
    <3> QED
      BY <1>13, <1>b, <2>0, <3>1, <3>2 DEF RefreshTokenCheck, WebInv
  <2> QED
    BY <1>13, <2>1, <2>2 DEF RefreshTokenCheck
<1>14. ASSUME NEW q \in Slot, NEW s \in Session, RefuseDevSession(q, s) PROVE WebInv'
  BY <1>14, <1>b DEF RefuseDevSession, WebInv
<1>15. ASSUME NEW q \in Slot, ResolveOwnSession(q) PROVE WebInv'
  <2> DEFINE s == req[q].cookies.refresh
             own == IF s \in Session /\ Valid(s) THEN s ELSE NoSession
             r == [req[q] EXCEPT !.stage = "tx", !.set = own]
  <2>0. req[q].stage = "keep" /\ req[q] \in ReqType /\ Knows(req[q])
    BY <1>15 DEF ResolveOwnSession, At, WebInv
  <2>1. own \in Session \union {NoSession}
    OBVIOUS
  <2>2. req' = [req EXCEPT ![q] = r]
    BY <1>15 DEF ResolveOwnSession, WebInv, ReqType
  <2> HIDE DEF own
  <2>3. r \in ReqType
    BY <2>0, <2>1 DEF ReqType
  <2>4. Knows(r)
    BY <2>0 DEF Knows, ReqType
  <2> HIDE DEF r
  <2>5. Req
    BY <2>2, <2>3, <2>4, MoveOn
  <2> QED
    BY <1>15, <2>5 DEF ResolveOwnSession, WebInv
<1>16. ASSUME NEW q \in Slot, Throws(q) PROVE WebInv'
  <2>1. (req[q].op = "logout") \in BOOLEAN
    OBVIOUS
  <2>2. Req
    BY <1>16, <2>1, ReplyType DEF Throws
  <2>3. profiled' \subseteq User
    BY <1>16, ProjectType DEF Throws, WebInv
  <2> QED
    BY <1>16, <2>2, <2>3 DEF Throws, WebInv
<1>17. ASSUME NEW q \in Slot, Deliver(q) PROVE WebInv'
  <2> DEFINE b == req[q].from
  <2>1. b \in Browser /\ (~req[q].clear => req[q].set \in Session)
    BY <1>17 DEF Deliver, WebInv, Knows
  <2>2. Req
    BY <1>17, NullTypes, MoveOn DEF Deliver
  <2>3. jar' \in [Browser -> Cookies]
    BY <1>17, <2>1, NullTypes, CookiesType DEF Deliver, WebInv
  <2> QED
    BY <1>17, <2>2, <2>3 DEF Deliver, WebInv
<1>18. ASSUME NEW q \in Slot, LoseReply(q) PROVE WebInv'
  <2>1. Req
    BY <1>18, NullTypes, MoveOn DEF LoseReply
  <2> QED
    BY <1>18, <2>1 DEF LoseReply, WebInv
<1>19. ASSUME NEW b \in Browser, CookieExpires(b) PROVE WebInv'
  <2>1. jar' \in [Browser -> Cookies]
    BY <1>19 DEF CookieExpires, WebInv, Cookies, Cookie
  <2> QED
    BY <1>19, <2>1 DEF CookieExpires, WebInv
<1>20. CASE \/ \E s \in Session : SessionExpires(s)
            \/ \E t \in Token : TokenExpires(t)
            \/ \E u \in User : Disable(u)
            \/ UNCHANGED vars
  BY <1>0, <1>20 DEF SessionExpires, TokenExpires, Disable, vars
<1> QED
  BY <1>1, <1>2, <1>3, <1>4, <1>5, <1>6, <1>7, <1>8, <1>9, <1>10, <1>11, <1>12, <1>13, <1>14,
     <1>15, <1>16, <1>17, <1>18, <1>19, <1>20 DEF Next

(* Store, cookies and requests stay in their domains, and each request      *)
(* knows what its stage says, whatever the interleaving.                   *)
THEOREM TypeCorrect == Spec => []TypeInv
<1>1. TypeInv /\ [Next]_vars => TypeInv'
  BY StoreStep, WebStep DEF TypeInv
<1> QED
  BY TypeInit, <1>1, PTL DEF Spec

(* The type invariant of the auth service for every value of the constants. *)
THEOREM TypeOKHolds == Spec => []TypeOK
<1>1. TypeInv => TypeOK
  BY DEF TypeInv, StoreType, WebInv, TypeOK, SessionType, TokenType, ReqType, Version
<1> QED
  BY <1>1, TypeCorrect, PTL

-----------------------------------------------------------------------------
(***************************************************************************)
(* The promises of a password reset.  ResetCutsOff is inductive with the   *)
(* bound of cutoff; a token resets once because being used it opens one    *)
(* session only, and because that session does not survive its reset.      *)
(***************************************************************************)
CutInv == ResetCutsOff /\ \A u \in User : cutoff[u] <= password[u]

OnceInv ==
    /\ \A t \in Token : ~token[t].used => /\ resets[t] = 0
                                          /\ \A s \in Session : session[s].via # t
    /\ \A s \in Session : session[s].via \in Token /\ resets[session[s].via] > 0
                                => session[s].revoked
    /\ \A s, x \in Session : session[s].via \in Token /\ session[s].via = session[x].via => s = x
    /\ \A t \in Token : resets[t] <= 1

ResetInv == CutInv /\ OnceInv

(* A session that rests on a password no older than the last reset. *)
LEMMA CreateKeeps ==
    ASSUME StoreType, ResetInv, NEW s \in Session, NEW u \in User, NEW purpose,
           NEW since \in Version, cutoff[u] <= since,
           CreateSession(s, u, purpose, NoToken, since),
           UNCHANGED <<token, history>>, \A v \in User : cutoff[v] <= password'[v]
    PROVE  ResetInv'
<1>1. /\ session'[s].user = u /\ session'[s].since = since /\ session'[s].via = NoToken
      /\ \A x \in Session : x # s => session'[x] = session[x]
  BY DEF CreateSession, StoreType, NoRow
<1>2. NoToken \notin Token
  BY ServiceAssumption
<1>3. CutInv'
  BY <1>1 DEF ResetInv, CutInv, ResetCutsOff, Live, Usable, history
<1>4. OnceInv'
  BY <1>1, <1>2 DEF ResetInv, OnceInv, history
<1> QED
  BY <1>3, <1>4 DEF ResetInv

(* Revoking or expiring sessions, using up tokens. *)
LEMMA EndingKeeps ==
    ASSUME ResetInv, UNCHANGED history, \A u \in User : cutoff[u] <= password'[u],
           \A s \in Session : /\ session'[s].user = session[s].user
                              /\ session'[s].via = session[s].via
                              /\ session'[s].since = session[s].since
                              /\ session[s].revoked => session'[s].revoked
                              /\ session[s].expired => session'[s].expired,
           \A t \in Token : /\ token'[t].user = token[t].user
                            /\ token'[t].since = token[t].since
                            /\ token[t].used => token'[t].used
                            /\ token[t].expired => token'[t].expired
    PROVE  ResetInv'
<1>1. CutInv'
  BY DEF ResetInv, CutInv, ResetCutsOff, Live, Usable, history
<1>2. OnceInv'
  BY DEF ResetInv, OnceInv, history
<1> QED
  BY <1>1, <1>2 DEF ResetInv

LEMMA RecoveryKeeps ==
    ASSUME StoreType, ResetInv, NEW s \in Session, NEW t \in Token, Usable(t),
           token' = [token EXCEPT ![t].used = TRUE],
           CreateSession(s, token[t].user, "recovery", t, token[t].since),
           UNCHANGED <<password, history>>
    PROVE  ResetInv'
<1>1. /\ session'[s].user = token[t].user /\ session'[s].since = token[t].since
      /\ session'[s].via = t
      /\ \A x \in Session : x # s => session'[x] = session[x]
  BY DEF CreateSession, StoreType, NoRow
<1>2. token'[t].used /\ \A x \in Token : x # t => token'[x] = token[x]
  BY DEF StoreType, TokenType
<1>3. ~token[t].used /\ token[t].since >= cutoff[token[t].user]
  BY DEF Usable, ResetInv, CutInv, ResetCutsOff
<1>4. resets[t] = 0 /\ \A x \in Session : session[x].via # t
  BY <1>3 DEF ResetInv, OnceInv
<1>5. CutInv'
  BY <1>1, <1>2, <1>3 DEF ResetInv, CutInv, ResetCutsOff, Live, Usable, history
<1>6. OnceInv'
  BY <1>1, <1>2, <1>4 DEF ResetInv, OnceInv, history
<1> QED
  BY <1>5, <1>6 DEF ResetInv

LEMMA ResetKeeps ==
    ASSUME StoreType, ViaInv, ResetInv, NEW s \in Session, Live(s),
           session[s].purpose = "recovery", NEW u, u = session[s].user,
           password' = [password EXCEPT ![u] = @ + 1],
           RevokeForUser(u, NoSession), ConsumeForUser(u),
           cutoff' = [cutoff EXCEPT ![u] = password[u] + 1],
           resets' = [resets EXCEPT ![session[s].via] = IF @ < 2 THEN @ + 1 ELSE @]
    PROVE  ResetInv'
<1> DEFINE via == session[s].via
<1>1. u \in User /\ via \in Token /\ ~session[s].revoked
  BY DEF Live, ViaInv
<1>2. /\ cutoff'[u] = password'[u]
      /\ \A v \in User : v # u => cutoff'[v] = cutoff[v] /\ password'[v] = password[v]
  BY <1>1 DEF StoreType
<1>3. \A x \in Session : /\ session[x].user = u => session'[x].revoked
                         /\ session[x].user # u => session'[x] = session[x]
                         /\ session'[x].user = session[x].user
                         /\ session'[x].via = session[x].via
                         /\ session[x].revoked => session'[x].revoked
  BY ServiceAssumption DEF RevokeForUser, StoreType, SessionType
<1>4. \A t \in Token : /\ token[t].user = u => token'[t].used
                       /\ token[t].user # u => token'[t] = token[t]
                       /\ token[t].used => token'[t].used
  BY DEF ConsumeForUser, StoreType, TokenType
<1>5. resets[via] = 0
  BY <1>1 DEF ResetInv, OnceInv, StoreType
<1>6. resets'[via] = 1 /\ \A t \in Token : t # via => resets'[t] = resets[t]
  BY <1>1, <1>5 DEF StoreType
<1>7. token[via].used /\ \A x \in Session : session[x].via = via => x = s
  BY <1>1 DEF ResetInv, OnceInv
<1>8. CutInv'
  <2>1. \A v \in User : cutoff'[v] <= password'[v]
    BY <1>1, <1>2 DEF ResetInv, CutInv, StoreType, Version
  <2>2. \A x \in Session : Live(x)' => session'[x].since >= cutoff'[session'[x].user]
    BY <1>2, <1>3 DEF ResetInv, CutInv, ResetCutsOff, Live
  <2>3. \A t \in Token : Usable(t)' => token'[t].since >= cutoff'[token'[t].user]
    BY <1>2, <1>4 DEF ResetInv, CutInv, ResetCutsOff, Usable
  <2> QED
    BY <2>1, <2>2, <2>3 DEF CutInv, ResetCutsOff
<1>9. OnceInv'
  <2>1. \A t \in Token : ~token'[t].used => /\ resets'[t] = 0
                                            /\ \A x \in Session : session'[x].via # t
    BY <1>3, <1>4, <1>6, <1>7 DEF ResetInv, OnceInv
  <2>2. ASSUME NEW x \in Session, session'[x].via \in Token, resets'[session'[x].via] > 0
        PROVE  session'[x].revoked
    BY <1>1, <1>3, <1>6, <1>7, <2>2 DEF ResetInv, OnceInv
  <2>3. \A t \in Token : resets'[t] <= 1
    BY <1>6 DEF ResetInv, OnceInv
  <2>4. \A y, x \in Session :
            session'[y].via \in Token /\ session'[y].via = session'[x].via => y = x
    BY <1>3 DEF ResetInv, OnceInv
  <2> QED
    BY <2>1, <2>2, <2>3, <2>4 DEF OnceInv
<1> QED
  BY <1>8, <1>9 DEF ResetInv

LEMMA ResetStep == TypeInv /\ ResetInv /\ [Next]_vars => ResetInv'
<1> SUFFICES ASSUME StoreType, ViaInv, WebInv, ResetInv, [Next]_vars PROVE ResetInv'
  BY DEF TypeInv
<1>0. ASSUME UNCHANGED <<store, history>> PROVE ResetInv'
  BY <1>0 DEF store, history, ResetInv, CutInv, ResetCutsOff, Live, Usable, OnceInv
<1>a. \A u \in User : cutoff[u] <= password[u]
  BY DEF ResetInv, CutInv
<1>1. ASSUME NEW q \in Slot, NEW u \in User, NEW s \in Session, Register(q, u, s) PROVE ResetInv'
  <2>1. CASE UNCHANGED <<password, session>>
    BY <1>0, <1>1, <2>1 DEF Register, store
  <2>2. CASE /\ ~Account(u) /\ MaxPasswords > 0 /\ password' = [password EXCEPT ![u] = 1]
             /\ CreateSession(s, u, "normal", NoToken, 1)
    <3>1. password[u] = 0 /\ cutoff[u] <= 1
      BY <1>a, <2>2, ServiceAssumption DEF Account, StoreType, Version
    <3>2. \A v \in User : cutoff[v] <= password'[v]
      BY <1>a, <2>2, <3>1 DEF StoreType
    <3>3. 1 \in Version
      BY <2>2, ServiceAssumption DEF Version
    <3> QED
      BY <1>1, <2>2, <3>1, <3>2, <3>3, CreateKeeps DEF Register
  <2> QED
    BY <1>1, <2>1, <2>2 DEF Register
<1>2. ASSUME NEW q \in Slot, NEW u \in User, NEW s \in Session, Login(q, u, s) PROVE ResetInv'
  <2>1. CASE UNCHANGED session
    BY <1>0, <1>2, <2>1 DEF Login, store
  <2>2. CASE req[q].pw = password[u] /\ CreateSession(s, u, "normal", NoToken, req[q].pw)
    <3>1. req[q].pw \in Version /\ cutoff[u] <= req[q].pw
      BY <1>a, <2>2 DEF StoreType
    <3>2. \A v \in User : cutoff[v] <= password'[v]
      BY <1>2, <1>a DEF Login
    <3> QED
      BY <1>2, <2>2, <3>1, <3>2, CreateKeeps DEF Login
  <2> QED
    BY <1>2, <2>1, <2>2 DEF Login
<1>3. ASSUME NEW q \in Slot, NEW u \in User, NEW s \in Session, DevLoginAs(q, u, s) PROVE ResetInv'
  <2>1. CASE UNCHANGED session
    BY <1>0, <1>3, <2>1 DEF DevLoginAs, store
  <2>2. CASE CreateSession(s, u, "dev-auth", NoToken, password[u])
    <3>1. password[u] \in Version /\ \A v \in User : cutoff[v] <= password'[v]
      BY <1>3, <1>a DEF DevLoginAs, StoreType
    <3> QED
      BY <1>3, <1>a, <2>2, <3>1, CreateKeeps DEF DevLoginAs
  <2> QED
    BY <1>3, <2>1, <2>2 DEF DevLoginAs
<1>4. ASSUME NEW q \in Slot, NEW u \in User, NEW t \in Token, RequestPasswordReset(q, u, t)
      PROVE  ResetInv'
  <2>1. CASE UNCHANGED token
    BY <1>0, <1>4, <2>1 DEF RequestPasswordReset, store
  <2>2. CASE /\ token[t] = NoRecord
             /\ token' = [token EXCEPT ![t] = [NoRecord EXCEPT !.user = u, !.since = password[u]]]
    <3>1. /\ token'[t].user = u /\ token'[t].since = password[u] /\ ~token[t].used
          /\ \A x \in Token : x # t => token'[x] = token[x]
      BY <2>2 DEF StoreType, NoRecord
    <3>2. CutInv'
      BY <1>4, <3>1 DEF RequestPasswordReset, ResetInv, CutInv, ResetCutsOff, Live, Usable,
                        history, StoreType, Version
    <3>3. OnceInv'
      BY <1>4, <3>1 DEF RequestPasswordReset, ResetInv, OnceInv, history
    <3> QED
      BY <3>2, <3>3 DEF ResetInv
  <2> QED
    BY <1>4, <2>1, <2>2 DEF RequestPasswordReset
<1>5. ASSUME NEW q \in Slot, NEW t \in Token, NEW s \in Session,
             CompletePasswordRecovery(q, t, s)
      PROVE  ResetInv'
  <2>1. CASE UNCHANGED <<token, session>>
    BY <1>0, <1>5, <2>1 DEF CompletePasswordRecovery, store
  <2>2. CASE /\ Usable(t) /\ token' = [token EXCEPT ![t].used = TRUE]
             /\ CreateSession(s, token[t].user, "recovery", t, token[t].since)
    BY <1>5, <2>2, RecoveryKeeps DEF CompletePasswordRecovery
  <2> QED
    BY <1>5, <2>1, <2>2 DEF CompletePasswordRecovery
<1>6. ASSUME NEW q \in Slot, ResetPassword(q) PROVE ResetInv'
  <2>1. CASE UNCHANGED <<password, session, token, history>>
    BY <1>0, <1>6, <2>1 DEF ResetPassword, store
  <2>2. CASE ~UNCHANGED <<password, session, token, history>>
    BY <1>6, <2>2, ResetKeeps DEF ResetPassword
  <2> QED
    BY <2>1, <2>2
<1>7. ASSUME NEW q \in Slot, Logout(q) PROVE ResetInv'
  <2>1. CASE UNCHANGED session
    BY <1>0, <1>7, <2>1 DEF Logout, store
  <2>2. CASE /\ req[q].cookies.refresh \in Session
             /\ session' = [session EXCEPT ![req[q].cookies.refresh].revoked = TRUE]
    BY <1>7, <1>a, <2>2, EndingKeeps DEF Logout, StoreType, SessionType
  <2> QED
    BY <1>7, <2>1, <2>2 DEF Logout
<1>8. ASSUME NEW q \in Slot, ChangePassword(q) PROVE ResetInv'
  <2>1. \A u \in User : password[u] <= password'[u] /\ password'[u] \in Nat
    BY <1>8, ServiceAssumption DEF ChangePassword, StoreType, Version
  <2>2. \A u \in User : cutoff[u] <= password'[u]
    BY <1>a, <2>1 DEF StoreType, Version
  <2> QED
    BY <1>8, <2>2, EndingKeeps DEF ChangePassword
<1>9. ASSUME NEW q \in Slot, RevokeOthers(q) PROVE ResetInv'
  <2>1. \A s \in Session : \/ session'[s] = session[s]
                          \/ session'[s] = [session[s] EXCEPT !.revoked = TRUE]
    BY <1>9 DEF RevokeOthers, RevokeForUser
  <2> QED
    BY <1>9, <1>a, <2>1, EndingKeeps DEF RevokeOthers, StoreType, SessionType
<1>10. ASSUME NEW s \in Session, SessionExpires(s) PROVE ResetInv'
  BY <1>10, <1>a, EndingKeeps DEF SessionExpires, StoreType, SessionType
<1>11. ASSUME NEW t \in Token, TokenExpires(t) PROVE ResetInv'
  BY <1>11, <1>a, EndingKeeps DEF TokenExpires, StoreType, TokenType
<1>12. ASSUME NEW u \in User, Disable(u) PROVE ResetInv'
  BY <1>12, <1>a, EndingKeeps DEF Disable
<1>13. ASSUME NEW q \in Slot,
              \/ \E b \in Browser, op \in mix, pw \in 0..MaxPasswords : Send(q, b, op, pw)
              \/ ProjectRegistered(q) \/ AccessTokenCheck(q) \/ RefreshTokenCheck(q)
              \/ \E s \in Session : RefuseDevSession(q, s)
              \/ ResolveOwnSession(q) \/ Throws(q) \/ Deliver(q) \/ LoseReply(q)
       PROVE  ResetInv'
  BY <1>0, <1>13 DEF Send, ProjectRegistered, AccessTokenCheck, RefreshTokenCheck,
        RefuseDevSession, ResolveOwnSession, Throws, Deliver, LoseReply
<1>14. ASSUME NEW b \in Browser, CookieExpires(b) PROVE ResetInv'
  BY <1>0, <1>14 DEF CookieExpires
<1>15. CASE UNCHANGED vars
  BY <1>0, <1>15 DEF vars
<1> QED
  BY <1>1, <1>2, <1>3, <1>4, <1>5, <1>6, <1>7, <1>8, <1>9, <1>10, <1>11, <1>12, <1>13, <1>14,
     <1>15 DEF Next

LEMMA ResetCorrect == Spec => []ResetInv
<1>1. Init => ResetInv
  <2> SUFFICES ASSUME Init PROVE ResetInv
    OBVIOUS
  <2>1. NoToken \notin Token /\ NoUser \notin User
    BY ServiceAssumption
  <2>2. CutInv
    BY <2>1 DEF Init, CutInv, ResetCutsOff, Live, Usable, NoRow, NoRecord
  <2>3. OnceInv
    BY <2>1 DEF Init, OnceInv, NoRow, NoRecord
  <2> QED
    BY <2>2, <2>3 DEF ResetInv
<1> QED
  BY <1>1, ResetStep, TypeCorrect, PTL DEF Spec

(* A password reset shuts out whoever got in before it: for any number of  *)
(* accounts, browsers, requests in flight, sessions and tokens.            *)
THEOREM ResetCutsOffHolds == Spec => []ResetCutsOff
<1>1. ResetInv => ResetCutsOff
  BY DEF ResetInv, CutInv
<1> QED
  BY <1>1, ResetCorrect, PTL

(* A recovery token changes the password at most once, for any number of   *)
(* tabs and requests that submit it and the session it opens.              *)
THEOREM TokenResetsOnceHolds == Spec => []TokenResetsOnce
<1>1. ResetInv => TokenResetsOnce
  BY DEF ResetInv, OnceInv, TokenResetsOnce
<1> QED
  BY <1>1, ResetCorrect, PTL

-----------------------------------------------------------------------------
(***************************************************************************)
(* Cookies.  The access cookie never outlives or outruns the refresh       *)
(* cookie, which is the one that logout and sign-out go by, except for a   *)
(* recovery link opened in the same browser (Overtaken).                   *)
(***************************************************************************)
(* What browsers and requests hold.  Made: the record is there.  Holds: a  *)
(* session whose cookies may be in browser b.                              *)
Made(s) == s \in Session /\ session[s].user \in User

(* A session is of an account. *)
Settled == \A s \in Session : Made(s) => Account(session[s].user)

Holds(b, s) ==
    /\ Made(s)
    /\ session[s].purpose = "recovery" => b \in RecoverAt
    /\ session[s].purpose # "recovery" => b \in SignInAt /\ HasProfile(session[s].user)

CookiesOK(b, c) ==
    /\ c.access \in Session => Holds(b, c.access) /\ session[c.access].purpose # "recovery"
    /\ c.refresh \in Session => Holds(b, c.refresh)
    /\ c.recovery \in Session => b \in RecoverAt
    /\ c.access \in Session => c.refresh = c.access \/ Overtaken(b, c)

ReqOK(r) ==
    /\ r.op \in {"register", "login", "devLogin"} => r.from \in SignInAt
    /\ r.op = "recover" => r.from \in RecoverAt
    /\ CookiesOK(r.from, r.cookies)
    /\ r.stage = "project" => /\ Made(r.session) /\ session[r.session].user = r.user
                              /\ session[r.session].purpose = "normal"
    /\ r.stage = "reply" /\ ~r.clear => Holds(r.from, r.set)
    /\ r.op = "signOutOthers" /\ r.stage \in {"keep", "tx"} =>
           Made(r.session) /\ (r.session = r.cookies.refresh \/ Overtaken(r.from, r.cookies))
    /\ r.op = "signOutOthers" /\ r.stage = "tx" =>
           IF r.set \in Session THEN r.set = r.cookies.refresh
           ELSE r.cookies.refresh \in Session => ~Valid(r.cookies.refresh)

CookieInv ==
    /\ Settled
    /\ \A b \in Browser : CookiesOK(b, jar[b])
    /\ \A q \in Slot : ReqOK(req[q])

(* How the records move on under browsers and requests. *)
Onward ==
    /\ profiled \subseteq profiled'
    /\ \A s \in Session : Made(s) => /\ session'[s].user = session[s].user
                                     /\ session'[s].purpose = session[s].purpose
                                     /\ Live(s)' => Live(s)
    /\ \A u \in User : /\ Account(u) => Account(u)'
                       /\ u \in disabled => u \in disabled'

LEMMA SameRecords ==
    ASSUME Settled, UNCHANGED <<password, disabled, session>>, profiled \subseteq profiled'
    PROVE  Onward /\ Settled'
BY DEF Onward, Settled, Made, Live, Account

LEMMA NewRecord ==
    ASSUME StoreType, Settled, NEW s \in Session, NEW u \in User, NEW purpose, NEW t, NEW since,
           CreateSession(s, u, purpose, t, since), Account(u)',
           \A v \in User : Account(v) => Account(v)',
           UNCHANGED disabled, profiled \subseteq profiled'
    PROVE  /\ Onward /\ Settled' /\ Made(s)'
           /\ session'[s].user = u /\ session'[s].purpose = purpose
<1>1. /\ session[s] = NoRow /\ session'[s].user = u /\ session'[s].purpose = purpose
      /\ \A x \in Session : x # s => session'[x] = session[x]
  BY DEF CreateSession, StoreType, NoRow
<1>2. ~Made(s)
  BY <1>1, ServiceAssumption DEF Made, NoRow
<1>3. Onward
  BY <1>1, <1>2 DEF Onward, Made, Live
<1>4. Settled'
  BY <1>1 DEF Settled, Made
<1> QED
  BY <1>1, <1>3, <1>4 DEF Made

LEMMA EndedRecords ==
    ASSUME Settled,
           \A s \in Session : /\ session'[s].user = session[s].user
                              /\ session'[s].purpose = session[s].purpose
                              /\ session[s].revoked => session'[s].revoked
                              /\ session[s].expired => session'[s].expired,
           \A v \in User : Account(v) => Account(v)',
           disabled \subseteq disabled', profiled \subseteq profiled'
    PROVE  Onward /\ Settled'
BY DEF Onward, Settled, Made, Live

LEMMA ProjectGrows == ASSUME NEW u, Project(u) PROVE profiled \subseteq profiled'
BY DEF Project

LEMMA OnwardStep == TypeInv /\ Settled /\ [Next]_vars => Onward /\ Settled'
<1> SUFFICES ASSUME StoreType, WebInv, Settled, [Next]_vars PROVE Onward /\ Settled'
  BY DEF TypeInv
<1>a. ASSUME UNCHANGED password PROVE \A v \in User : Account(v) => Account(v)'
  BY <1>a DEF Account
<1>b. ASSUME UNCHANGED store, profiled \subseteq profiled' PROVE Onward /\ Settled'
  BY <1>b, SameRecords DEF store
<1>c. ASSUME NEW u \in User, password[u] \in Nat, password' = [password EXCEPT ![u] = @ + 1]
      PROVE  \A v \in User : Account(v) => Account(v)'
  BY <1>c DEF Account, StoreType, Version
<1>d. \A u \in User : password[u] \in Nat
  BY DEF StoreType, Version
<1>1. ASSUME NEW q \in Slot, NEW u \in User, NEW s \in Session, Register(q, u, s)
      PROVE  Onward /\ Settled'
  <2>0. UNCHANGED <<disabled, profiled>>
    BY <1>1 DEF Register
  <2>1. CASE UNCHANGED <<password, session>>
    BY <2>0, <2>1, SameRecords
  <2>2. CASE /\ ~Account(u) /\ password' = [password EXCEPT ![u] = 1]
             /\ CreateSession(s, u, "normal", NoToken, 1)
    <3>1. Account(u)' /\ \A v \in User : Account(v) => Account(v)'
      BY <2>2 DEF Account, StoreType
    <3> QED
      BY <2>0, <2>2, <3>1, NewRecord
  <2> QED
    BY <1>1, <2>1, <2>2 DEF Register
<1>2. ASSUME NEW q \in Slot, NEW u \in User, NEW s \in Session, Login(q, u, s) \/ DevLoginAs(q, u, s)
      PROVE  Onward /\ Settled'
  <2>0. UNCHANGED <<password, disabled>> /\ profiled \subseteq profiled'
    BY <1>2, ProjectGrows DEF Login, DevLoginAs
  <2>1. CASE UNCHANGED session
    BY <2>0, <2>1, SameRecords
  <2>2. CASE Enabled(u) /\ \E purpose, since : CreateSession(s, u, purpose, NoToken, since)
    <3>1. Account(u)' /\ \A v \in User : Account(v) => Account(v)'
      BY <2>0, <2>2 DEF Account, Enabled
    <3> QED
      BY <2>0, <2>2, <3>1, NewRecord
  <2> QED
    BY <1>2, <2>1, <2>2 DEF Login, DevLoginAs
<1>3. ASSUME NEW q \in Slot, NEW t \in Token, NEW s \in Session, CompletePasswordRecovery(q, t, s)
      PROVE  Onward /\ Settled'
  <2>0. UNCHANGED <<password, disabled>> /\ profiled \subseteq profiled'
    BY <1>3, ProjectGrows DEF CompletePasswordRecovery
  <2>1. CASE UNCHANGED session
    BY <2>0, <2>1, SameRecords
  <2>2. CASE /\ Usable(t) /\ Enabled(token[t].user)
             /\ CreateSession(s, token[t].user, "recovery", t, token[t].since)
    <3>1. token[t].user \in User /\ Account(token[t].user)
      BY <2>2 DEF Usable, Enabled
    <3>2. PICK u \in User : u = token[t].user /\ Account(u)
      BY <3>1
    <3>3. Account(u)' /\ \A v \in User : Account(v) => Account(v)'
      BY <2>0, <3>2 DEF Account
    <3> QED
      BY <2>0, <2>2, <3>2, <3>3, NewRecord
  <2> QED
    BY <1>3, <2>1, <2>2 DEF CompletePasswordRecovery
<1>4. ASSUME NEW q \in Slot, ResetPassword(q) PROVE Onward /\ Settled'
  <2> DEFINE u == session[req[q].cookies.recovery].user
  <2>0. UNCHANGED <<disabled, profiled>>
    BY <1>4 DEF ResetPassword
  <2>1. CASE UNCHANGED <<password, session>>
    BY <2>0, <2>1, SameRecords
  <2>2. CASE u \in User /\ password' = [password EXCEPT ![u] = @ + 1] /\ RevokeForUser(u, NoSession)
    <3>1. \A v \in User : Account(v) => Account(v)'
      BY <1>c, <1>d, <2>2
    <3>2. \A s \in Session : \/ session'[s] = session[s]
                            \/ session'[s] = [session[s] EXCEPT !.revoked = TRUE]
      BY <2>2 DEF RevokeForUser
    <3> QED
      BY <2>0, <3>1, <3>2, EndedRecords DEF StoreType, SessionType
  <2> QED
    BY <1>4, <2>1, <2>2 DEF ResetPassword, Live
<1>5. ASSUME NEW q \in Slot, Logout(q) \/ RevokeOthers(q) PROVE Onward /\ Settled'
  <2>1. \A s \in Session : \/ session'[s] = session[s]
                          \/ session'[s] = [session[s] EXCEPT !.revoked = TRUE]
    BY <1>5 DEF Logout, RevokeOthers, RevokeForUser, StoreType
  <2> QED
    BY <1>5, <1>a, <2>1, EndedRecords DEF Logout, RevokeOthers, StoreType, SessionType
<1>6. ASSUME NEW q \in Slot, ChangePassword(q) PROVE Onward /\ Settled'
  <2>1. req[q].user \in User
    BY <1>6 DEF ChangePassword, At, WebInv, Knows, ManySteps
  <2>2. \A v \in User : Account(v) => Account(v)'
    BY <1>6, <1>a, <1>c, <1>d, <2>1 DEF ChangePassword
  <2> QED
    BY <1>6, <2>2, EndedRecords DEF ChangePassword
<1>7. ASSUME NEW s \in Session, SessionExpires(s) PROVE Onward /\ Settled'
  BY <1>7, <1>a, EndedRecords DEF SessionExpires, StoreType, SessionType
<1>8. ASSUME NEW u \in User, Disable(u) PROVE Onward /\ Settled'
  BY <1>8, <1>a, EndedRecords DEF Disable
<1>9. ASSUME NEW q \in Slot,
             \/ \E b \in Browser, op \in mix, pw \in 0..MaxPasswords : Send(q, b, op, pw)
             \/ \E u \in User, t \in Token : RequestPasswordReset(q, u, t)
             \/ \E s \in Session : RefuseDevSession(q, s)
             \/ ResolveOwnSession(q) \/ Deliver(q) \/ LoseReply(q)
      PROVE  Onward /\ Settled'
  BY <1>9, SameRecords DEF Send, RequestPasswordReset, ResolveOwnSession, Deliver, LoseReply,
     RefuseDevSession, Deny, store
<1>11. CASE (\E b \in Browser : CookieExpires(b)) \/ (\E t \in Token : TokenExpires(t)) \/ UNCHANGED vars
  BY <1>11, SameRecords DEF CookieExpires, TokenExpires, vars, store
<1>10. ASSUME NEW q \in Slot, ProjectRegistered(q) \/ AccessTokenCheck(q) \/ RefreshTokenCheck(q) \/ Throws(q)
       PROVE  Onward /\ Settled'
  <2>1. profiled \subseteq profiled'
    BY <1>10, ProjectGrows DEF ProjectRegistered, AccessTokenCheck, RefreshTokenCheck, Throws,
       Continue, Deny
  <2> QED
    BY <1>10, <1>b, <2>1 DEF ProjectRegistered, AccessTokenCheck, RefreshTokenCheck, Throws
<1> QED
  BY <1>1, <1>2, <1>3, <1>4, <1>5, <1>6, <1>7, <1>8, <1>9, <1>10,
     <1>11 DEF Next

(* What browsers and requests hold stays with them.                        *)
LEMMA HoldsStays == ASSUME Onward, NEW b, NEW s, Holds(b, s) PROVE Holds(b, s)'
BY DEF Onward, Holds, Made, HasProfile

LEMMA OvertakenStays ==
    ASSUME Onward, NEW b, NEW c, c.refresh \in Session => Made(c.refresh), Overtaken(b, c)
    PROVE  Overtaken(b, c)'
BY DEF Onward, Overtaken

LEMMA CookiesStay == ASSUME Onward, NEW b, NEW c, CookiesOK(b, c) PROVE CookiesOK(b, c)'
<1>1. \A s : Holds(b, s) => Holds(b, s)' /\ session'[s].purpose = session[s].purpose
  BY HoldsStays DEF Holds, Made, Onward
<1>2. Overtaken(b, c) => Overtaken(b, c)'
  BY OvertakenStays DEF CookiesOK, Holds
<1> QED
  BY <1>1, <1>2 DEF CookiesOK

LEMMA InvalidStays ==
    ASSUME Onward, Settled, NEW s, Made(s), ~Valid(s)
    PROVE  ~Valid(s)'
BY DEF Onward, Settled, Made, Valid, Enabled

LEMMA ReqStays == ASSUME Onward, Settled, NEW r, ReqOK(r) PROVE ReqOK(r)'
<1>1. CookiesOK(r.from, r.cookies)'
  BY CookiesStay DEF ReqOK
<1>2. \A s : Made(s) => /\ Made(s)' /\ session'[s].user = session[s].user
                        /\ session'[s].purpose = session[s].purpose
  BY DEF Onward, Made
<1>3. r.stage = "reply" /\ ~r.clear => Holds(r.from, r.set)'
  BY HoldsStays DEF ReqOK
<1>4. r.cookies.refresh \in Session => Made(r.cookies.refresh)
  BY DEF ReqOK, CookiesOK, Holds
<1>5. Overtaken(r.from, r.cookies) => Overtaken(r.from, r.cookies)'
  BY <1>4, OvertakenStays
<1>6. r.cookies.refresh \in Session /\ ~Valid(r.cookies.refresh) => ~Valid(r.cookies.refresh)'
  BY <1>4, InvalidStays
<1> QED
  BY <1>1, <1>2, <1>3, <1>5, <1>6 DEF ReqOK

LEMMA IdleOK == ReqOK(Idle) /\ ReqOK(Idle)'
BY ServiceAssumption DEF ReqOK, CookiesOK, Idle, NoCookies

(* A request moves on to the record r. *)
LEMMA Moves ==
    ASSUME WebInv, CookieInv, Onward, Settled', NEW q \in Slot, NEW r, ReqOK(r)',
           req' = [req EXCEPT ![q] = r], UNCHANGED jar
    PROVE  CookieInv'
<1>1. ASSUME NEW p \in Slot PROVE ReqOK(req[p])'
  <2>1. CASE p = q
    BY <2>1 DEF WebInv
  <2>2. CASE p # q
    <3>1. PICK x : x = req[p] /\ ReqOK(x)
      BY DEF CookieInv
    <3>2. ReqOK(x)'
      BY <3>1, ReqStays DEF CookieInv
    <3>3. req'[p] = x
      BY <2>2, <3>1 DEF WebInv
    <3> QED
      BY <3>2, <3>3
  <2> QED
    BY <2>1, <2>2
<1>2. ASSUME NEW b \in Browser PROVE CookiesOK(b, jar[b])'
  <2>1. PICK c : c = jar[b] /\ CookiesOK(b, c)
    BY DEF CookieInv
  <2> QED
    BY <2>1, CookiesStay
<1> QED
  BY <1>1, <1>2 DEF CookieInv

LEMMA Rests ==
    ASSUME WebInv, CookieInv, Onward, Settled', UNCHANGED <<jar, req>>
    PROVE  CookieInv'
<1>1. ASSUME NEW p \in Slot PROVE ReqOK(req[p])'
  <2>1. PICK x : x = req[p] /\ ReqOK(x)
    BY DEF CookieInv
  <2> QED
    BY <2>1, ReqStays DEF CookieInv
<1>2. ASSUME NEW b \in Browser PROVE CookiesOK(b, jar[b])'
  <2>1. PICK c : c = jar[b] /\ CookiesOK(b, c)
    BY DEF CookieInv
  <2> QED
    BY <2>1, CookiesStay
<1> QED
  BY <1>1, <1>2 DEF CookieInv

LEMMA Replies ==
    ASSUME WebInv, CookieInv, Onward, Settled', NEW q \in Slot, NEW s, NEW clear \in BOOLEAN,
           Reply(q, s, clear), UNCHANGED jar,
           NEW b, b = req[q].from, s # NoSession /\ ~clear => Holds(b, s)'
    PROVE  CookieInv'
<1>1. CASE s = NoSession /\ ~clear
  <2>1. req' = [req EXCEPT ![q] = Idle]
    BY <1>1 DEF Reply
  <2> QED
    BY <2>1, IdleOK, Moves
<1>2. CASE ~(s = NoSession /\ ~clear)
  <2>1. PICK r : r = [Idle EXCEPT !.stage = "reply", !.from = b, !.set = s, !.clear = clear]
    OBVIOUS
  <2>2. req' = [req EXCEPT ![q] = r]
    BY <1>2, <2>1 DEF Reply
  <2>3. /\ r.op = "none" /\ r.from = b /\ r.cookies = NoCookies /\ r.stage = "reply"
        /\ r.set = s /\ r.clear = clear
    BY <2>1 DEF Idle
  <2>4. CookiesOK(b, NoCookies)'
    BY ServiceAssumption DEF CookiesOK, NoCookies
  <2>5. ReqOK(r)'
    BY <1>2, <2>3, <2>4 DEF ReqOK
  <2> QED
    BY <2>2, <2>5, Moves
<1> QED
  BY <1>1, <1>2

LEMMA Fails ==
    ASSUME WebInv, CookieInv, Onward, Settled', NEW q \in Slot, NEW clear \in BOOLEAN,
           Reply(q, NoSession, clear), UNCHANGED jar
    PROVE  CookieInv'
BY Replies

LEMMA NewSession ==
    ASSUME StoreType, NEW s \in Session, NEW u, NEW purpose, NEW t, NEW since,
           CreateSession(s, u, purpose, t, since)
    PROVE  session'[s].user = u /\ session'[s].purpose = purpose
BY DEF CreateSession, StoreType, NoRow

(* authenticateRequest goes on with the session it found: that of the      *)
(* access cookie, or that of the refresh cookie.                           *)
LEMMA ContinueKeeps ==
    ASSUME WebInv, CookieInv, Onward, Settled', NEW q \in Slot, UNCHANGED <<session, jar>>,
           NEW s \in Session, NEW refreshed \in BOOLEAN, Continue(q, s, refreshed),
           s = IF refreshed THEN req[q].cookies.refresh ELSE req[q].cookies.access
    PROVE  CookieInv'
<1> DEFINE c == req[q].cookies
<1>0. ReqOK(req[q]) /\ CookiesOK(req[q].from, c)
  BY DEF CookieInv, ReqOK
<1>1. Holds(req[q].from, s) /\ Made(s)
  BY <1>0 DEF CookiesOK, Holds
<1>2. ASSUME Reply(q, IF refreshed THEN s ELSE NoSession, FALSE) PROVE CookieInv'
  <2>1. PICK b : b = req[q].from /\ Holds(b, s)
    BY <1>1
  <2>2. Holds(b, s)'
    BY <2>1, HoldsStays
  <2>3. CASE refreshed
    <3>1. Reply(q, s, FALSE)
      BY <1>2, <2>3
    <3> QED
      BY <2>1, <2>2, <3>1, Replies
  <2>4. CASE ~refreshed
    <3>1. Reply(q, NoSession, FALSE)
      BY <1>2, <2>4
    <3> QED
      BY <3>1, Fails
  <2> QED
    BY <2>3, <2>4
<1>3. ASSUME NEW st \in {"tx", "keep"}, st = "tx" => req[q].op = "change",
             req' = [req EXCEPT ![q].user = session[s].user, ![q].session = s, ![q].stage = st]
      PROVE  CookieInv'
  <2>1. PICK r : r = [req[q] EXCEPT !.user = session[s].user, !.session = s, !.stage = st]
    OBVIOUS
  <2>2. /\ r.op = req[q].op /\ r.from = req[q].from /\ r.cookies = c
        /\ r.stage = st /\ r.session = s
    BY <2>1 DEF WebInv, ReqType
  <2>3. req' = [req EXCEPT ![q] = r]
    BY <1>3, <2>1 DEF WebInv, ReqType
  <2>4. s = c.refresh \/ Overtaken(req[q].from, c)
    BY <1>0, <1>1 DEF CookiesOK
  <2>5. ReqOK(r)
    BY <1>0, <1>1, <1>3, <2>2, <2>4 DEF ReqOK
  <2>6. ReqOK(r)'
    BY <2>5, ReqStays DEF CookieInv
  <2> QED
    BY <2>3, <2>6, Moves
<1>4. CASE Fail(q)
  BY <1>4, Fails DEF Fail
<1> QED
  BY <1>2, <1>3, <1>4 DEF Continue

LEMMA CookieStep == TypeInv /\ CookieInv /\ [Next]_vars => CookieInv'
<1> SUFFICES ASSUME TypeInv, CookieInv, [Next]_vars PROVE CookieInv'
  OBVIOUS
<1>0. StoreType /\ WebInv /\ Onward /\ Settled' /\ Settled
  BY OnwardStep DEF TypeInv, CookieInv
<1>a. ASSUME NEW q \in Slot, Fail(q), UNCHANGED jar PROVE CookieInv'
  BY <1>0, <1>a, Fails DEF Fail
<1>b. ASSUME NEW q \in Slot, NEW clear \in BOOLEAN, Deny(q, clear), UNCHANGED jar PROVE CookieInv'
  <2>1. (clear /\ req[q].op = "session") \in BOOLEAN
    OBVIOUS
  <2> QED
    BY <1>0, <1>b, <2>1, Fails DEF Deny
<1>c. ASSUME NEW q \in Slot, NEW s \in Session, Reply(q, s, FALSE), UNCHANGED jar,
             NEW b, b = req[q].from, Made(s)', HasProfile(session[s].user)',
             IF session'[s].purpose = "recovery" THEN b \in RecoverAt ELSE b \in SignInAt
      PROVE  CookieInv'
  <2>1. Holds(b, s)'
    BY <1>c DEF Holds
  <2> QED
    BY <1>0, <1>c, <2>1, Replies
<1>d. \A u : Project(u) => HasProfile(u)'
  BY DEF Project, HasProfile
<1>1. ASSUME NEW q \in Slot, NEW b \in Browser, NEW op \in mix, NEW pw \in 0..MaxPasswords,
             Send(q, b, op, pw)
      PROVE  CookieInv'
  <2>0. CookiesOK(b, jar[b]) /\ CookiesOK(b, NoCookies)
    BY ServiceAssumption DEF CookieInv, CookiesOK, NoCookies
  <2>1. PICK c : c = (IF op \in UsesCookies THEN jar[b] ELSE NoCookies) /\ CookiesOK(b, c)
    BY <2>0
  <2>2. PICK r : r = [Idle EXCEPT !.op = op, !.from = b, !.pw = pw, !.cookies = c,
                                  !.stage = IF op \in OneTransaction THEN "tx" ELSE "access"]
    OBVIOUS
  <2>3. /\ r.op = op /\ r.from = b /\ r.cookies = c /\ r.stage \in {"tx", "access"}
        /\ r.stage = "tx" => op \in OneTransaction
    BY <2>2 DEF Idle
  <2>4. /\ op \in {"register", "login", "devLogin"} => b \in SignInAt
        /\ op = "recover" => b \in RecoverAt
        /\ req' = [req EXCEPT ![q] = r] /\ UNCHANGED jar
    BY <1>1, <2>1, <2>2 DEF Send
  <2>5. ReqOK(r)
    BY <2>1, <2>3, <2>4 DEF ReqOK, OneTransaction
  <2>6. ReqOK(r)'
    BY <1>0, <2>5, ReqStays
  <2> QED
    BY <1>0, <2>4, <2>6, Moves
<1>2. ASSUME NEW q \in Slot, NEW u \in User, NEW s \in Session, Register(q, u, s) PROVE CookieInv'
  <2>1. CASE Fail(q)
    BY <1>2, <1>a, <2>1 DEF Register
  <2>2. CASE /\ CreateSession(s, u, "normal", NoToken, 1)
             /\ req' = [req EXCEPT ![q].stage = "project", ![q].user = u, ![q].session = s]
    <3>1. PICK r : r = [req[q] EXCEPT !.stage = "project", !.user = u, !.session = s]
      OBVIOUS
    <3>2. /\ r.op = "register" /\ r.from = req[q].from /\ r.cookies = req[q].cookies
          /\ r.stage = "project" /\ r.session = s /\ r.user = u
      BY <1>0, <1>2, <3>1 DEF WebInv, ReqType, Register, At
    <3>3. req' = [req EXCEPT ![q] = r] /\ UNCHANGED jar
      BY <1>0, <1>2, <2>2, <3>1 DEF WebInv, ReqType, Register
    <3>4. session'[s].user = u /\ session'[s].purpose = "normal"
      BY <1>0, <2>2, NewSession
    <3>5. r.from \in SignInAt /\ CookiesOK(r.from, r.cookies)
      BY <1>2, <3>2 DEF CookieInv, ReqOK, Register, At
    <3>6. CookiesOK(r.from, r.cookies)'
      BY <1>0, <3>5, CookiesStay
    <3>7. ReqOK(r)'
      BY <3>2, <3>4, <3>5, <3>6 DEF ReqOK, Made
    <3> QED
      BY <1>0, <3>3, <3>7, Moves
  <2> QED
    BY <1>2, <2>1, <2>2 DEF Register
<1>3. ASSUME NEW q \in Slot, ProjectRegistered(q) PROVE CookieInv'
  <2>1. CASE Fail(q)
    BY <1>3, <1>a, <2>1 DEF ProjectRegistered
  <2>2. CASE Project(req[q].user) /\ Reply(q, req[q].session, FALSE)
    <3>1. PICK b, s : b = req[q].from /\ s = req[q].session
      OBVIOUS
    <3>2. /\ b \in SignInAt /\ Made(s) /\ session[s].purpose = "normal"
          /\ session[s].user = req[q].user
      BY <1>3, <3>1 DEF CookieInv, ReqOK, ProjectRegistered, At
    <3>3. UNCHANGED <<session, jar>>
      BY <1>3 DEF ProjectRegistered, store
    <3>4. Made(s)' /\ HasProfile(session[s].user)' /\ session'[s].purpose = "normal"
      BY <1>d, <2>2, <3>2, <3>3 DEF Made
    <3> QED
      BY <1>c, <2>2, <3>1, <3>2, <3>3, <3>4 DEF Made
  <2> QED
    BY <1>3, <2>1, <2>2 DEF ProjectRegistered
<1>4. ASSUME NEW q \in Slot, NEW u \in User, NEW s \in Session, Login(q, u, s) \/ DevLoginAs(q, u, s)
      PROVE  CookieInv'
  <2>0. UNCHANGED jar /\ req[q].op \in {"login", "devLogin"}
    BY <1>4 DEF Login, DevLoginAs, At
  <2>1. CASE Fail(q)
    BY <1>a, <2>0, <2>1
  <2>2. CASE /\ \E purpose \in {"normal", "dev-auth"} :
                   \E since : CreateSession(s, u, purpose, NoToken, since)
             /\ Project(u) \/ (HasProfile(u) /\ UNCHANGED profiled)
             /\ Reply(q, s, FALSE)
    <3>1. session'[s].user = u /\ session'[s].purpose # "recovery"
      BY <1>0, <2>2, NewSession
    <3>2. PICK b : b = req[q].from /\ b \in SignInAt
      BY <2>0 DEF CookieInv, ReqOK
    <3>3. HasProfile(u)'
      BY <1>d, <2>2 DEF HasProfile
    <3>4. HasProfile(session[s].user)' /\ Made(s)'
      BY <3>1, <3>3 DEF HasProfile, Made
    <3> QED
      BY <1>c, <2>0, <2>2, <3>1, <3>2, <3>4
  <2> QED
    BY <1>4, <2>1, <2>2 DEF Login, DevLoginAs
<1>5. ASSUME NEW q \in Slot, NEW t \in Token, NEW s \in Session, CompletePasswordRecovery(q, t, s)
      PROVE  CookieInv'
  <2>0. UNCHANGED jar /\ req[q].op = "recover"
    BY <1>5 DEF CompletePasswordRecovery, At
  <2>1. CASE Fail(q)
    BY <1>a, <2>0, <2>1
  <2>2. CASE /\ Usable(t) /\ CreateSession(s, token[t].user, "recovery", t, token[t].since)
             /\ Project(token[t].user) /\ Reply(q, s, FALSE)
    <3>1. session'[s].user = token[t].user /\ session'[s].purpose = "recovery"
      BY <1>0, <2>2, NewSession
    <3>2. PICK b : b = req[q].from /\ b \in RecoverAt
      BY <2>0 DEF CookieInv, ReqOK
    <3>3. HasProfile(session[s].user)'
      BY <1>d, <2>2, <3>1 DEF HasProfile
    <3>4. Made(s)'
      BY <2>2, <3>1 DEF Made, Usable
    <3> QED
      BY <1>c, <2>0, <2>2, <3>1, <3>2, <3>3, <3>4
  <2> QED
    BY <1>5, <2>1, <2>2 DEF CompletePasswordRecovery
<1>6. ASSUME NEW q \in Slot,
             \/ ResetPassword(q) \/ Logout(q) \/ ChangePassword(q) \/ RevokeOthers(q) \/ Throws(q)
             \/ \E u \in User, t \in Token : RequestPasswordReset(q, u, t)
      PROVE  CookieInv'
  <2>1. UNCHANGED jar /\ \E clear \in BOOLEAN : Reply(q, NoSession, clear)
    BY <1>6 DEF ResetPassword, Logout, ChangePassword, RevokeOthers, Throws, RequestPasswordReset, Fail
  <2> QED
    BY <1>0, <2>1, Fails
<1>7. ASSUME NEW q \in Slot, AccessTokenCheck(q) PROVE CookieInv'
  <2> DEFINE s == req[q].cookies.access
  <2>0. UNCHANGED <<session, jar>>
    BY <1>7 DEF AccessTokenCheck, store
  <2>1. CASE s \in Session /\ Continue(q, s, FALSE)
    BY <1>0, <2>0, <2>1, ContinueKeeps
  <2>2. CASE Deny(q, s # NoSession)
    BY <1>b, <2>0, <2>2
  <2>3. CASE req' = [req EXCEPT ![q].stage = "refresh"]
    <3>1. PICK r : r = [req[q] EXCEPT !.stage = "refresh"]
      OBVIOUS
    <3>2. /\ r.op = req[q].op /\ r.from = req[q].from /\ r.cookies = req[q].cookies
          /\ r.stage = "refresh" /\ req' = [req EXCEPT ![q] = r]
      BY <1>0, <2>3, <3>1 DEF WebInv, ReqType
    <3>3. ReqOK(r)
      BY <3>2 DEF CookieInv, ReqOK
    <3>4. ReqOK(r)'
      BY <1>0, <3>3, ReqStays
    <3> QED
      BY <1>0, <2>0, <3>2, <3>4, Moves
  <2> QED
    BY <1>7, <2>1, <2>2, <2>3 DEF AccessTokenCheck
<1>8. ASSUME NEW q \in Slot, RefreshTokenCheck(q) PROVE CookieInv'
  <2> DEFINE s == req[q].cookies.refresh
             gone == ~Valid(s)
  <2>0. UNCHANGED <<session, jar>> /\ s \in Session
    BY <1>0, <1>8 DEF RefreshTokenCheck, store, WebInv, Knows
  <2>1. CASE Continue(q, s, TRUE)
    BY <1>0, <2>0, <2>1, ContinueKeeps
  <2>2. CASE Deny(q, gone)
    <3>1. gone = TRUE \/ gone = FALSE
      OBVIOUS
    <3>2. gone \in BOOLEAN
      BY <3>1
    <3> HIDE DEF gone
    <3> QED
      BY <1>b, <2>0, <2>2, <3>2
  <2> QED
    BY <1>8, <2>1, <2>2 DEF RefreshTokenCheck
<1>9. ASSUME NEW q \in Slot, NEW s \in Session, RefuseDevSession(q, s) PROVE CookieInv'
  BY <1>9, <1>b DEF RefuseDevSession
<1>10. ASSUME NEW q \in Slot, ResolveOwnSession(q) PROVE CookieInv'
  <2> DEFINE s == req[q].cookies.refresh
             own == IF s \in Session /\ Valid(s) THEN s ELSE NoSession
  <2>0. UNCHANGED jar /\ req[q].op = "signOutOthers" /\ req[q].stage = "keep"
    BY <1>10 DEF ResolveOwnSession, At
  <2>1. PICK r : r = [req[q] EXCEPT !.stage = "tx", !.set = own]
    OBVIOUS
  <2>2. /\ r.op = "signOutOthers" /\ r.from = req[q].from /\ r.cookies = req[q].cookies
        /\ r.session = req[q].session /\ r.stage = "tx" /\ r.set = own
    BY <1>0, <2>0, <2>1 DEF WebInv, ReqType
  <2>3. req' = [req EXCEPT ![q] = r]
    BY <1>0, <1>10, <2>1 DEF ResolveOwnSession, WebInv, ReqType
  <2>4. \/ own = s /\ s \in Session
        \/ own = NoSession /\ (s \in Session => ~Valid(s))
    OBVIOUS
  <2>5. ReqOK(req[q])
    BY DEF CookieInv
  <2> HIDE DEF own
  <2>6. ReqOK(r)
    BY <2>0, <2>2, <2>4, <2>5, ServiceAssumption DEF ReqOK
  <2>7. ReqOK(r)'
    BY <1>0, <2>6, ReqStays
  <2> QED
    BY <1>0, <2>0, <2>3, <2>7, Moves
<1>11. ASSUME NEW q \in Slot, Deliver(q) PROVE CookieInv'
  <2>1. PICK b : b = req[q].from
    OBVIOUS
  <2>2. UNCHANGED <<session, profiled>> /\ req' = [req EXCEPT ![q] = Idle]
    BY <1>11 DEF Deliver, store
  <2>3. \A p \in Slot : ReqOK(req[p])'
    <3> SUFFICES ASSUME NEW p \in Slot PROVE ReqOK(req[p])'
      OBVIOUS
    <3>1. CASE p = q
      BY <1>0, <2>2, <3>1, IdleOK DEF WebInv
    <3>2. CASE p # q
      <4>1. PICK x : x = req[p] /\ ReqOK(x)
        BY DEF CookieInv
      <4>2. ReqOK(x)'
        BY <1>0, <4>1, ReqStays
      <4> QED
        BY <1>0, <2>2, <3>2, <4>1, <4>2 DEF WebInv
    <3> QED
      BY <3>1, <3>2
  <2>4. \A x \in Browser : CookiesOK(x, jar[x])'
    <3> SUFFICES ASSUME NEW x \in Browser PROVE CookiesOK(x, jar[x])'
      OBVIOUS
    <3>1. PICK c : c = jar[x] /\ CookiesOK(x, c) /\ c \in Cookies
      BY <1>0 DEF CookieInv, WebInv
    <3>2. CASE jar'[x] = c
      BY <1>0, <3>1, <3>2, CookiesStay
    <3>3. CASE jar'[x] = NoCookies
      BY <3>3, ServiceAssumption DEF CookiesOK, NoCookies
    <3>4. CASE x = b /\ ~req[q].clear /\ jar'[x] = WriteSessionCookies(c, req[q].set)
      <4>1. PICK s : s = req[q].set /\ Holds(x, s)
        BY <1>11, <2>1, <3>4 DEF CookieInv, ReqOK, Deliver
      <4>2. PICK d : d = WriteSessionCookies(c, s)
        OBVIOUS
      <4>3. CASE session[s].purpose = "recovery"
        <5>1. d.recovery = s /\ d.refresh = s /\ d.access = c.access
          BY <3>1, <4>2, <4>3 DEF WriteSessionCookies, Cookies
        <5>2. Overtaken(x, d)
          BY <4>1, <4>3, <5>1 DEF Holds, Overtaken
        <5>3. CookiesOK(x, d)
          BY <3>1, <4>1, <4>3, <5>1, <5>2 DEF CookiesOK, Holds
        <5>4. CookiesOK(x, d)'
          BY <1>0, <5>3, CookiesStay
        <5> QED
          BY <3>4, <4>1, <4>2, <5>4
      <4>4. CASE session[s].purpose # "recovery"
        <5>1. d.recovery = c.recovery /\ d.refresh = s /\ d.access = s
          BY <3>1, <4>2, <4>4 DEF WriteSessionCookies, Cookies
        <5>2. CookiesOK(x, d)
          BY <3>1, <4>1, <4>4, <5>1 DEF CookiesOK
        <5>3. CookiesOK(x, d)'
          BY <1>0, <5>2, CookiesStay
        <5> QED
          BY <3>4, <4>1, <4>2, <5>3
      <4> QED
        BY <4>3, <4>4
    <3> QED
      BY <1>0, <1>11, <2>1, <3>1, <3>2, <3>3, <3>4 DEF Deliver, WebInv
  <2> QED
    BY <1>0, <2>3, <2>4 DEF CookieInv
<1>12. ASSUME NEW q \in Slot, LoseReply(q) PROVE CookieInv'
  BY <1>0, <1>12, IdleOK, Moves DEF LoseReply
<1>13. ASSUME NEW b \in Browser, CookieExpires(b) PROVE CookieInv'
  <2>1. \A p \in Slot : ReqOK(req[p])'
    <3> SUFFICES ASSUME NEW p \in Slot PROVE ReqOK(req[p])'
      OBVIOUS
    <3>1. PICK x : x = req[p] /\ ReqOK(x)
      BY DEF CookieInv
    <3>2. ReqOK(x)'
      BY <1>0, <3>1, ReqStays
    <3> QED
      BY <1>13, <3>1, <3>2 DEF CookieExpires
  <2>2. \A x \in Browser : CookiesOK(x, jar[x])'
    <3> SUFFICES ASSUME NEW x \in Browser PROVE CookiesOK(x, jar[x])'
      OBVIOUS
    <3>1. PICK c : c = jar[x] /\ CookiesOK(x, c) /\ c \in Cookies
      BY <1>0 DEF CookieInv, WebInv
    <3>2. PICK d : d = jar'[x]
      OBVIOUS
    <3>3. \/ d = c
          \/ d.access = NoSession /\ d.refresh = c.refresh /\ d.recovery = c.recovery
          \/ /\ c.recovery \in Session /\ d.access = c.access /\ d.recovery = NoSession
             /\ d.refresh \in {c.refresh, NoSession}
          \/ d.access = NoSession /\ d.refresh = NoSession /\ d.recovery = c.recovery
      BY <1>0, <1>13, <3>1, <3>2 DEF CookieExpires, WebInv, Cookies
    <3>4. /\ c.recovery \in Session /\ d.refresh = NoSession => Overtaken(x, d)
          /\ d.refresh = c.refresh /\ Overtaken(x, c) => Overtaken(x, d)
      BY <3>1, ServiceAssumption DEF CookiesOK, Overtaken
    <3>5. CookiesOK(x, d)
      BY <3>1, <3>3, <3>4, ServiceAssumption DEF CookiesOK
    <3>6. CookiesOK(x, d)'
      BY <1>0, <3>5, CookiesStay
    <3> QED
      BY <3>2, <3>6
  <2> QED
    BY <1>0, <2>1, <2>2 DEF CookieInv
<1>14. CASE \/ \E s \in Session : SessionExpires(s)
            \/ \E t \in Token : TokenExpires(t)
            \/ \E u \in User : Disable(u)
            \/ UNCHANGED vars
  <2>1. UNCHANGED <<jar, req>>
    BY <1>14 DEF SessionExpires, TokenExpires, Disable, vars
  <2> QED
    BY <1>0, <2>1, Rests
<1> QED
  BY <1>1, <1>2, <1>3, <1>4, <1>5, <1>6, <1>7, <1>8, <1>9, <1>10, <1>11, <1>12, <1>13, <1>14 DEF Next

LEMMA CookieCorrect == Spec => []CookieInv
<1>1. Init => CookieInv
  <2> SUFFICES ASSUME Init PROVE CookieInv
    OBVIOUS
  <2>1. Settled
    BY ServiceAssumption DEF Init, Settled, Made, NoRow
  <2>2. \A b \in Browser : CookiesOK(b, jar[b])
    BY ServiceAssumption DEF Init, CookiesOK, NoCookies
  <2>3. \A q \in Slot : ReqOK(req[q])
    BY IdleOK DEF Init
  <2> QED
    BY <2>1, <2>2, <2>3 DEF CookieInv
<1> QED
  BY <1>1, CookieStep, TypeCorrect, PTL DEF Spec

(* No browser is signed in to an account without its app profile, whatever *)
(* the projector rejects and wherever recovery links are opened.           *)
THEOREM SignedInHasProfileHolds == Spec => []SignedInHasProfile
<1>1. CookieInv => SignedInHasProfile
  BY DEF CookieInv, CookiesOK, Holds, SignedInHasProfile
<1> QED
  BY <1>1, CookieCorrect, PTL

(* The session that logout revokes, that of the refresh cookie, is the one *)
(* the request would be authenticated with, in every browser in which no   *)
(* recovery link has taken that cookie.                                    *)
THEOREM LogoutEndsSessionHolds == Spec => LogoutEndsSession
<1> DEFINE Ends(q, s) == \/ s = NoSession \/ session'[s].revoked
                         \/ Overtaken(req[q].from, req[q].cookies)
           A == \A q \in Slot : Logout(q) => Ends(q, Resolves(req[q].cookies))
<1>1. TypeInv /\ CookieInv => A
  <2> SUFFICES ASSUME StoreType, CookieInv, NEW q \in Slot, NEW s \in Session,
                      Logout(q), s = Resolves(req[q].cookies),
                      ~Overtaken(req[q].from, req[q].cookies)
               PROVE  session'[s].revoked
    BY DEF TypeInv, Resolves
  <2>1. CookiesOK(req[q].from, req[q].cookies)
    BY DEF CookieInv, ReqOK
  <2>2. s = req[q].cookies.refresh
    BY <2>1, ServiceAssumption DEF Resolves, CookiesOK
  <2> QED
    BY <2>2 DEF Logout, StoreType, SessionType
<1>2. TypeInv /\ CookieInv => [A]_vars
  BY <1>1
<1> QED
  BY <1>2, TypeCorrect, CookieCorrect, PTL DEF LogoutEndsSession

(* signOutOtherSessions spares the session that asked for it and ends      *)
(* every other of the user, although it works out which one to spare only  *)
(* after the request was authenticated; where a recovery link has taken    *)
(* the refresh cookie it spares that link's session at most.               *)
THEOREM SignOutSparesOnlyOwnHolds == Spec => SignOutSparesOnlyOwn
<1> DEFINE Spared(q, s) ==
               \/ session'[s].revoked <=> s # req[q].session
               \/ /\ Overtaken(req[q].from, req[q].cookies)
                  /\ session'[s].revoked <=> s # req[q].cookies.refresh
           A == \A q \in Slot : RevokeOthers(q) =>
                    \A s \in Session : session[s].user = req[q].user /\ Valid(s) => Spared(q, s)
<1>1. TypeInv /\ CookieInv => A
  <2> SUFFICES ASSUME StoreType, CookieInv, NEW q \in Slot, NEW s \in Session,
                      RevokeOthers(q), session[s].user = req[q].user, Valid(s)
               PROVE  Spared(q, s)
    BY DEF TypeInv
  <2> DEFINE own == req[q].cookies.refresh
  <2>1. req[q].op = "signOutOthers" /\ req[q].stage = "tx" /\ RevokeForUser(req[q].user, req[q].set)
    BY DEF RevokeOthers, At
  <2>2. /\ own = req[q].session \/ Overtaken(req[q].from, req[q].cookies)
        /\ IF req[q].set \in Session THEN req[q].set = own ELSE own \in Session => ~Valid(own)
    BY <2>1 DEF CookieInv, ReqOK
  <2>3. ~session[s].revoked /\ (session'[s].revoked <=> s # req[q].set)
    BY <2>1 DEF RevokeForUser, Valid, Live, StoreType, SessionType
  <2>4. session'[s].revoked <=> s # own
    <3>1. CASE req[q].set \in Session
      BY <2>2, <2>3, <3>1
    <3>2. CASE req[q].set \notin Session
      BY <2>2, <2>3, <3>2
    <3> QED
      BY <3>1, <3>2
  <2> QED
    BY <2>2, <2>4
<1>2. TypeInv /\ CookieInv => [A]_vars
  BY <1>1
<1> QED
  BY <1>2, TypeCorrect, CookieCorrect, PTL DEF SignOutSparesOnlyOwn

=============================================================================
