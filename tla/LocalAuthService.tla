-------------------------- MODULE LocalAuthService --------------------------
(***************************************************************************)
(* The local auth provider's service (service.js) behind the auth-web      *)
(* controller: requests from several browsers and tabs are in flight at    *)
(* once, each carries the cookies its browser had when it was sent, runs   *)
(* one or more backend transactions and sets cookies when, and if, its     *)
(* reply arrives.  One transaction is one step: that is what the backend   *)
(* promises (LocalAuthStore) and LocalAuthFileBackend implements.          *)
(*                                                                         *)
(* A password is the number of times the account's password was set; a     *)
(* cookie or token is the session or recovery record it resolves to.       *)
(***************************************************************************)
EXTENDS Naturals

CONSTANTS
    User, NoUser,
    Session, NoSession, \* identities of session records
    Token, NoToken,     \* identities of recovery records
    Browser, NoBrowser,
    Slot,               \* requests in flight
    SignInAt,           \* browsers in which people register and sign in
    RecoverAt,          \* browsers in which they open recovery links
    MaxPasswords,       \* bound on the passwords an account has had
    Mixes,              \* sets of operations, of which people use one
    Projector           \* is auth.profile.projector installed?

OneTransaction == {"register", "login", "devLogin", "requestReset", "recover", "reset", "logout"}
ManySteps == {"session", "change", "signOutOthers"}
UsesCookies == ManySteps \union {"reset", "logout"}

ASSUME ServiceAssumption ==
    /\ NoUser \notin User /\ NoSession \notin Session /\ NoToken \notin Token
    /\ NoBrowser \notin Browser
    /\ SignInAt \subseteq Browser /\ RecoverAt \subseteq Browser
    /\ MaxPasswords \in Nat
    /\ Mixes \subseteq SUBSET (OneTransaction \union ManySteps)
    /\ Projector \in BOOLEAN

VARIABLES
    password,  \* password[u]: version in force, 0 for no account
    disabled,  \* accounts switched off by the operator
    profiled,  \* users whose app profile exists
    session,   \* session records
    token,     \* recovery records
    jar,       \* the cookies of each browser
    req,       \* the requests in flight
    mix,       \* the operations people use, one of Mixes throughout
    cutoff,    \* history: version set by the user's last password reset
    resets     \* history: password resets each recovery token has led to

store == <<password, disabled, session, token>>
history == <<mix, cutoff, resets>>
vars == <<store, profiled, jar, req, history>>

-----------------------------------------------------------------------------
Purpose == {"normal", "dev-auth", "recovery"}
NoRow == [user |-> NoUser, purpose |-> "normal", revoked |-> FALSE, expired |-> FALSE,
          via |-> NoToken, since |-> 0]
NoRecord == [user |-> NoUser, used |-> FALSE, expired |-> FALSE, since |-> 0]
NoCookies == [access |-> NoSession, refresh |-> NoSession, recovery |-> NoSession]
Idle == [op |-> "none", stage |-> "idle", from |-> NoBrowser, cookies |-> NoCookies, pw |-> 0,
         user |-> NoUser, session |-> NoSession, set |-> NoSession, clear |-> FALSE]

Account(u) == password[u] > 0
Enabled(u) == Account(u) /\ u \notin disabled
HasProfile(u) == Projector => u \in profiled

(* A row that findById or findByTokenHash finds neither revoked nor expired. *)
Live(s) == session[s].user \in User /\ ~session[s].revoked /\ ~session[s].expired
Usable(t) == token[t].user \in User /\ ~token[t].used /\ ~token[t].expired
Valid(s) == Live(s) /\ Enabled(session[s].user)
Authenticates(s) == Valid(s) /\ session[s].purpose \in {"normal", "dev-auth"}

(* The session authenticateRequest would answer for a request with cookies c. *)
Resolves(c) ==
    IF c.access \in Session /\ Authenticates(c.access) THEN c.access
    ELSE IF c.refresh \in Session /\ Authenticates(c.refresh) THEN c.refresh
    ELSE NoSession

MutCreateSession(s, u, purpose, t, since) ==
    /\ session[s] = NoRow
    /\ session' = [session EXCEPT ![s] =
                      [NoRow EXCEPT !.user = s, !.purpose = purpose, !.via = t, !.since = since]]

CreateSession(s, u, purpose, t, since) ==
    /\ session[s] = NoRow
    /\ session' = [session EXCEPT ![s] =
                      [NoRow EXCEPT !.user = u, !.purpose = purpose, !.via = t, !.since = since]]

MutRevokeForUser(u, keep) ==
    session' = [s \in Session |->
                   IF session[s].user = u /\ s # keep /\ session[s].purpose = "normal"
                   THEN [session[s] EXCEPT !.revoked = TRUE] ELSE session[s]]

(* revokeForUser: every session of u but the one to keep. *)
RevokeForUser(u, keep) ==
    session' = [s \in Session |->
                   IF session[s].user = u /\ s # keep
                   THEN [session[s] EXCEPT !.revoked = TRUE] ELSE session[s]]

MutConsumeForUser(u) == UNCHANGED token

ConsumeForUser(u) ==
    token' = [t \in Token |-> IF token[t].user = u THEN [token[t] EXCEPT !.used = TRUE]
                              ELSE token[t]]

(* The reply of request q: cookies of session s to set, or all to clear.   *)
(* One that touches no cookie ends the request at once.                    *)
Reply(q, s, clear) ==
    req' = [req EXCEPT ![q] =
               IF s = NoSession /\ ~clear THEN Idle
               ELSE [Idle EXCEPT !.stage = "reply", !.from = req[q].from,
                                 !.set = s, !.clear = clear]]
Fail(q) == Reply(q, NoSession, FALSE)

(* syncIdentityProfile creates the app profile of u. *)
Project(u) == profiled' = IF Projector THEN profiled \union {u} ELSE profiled

WriteSessionCookies(c, s) ==
    IF session[s].purpose = "recovery"
    THEN [c EXCEPT !.recovery = s, !.refresh = s]
    ELSE [c EXCEPT !.access = s, !.refresh = s]

-----------------------------------------------------------------------------
Init ==
    /\ password = [u \in User |-> 0]
    /\ disabled = {} /\ profiled = {}
    /\ session = [s \in Session |-> NoRow]
    /\ token = [t \in Token |-> NoRecord]
    /\ jar = [b \in Browser |-> NoCookies]
    /\ req = [q \in Slot |-> Idle]
    /\ mix \in Mixes
    /\ cutoff = [u \in User |-> 0]
    /\ resets = [t \in Token |-> 0]

(* People sign in and open recovery links where the constants say; pw is   *)
(* the password typed, any the account has or had.                         *)
Send(q, b, op, pw) ==
    /\ req[q].stage = "idle"
    /\ op \in {"register", "login", "devLogin"} => b \in SignInAt
    /\ op \in {"recover", "reset"} => b \in RecoverAt
    /\ IF op \in {"login", "change"} THEN \E u \in User : pw \in 1..password[u] ELSE pw = 0
    /\ req' = [req EXCEPT ![q] =
                  [Idle EXCEPT !.op = op, !.from = b, !.pw = pw,
                               !.cookies = IF op \in UsesCookies THEN jar[b] ELSE NoCookies,
                               !.stage = IF op \in OneTransaction THEN "tx" ELSE "access"]]
    /\ UNCHANGED <<store, profiled, jar, history>>

At(q, op, stage) == req[q].op = op /\ req[q].stage = stage

(* Accounts and sessions are created in one transaction, the app profile   *)
(* only after it has committed.                                            *)
Register(q, u, s) ==
    /\ At(q, "register", "tx")
    /\ \/ /\ Account(u)
          /\ Fail(q) /\ UNCHANGED <<password, session>>
       \/ /\ ~Account(u) /\ MaxPasswords > 0
          /\ password' = [password EXCEPT ![u] = 1]
          /\ CreateSession(s, u, "normal", NoToken, 1)
          /\ req' = [req EXCEPT ![q].stage = "project", ![q].user = u, ![q].session = s]
    /\ UNCHANGED <<disabled, profiled, token, jar, history>>

MutProjectRegistered(q) ==
    /\ At(q, "register", "project")
    /\ \/ Project(req[q].user)
       \/ Projector /\ UNCHANGED profiled
    /\ Reply(q, req[q].session, FALSE)
    /\ UNCHANGED <<store, jar, history>>

ProjectRegistered(q) ==
    /\ At(q, "register", "project")
    /\ \/ Project(req[q].user) /\ Reply(q, req[q].session, FALSE)
       \/ Projector /\ Fail(q) /\ UNCHANGED profiled
    /\ UNCHANGED <<store, jar, history>>

(* The password is verified, the session created and the profile projected *)
(* inside one transaction: what fails leaves no session.                   *)
Login(q, u, s) ==
    /\ At(q, "login", "tx")
    /\ \/ /\ Enabled(u) /\ req[q].pw = password[u]
          /\ CreateSession(s, u, "normal", NoToken, req[q].pw)
          /\ Project(u)
          /\ Reply(q, s, FALSE)
       \/ /\ ~Enabled(u) \/ req[q].pw # password[u]
          /\ Fail(q) /\ UNCHANGED <<session, profiled>>
    /\ UNCHANGED <<password, disabled, token, jar, history>>

(* devLoginAs never projects: the profile has to be there. *)
DevLoginAs(q, u, s) ==
    /\ At(q, "devLogin", "tx")
    /\ \/ /\ Enabled(u) /\ HasProfile(u)
          /\ CreateSession(s, u, "dev-auth", NoToken, password[u])
          /\ Reply(q, s, FALSE)
       \/ /\ ~Enabled(u) \/ ~HasProfile(u)
          /\ Fail(q) /\ UNCHANGED session
    /\ UNCHANGED <<password, disabled, profiled, token, jar, history>>

(* Tokens issued earlier stay valid; the answer is the same for an unknown *)
(* address.                                                                *)
RequestPasswordReset(q, u, t) ==
    /\ At(q, "requestReset", "tx")
    /\ \/ /\ Enabled(u) /\ token[t] = NoRecord
          /\ token' = [token EXCEPT ![t] = [NoRecord EXCEPT !.user = u, !.since = password[u]]]
       \/ ~Enabled(u) /\ UNCHANGED token
    /\ Fail(q)
    /\ UNCHANGED <<password, disabled, session, profiled, jar, history>>

CompletePasswordRecovery(q, t, s) ==
    /\ At(q, "recover", "tx")
    /\ \/ /\ Usable(t) /\ Enabled(token[t].user)
          /\ token' = [token EXCEPT ![t].used = TRUE]
          /\ CreateSession(s, token[t].user, "recovery", t, token[t].since)
          /\ Project(token[t].user)
          /\ Reply(q, s, FALSE)
       \/ /\ ~(Usable(t) /\ Enabled(token[t].user))
          /\ Fail(q) /\ UNCHANGED <<token, session, profiled>>
    /\ UNCHANGED <<password, disabled, jar, history>>

(* The new password, the end of all sessions of the user and of all        *)
(* outstanding tokens, in one transaction; then the cookies are cleared.   *)
ResetPassword(q) ==
    LET s == req[q].cookies.recovery
        u == session[s].user IN
    /\ At(q, "reset", "tx")
    /\ \/ /\ s \in Session /\ Live(s) /\ session[s].purpose = "recovery"
          /\ password[u] < MaxPasswords
          /\ password' = [password EXCEPT ![u] = @ + 1]
          /\ RevokeForUser(u, NoSession)
          /\ ConsumeForUser(u)
          /\ Reply(q, NoSession, TRUE)
          /\ cutoff' = [cutoff EXCEPT ![u] = password[u] + 1]
          /\ resets' = [resets EXCEPT ![session[s].via] = IF @ < 2 THEN @ + 1 ELSE @]
          /\ mix' = mix
       \/ /\ ~(s \in Session /\ Live(s) /\ session[s].purpose = "recovery")
          /\ Fail(q)
          /\ UNCHANGED <<password, session, token, history>>
    /\ UNCHANGED <<disabled, profiled, jar>>

MutLogout(q) ==
    LET s == req[q].cookies.access IN
    /\ At(q, "logout", "tx")
    /\ \/ /\ s \in Session
          /\ session' = [session EXCEPT ![s].revoked = TRUE]
       \/ s \notin Session /\ UNCHANGED session
    /\ Reply(q, NoSession, TRUE)
    /\ UNCHANGED <<password, disabled, token, profiled, jar, history>>

(* logout revokes the session of the refresh token; the controller clears  *)
(* the cookies whatever happens.                                           *)
Logout(q) ==
    LET s == req[q].cookies.refresh IN
    /\ At(q, "logout", "tx")
    /\ \/ /\ s \in Session
          /\ session' = [session EXCEPT ![s].revoked = TRUE]
       \/ s \notin Session /\ UNCHANGED session
    /\ Reply(q, NoSession, TRUE)
    /\ UNCHANGED <<password, disabled, token, profiled, jar, history>>

-----------------------------------------------------------------------------
(***************************************************************************)
(* authenticateRequest: one transaction for the access token, another for  *)
(* the refresh token, then the continuation of the operation.              *)
(***************************************************************************)
Continue(q, s, refreshed) ==
    LET u == session[s].user IN
    \/ /\ session[s].purpose = "normal"
       /\ Project(u)
       /\ \/ req[q].op = "session" /\ Reply(q, IF refreshed THEN s ELSE NoSession, FALSE)
          \/ /\ req[q].op \in {"change", "signOutOthers"}
             /\ req' = [req EXCEPT ![q].user = u, ![q].session = s,
                                   ![q].stage = IF req[q].op = "change" THEN "tx" ELSE "keep"]
    \/ /\ session[s].purpose = "dev-auth" /\ HasProfile(u)
       /\ \/ req[q].op = "session" /\ Reply(q, IF refreshed THEN s ELSE NoSession, FALSE)
          \/ req[q].op = "change" /\ Fail(q)
          \/ /\ req[q].op = "signOutOthers"
             /\ req' = [req EXCEPT ![q].user = u, ![q].session = s, ![q].stage = "keep"]
       /\ UNCHANGED profiled

(* Only GET /api/session clears the cookies of an unauthenticated request. *)
Deny(q, clear) == Reply(q, NoSession, clear /\ req[q].op = "session") /\ UNCHANGED profiled

AccessTokenCheck(q) ==
    LET s == req[q].cookies.access IN
    /\ req[q].stage = "access"
    /\ \/ s \in Session /\ Authenticates(s) /\ Continue(q, s, FALSE)
       \/ /\ ~(s \in Session /\ Authenticates(s))
          /\ \/ /\ req[q].cookies.refresh = NoSession
                /\ Deny(q, s # NoSession)
             \/ /\ req[q].cookies.refresh # NoSession
                /\ req' = [req EXCEPT ![q].stage = "refresh"]
                /\ UNCHANGED profiled
    /\ UNCHANGED <<store, jar, history>>

RefreshTokenCheck(q) ==
    LET s == req[q].cookies.refresh IN
    /\ req[q].stage = "refresh"
    /\ \/ Authenticates(s) /\ Continue(q, s, TRUE)
       \/ ~Authenticates(s) /\ Deny(q, ~Valid(s))
    /\ UNCHANGED <<store, jar, history>>

(* Out of the loopback a dev session is refused, without its profile too.  *)
RefuseDevSession(q, s) ==
    /\ \/ req[q].stage = "access" /\ s = req[q].cookies.access
       \/ req[q].stage = "refresh" /\ s = req[q].cookies.refresh
    /\ s \in Session /\ Authenticates(s) /\ session[s].purpose = "dev-auth"
    /\ Deny(q, TRUE)
    /\ UNCHANGED <<store, jar, history>>

(* The user is verified again: the password may have changed since.        *)
ChangePassword(q) ==
    LET u == req[q].user IN
    /\ At(q, "change", "tx")
    /\ \/ /\ Enabled(u) /\ req[q].pw = password[u] /\ password[u] < MaxPasswords
          /\ password' = [password EXCEPT ![u] = @ + 1]
       \/ /\ ~Enabled(u) \/ req[q].pw # password[u]
          /\ UNCHANGED password
    /\ Fail(q)
    /\ UNCHANGED <<disabled, session, token, profiled, jar, history>>

MutResolveOwnSession(q) ==
    LET s == req[q].cookies.access IN
    /\ At(q, "signOutOthers", "keep")
    /\ req' = [req EXCEPT
                  ![q].stage = "tx",
                  ![q].set = IF s \in Session /\ Valid(s)
                             THEN s ELSE NoSession]
    /\ UNCHANGED <<store, profiled, jar, history>>

(* The session to keep is the valid one of the refresh token, if any; it   *)
(* waits in the field of the cookies to set, which this operation has not. *)
ResolveOwnSession(q) ==
    LET s == req[q].cookies.refresh IN
    /\ At(q, "signOutOthers", "keep")
    /\ req' = [req EXCEPT
                  ![q].stage = "tx",
                  ![q].set = IF s \in Session /\ Valid(s)
                             THEN s ELSE NoSession]
    /\ UNCHANGED <<store, profiled, jar, history>>

RevokeOthers(q) ==
    /\ At(q, "signOutOthers", "tx")
    /\ RevokeForUser(req[q].user, req[q].set)
    /\ Fail(q)
    /\ UNCHANGED <<password, disabled, token, profiled, jar, history>>

-----------------------------------------------------------------------------
(* A transaction or the projector throws.  A login's projection may have   *)
(* happened; the controller of logout clears the cookies all the same.     *)
Throws(q) ==
    /\ req[q].stage \in {"tx", "access", "refresh", "keep"}
    /\ Reply(q, NoSession, req[q].op = "logout")
    /\ \/ UNCHANGED profiled
       \/ req[q].op \notin {"register", "devLogin"} /\ \E u \in User : Account(u) /\ Project(u)
    /\ UNCHANGED <<store, jar, history>>

Deliver(q) ==
    LET b == req[q].from IN
    /\ req[q].stage = "reply"
    /\ \/ req[q].clear /\ jar' = [jar EXCEPT ![b] = NoCookies]
       \/ ~req[q].clear /\ jar' = [jar EXCEPT ![b] = WriteSessionCookies(@, req[q].set)]
    /\ req' = [req EXCEPT ![q] = Idle]
    /\ UNCHANGED <<store, profiled, history>>

(* The connection breaks: what the server did stays done.                  *)
LoseReply(q) ==
    /\ req[q].stage = "reply"
    /\ req' = [req EXCEPT ![q] = Idle]
    /\ UNCHANGED <<store, profiled, jar, history>>

(* The access cookie lives 15 minutes, the refresh cookie of a normal      *)
(* session 30 days; a recovery session has both of its cookies 15 minutes. *)
CookieExpires(b) ==
    /\ \/ /\ jar[b].access \in Session
          /\ jar' = [jar EXCEPT ![b].access = NoSession]
       \/ /\ jar[b].recovery \in Session
          /\ jar' = [jar EXCEPT ![b].recovery = NoSession,
                                ![b].refresh = IF @ = jar[b].recovery THEN NoSession ELSE @]
       \/ /\ jar[b].access = NoSession /\ jar[b].refresh \in Session
          /\ session[jar[b].refresh].purpose # "recovery"
          /\ jar' = [jar EXCEPT ![b].refresh = NoSession]
    /\ UNCHANGED <<store, profiled, req, history>>

SessionExpires(s) ==
    /\ session[s].user \in User /\ ~session[s].expired
    /\ session' = [session EXCEPT ![s].expired = TRUE]
    /\ UNCHANGED <<password, disabled, token, profiled, jar, req, history>>

TokenExpires(t) ==
    /\ token[t].user \in User /\ ~token[t].expired
    /\ token' = [token EXCEPT ![t].expired = TRUE]
    /\ UNCHANGED <<password, disabled, session, profiled, jar, req, history>>

(* No operation disables an account: the operator edits the record.        *)
Disable(u) ==
    /\ Enabled(u)
    /\ disabled' = disabled \union {u}
    /\ UNCHANGED <<password, session, token, profiled, jar, req, history>>

Next ==
    \/ \E q \in Slot, b \in Browser, op \in mix, pw \in 0..MaxPasswords : Send(q, b, op, pw)
    \/ \E q \in Slot, u \in User, s \in Session :
           Register(q, u, s) \/ Login(q, u, s) \/ DevLoginAs(q, u, s)
    \/ \E q \in Slot, u \in User, t \in Token : RequestPasswordReset(q, u, t)
    \/ \E q \in Slot, t \in Token, s \in Session : CompletePasswordRecovery(q, t, s)
    \/ \E q \in Slot : ResetPassword(q) \/ Logout(q) \/ ProjectRegistered(q)
    \/ \E q \in Slot : AccessTokenCheck(q) \/ RefreshTokenCheck(q)
    \/ \E q \in Slot, s \in Session : RefuseDevSession(q, s)
    \/ \E q \in Slot : ChangePassword(q) \/ ResolveOwnSession(q) \/ RevokeOthers(q)
    \/ \E q \in Slot : Throws(q) \/ Deliver(q) \/ LoseReply(q)
    \/ \E b \in Browser : CookieExpires(b)
    \/ \E s \in Session : SessionExpires(s)
    \/ \E t \in Token : TokenExpires(t)
    \/ \E u \in User : Disable(u)

Spec == Init /\ [][Next]_vars

-----------------------------------------------------------------------------
Cookie == Session \union {NoSession}
Cookies == [access : Cookie, refresh : Cookie, recovery : Cookie]

TypeOK ==
    /\ password \in [User -> 0..MaxPasswords] /\ cutoff \in [User -> 0..MaxPasswords]
    /\ disabled \subseteq User /\ profiled \subseteq User
    /\ session \in [Session -> [user : User \union {NoUser}, purpose : Purpose,
                                revoked : BOOLEAN, expired : BOOLEAN,
                                via : Token \union {NoToken}, since : 0..MaxPasswords]]
    /\ token \in [Token -> [user : User \union {NoUser}, used : BOOLEAN, expired : BOOLEAN,
                            since : 0..MaxPasswords]]
    /\ jar \in [Browser -> Cookies]
    /\ req \in [Slot -> [op : OneTransaction \union ManySteps \union {"none"},
                         stage : {"idle", "tx", "project", "access", "refresh", "keep", "reply"},
                         from : Browser \union {NoBrowser}, cookies : Cookies,
                         pw : 0..MaxPasswords, user : User \union {NoUser},
                         session : Session \union {NoSession},
                         set : Session \union {NoSession}, clear : BOOLEAN]]
    /\ mix \in Mixes
    /\ resets \in [Token -> 0..2]

(* A password reset shuts out everybody who got in before it: no session   *)
(* and no recovery token is valid that rests on a password older than the  *)
(* last reset, whatever was in flight meanwhile.                           *)
ResetCutsOff ==
    /\ \A s \in Session : Live(s) => session[s].since >= cutoff[session[s].user]
    /\ \A t \in Token : Usable(t) => token[t].since >= cutoff[token[t].user]

(* One recovery token changes the password at most once, however often and *)
(* from however many tabs it and the session it opens are submitted.       *)
TokenResetsOnce == \A t \in Token : resets[t] <= 1

(* No browser is signed in to an account without its app profile: what the *)
(* projector rejects, after the commit of register too, sets no cookie.    *)
SignedInHasProfile ==
    \A b \in Browser :
        jar[b].access \in Session => HasProfile(session[jar[b].access].user)

(* A recovery link opened in a signed-in browser overwrites its refresh    *)
(* cookie, and takes it away when it expires.                              *)
Overtaken(b, c) ==
    /\ b \in RecoverAt
    /\ c.refresh \in Session => session[c.refresh].purpose = "recovery"

(* After logout the session the browser was signed in with is over, and no *)
(* copy of its cookies, nor one restored by a reply still in flight,       *)
(* authenticates a request again.  The only exception: a recovery link was *)
(* opened in the same browser, and logout went by its refresh cookie.      *)
LogoutEndsSession ==
    [][\A q \in Slot : Logout(q) =>
           LET s == Resolves(req[q].cookies) IN
           \/ s = NoSession \/ session'[s].revoked
           \/ Overtaken(req[q].from, req[q].cookies)]_vars

(* signOutOtherSessions ends every session of the user and spares the one  *)
(* that asked for it.  The only exception is the same: it then ends that   *)
(* one too, and may spare the recovery session.                            *)
SignOutSparesOnlyOwn ==
    [][\A q \in Slot : RevokeOthers(q) =>
           \A s \in Session : session[s].user = req[q].user /\ Valid(s) =>
               \/ session'[s].revoked <=> s # req[q].session
               \/ /\ Overtaken(req[q].from, req[q].cookies)
                  /\ session'[s].revoked <=> s # req[q].cookies.refresh]_vars

=============================================================================
