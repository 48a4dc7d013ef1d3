------------------------------ MODULE HttpClient ------------------------------
(***************************************************************************)
(* The CSRF token of http-runtime's browser clients.  Every client caches  *)
(* a token of its own; the secret it belongs to is one cookie that all     *)
(* clients of the browser share, so they invalidate each other's tokens.   *)
(* Requests are unsafe ones (POST); reading the session is a GET any part  *)
(* of the page makes.  A token is the secret it was made from, 0 is none.  *)
(*                                                                         *)
(* performed and the requests' field disturbed are history.                *)
(***************************************************************************)
EXTENDS Naturals, Sequences

CONSTANTS
    Request, Client, ClientOf,
    CookiesKept,   \* does the browser keep the server's cookies?
    MaxReads, MaxClears, MaxFaults

ASSUME HttpAssumption ==
    /\ ClientOf \in [Request -> Client] /\ CookiesKept \subseteq BOOLEAN
    /\ {MaxReads, MaxClears, MaxFaults} \subseteq Nat

VARIABLES
    keeps,     \* a member of CookiesKept
    jar,       \* the secret in the cookie jar
    issued,    \* secrets the server has made
    cache,     \* csrfTokenCache
    promise,   \* csrfFetchPromise: a fetch, or 0
    fetch,     \* the session fetches, in the order they were sent
    req,
    performed, \* how often a request took effect
    reads, clears, faults

vars == <<keeps, jar, issued, cache, promise, fetch, req, performed, reads, clears, faults>>

Settled == {"ok", "refused", "error"}
New == [stage |-> "new", token |-> 0, cookie |-> 0, fetch |-> 0, retried |-> FALSE,
        sends |-> 0, disturbed |-> FALSE]
NextFetch == Len(fetch) + 1

(* The request is answered: of its fields only the history is kept.        *)
Settle(r, stage) ==
    req' = [req EXCEPT ![r] = [New EXCEPT !.stage = stage, !.sends = req[r].sends,
                                          !.disturbed = stage = "refused" /\ req[r].disturbed]]

MutSent(c, kind) == fetch

(* A fetch that is sent carries the cookie of the moment.                  *)
Sent(c, kind) == Append(fetch, [client |-> c, kind |-> kind, stage |-> "sent", secret |-> jar, sets |-> FALSE])

(* History: the cookie or the cache of client c, for all clients if c is   *)
(* not one, is changed by other than request r's own token fetch.          *)
Disturb(table, c, own) ==
    [r \in Request |->
        IF /\ table[r].stage \in {"new", "wait", "rewait"}
           /\ c \in {ClientOf[r], "all"} /\ table[r].fetch # own
        THEN [table[r] EXCEPT !.disturbed = TRUE] ELSE table[r]]

-----------------------------------------------------------------------------
(* The browser may hold a cookie from before; no client has a token yet.   *)
(* The requests are made at any time from now on.                          *)
Init ==
    /\ keeps \in CookiesKept
    /\ jar \in {0, 1} /\ issued = 1
    /\ cache = [c \in Client |-> 0] /\ promise = [c \in Client |-> 0]
    /\ fetch = << >>
    /\ req = [r \in Request |-> New]
    /\ performed = [r \in Request |-> 0]
    /\ reads = 0 /\ clears = 0 /\ faults = 0

Post(table, r, token) ==
    [table EXCEPT ![r].stage = "sent", ![r].token = token, ![r].cookie = jar, ![r].sends = @ + 1]

(* prepareRequestConfig and ensureCsrfToken: the cached token is used, a   *)
(* fetch in flight is shared.                                              *)
Prepare(r) ==
    LET c == ClientOf[r] IN
    /\ req[r].stage = "new"
    /\ \/ /\ cache[c] # 0
          /\ req' = Post(req, r, cache[c])
          /\ UNCHANGED <<promise, fetch>>
       \/ /\ cache[c] = 0 /\ promise[c] # 0
          /\ req' = [req EXCEPT ![r].stage = "wait", ![r].fetch = promise[c]]
          /\ UNCHANGED <<promise, fetch>>
       \/ /\ cache[c] = 0 /\ promise[c] = 0
          /\ fetch' = Sent(c, "token")
          /\ promise' = [promise EXCEPT ![c] = NextFetch]
          /\ req' = [req EXCEPT ![r].stage = "wait", ![r].fetch = NextFetch]
    /\ UNCHANGED <<keeps, jar, issued, cache, performed, reads, clears, faults>>

(* The awaited fetch is over: the cache is read, whatever is in it now.    *)
Proceed(r) ==
    LET f == req[r].fetch IN
    /\ req[r].stage = "wait" /\ fetch[f].stage \in {"done", "failed"}
    /\ \/ fetch[f].stage = "done" /\ req' = Post(req, r, cache[ClientOf[r]])
       \/ fetch[f].stage = "failed" /\ Settle(r, "error")
    /\ UNCHANGED <<keeps, jar, issued, cache, promise, fetch, performed, reads, clears, faults>>

(* @fastify/csrf-protection checks before the handler runs.                *)
Verify(r) ==
    LET good == req[r].cookie # 0 /\ req[r].token = req[r].cookie IN
    /\ req[r].stage = "sent"
    /\ req' = [req EXCEPT ![r].stage = IF good THEN "answered" ELSE "403"]
    /\ performed' = IF good THEN [performed EXCEPT ![r] = @ + 1] ELSE performed
    /\ UNCHANGED <<keeps, jar, issued, cache, promise, fetch, reads, clears, faults>>

Succeed(r) ==
    /\ req[r].stage = "answered"
    /\ Settle(r, "ok")
    /\ UNCHANGED <<keeps, jar, issued, cache, promise, fetch, performed, reads, clears, faults>>

(* The network loses the request or its answer: nothing is sent again.     *)
RequestFails(r) ==
    /\ req[r].stage \in {"sent", "answered"} /\ faults < MaxFaults
    /\ faults' = faults + 1
    /\ Settle(r, "error")
    /\ UNCHANGED <<keeps, jar, issued, cache, promise, fetch, performed, reads, clears>>

-----------------------------------------------------------------------------
MutMaybeRetry(r) ==
    LET c == ClientOf[r] IN
    /\ req[r].stage = "403"
    /\ \/ /\ req[r].retried
          /\ Settle(r, "refused")
          /\ UNCHANGED <<cache, promise, fetch>>
       \/ /\ ~req[r].retried /\ promise[c] = 0
          /\ cache' = [cache EXCEPT ![c] = 0]
          /\ fetch' = Sent(c, "token")
          /\ promise' = [promise EXCEPT ![c] = NextFetch]
          /\ req' = [Disturb(req, c, 0) EXCEPT ![r].stage = "rewait", ![r].fetch = NextFetch,
                                               ![r].disturbed = FALSE]
       \/ /\ ~req[r].retried /\ promise[c] # 0
          /\ cache' = [cache EXCEPT ![c] = 0]
          /\ req' = [Disturb(req, c, 0) EXCEPT ![r].stage = "rewait", ![r].fetch = promise[c],
                                               ![r].disturbed = FALSE]
          /\ UNCHANGED <<promise, fetch>>
    /\ UNCHANGED <<keeps, jar, issued, performed, reads, clears, faults>>

(* maybeRetry: a refused request is given a token fetched anew, once.      *)
MaybeRetry(r) ==
    LET c == ClientOf[r] IN
    /\ req[r].stage = "403"
    /\ \/ /\ req[r].retried
          /\ Settle(r, "refused")
          /\ UNCHANGED <<cache, promise, fetch>>
       \/ /\ ~req[r].retried
          /\ cache' = [cache EXCEPT ![c] = 0]
          /\ fetch' = Sent(c, "token")
          /\ promise' = [promise EXCEPT ![c] = NextFetch]
          /\ req' = [Disturb(req, c, 0) EXCEPT ![r].stage = "rewait", ![r].fetch = NextFetch,
                                               ![r].disturbed = FALSE]
    /\ UNCHANGED <<keeps, jar, issued, performed, reads, clears, faults>>

MutRetryRequest(r) ==
    LET f == req[r].fetch IN
    /\ req[r].stage = "rewait" /\ fetch[f].stage \in {"done", "failed"}
    /\ \/ fetch[f].stage = "done" /\ req' = [req EXCEPT ![r].stage = "new"]
       \/ fetch[f].stage = "failed" /\ Settle(r, "error")
    /\ UNCHANGED <<keeps, jar, issued, cache, promise, fetch, performed, reads, clears, faults>>

RetryRequest(r) ==
    LET f == req[r].fetch IN
    /\ req[r].stage = "rewait" /\ fetch[f].stage \in {"done", "failed"}
    /\ \/ fetch[f].stage = "done" /\ req' = [req EXCEPT ![r].stage = "new", ![r].retried = TRUE]
       \/ fetch[f].stage = "failed" /\ Settle(r, "error")
    /\ UNCHANGED <<keeps, jar, issued, cache, promise, fetch, performed, reads, clears, faults>>

-----------------------------------------------------------------------------
(* GET /api/session by anybody who has this client: its answer feeds the   *)
(* cache too, but no request waits for it.                                 *)
ReadSession(c) ==
    /\ reads < MaxReads
    /\ reads' = reads + 1
    /\ fetch' = Sent(c, "read")
    /\ UNCHANGED <<keeps, jar, issued, cache, promise, req, performed, clears, faults>>

(* The session handler: reply.generateCsrf makes a secret if none came.    *)
ServeSession(f) ==
    LET sets == fetch[f].secret = 0 IN
    /\ fetch[f].stage = "sent"
    /\ issued' = IF sets THEN issued + 1 ELSE issued
    /\ fetch' = [fetch EXCEPT ![f] = [@ EXCEPT !.stage = "served", !.sets = sets,
                                               !.secret = IF sets THEN issued' ELSE fetch[f].secret]]
    /\ UNCHANGED <<keeps, jar, cache, promise, req, performed, reads, clears, faults>>

(* The headers arrive: the browser stores the cookie.                      *)
StoreCookie(f) ==
    LET stores == fetch[f].sets /\ keeps IN
    /\ fetch[f].stage = "served"
    /\ fetch' = [fetch EXCEPT ![f].stage = "stored"]
    /\ jar' = IF stores THEN fetch[f].secret ELSE jar
    /\ req' = IF stores THEN Disturb(req, "all", f) ELSE req
    /\ UNCHANGED <<keeps, issued, cache, promise, performed, reads, clears, faults>>

(* updateCsrfTokenFromPayload, also when the answer is an error (503), and *)
(* the finally clause: it clears the promise even if a later fetch's.      *)
SettleFetch(f, stage) ==
    LET c == fetch[f].client IN
    /\ fetch[f].stage = "stored"
    /\ \/ stage = "done" /\ UNCHANGED faults
       \/ stage = "failed" /\ faults < MaxFaults /\ faults' = faults + 1
    /\ fetch' = [fetch EXCEPT ![f] = [@ EXCEPT !.stage = stage, !.secret = 0, !.sets = FALSE]]
    /\ cache' = [cache EXCEPT ![c] = fetch[f].secret]
    /\ promise' = IF fetch[f].kind = "token" THEN [promise EXCEPT ![c] = 0] ELSE promise
    /\ req' = Disturb(req, c, f)
    /\ UNCHANGED <<keeps, jar, issued, performed, reads, clears>>

FetchFails(f) ==
    LET c == fetch[f].client IN
    /\ fetch[f].stage \in {"sent", "served"} /\ faults < MaxFaults
    /\ faults' = faults + 1
    /\ fetch' = [fetch EXCEPT ![f] = [@ EXCEPT !.stage = "failed", !.secret = 0, !.sets = FALSE]]
    /\ promise' = IF fetch[f].kind = "token" THEN [promise EXCEPT ![c] = 0] ELSE promise
    /\ UNCHANGED <<keeps, jar, issued, cache, req, performed, reads, clears>>

(* clearCsrfTokenCache on signing in or out; a cookie that expires.        *)
ClearCache(c) ==
    /\ clears < MaxClears /\ cache[c] # 0
    /\ clears' = clears + 1
    /\ cache' = [cache EXCEPT ![c] = 0]
    /\ req' = Disturb(req, c, 0)
    /\ UNCHANGED <<keeps, jar, issued, promise, fetch, performed, reads, faults>>

LoseCookie ==
    /\ clears < MaxClears /\ jar # 0
    /\ clears' = clears + 1
    /\ jar' = 0
    /\ req' = Disturb(req, "all", 0)
    /\ UNCHANGED <<keeps, issued, cache, promise, fetch, performed, reads, faults>>

-----------------------------------------------------------------------------
Progress(r) == Prepare(r) \/ Proceed(r) \/ Verify(r) \/ Succeed(r) \/ MaybeRetry(r) \/ RetryRequest(r)

FetchStep(f) == ServeSession(f) \/ StoreCookie(f) \/ (\E stage \in {"done", "failed"} : SettleFetch(f, stage))

Next ==
    \/ \E r \in Request : Progress(r) \/ RequestFails(r)
    \/ \E f \in DOMAIN fetch : FetchStep(f) \/ FetchFails(f)
    \/ \E c \in Client : ReadSession(c) \/ ClearCache(c)
    \/ LoseCookie

Spec == Init /\ [][Next]_vars

-----------------------------------------------------------------------------
TypeOK ==
    /\ keeps \in BOOLEAN /\ {jar, issued, reads, clears, faults} \subseteq Nat
    /\ cache \in [Client -> Nat] /\ promise \in [Client -> 0..Len(fetch)]
    /\ fetch \in Seq([client : Client, kind : {"token", "read"},
                      stage : {"sent", "served", "stored", "done", "failed"}, secret : Nat, sets : BOOLEAN])
    /\ req \in [Request -> [stage : {"new", "wait", "sent", "403", "rewait", "answered"} \union Settled,
                            token : Nat, cookie : Nat, fetch : 0..Len(fetch), retried : BOOLEAN,
                            sends : Nat, disturbed : BOOLEAN]]
    /\ performed \in [Request -> Nat]

(* A request takes effect once at most, and goes out twice at most, even   *)
(* in a browser that keeps no cookies, where every token is refused.       *)
TakesEffectOnce == \A r \in Request : performed[r] <= 1 /\ req[r].sends <= 2

(* The retry repairs a token that other clients, another tab or an expired *)
(* cookie made useless.  A request is refused for good only if the cookie  *)
(* or the client's cache was changed once more between its own token fetch *)
(* and its second sending, or no cookie is kept.                           *)
RetryRepairs ==
    \A r \in Request : req[r].stage = "refused" => req[r].disturbed \/ ~keeps

=============================================================================
