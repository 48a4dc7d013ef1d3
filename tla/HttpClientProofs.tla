--------------------------- MODULE HttpClientProofs ---------------------------
(***************************************************************************)
(* What HttpClient does for any requests, clients, fetches and failures.   *)
(*                                                                         *)
(* CountInv follows how often a request was sent and took effect.          *)
(* RetryInv follows the token of its retry, from the fetch of its own that *)
(* maybeRetry starts to the second sending, as long as nothing disturbs it *)
(* and the browser keeps cookies: it is the secret in the jar.             *)
(***************************************************************************)
EXTENDS HttpClient, SequenceTheorems, TLAPS

FetchType == [client : Client, kind : {"token", "read"},
              stage : {"sent", "served", "stored", "done", "failed"}, secret : Nat, sets : BOOLEAN]
Stages == {"new", "wait", "sent", "403", "rewait", "answered"} \union Settled
ReqType(n) == [stage : Stages, token : Nat, cookie : Nat, fetch : 0..n, retried : BOOLEAN,
               sends : Nat, disturbed : BOOLEAN]

TypeInv ==
    /\ keeps \in BOOLEAN /\ {jar, issued, reads, clears, faults} \subseteq Nat
    /\ cache \in [Client -> Nat] /\ promise \in [Client -> 0..Len(fetch)]
    /\ fetch \in Seq(FetchType)
    /\ req \in [Request -> ReqType(Len(fetch))]
    /\ performed \in [Request -> Nat]

(* Before it is answered a request has taken no effect; it is sent once    *)
(* before the retry and once after it.                                     *)
CountInv(r) ==
    /\ req[r].stage \in {"new", "wait"} => req[r].sends = IF req[r].retried THEN 1 ELSE 0
    /\ req[r].stage \in {"sent", "403", "answered"} => req[r].sends = IF req[r].retried THEN 2 ELSE 1
    /\ req[r].stage = "rewait" => req[r].sends = 1 /\ ~req[r].retried
    /\ req[r].stage \in {"new", "wait", "sent", "403", "rewait"} => performed[r] = 0
    /\ req[r].sends <= 2 /\ performed[r] <= 1

(* The fetch f of a retry of client c carries the secret in the jar.       *)
Carries(f, c) ==
    /\ f \in DOMAIN fetch /\ fetch[f].client = c
    /\ fetch[f].stage = "sent" => fetch[f].secret = jar
    /\ fetch[f].stage = "served" => fetch[f].secret # 0 /\ (fetch[f].sets \/ fetch[f].secret = jar)
    /\ fetch[f].stage = "stored" => fetch[f].secret = jar /\ jar # 0
    /\ fetch[f].stage = "done" => cache[c] = jar /\ jar # 0

Fresh(r) ==
    /\ req[r].stage = "rewait" => Carries(req[r].fetch, ClientOf[r])
    /\ req[r].stage = "new" /\ req[r].retried =>
           Carries(req[r].fetch, ClientOf[r]) /\ fetch[req[r].fetch].stage = "done"
    /\ req[r].stage \in {"wait", "403"} => ~req[r].retried
    /\ req[r].stage = "sent" /\ req[r].retried => req[r].token = req[r].cookie /\ req[r].cookie # 0
    /\ req[r].stage # "refused"

RetryInv(r) == keeps /\ ~req[r].disturbed => Fresh(r)

IInv == TypeInv /\ \A r \in Request : CountInv(r) /\ RetryInv(r)

-----------------------------------------------------------------------------
LEMMA FetchTyped ==
    ASSUME TypeInv
    PROVE  /\ Len(fetch) \in Nat /\ DOMAIN fetch = 1..Len(fetch)
           /\ \A f \in DOMAIN fetch : fetch[f] \in FetchType
<1>1. fetch \in Seq(FetchType)
  BY DEF TypeInv
<1> QED
  BY <1>1, LenProperties

(* A fetch that is sent is the last one, the others stay as they are.      *)
LEMMA Sends ==
    ASSUME TypeInv, NEW c \in Client, NEW kind \in {"token", "read"}, fetch' = Sent(c, kind)
    PROVE  /\ fetch' \in Seq(FetchType) /\ Len(fetch') = NextFetch /\ NextFetch \in Nat
           /\ DOMAIN fetch' = DOMAIN fetch \union {NextFetch} /\ NextFetch \notin DOMAIN fetch
           /\ \A f \in DOMAIN fetch : fetch'[f] = fetch[f]
           /\ fetch'[NextFetch].client = c /\ fetch'[NextFetch].stage = "sent"
           /\ fetch'[NextFetch].secret = jar
           /\ 0..Len(fetch) \subseteq 0..Len(fetch')
<1> DEFINE new == [client |-> c, kind |-> kind, stage |-> "sent", secret |-> jar, sets |-> FALSE]
<1>1. new \in FetchType /\ new.client = c /\ new.stage = "sent" /\ new.secret = jar
  BY DEF TypeInv, FetchType
<1>2. fetch' = Append(fetch, new)
  BY DEF Sent
<1>3. Len(fetch) \in Nat /\ DOMAIN fetch = 1..Len(fetch)
  BY FetchTyped
<1> HIDE DEF new
<1>4. /\ fetch' \in Seq(FetchType) /\ Len(fetch') = Len(fetch) + 1
      /\ fetch'[Len(fetch) + 1] = new /\ \A f \in 1..Len(fetch) : fetch'[f] = fetch[f]
  BY <1>1, <1>2, AppendProperties DEF TypeInv
<1>5. DOMAIN fetch' = 1..(Len(fetch) + 1)
  BY <1>4, LenProperties
<1> QED
  BY <1>1, <1>3, <1>4, <1>5 DEF NextFetch

(* One fetch changes.                                                      *)
LEMMA FetchMoves ==
    ASSUME TypeInv, NEW f \in DOMAIN fetch, NEW rec \in FetchType, fetch' = [fetch EXCEPT ![f] = rec]
    PROVE  /\ fetch' \in Seq(FetchType) /\ Len(fetch') = Len(fetch) /\ DOMAIN fetch' = DOMAIN fetch
           /\ fetch'[f] = rec /\ \A g \in DOMAIN fetch : g # f => fetch'[g] = fetch[g]
<1>1. f \in 1..Len(fetch) /\ DOMAIN fetch = 1..Len(fetch)
  BY FetchTyped
<1>2. fetch' \in Seq(FetchType) /\ Len(fetch') = Len(fetch)
  BY <1>1, ExceptSeq DEF TypeInv
<1> QED
  BY <1>1, <1>2, LenProperties

(* One request changes.                                                    *)
Others(r) == \A p \in Request : p # r => req'[p] = req[p]

LEMMA ReqMoves ==
    ASSUME TypeInv, NEW r \in Request, 0..Len(fetch) \subseteq 0..Len(fetch'),
           NEW rec \in ReqType(Len(fetch')), req' = [req EXCEPT ![r] = rec]
    PROVE  req' \in [Request -> ReqType(Len(fetch'))] /\ req'[r] = rec /\ Others(r)
<1>1. \A p \in Request : req[p] \in ReqType(Len(fetch'))
  BY DEF TypeInv, ReqType
<1> QED
  BY <1>1 DEF TypeInv, Others

LEMMA SettleMoves ==
    ASSUME TypeInv, NEW r \in Request, NEW stage \in Settled, Settle(r, stage), UNCHANGED fetch
    PROVE  /\ req' \in [Request -> ReqType(Len(fetch'))] /\ Others(r)
           /\ req'[r].stage = stage /\ req'[r].sends = req[r].sends
           /\ req'[r].disturbed = (stage = "refused" /\ req[r].disturbed)
<1> DEFINE sends == req[r].sends
           disturbed == stage = "refused" /\ req[r].disturbed
           rec == [New EXCEPT !.stage = stage, !.sends = sends, !.disturbed = disturbed]
<1>1. sends \in Nat /\ disturbed \in BOOLEAN /\ 0 \in 0..Len(fetch) /\ Len(fetch) \in Nat
  BY FetchTyped DEF TypeInv, ReqType
<1>2. req' = [req EXCEPT ![r] = rec]
  BY DEF Settle
<1> HIDE DEF sends, disturbed
<1>3. rec \in ReqType(Len(fetch')) /\ rec.stage = stage /\ rec.sends = sends /\ rec.disturbed = disturbed
  BY <1>1 DEF New, ReqType, Stages
<1> HIDE DEF rec
<1>4. req' \in [Request -> ReqType(Len(fetch'))] /\ req'[r] = rec /\ Others(r)
  BY <1>2, <1>3, ReqMoves
<1> QED
  BY <1>3, <1>4 DEF sends, disturbed

(* A disturbed request is marked so and nothing else; one that is not      *)
(* marked has its own fetch's change or none.                              *)
LEMMA Disturbs ==
    ASSUME TypeInv, NEW c, NEW own, UNCHANGED Len(fetch), req' = Disturb(req, c, own)
    PROVE  /\ req' \in [Request -> ReqType(Len(fetch'))]
           /\ \A r \in Request :
                 /\ req'[r].stage = req[r].stage /\ req'[r].sends = req[r].sends
                 /\ req'[r].retried = req[r].retried
                 /\ ~req'[r].disturbed =>
                       /\ req'[r] = req[r]
                       /\ req[r].stage \in {"new", "wait", "rewait"} =>
                             c \notin {ClientOf[r], "all"} \/ req[r].fetch = own
<1>1. ASSUME NEW r \in Request
      PROVE  /\ req'[r] \in ReqType(Len(fetch'))
             /\ req'[r].stage = req[r].stage /\ req'[r].sends = req[r].sends
             /\ req'[r].retried = req[r].retried
             /\ ~req'[r].disturbed =>
                   /\ req'[r] = req[r]
                   /\ req[r].stage \in {"new", "wait", "rewait"} =>
                         c \notin {ClientOf[r], "all"} \/ req[r].fetch = own
  <2>1. req[r] \in ReqType(Len(fetch'))
    BY DEF TypeInv
  <2>2. CASE req[r].stage \in {"new", "wait", "rewait"} /\ c \in {ClientOf[r], "all"} /\ req[r].fetch # own
    <3>1. req'[r] = [req[r] EXCEPT !.disturbed = TRUE]
      BY <2>2 DEF Disturb
    <3> QED
      BY <2>1, <3>1 DEF ReqType
  <2>3. CASE ~(req[r].stage \in {"new", "wait", "rewait"} /\ c \in {ClientOf[r], "all"} /\ req[r].fetch # own)
    <3>1. req'[r] = req[r]
      BY <2>3 DEF Disturb
    <3> QED
      BY <2>1, <2>3, <3>1
  <2> QED
    BY <2>2, <2>3
<1>2. req' = [r \in Request |-> req'[r]]
  BY DEF Disturb
<1> QED
  BY <1>1, <1>2

-----------------------------------------------------------------------------
(* What is known of a request that a step leaves alone.                    *)
LEMMA FreshStays ==
    ASSUME NEW r \in Request, req'[r] = req[r], Fresh(r),
           req[r].stage = "rewait" \/ (req[r].stage = "new" /\ req[r].retried) =>
               /\ jar' = jar /\ cache'[ClientOf[r]] = cache[ClientOf[r]]
               /\ DOMAIN fetch \subseteq DOMAIN fetch' /\ fetch'[req[r].fetch] = fetch[req[r].fetch]
    PROVE  Fresh(r)'
BY DEF Fresh, Carries

LEMMA StepOfOne ==
    ASSUME IInv, NEW p \in Request, TypeInv', Others(p), UNCHANGED <<keeps, jar, cache>>,
           DOMAIN fetch \subseteq DOMAIN fetch', \A f \in DOMAIN fetch : fetch'[f] = fetch[f],
           \A r \in Request : r # p => performed'[r] = performed[r],
           CountInv(p)', RetryInv(p)'
    PROVE  IInv'
<1>1. ASSUME NEW r \in Request, r # p PROVE CountInv(r)' /\ RetryInv(r)'
  <2>1. req'[r] = req[r] /\ CountInv(r) /\ RetryInv(r) /\ performed'[r] = performed[r]
    BY <1>1 DEF Others, IInv
  <2>2. CountInv(r)'
    BY <2>1 DEF CountInv
  <2>3. ASSUME keeps, ~req[r].disturbed PROVE Fresh(r)'
    <3>1. Fresh(r)
      BY <2>1, <2>3 DEF RetryInv
    <3>2. req[r].stage = "rewait" \/ (req[r].stage = "new" /\ req[r].retried) =>
              req[r].fetch \in DOMAIN fetch
      BY <3>1 DEF Fresh, Carries
    <3> QED
      BY <2>1, <3>1, <3>2, FreshStays
  <2> QED
    BY <2>1, <2>2, <2>3 DEF RetryInv
<1> QED
  BY <1>1 DEF IInv

(* A step that changes cookies, caches and fetches, and at most disturbs   *)
(* requests.                                                               *)
LEMMA StepOfNone ==
    ASSUME IInv, TypeInv', UNCHANGED <<keeps, performed>>,
           \A r \in Request : /\ req'[r].stage = req[r].stage /\ req'[r].sends = req[r].sends
                              /\ req'[r].retried = req[r].retried
                              /\ ~req'[r].disturbed => req'[r] = req[r],
           \A r \in Request : keeps /\ ~req'[r].disturbed /\ req'[r] = req[r] /\ Fresh(r) => Fresh(r)'
    PROVE  IInv'
<1>1. ASSUME NEW r \in Request PROVE CountInv(r)' /\ RetryInv(r)'
  <2>1. CountInv(r) /\ RetryInv(r)
    BY DEF IInv
  <2>2. CountInv(r)'
    BY <2>1 DEF CountInv
  <2>3. RetryInv(r)'
    BY <2>1 DEF RetryInv
  <2> QED
    BY <2>2, <2>3
<1> QED
  BY <1>1 DEF IInv

-----------------------------------------------------------------------------
LEMMA InitInv == Init => IInv
<1> SUFFICES ASSUME Init PROVE IInv
  OBVIOUS
<1>1. fetch = << >> /\ Len(fetch) = 0 /\ fetch \in Seq(FetchType)
  BY DEF Init
<1>2. New \in ReqType(0)
  BY DEF New, ReqType, Stages
<1>3. req \in [Request -> ReqType(Len(fetch))] /\ \A r \in Request : req[r] = New
  BY <1>1, <1>2 DEF Init
<1>4. TypeInv
  BY <1>1, <1>3, HttpAssumption DEF Init, TypeInv
<1>5. ASSUME NEW r \in Request PROVE CountInv(r) /\ RetryInv(r)
  <2>1. req[r] = New /\ performed[r] = 0
    BY <1>3 DEF Init
  <2> QED
    BY <2>1 DEF CountInv, RetryInv, Fresh, New
<1> QED
  BY <1>4, <1>5 DEF IInv

(* How a request is sent.                                                  *)
LEMMA Posts ==
    ASSUME TypeInv, NEW r \in Request, NEW token \in Nat, req' = Post(req, r, token), UNCHANGED fetch
    PROVE  /\ req' \in [Request -> ReqType(Len(fetch'))] /\ Others(r)
           /\ req'[r].stage = "sent" /\ req'[r].token = token /\ req'[r].cookie = jar
           /\ req'[r].sends = req[r].sends + 1
           /\ req'[r].retried = req[r].retried /\ req'[r].disturbed = req[r].disturbed
<1> DEFINE sends == req[r].sends + 1
           rec == [req[r] EXCEPT !.stage = "sent", !.token = token, !.cookie = jar, !.sends = sends]
<1>1. req[r] \in ReqType(Len(fetch)) /\ jar \in Nat /\ sends \in Nat
  BY DEF TypeInv, ReqType
<1>2. req' = [req EXCEPT ![r] = rec]
  BY <1>1 DEF Post, TypeInv, ReqType
<1> HIDE DEF sends
<1>3. /\ rec \in ReqType(Len(fetch')) /\ rec.stage = "sent" /\ rec.token = token /\ rec.cookie = jar
      /\ rec.sends = sends /\ rec.retried = req[r].retried /\ rec.disturbed = req[r].disturbed
  BY <1>1 DEF ReqType, Stages
<1> HIDE DEF rec
<1>4. req' \in [Request -> ReqType(Len(fetch'))] /\ req'[r] = rec /\ Others(r)
  BY <1>2, <1>3, ReqMoves
<1> QED
  BY <1>3, <1>4 DEF sends

LEMMA PrepareStep == ASSUME IInv, NEW r \in Request, Prepare(r) PROVE IInv'
<1> DEFINE c == ClientOf[r]
<1>0. /\ TypeInv /\ c \in Client /\ req[r].stage = "new" /\ req[r] \in ReqType(Len(fetch))
      /\ CountInv(r) /\ RetryInv(r) /\ cache[c] \in Nat /\ promise[c] \in 0..Len(fetch)
      /\ UNCHANGED <<keeps, jar, issued, cache, performed, reads, clears, faults>>
  BY HttpAssumption DEF IInv, TypeInv, Prepare
<1>1. CASE cache[c] # 0 /\ req' = Post(req, r, cache[c]) /\ UNCHANGED <<promise, fetch>>
  <2>1. /\ req' \in [Request -> ReqType(Len(fetch'))] /\ Others(r)
        /\ req'[r].stage = "sent" /\ req'[r].token = cache[c] /\ req'[r].cookie = jar
        /\ req'[r].sends = req[r].sends + 1
        /\ req'[r].retried = req[r].retried /\ req'[r].disturbed = req[r].disturbed
    BY <1>0, <1>1, Posts
  <2>2. TypeInv'
    BY <1>0, <1>1, <2>1 DEF TypeInv
  <2>3. CountInv(r)'
    BY <1>0, <2>1 DEF CountInv
  <2>4. RetryInv(r)'
    BY <1>0, <2>1 DEF RetryInv, Fresh, Carries
  <2> QED
    BY <1>0, <1>1, <2>1, <2>2, <2>3, <2>4, StepOfOne
<1>2. ASSUME cache[c] = 0, NEW f \in 0..Len(fetch'),
             req' = [req EXCEPT ![r].stage = "wait", ![r].fetch = f],
             \/ UNCHANGED <<promise, fetch>>
             \/ fetch' = Sent(c, "token") /\ promise' = [promise EXCEPT ![c] = NextFetch]
      PROVE  IInv'
  <2> DEFINE rec == [req[r] EXCEPT !.stage = "wait", !.fetch = f]
  <2>1. /\ fetch' \in Seq(FetchType) /\ 0..Len(fetch) \subseteq 0..Len(fetch')
        /\ DOMAIN fetch \subseteq DOMAIN fetch' /\ \A g \in DOMAIN fetch : fetch'[g] = fetch[g]
        /\ promise' \in [Client -> 0..Len(fetch')]
    <3>1. CASE UNCHANGED <<promise, fetch>>
      BY <1>0, <3>1 DEF TypeInv
    <3>2. CASE fetch' = Sent(c, "token") /\ promise' = [promise EXCEPT ![c] = NextFetch]
      <4>1. /\ fetch' \in Seq(FetchType) /\ 0..Len(fetch) \subseteq 0..Len(fetch')
            /\ DOMAIN fetch \subseteq DOMAIN fetch' /\ \A g \in DOMAIN fetch : fetch'[g] = fetch[g]
            /\ NextFetch \in 0..Len(fetch')
        BY <1>0, <3>2, Sends
      <4> QED
        BY <1>0, <3>2, <4>1 DEF TypeInv
    <3> QED
      BY <1>2, <3>1, <3>2
  <2>2. req' = [req EXCEPT ![r] = rec]
    BY <1>0, <1>2 DEF TypeInv, ReqType
  <2>3. /\ rec \in ReqType(Len(fetch')) /\ rec.stage = "wait" /\ rec.sends = req[r].sends
        /\ rec.retried = req[r].retried /\ rec.disturbed = req[r].disturbed
    BY <1>0, <1>2, <2>1 DEF ReqType, Stages
  <2> HIDE DEF rec
  <2>4. req' \in [Request -> ReqType(Len(fetch'))] /\ req'[r] = rec /\ Others(r)
    BY <1>0, <2>1, <2>2, <2>3, ReqMoves
  <2>5. TypeInv'
    BY <1>0, <2>1, <2>4 DEF TypeInv
  <2>6. CountInv(r)'
    BY <1>0, <2>3, <2>4 DEF CountInv
  <2>7. RetryInv(r)'
    BY <1>0, <1>2, <2>3, <2>4 DEF RetryInv, Fresh, Carries
  <2> QED
    BY <1>0, <2>1, <2>4, <2>5, <2>6, <2>7, StepOfOne
<1>3. NextFetch \in 0..Len(Sent(c, "token"))
  <2>1. Len(fetch) \in Nat /\ fetch \in Seq(FetchType)
    BY <1>0, FetchTyped DEF TypeInv
  <2>2. Len(Sent(c, "token")) = Len(fetch) + 1
    BY <2>1, Z3 DEF Sent
  <2> QED
    BY <2>1, <2>2 DEF NextFetch
<1> QED
  BY <1>0, <1>1, <1>2, <1>3 DEF Prepare

LEMMA ProceedStep == ASSUME IInv, NEW r \in Request, Proceed(r) PROVE IInv'
<1> DEFINE c == ClientOf[r]
<1>0. /\ TypeInv /\ c \in Client /\ req[r].stage = "wait" /\ cache[c] \in Nat
      /\ CountInv(r) /\ RetryInv(r)
      /\ UNCHANGED <<keeps, jar, issued, cache, promise, fetch, performed, reads, clears, faults>>
  BY HttpAssumption DEF IInv, TypeInv, Proceed
<1>1. CASE req' = Post(req, r, cache[c])
  <2>1. /\ req' \in [Request -> ReqType(Len(fetch'))] /\ Others(r)
        /\ req'[r].stage = "sent" /\ req'[r].sends = req[r].sends + 1
        /\ req'[r].retried = req[r].retried /\ req'[r].disturbed = req[r].disturbed
    BY <1>0, <1>1, Posts
  <2>2. TypeInv'
    BY <1>0, <2>1 DEF TypeInv
  <2>3. CountInv(r)'
    BY <1>0, <2>1 DEF CountInv
  <2>4. RetryInv(r)'
    BY <1>0, <2>1 DEF RetryInv, Fresh
  <2> QED
    BY <1>0, <2>1, <2>2, <2>3, <2>4, StepOfOne
<1>2. CASE Settle(r, "error")
  <2>1. /\ req' \in [Request -> ReqType(Len(fetch'))] /\ Others(r)
        /\ req'[r].stage = "error" /\ req'[r].sends = req[r].sends
    BY <1>0, <1>2, SettleMoves DEF Settled
  <2>2. TypeInv'
    BY <1>0, <2>1 DEF TypeInv
  <2>3. CountInv(r)'
    BY <1>0, <2>1 DEF CountInv
  <2>4. RetryInv(r)'
    BY <2>1 DEF RetryInv, Fresh
  <2> QED
    BY <1>0, <2>1, <2>2, <2>3, <2>4, StepOfOne
<1> QED
  BY <1>1, <1>2 DEF Proceed

LEMMA VerifyStep == ASSUME IInv, NEW r \in Request, Verify(r) PROVE IInv'
<1> DEFINE good == req[r].cookie # 0 /\ req[r].token = req[r].cookie
           stage == IF good THEN "answered" ELSE "403"
           rec == [req[r] EXCEPT !.stage = stage]
<1>0. /\ TypeInv /\ req[r].stage = "sent" /\ req[r] \in ReqType(Len(fetch))
      /\ CountInv(r) /\ RetryInv(r)
      /\ UNCHANGED <<keeps, jar, issued, cache, promise, fetch, reads, clears, faults>>
      /\ performed' = IF good THEN [performed EXCEPT ![r] = @ + 1] ELSE performed
  BY DEF IInv, TypeInv, Verify
<1>1. stage \in Stages /\ (good <=> stage = "answered") /\ stage \in {"answered", "403"}
  BY DEF Stages
<1>2. req' = [req EXCEPT ![r] = rec]
  BY <1>0 DEF Verify, TypeInv, ReqType
<1> HIDE DEF stage
<1>3. /\ rec \in ReqType(Len(fetch')) /\ rec.stage = stage /\ rec.sends = req[r].sends
      /\ rec.retried = req[r].retried /\ rec.disturbed = req[r].disturbed
  BY <1>0, <1>1 DEF ReqType
<1> HIDE DEF rec
<1>4. req' \in [Request -> ReqType(Len(fetch'))] /\ req'[r] = rec /\ Others(r)
  BY <1>0, <1>2, <1>3, ReqMoves
<1>5. performed' \in [Request -> Nat] /\ \A p \in Request : p # r => performed'[p] = performed[p]
  BY <1>0 DEF TypeInv
<1>6. performed'[r] = IF good THEN 1 ELSE 0
  BY <1>0 DEF TypeInv, CountInv
<1>7. TypeInv'
  BY <1>0, <1>4, <1>5 DEF TypeInv
<1>8. CountInv(r)'
  BY <1>0, <1>1, <1>3, <1>4, <1>6 DEF CountInv
<1>9. RetryInv(r)'
  <2> SUFFICES ASSUME keeps, ~req[r].disturbed PROVE Fresh(r)'
    BY <1>0, <1>3, <1>4 DEF RetryInv
  <2>1. req[r].retried => good
    BY <1>0 DEF RetryInv, Fresh
  <2> QED
    BY <1>1, <1>3, <1>4, <2>1 DEF Fresh
<1> QED
  BY <1>0, <1>4, <1>5, <1>7, <1>8, <1>9, StepOfOne

(* A request is answered.                                                  *)
LEMMA Settles ==
    ASSUME IInv, NEW r \in Request, NEW stage \in Settled, Settle(r, stage), req[r].stage \notin Settled,
           stage = "refused" /\ keeps => req[r].disturbed, faults' \in Nat,
           UNCHANGED <<keeps, jar, issued, cache, promise, fetch, performed, reads, clears>>
    PROVE  IInv'
<1>0. TypeInv /\ CountInv(r) /\ req[r] \in ReqType(Len(fetch))
  BY DEF IInv, TypeInv
<1>1. /\ req' \in [Request -> ReqType(Len(fetch'))] /\ Others(r)
      /\ req'[r].stage = stage /\ req'[r].sends = req[r].sends
      /\ req'[r].disturbed = (stage = "refused" /\ req[r].disturbed)
  BY <1>0, SettleMoves
<1>2. TypeInv'
  BY <1>0, <1>1 DEF TypeInv
<1>3. CountInv(r)'
  BY <1>0, <1>1 DEF CountInv, Settled
<1>4. RetryInv(r)'
  BY <1>1 DEF RetryInv, Fresh, Settled
<1> QED
  BY <1>0, <1>1, <1>2, <1>3, <1>4, StepOfOne

LEMMA SucceedStep == ASSUME IInv, NEW r \in Request, Succeed(r) PROVE IInv'
BY Settles DEF Succeed, Settled, IInv, TypeInv

LEMMA RequestFailsStep == ASSUME IInv, NEW r \in Request, RequestFails(r) PROVE IInv'
<1>1. faults' \in Nat
  BY DEF RequestFails, IInv, TypeInv
<1> QED
  BY <1>1, Settles DEF RequestFails, Settled

LEMMA RetryRequestStep == ASSUME IInv, NEW r \in Request, RetryRequest(r) PROVE IInv'
<1> DEFINE rec == [req[r] EXCEPT !.stage = "new", !.retried = TRUE]
<1>0. /\ TypeInv /\ req[r].stage = "rewait" /\ req[r] \in ReqType(Len(fetch))
      /\ CountInv(r) /\ RetryInv(r)
      /\ UNCHANGED <<keeps, jar, issued, cache, promise, fetch, performed, reads, clears, faults>>
  BY DEF IInv, TypeInv, RetryRequest
<1>1. CASE Settle(r, "error")
  <2>1. faults' \in Nat
    BY <1>0 DEF TypeInv
  <2> QED
    BY <1>0, <1>1, <2>1, Settles DEF Settled
<1>2. CASE fetch[req[r].fetch].stage = "done" /\ req' = [req EXCEPT ![r].stage = "new", ![r].retried = TRUE]
  <2>1. req' = [req EXCEPT ![r] = rec]
    BY <1>0, <1>2 DEF TypeInv, ReqType
  <2>2. /\ rec \in ReqType(Len(fetch')) /\ rec.stage = "new" /\ rec.sends = req[r].sends
        /\ rec.retried = TRUE /\ rec.disturbed = req[r].disturbed /\ rec.fetch = req[r].fetch
    BY <1>0 DEF ReqType, Stages
  <2> HIDE DEF rec
  <2>3. req' \in [Request -> ReqType(Len(fetch'))] /\ req'[r] = rec /\ Others(r)
    BY <1>0, <2>1, <2>2, ReqMoves
  <2>4. TypeInv'
    BY <1>0, <2>3 DEF TypeInv
  <2>5. CountInv(r)'
    BY <1>0, <2>2, <2>3 DEF CountInv
  <2>6. RetryInv(r)'
    BY <1>0, <1>2, <2>2, <2>3 DEF RetryInv, Fresh, Carries
  <2> QED
    BY <1>0, <2>3, <2>4, <2>5, <2>6, StepOfOne
<1> QED
  BY <1>1, <1>2 DEF RetryRequest

LEMMA MaybeRetryStep == ASSUME IInv, NEW r \in Request, MaybeRetry(r) PROVE IInv'
<1> DEFINE c == ClientOf[r]
<1>0. /\ TypeInv /\ c \in Client /\ req[r].stage = "403" /\ req[r] \in ReqType(Len(fetch))
      /\ CountInv(r) /\ RetryInv(r)
      /\ UNCHANGED <<keeps, jar, issued, performed, reads, clears, faults>>
  BY HttpAssumption DEF IInv, TypeInv, MaybeRetry
<1>1. CASE req[r].retried /\ Settle(r, "refused") /\ UNCHANGED <<cache, promise, fetch>>
  <2>1. keeps => req[r].disturbed
    BY <1>0, <1>1 DEF RetryInv, Fresh
  <2>2. faults' \in Nat
    BY <1>0 DEF TypeInv
  <2> QED
    BY <1>0, <1>1, <2>1, <2>2, Settles DEF Settled
<1>2. ASSUME ~req[r].retried, cache' = [cache EXCEPT ![c] = 0], fetch' = Sent(c, "token"),
             promise' = [promise EXCEPT ![c] = NextFetch],
             req' = [Disturb(req, c, 0) EXCEPT ![r].stage = "rewait", ![r].fetch = NextFetch,
                                               ![r].disturbed = FALSE]
      PROVE  IInv'
  <2> DEFINE n == NextFetch
             rec == [req[r] EXCEPT !.stage = "rewait", !.fetch = n, !.disturbed = FALSE]
  <2>1. /\ fetch' \in Seq(FetchType) /\ Len(fetch') = NextFetch /\ NextFetch \in Nat
        /\ DOMAIN fetch' = DOMAIN fetch \union {NextFetch} /\ NextFetch \notin DOMAIN fetch
        /\ fetch'[NextFetch].client = c /\ fetch'[NextFetch].stage = "sent"
        /\ fetch'[NextFetch].secret = jar
        /\ 0..Len(fetch) \subseteq 0..Len(fetch')
        /\ \A f \in DOMAIN fetch : fetch'[f] = fetch[f]
    BY <1>0, <1>2, Sends
  <2>2. /\ rec \in ReqType(Len(fetch')) /\ rec.stage = "rewait" /\ rec.sends = req[r].sends
        /\ rec.retried = req[r].retried /\ rec.fetch = NextFetch
    <3>1. n \in 0..Len(fetch') /\ req[r] \in ReqType(Len(fetch'))
      BY <1>0, <2>1 DEF ReqType
    <3> HIDE DEF n
    <3> SUFFICES rec \in ReqType(Len(fetch')) /\ rec.stage = "rewait" /\ rec.sends = req[r].sends
                 /\ rec.retried = req[r].retried /\ rec.fetch = n
      BY DEF n
    <3> QED
      BY <3>1 DEF ReqType, Stages
  <2>3. Disturb(req, c, 0)[r] = req[r]
    BY <1>0 DEF Disturb
  <2>4. req'[r] = rec
    BY <1>0, <1>2, <2>3 DEF Disturb, ReqType
  <2>5. \A p \in Request : p # r => req'[p] = Disturb(req, c, 0)[p]
    BY <1>2 DEF Disturb
  <2> HIDE DEF rec
  <2>6. ASSUME NEW p \in Request, p # r
        PROVE  /\ req'[p] \in ReqType(Len(fetch'))
               /\ req'[p].stage = req[p].stage /\ req'[p].sends = req[p].sends
               /\ req'[p].retried = req[p].retried
               /\ ~req'[p].disturbed => req'[p] = req[p] /\
                     (req[p].stage \in {"new", "wait", "rewait"} => c # ClientOf[p] \/ req[p].fetch = 0)
    <3>1. req[p] \in ReqType(Len(fetch'))
      BY <1>0, <2>1 DEF TypeInv, ReqType
    <3>2. \/ req'[p] = [req[p] EXCEPT !.disturbed = TRUE]
          \/ req'[p] = req[p] /\ (req[p].stage \in {"new", "wait", "rewait"} => c # ClientOf[p] \/ req[p].fetch = 0)
      BY <2>5, <2>6 DEF Disturb
    <3> QED
      BY <3>1, <3>2 DEF ReqType
  <2>7. req' \in [Request -> ReqType(Len(fetch'))]
    <3>1. req' = [p \in Request |-> req'[p]]
      BY <1>2 DEF Disturb
    <3> QED
      BY <2>2, <2>4, <2>6, <3>1
  <2>8. TypeInv'
    <3>1. cache' \in [Client -> Nat] /\ promise' \in [Client -> 0..Len(fetch')]
      BY <1>0, <1>2, <2>1 DEF TypeInv
    <3> QED
      BY <1>0, <2>1, <2>7, <3>1 DEF TypeInv
  <2>9. CountInv(r)'
    BY <1>0, <1>2, <2>2, <2>4 DEF CountInv
  <2>10. RetryInv(r)'
    <3>1. Carries(req[r].fetch, ClientOf[r])'
      BY <1>0, <2>1, <2>2, <2>4 DEF Carries
    <3> QED
      BY <2>2, <2>4, <3>1 DEF RetryInv, Fresh
  <2>11. ASSUME NEW p \in Request, p # r PROVE CountInv(p)' /\ RetryInv(p)'
    <3>1. CountInv(p) /\ RetryInv(p) /\ performed'[p] = performed[p]
      BY <1>0 DEF IInv
    <3>2. CountInv(p)'
      BY <2>6, <2>11, <3>1 DEF CountInv
    <3>3. ASSUME keeps, ~req'[p].disturbed PROVE Fresh(p)'
      <4>1. req'[p] = req[p] /\ Fresh(p)
        BY <2>6, <2>11, <3>1, <3>3 DEF RetryInv
      <4>2. req[p].stage = "rewait" \/ (req[p].stage = "new" /\ req[p].retried) =>
                c # ClientOf[p] /\ req[p].fetch \in DOMAIN fetch
        <5>1. 0 \notin DOMAIN fetch
          BY <1>0, FetchTyped
        <5> QED
          BY <2>6, <2>11, <3>3, <4>1, <5>1 DEF Fresh, Carries
      <4>3. c # ClientOf[p] => cache'[ClientOf[p]] = cache[ClientOf[p]]
        BY <1>0, <1>2, HttpAssumption DEF TypeInv
      <4> QED
        BY <1>0, <2>1, <4>1, <4>2, <4>3, FreshStays
    <3> QED
      BY <1>0, <3>2, <3>3 DEF RetryInv
  <2> QED
    BY <2>8, <2>9, <2>10, <2>11 DEF IInv
<1> QED
  BY <1>1, <1>2 DEF MaybeRetry

-----------------------------------------------------------------------------
LEMMA ReadSessionStep == ASSUME IInv, NEW c \in Client, ReadSession(c) PROVE IInv'
<1>0. TypeInv /\ UNCHANGED <<keeps, jar, issued, cache, promise, req, performed, clears, faults>>
      /\ reads' \in Nat /\ fetch' = Sent(c, "read")
  BY DEF IInv, TypeInv, ReadSession
<1>1. /\ fetch' \in Seq(FetchType) /\ 0..Len(fetch) \subseteq 0..Len(fetch')
      /\ DOMAIN fetch \subseteq DOMAIN fetch' /\ \A g \in DOMAIN fetch : fetch'[g] = fetch[g]
  BY <1>0, Sends
<1>2. TypeInv'
  BY <1>0, <1>1 DEF TypeInv, ReqType
<1>3. ASSUME NEW r \in Request, Fresh(r) PROVE Fresh(r)'
  <2>1. req[r].stage = "rewait" \/ (req[r].stage = "new" /\ req[r].retried) => req[r].fetch \in DOMAIN fetch
    BY <1>3 DEF Fresh, Carries
  <2> QED
    BY <1>0, <1>1, <1>3, <2>1, FreshStays
<1> QED
  BY <1>0, <1>2, <1>3, StepOfNone

LEMMA ServeSessionStep == ASSUME IInv, NEW f \in DOMAIN fetch, ServeSession(f) PROVE IInv'
<1> DEFINE sets == fetch[f].secret = 0
           secret == IF sets THEN issued' ELSE fetch[f].secret
           rec == [fetch[f] EXCEPT !.stage = "served", !.sets = sets, !.secret = secret]
<1>0. /\ TypeInv /\ fetch[f] \in FetchType /\ fetch[f].stage = "sent" /\ issued \in Nat
      /\ UNCHANGED <<keeps, jar, cache, promise, req, performed, reads, clears, faults>>
      /\ issued' \in Nat /\ issued' = IF sets THEN issued + 1 ELSE issued
  BY FetchTyped DEF IInv, TypeInv, ServeSession
<1>1. fetch' = [fetch EXCEPT ![f] = rec]
  BY <1>0 DEF ServeSession, FetchType
<1>2. sets \in BOOLEAN /\ secret \in Nat /\ secret # 0 /\ (sets \/ secret = fetch[f].secret)
  BY <1>0 DEF FetchType
<1> HIDE DEF sets, secret
<1>3. /\ rec \in FetchType /\ rec.stage = "served" /\ rec.sets = sets /\ rec.secret = secret
      /\ rec.client = fetch[f].client
  BY <1>0, <1>2 DEF FetchType
<1> HIDE DEF rec
<1>4. /\ fetch' \in Seq(FetchType) /\ Len(fetch') = Len(fetch) /\ DOMAIN fetch' = DOMAIN fetch
      /\ fetch'[f] = rec /\ \A g \in DOMAIN fetch : g # f => fetch'[g] = fetch[g]
  BY <1>0, <1>1, <1>3, FetchMoves
<1>5. TypeInv'
  BY <1>0, <1>4 DEF TypeInv
<1>6. ASSUME NEW r \in Request, Fresh(r) PROVE Fresh(r)'
  <2>1. CASE req[r].stage = "rewait" /\ req[r].fetch = f
    <3>1. fetch[f].client = ClientOf[r] /\ fetch[f].secret = jar
      BY <1>0, <1>6, <2>1 DEF Fresh, Carries
    <3>2. Carries(f, ClientOf[r])'
      BY <1>0, <1>2, <1>3, <1>4, <3>1 DEF Carries
    <3> QED
      BY <1>0, <2>1, <3>2 DEF Fresh, Carries
  <2>2. CASE ~(req[r].stage = "rewait" /\ req[r].fetch = f)
    <3>1. req[r].stage = "rewait" \/ (req[r].stage = "new" /\ req[r].retried) =>
              req[r].fetch \in DOMAIN fetch /\ req[r].fetch # f
      BY <1>0, <1>6, <2>2 DEF Fresh, Carries
    <3> QED
      BY <1>0, <1>4, <1>6, <3>1, FreshStays
  <2> QED
    BY <2>1, <2>2
<1> QED
  BY <1>0, <1>5, <1>6, StepOfNone

LEMMA StoreCookieStep == ASSUME IInv, NEW f \in DOMAIN fetch, StoreCookie(f) PROVE IInv'
<1> DEFINE stores == fetch[f].sets /\ keeps
           rec == [fetch[f] EXCEPT !.stage = "stored"]
<1>0. /\ TypeInv /\ fetch[f] \in FetchType /\ fetch[f].stage = "served"
      /\ UNCHANGED <<keeps, issued, cache, promise, performed, reads, clears, faults>>
      /\ jar' = IF stores THEN fetch[f].secret ELSE jar
      /\ req' = IF stores THEN Disturb(req, "all", f) ELSE req
  BY FetchTyped DEF IInv, TypeInv, StoreCookie
<1>1. fetch' = [fetch EXCEPT ![f] = rec]
  BY <1>0 DEF StoreCookie, FetchType
<1>2. /\ rec \in FetchType /\ rec.stage = "stored" /\ rec.secret = fetch[f].secret
      /\ rec.client = fetch[f].client
  BY <1>0 DEF FetchType
<1> HIDE DEF rec
<1>3. /\ fetch' \in Seq(FetchType) /\ Len(fetch') = Len(fetch) /\ DOMAIN fetch' = DOMAIN fetch
      /\ fetch'[f] = rec /\ \A g \in DOMAIN fetch : g # f => fetch'[g] = fetch[g]
  BY <1>0, <1>1, <1>2, FetchMoves
<1>4. /\ req' \in [Request -> ReqType(Len(fetch'))]
      /\ \A r \in Request :
            /\ req'[r].stage = req[r].stage /\ req'[r].sends = req[r].sends
            /\ req'[r].retried = req[r].retried
            /\ ~req'[r].disturbed => req'[r] = req[r]
            /\ ~req'[r].disturbed /\ stores /\ req[r].stage \in {"new", "wait", "rewait"} => req[r].fetch = f
  <2>1. CASE stores
    BY <1>0, <1>3, <2>1, Disturbs
  <2>2. CASE ~stores
    BY <1>0, <1>3, <2>2 DEF TypeInv
  <2> QED
    BY <2>1, <2>2
<1>5. TypeInv'
  <2>1. jar' \in Nat
    BY <1>0 DEF TypeInv, FetchType
  <2> QED
    BY <1>0, <1>3, <1>4, <2>1 DEF TypeInv
<1>6. ASSUME NEW r \in Request, keeps, ~req'[r].disturbed, req'[r] = req[r], Fresh(r) PROVE Fresh(r)'
  <2>1. CASE req[r].stage = "rewait" /\ req[r].fetch = f
    <3>1. /\ fetch[f].client = ClientOf[r] /\ fetch[f].secret # 0
          /\ fetch[f].sets \/ fetch[f].secret = jar
      BY <1>0, <1>6, <2>1 DEF Fresh, Carries
    <3>2. Carries(f, ClientOf[r])'
      BY <1>0, <1>2, <1>3, <1>6, <3>1 DEF Carries
    <3> QED
      BY <1>6, <2>1, <3>2 DEF Fresh, Carries
  <2>2. CASE ~(req[r].stage = "rewait" /\ req[r].fetch = f)
    <3>1. req[r].stage = "rewait" \/ (req[r].stage = "new" /\ req[r].retried) =>
              req[r].fetch \in DOMAIN fetch /\ req[r].fetch # f
      BY <1>0, <1>6, <2>2 DEF Fresh, Carries
    <3>2. req[r].stage = "rewait" \/ (req[r].stage = "new" /\ req[r].retried) => ~stores
      BY <1>4, <1>6, <3>1
    <3> QED
      BY <1>0, <1>3, <1>6, <3>1, <3>2, FreshStays
  <2> QED
    BY <2>1, <2>2
<1> QED
  BY <1>0, <1>4, <1>5, <1>6, StepOfNone

LEMMA SettleFetchStep ==
    ASSUME IInv, NEW f \in DOMAIN fetch, NEW stage \in {"done", "failed"}, SettleFetch(f, stage)
    PROVE  IInv'
<1> DEFINE c == fetch[f].client
           rec == [fetch[f] EXCEPT !.stage = stage, !.secret = 0, !.sets = FALSE]
<1>0. /\ TypeInv /\ fetch[f] \in FetchType /\ fetch[f].stage = "stored" /\ c \in Client
      /\ UNCHANGED <<keeps, jar, issued, performed, reads, clears>> /\ faults' \in Nat
      /\ cache' = [cache EXCEPT ![c] = fetch[f].secret]
      /\ req' = Disturb(req, c, f)
  <2>1. TypeInv /\ fetch[f] \in FetchType
    BY FetchTyped DEF IInv
  <2>2. faults' \in Nat
    BY <2>1 DEF TypeInv, SettleFetch
  <2>3. c \in Client
    BY <2>1 DEF FetchType
  <2> QED
    BY <2>1, <2>2, <2>3 DEF SettleFetch
<1>1. fetch' = [fetch EXCEPT ![f] = rec]
  BY <1>0 DEF SettleFetch, FetchType
<1>2. rec \in FetchType /\ rec.stage = stage /\ rec.client = c
  BY <1>0 DEF FetchType
<1> HIDE DEF rec
<1>3. /\ fetch' \in Seq(FetchType) /\ Len(fetch') = Len(fetch) /\ DOMAIN fetch' = DOMAIN fetch
      /\ fetch'[f] = rec /\ \A g \in DOMAIN fetch : g # f => fetch'[g] = fetch[g]
  BY <1>0, <1>1, <1>2, FetchMoves
<1>4. cache' \in [Client -> Nat] /\ promise' \in [Client -> 0..Len(fetch')]
  <2>1. cache' \in [Client -> Nat]
    BY <1>0 DEF TypeInv, FetchType
  <2>2. 0 \in 0..Len(fetch') /\ promise \in [Client -> 0..Len(fetch')]
    BY <1>0, <1>3, FetchTyped DEF TypeInv
  <2>3. promise' = promise \/ promise' = [promise EXCEPT ![c] = 0]
    BY DEF SettleFetch
  <2> QED
    BY <2>1, <2>2, <2>3
<1>5. /\ req' \in [Request -> ReqType(Len(fetch'))]
      /\ \A r \in Request :
            /\ req'[r].stage = req[r].stage /\ req'[r].sends = req[r].sends
            /\ req'[r].retried = req[r].retried
            /\ ~req'[r].disturbed =>
                  /\ req'[r] = req[r]
                  /\ req[r].stage \in {"new", "wait", "rewait"} =>
                        c \notin {ClientOf[r], "all"} \/ req[r].fetch = f
  BY <1>0, <1>3, Disturbs
<1>6. TypeInv'
  BY <1>0, <1>3, <1>4, <1>5 DEF TypeInv
<1>7. ASSUME NEW r \in Request, ~req'[r].disturbed, req'[r] = req[r], Fresh(r) PROVE Fresh(r)'
  <2>1. CASE req[r].stage = "rewait" /\ req[r].fetch = f
    <3>1. c = ClientOf[r] /\ fetch[f].secret = jar /\ jar # 0
      BY <1>0, <1>7, <2>1 DEF Fresh, Carries
    <3>2. cache'[c] = jar
      BY <1>0, <3>1 DEF TypeInv
    <3>3. Carries(f, ClientOf[r])'
      BY <1>0, <1>2, <1>3, <3>1, <3>2 DEF Carries
    <3> QED
      BY <1>7, <2>1, <3>3 DEF Fresh, Carries
  <2>2. CASE ~(req[r].stage = "rewait" /\ req[r].fetch = f)
    <3>1. req[r].stage = "rewait" \/ (req[r].stage = "new" /\ req[r].retried) =>
              req[r].fetch \in DOMAIN fetch /\ req[r].fetch # f
      BY <1>0, <1>7, <2>2 DEF Fresh, Carries
    <3>2. req[r].stage = "rewait" \/ (req[r].stage = "new" /\ req[r].retried) => c # ClientOf[r]
      BY <1>5, <1>7, <3>1
    <3>3. c # ClientOf[r] => cache'[ClientOf[r]] = cache[ClientOf[r]]
      BY <1>0, HttpAssumption DEF TypeInv
    <3> QED
      BY <1>0, <1>3, <1>7, <3>1, <3>2, <3>3, FreshStays
  <2> QED
    BY <2>1, <2>2
<1> QED
  BY <1>0, <1>5, <1>6, <1>7, StepOfNone

LEMMA FetchFailsStep == ASSUME IInv, NEW f \in DOMAIN fetch, FetchFails(f) PROVE IInv'
<1> DEFINE c == fetch[f].client
           rec == [fetch[f] EXCEPT !.stage = "failed", !.secret = 0, !.sets = FALSE]
<1>0. /\ TypeInv /\ fetch[f] \in FetchType /\ fetch[f].stage \in {"sent", "served"} /\ c \in Client
      /\ UNCHANGED <<keeps, jar, issued, cache, req, performed, reads, clears>> /\ faults' \in Nat
  <2>1. TypeInv /\ fetch[f] \in FetchType
    BY FetchTyped DEF IInv
  <2>2. faults' \in Nat
    BY <2>1 DEF TypeInv, FetchFails
  <2>3. c \in Client
    BY <2>1 DEF FetchType
  <2> QED
    BY <2>1, <2>2, <2>3 DEF FetchFails
<1>1. fetch' = [fetch EXCEPT ![f] = rec]
  BY <1>0 DEF FetchFails, FetchType
<1>2. rec \in FetchType /\ rec.stage = "failed" /\ rec.client = c
  BY <1>0 DEF FetchType
<1> HIDE DEF rec
<1>3. /\ fetch' \in Seq(FetchType) /\ Len(fetch') = Len(fetch) /\ DOMAIN fetch' = DOMAIN fetch
      /\ fetch'[f] = rec /\ \A g \in DOMAIN fetch : g # f => fetch'[g] = fetch[g]
  BY <1>0, <1>1, <1>2, FetchMoves
<1>4. promise' \in [Client -> 0..Len(fetch')]
  <2>1. 0 \in 0..Len(fetch') /\ promise \in [Client -> 0..Len(fetch')]
    BY <1>0, <1>3, FetchTyped DEF TypeInv
  <2>2. promise' = promise \/ promise' = [promise EXCEPT ![c] = 0]
    BY DEF FetchFails
  <2> QED
    BY <2>1, <2>2
<1>5. TypeInv'
  BY <1>0, <1>3, <1>4 DEF TypeInv
<1>6. ASSUME NEW r \in Request, Fresh(r) PROVE Fresh(r)'
  <2>1. CASE req[r].stage = "rewait" /\ req[r].fetch = f
    <3>1. Carries(f, ClientOf[r])'
      BY <1>0, <1>2, <1>3, <1>6, <2>1 DEF Fresh, Carries
    <3> QED
      BY <1>0, <2>1, <3>1 DEF Fresh, Carries
  <2>2. CASE ~(req[r].stage = "rewait" /\ req[r].fetch = f)
    <3>1. req[r].stage = "rewait" \/ (req[r].stage = "new" /\ req[r].retried) =>
              req[r].fetch \in DOMAIN fetch /\ req[r].fetch # f
      BY <1>0, <1>6, <2>2 DEF Fresh, Carries
    <3> QED
      BY <1>0, <1>3, <1>6, <3>1, FreshStays
  <2> QED
    BY <2>1, <2>2
<1> QED
  BY <1>0, <1>5, <1>6, StepOfNone

(* The cookie or the cache of a client is lost: a retry under way, which   *)
(* has a fetch of its own, is disturbed.                                   *)
LEMMA Losses ==
    ASSUME IInv, NEW c, req' = Disturb(req, c, 0), UNCHANGED fetch, TypeInv', UNCHANGED <<keeps, performed>>,
           \A d \in Client : c \notin {d, "all"} => jar' = jar /\ cache'[d] = cache[d]
    PROVE  IInv'
<1>0. TypeInv /\ 0 \notin DOMAIN fetch
  BY FetchTyped DEF IInv
<1>1. \A r \in Request :
         /\ req'[r].stage = req[r].stage /\ req'[r].sends = req[r].sends
         /\ req'[r].retried = req[r].retried
         /\ ~req'[r].disturbed =>
               /\ req'[r] = req[r]
               /\ req[r].stage \in {"new", "wait", "rewait"} =>
                     c \notin {ClientOf[r], "all"} \/ req[r].fetch = 0
  BY <1>0, Disturbs
<1>2. ASSUME NEW r \in Request, ~req'[r].disturbed, req'[r] = req[r], Fresh(r) PROVE Fresh(r)'
  <2>1. req[r].stage = "rewait" \/ (req[r].stage = "new" /\ req[r].retried) => req[r].fetch # 0
    BY <1>0, <1>2 DEF Fresh, Carries
  <2>2. ClientOf[r] \in Client
    BY HttpAssumption
  <2>3. req[r].stage = "rewait" \/ (req[r].stage = "new" /\ req[r].retried) =>
            jar' = jar /\ cache'[ClientOf[r]] = cache[ClientOf[r]]
    BY <1>1, <1>2, <2>1, <2>2
  <2> QED
    BY <1>2, <2>3, FreshStays
<1> QED
  BY <1>1, <1>2, StepOfNone

LEMMA ClearCacheStep == ASSUME IInv, NEW c \in Client, ClearCache(c) PROVE IInv'
<1>0. /\ TypeInv /\ req' = Disturb(req, c, 0) /\ cache' = [cache EXCEPT ![c] = 0] /\ clears' \in Nat
      /\ UNCHANGED <<keeps, jar, issued, promise, fetch, performed, reads, faults>>
  BY DEF IInv, TypeInv, ClearCache
<1>1. req' \in [Request -> ReqType(Len(fetch'))]
  BY <1>0, Disturbs
<1>2. TypeInv'
  BY <1>0, <1>1 DEF TypeInv
<1>3. \A d \in Client : c \notin {d, "all"} => jar' = jar /\ cache'[d] = cache[d]
  BY <1>0 DEF TypeInv
<1> QED
  BY <1>0, <1>2, <1>3, Losses

LEMMA LoseCookieStep == ASSUME IInv, LoseCookie PROVE IInv'
<1>0. /\ TypeInv /\ req' = Disturb(req, "all", 0) /\ jar' = 0 /\ clears' \in Nat
      /\ UNCHANGED <<keeps, issued, cache, promise, fetch, performed, reads, faults>>
  BY DEF IInv, TypeInv, LoseCookie
<1>1. req' \in [Request -> ReqType(Len(fetch'))]
  BY <1>0, Disturbs
<1>2. TypeInv'
  BY <1>0, <1>1 DEF TypeInv
<1> QED
  BY <1>0, <1>2, Losses

LEMMA NextStep == IInv /\ [Next]_vars => IInv'
<1> SUFFICES ASSUME IInv, [Next]_vars PROVE IInv'
  OBVIOUS
<1>1. ASSUME NEW r \in Request, Progress(r) \/ RequestFails(r) PROVE IInv'
  BY <1>1, PrepareStep, ProceedStep, VerifyStep, SucceedStep, MaybeRetryStep, RetryRequestStep,
     RequestFailsStep DEF Progress
<1>2. ASSUME NEW f \in DOMAIN fetch, FetchStep(f) \/ FetchFails(f) PROVE IInv'
  BY <1>2, ServeSessionStep, StoreCookieStep, SettleFetchStep, FetchFailsStep DEF FetchStep
<1>3. CASE UNCHANGED vars
  <2>1. UNCHANGED <<keeps, jar, issued, cache, promise, fetch, req, performed, reads, clears, faults>>
    BY <1>3 DEF vars
  <2>2. TypeInv'
    BY <2>1 DEF IInv, TypeInv
  <2>3. \A r \in Request : Fresh(r) => Fresh(r)'
    BY <2>1 DEF Fresh, Carries
  <2> QED
    BY <2>1, <2>2, <2>3, StepOfNone
<1> QED
  BY <1>1, <1>2, <1>3, ReadSessionStep, ClearCacheStep, LoseCookieStep DEF Next

THEOREM InvariantHolds == Spec => []IInv
BY InitInv, NextStep, PTL DEF Spec

-----------------------------------------------------------------------------
(* The variables have their types.                                         *)
THEOREM TypeOKHolds == Spec => []TypeOK
<1>1. IInv => TypeOK
  BY DEF IInv, TypeInv, TypeOK, FetchType, ReqType, Stages
<1> QED
  BY <1>1, InvariantHolds, PTL

(* A request takes effect once at most and is sent twice at most, whatever *)
(* tokens it is given and whatever answers are lost (maybeRetry).          *)
THEOREM TakesEffectOnceHolds == Spec => []TakesEffectOnce
<1>1. IInv => TakesEffectOnce
  BY DEF IInv, CountInv, TakesEffectOnce
<1> QED
  BY <1>1, InvariantHolds, PTL

(* A request is refused for good only where the browser keeps no cookies,  *)
(* or when the cookie or the client's cache was changed by others while    *)
(* its retry was under way: for any number of clients, requests and reads  *)
(* of the session that share the cookie.                                   *)
THEOREM RetryRepairsHolds == Spec => []RetryRepairs
<1>1. IInv => RetryRepairs
  <2> SUFFICES ASSUME IInv, NEW r \in Request, req[r].stage = "refused", ~req[r].disturbed, keeps
               PROVE  FALSE
    BY DEF RetryRepairs, IInv, TypeInv
  <2>1. Fresh(r)
    BY DEF IInv, RetryInv
  <2> QED
    BY <2>1 DEF Fresh
<1> QED
  BY <1>1, InvariantHolds, PTL

=============================================================================
