------------------------ MODULE GoogleRewardedService ------------------------
(***************************************************************************)
(* The server of google-rewarded-core (service.js), for one user of one    *)
(* workspace: gates are unlocked for a while by watching an ad.  Requests  *)
(* interleave at every await.  Only grantReward runs in a transaction, of  *)
(* the database's default isolation: what others commit after its reads    *)
(* does not stop its writes.                                               *)
(*                                                                         *)
(* Time is counted in minutes from a midnight.  A watch session and a      *)
(* grant keep, as history, how many receipts there were when the start was *)
(* evaluated or the grant read its session.                                *)
(***************************************************************************)
EXTENDS Naturals, FiniteSets

CONSTANTS
    Gate,
    Watch, NoWatch,   \* identities of watch sessions
    Slot,             \* requests in flight
    UnlockMinutes, CooldownMinutes,
    DailyLimit, NoLimit,
    ReceiptWindow,    \* receipts resolveUnlockReceipts reads at most
    DayLength, MaxTime,
    Reconfigures      \* may an admin disable rules and the provider?

ASSUME RewardedAssumption ==
    /\ Gate # {} /\ NoWatch \notin Watch
    /\ {UnlockMinutes, CooldownMinutes, ReceiptWindow, MaxTime} \subseteq Nat
    /\ DailyLimit \in Nat \union {NoLimit}
    /\ DayLength \in Nat \ {0}
    /\ Reconfigures \in BOOLEAN

VARIABLES
    now,
    rules,     \* gates with an enabled rule
    provider,  \* is an enabled provider config there?
    watch,     \* rows of google_rewarded_watch_sessions
    receipts,  \* rows of google_rewarded_unlock_receipts, n their order
    call       \* the requests in flight

config == <<now, rules, provider>>
tables == <<watch, receipts>>
vars == <<config, tables, call>>

-----------------------------------------------------------------------------
NoRow == [status |-> "none", gate |-> CHOOSE g \in Gate : TRUE, seen |-> 0, at |-> 0]
NoCall == [op |-> "none", stage |-> "idle", gate |-> CHOOSE g \in Gate : TRUE,
              watch |-> NoWatch, seen |-> 0, at |-> 0, answer |-> "none"]

Reasons == {"not-configured", "already-unlocked", "cooldown-active",
            "daily-limit-reached", "reward-required"}
Answers == Reasons \union {"none", "session", "granted", "closed", "already-rewarded", "error"}

Newest(R) == {r \in R : Cardinality({x \in R : x.n > r.n}) < ReceiptWindow}

(* sort: -grantedAt, limit: 25 *)
Recent(g) == Newest({r \in receipts : r.gate = g})

Today(R) == {r \in R : r.grantedAt \div DayLength = now \div DayLength}

MutReason(g) ==
    IF g \notin rules \/ ~provider THEN "not-configured"
    ELSE IF \E r \in Recent(g) : r.until > now THEN "already-unlocked"
    ELSE IF DailyLimit # NoLimit /\ Cardinality(Today(Recent(g))) > DailyLimit
         THEN "daily-limit-reached"
    ELSE "reward-required"

(* evaluateGate: the first obstacle there is, in this order. *)
Reason(g) ==
    IF g \notin rules \/ ~provider THEN "not-configured"
    ELSE IF \E r \in Recent(g) : r.until > now THEN "already-unlocked"
    ELSE IF \E r \in Recent(g) : /\ \A x \in Recent(g) : x.n <= r.n
                                 /\ r.grantedAt + CooldownMinutes > now THEN "cooldown-active"
    ELSE IF DailyLimit # NoLimit /\ Cardinality(Today(Recent(g))) >= DailyLimit
         THEN "daily-limit-reached"
    ELSE "reward-required"

Answer(q, w, a) ==
    call' = [call EXCEPT ![q] = [NoCall EXCEPT !.stage = "done", !.watch = w, !.answer = a]]

(* rewardedAt is set: grantReward writes it together with the receipt. *)
Rewarded(w) == \E r \in receipts : r.watch = w

Receipt(w) ==
    [n |-> Cardinality(receipts) + 1, watch |-> w, gate |-> watch[w].gate,
     grantedAt |-> now, until |-> now + UnlockMinutes]

-----------------------------------------------------------------------------
Init ==
    /\ now = 0
    /\ rules = Gate /\ provider = TRUE
    /\ watch = [w \in Watch |-> NoRow]
    /\ receipts = {}
    /\ call = [q \in Slot |-> NoCall]

(* A request of one of the four routes reaches the service. *)
Arrive(q, op, g, w) ==
    /\ call[q].stage = "idle"
    /\ call' = [call EXCEPT ![q] = [NoCall EXCEPT !.op = op, !.stage = "run",
                                                     !.gate = g, !.watch = w]]
    /\ UNCHANGED <<config, tables>>

At(q, op, stage) == call[q].op = op /\ call[q].stage = stage

GetCurrentState(q) ==
    /\ At(q, "current", "run")
    /\ Answer(q, NoWatch, Reason(call[q].gate))
    /\ UNCHANGED <<config, tables>>

(* startGate evaluates first and creates the session later. *)
StartGate(q) ==
    LET reason == Reason(call[q].gate) IN
    /\ At(q, "start", "run")
    /\ \/ reason # "reward-required" /\ Answer(q, NoWatch, reason)
       \/ /\ reason = "reward-required"
          /\ call' = [call EXCEPT ![q].stage = "write", ![q].at = now,
                                  ![q].seen = Cardinality(receipts)]
    /\ UNCHANGED <<config, tables>>

CreateWatch(q, w) ==
    /\ At(q, "start", "write")
    /\ watch[w].status = "none"
    /\ watch' = [watch EXCEPT ![w] = [status |-> "started", gate |-> call[q].gate,
                                      seen |-> call[q].seen, at |-> call[q].at]]
    /\ Answer(q, w, "session")
    /\ UNCHANGED <<config, receipts>>

MutGrantReward(q) ==
    LET w == call[q].watch IN
    /\ At(q, "grant", "run")
    /\ \/ /\ w \in Watch /\ watch[w].status \in {"started", "rewarded"} /\ watch[w].gate \in rules
          /\ call' = [call EXCEPT ![q].stage = "write", ![q].seen = Cardinality(receipts)]
       \/ /\ w \in Watch => \/ watch[w].status \in {"none", "closed"}
                            \/ watch[w].gate \notin rules
          /\ Answer(q, w, "error")
    /\ UNCHANGED <<config, tables>>

(* The first half of the transaction reads the session and the rule; a     *)
(* session that was rewarded is answered with the receipt it has.          *)
GrantReward(q) ==
    LET w == call[q].watch IN
    /\ At(q, "grant", "run")
    /\ \/ /\ w \in Watch /\ watch[w].status = "started" /\ watch[w].gate \in rules
          /\ call' = [call EXCEPT ![q].stage = "write", ![q].seen = Cardinality(receipts)]
       \/ /\ w \in Watch /\ watch[w].status = "rewarded"
          /\ Answer(q, w, "granted")
       \/ /\ w \in Watch => \/ watch[w].status \in {"none", "closed"}
                            \/ watch[w].status = "started" /\ watch[w].gate \notin rules
          /\ Answer(q, w, "error")
    /\ UNCHANGED <<config, tables>>

(* The second half marks the session, whoever has marked or closed it      *)
(* since, creates the receipt and commits both; the gate's state is not    *)
(* looked at: cooldown and daily limit are those of the start.             *)
CommitReward(q) ==
    LET w == call[q].watch IN
    /\ At(q, "grant", "write")
    /\ watch' = [watch EXCEPT ![w].status = "rewarded"]
    /\ receipts' = receipts \union {Receipt(w)}
    /\ Answer(q, w, "granted")
    /\ UNCHANGED config

CloseSession(q) ==
    LET w == call[q].watch IN
    /\ At(q, "close", "run")
    /\ \/ w \in Watch /\ Rewarded(w) /\ Answer(q, w, "already-rewarded")
       \/ /\ w \in Watch /\ watch[w].status # "none" /\ ~Rewarded(w)
          /\ call' = [call EXCEPT ![q].stage = "write"]
       \/ (w \in Watch => watch[w].status = "none") /\ Answer(q, w, "error")
    /\ UNCHANGED <<config, tables>>

MutPatchClosed(q) ==
    /\ At(q, "close", "write")
    /\ watch' = [watch EXCEPT ![call[q].watch].status = "completed"]
    /\ Answer(q, call[q].watch, "closed")
    /\ UNCHANGED <<config, receipts>>

(* patchDocumentById: the status read before the patch may be stale. *)
PatchClosed(q) ==
    /\ At(q, "close", "write")
    /\ watch' = [watch EXCEPT ![call[q].watch].status = "closed"]
    /\ Answer(q, call[q].watch, "closed")
    /\ UNCHANGED <<config, receipts>>

(* The reply leaves the server. *)
Respond(q) ==
    /\ call[q].stage = "done"
    /\ call' = [call EXCEPT ![q] = NoCall]
    /\ UNCHANGED <<config, tables>>

-----------------------------------------------------------------------------
Tick ==
    /\ now < MaxTime
    /\ now' = now + 1
    /\ UNCHANGED <<rules, provider, tables, call>>

Configure ==
    /\ Reconfigures
    /\ \/ rules' \in SUBSET Gate /\ UNCHANGED provider
       \/ provider' = ~provider /\ UNCHANGED rules
    /\ UNCHANGED <<now, tables, call>>

Serve(q) ==
    \/ GetCurrentState(q) \/ StartGate(q) \/ GrantReward(q) \/ CommitReward(q)
    \/ CloseSession(q) \/ PatchClosed(q)
    \/ \E w \in Watch : CreateWatch(q, w)

Next ==
    \/ \E q \in Slot, g \in Gate : \E op \in {"current", "start"} : Arrive(q, op, g, NoWatch)
    \/ \E q \in Slot, g \in Gate, w \in Watch \union {NoWatch} :
           /\ w \in Watch => watch[w].status # "none" /\ g = watch[w].gate
           /\ \E op \in {"grant", "close"} : Arrive(q, op, g, w)
    \/ \E q \in Slot : Serve(q) \/ Respond(q)
    \/ Tick \/ Configure

Spec == Init /\ [][Next]_vars

-----------------------------------------------------------------------------
TypeOK ==
    /\ now \in 0..MaxTime /\ rules \subseteq Gate /\ provider \in BOOLEAN
    /\ watch \in [Watch -> [status : {"none", "started", "rewarded", "closed"}, gate : Gate,
                            seen : Nat, at : 0..MaxTime]]
    /\ receipts \subseteq [n : Nat, watch : Watch, gate : Gate, grantedAt : 0..MaxTime,
                           until : 0..(MaxTime + UnlockMinutes)]
    /\ call \in [Slot -> [op : {"none", "current", "start", "grant", "close"},
                          stage : {"idle", "run", "write", "done"}, gate : Gate,
                          watch : Watch \union {NoWatch}, seen : Nat, at : 0..MaxTime,
                          answer : Answers]]

(* grant marks the session rewarded and creates an unlock receipt          *)
(* (README.md of google-rewarded-core): a watch session has one at most.   *)
OneReceiptPerWatch == \A r, x \in receipts : r.watch = x.watch => r = x

(* Watching one ad unlocks once for whoever asks again: a session gets     *)
(* another receipt only from a grant that had read the session before the  *)
(* first receipt was written, never from one that was sent after an answer *)
(* or found the session closed in between.                                 *)
RetryAddsNoReceipt ==
    [][\A q \in Slot : CommitReward(q) =>
           \A r \in receipts : r.watch = call[q].watch => call[q].seen < r.n]_vars

(* Receipts that were there when the start of a watch was evaluated bind   *)
(* the watch: it began after their unlock and their cooldown had passed,   *)
(* and they did not use up the limit of the day.                           *)
LimitsBindLaterWatches ==
    \A w \in Watch :
        LET before == {r \in receipts : r.gate = watch[w].gate /\ r.n <= watch[w].seen}
            today == {r \in before : r.grantedAt \div DayLength = watch[w].at \div DayLength} IN
        watch[w].status # "none" =>
            /\ \A r \in before : r.until <= watch[w].at
            /\ \A r \in before : r.grantedAt + CooldownMinutes <= watch[w].at
            /\ DailyLimit # NoLimit => Cardinality(today) < DailyLimit

=============================================================================
