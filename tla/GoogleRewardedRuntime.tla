------------------------ MODULE GoogleRewardedRuntime ------------------------
(***************************************************************************)
(* The rewarded gate of one browser tab (googleRewardedRuntime.js) with    *)
(* the server it calls (GoogleRewardedService) and Google's publisher tag. *)
(*                                                                         *)
(* The runtime is one object shared by all prompts: whatever callback runs *)
(* late acts on the prompt that is open by then.  Code between two awaits  *)
(* is one step.                                                            *)
(***************************************************************************)
EXTENDS Naturals, FiniteSets

CONSTANTS
    Gate, Watch, NoWatch, Slot, UnlockMinutes, CooldownMinutes, DailyLimit, NoLimit,
    ReceiptWindow, DayLength, MaxTime, Reconfigures,
    Prompt, NoPrompt, \* calls of requireUnlock
    Lossy,            \* may a request or its reply get lost?
    DoubleClicks,     \* may Close be clicked again before it has an effect?
    ScriptFails       \* may the publisher tag fail to load?

ASSUME RuntimeAssumption ==
    NoPrompt \notin Prompt /\ {Lossy, DoubleClicks, ScriptFails} \subseteq BOOLEAN

VARIABLES
    now, rules, provider, watch, receipts, call, \* the server's
    ui,      \* reactive state and the two variables beside it
    flow,    \* where requireUnlock and beginWatch are for each prompt
    grant,   \* the promise of requestGrant made for the ad of a prompt
    awaits,  \* the prompt whose grant an ad that was closed waits for
    cont,    \* the await that each request in flight resumes
    lost,    \* history: has a request or a reply been lost?
    script,  \* the publisher tag
    result   \* what requireUnlock resolved with

server == <<now, rules, provider, watch, receipts, call>>
flows == <<flow, grant, awaits>>
net == <<cont, lost>>
vars == <<server, ui, flows, net, script, result>>

Server == INSTANCE GoogleRewardedService

ASSUME ServerAssumption == Server!RewardedAssumption

-----------------------------------------------------------------------------
(* createInitialState; prompt stands for request and pendingResolve, which *)
(* are set and reset together, grant for activeGrantPromise.               *)
InitialState == [prompt |-> NoPrompt, phase |-> "idle", session |-> NoWatch, grant |-> NoPrompt]
NoCont == [kind |-> "none", flow |-> NoPrompt]

Watching == {"start", "script", "ad", "ready", "rewarded", "closed", "closing"}

Init ==
    /\ Server!Init
    /\ ui = InitialState
    /\ flow = [r \in Prompt |-> "new"]
    /\ grant = [r \in Prompt |-> "none"]
    /\ awaits = [r \in Prompt |-> NoPrompt]
    /\ cont = [q \in Slot |-> NoCont]
    /\ lost = FALSE
    /\ script = "absent"
    /\ result = [r \in Prompt |-> "none"]

Goto(r, stage) == flow' = [flow EXCEPT ![r] = stage]

(* settle resolves the prompt that is open by now and resets the state. *)
Settle(outcome) ==
    /\ result' = [r \in Prompt |-> IF r = ui.prompt THEN outcome ELSE result[r]]
    /\ ui' = InitialState

MutFails(r) == Goto(r, "over") /\ UNCHANGED <<ui, result>>

(* The catch clause of beginWatch, and onUnavailable before it. *)
Fails(r) ==
    /\ ui' = [ui EXCEPT !.phase = "error"]
    /\ Goto(r, "over")
    /\ UNCHANGED result

Request(q, op, w, kind, r) ==
    /\ cont[q] = NoCont
    /\ \E g \in Gate : Server!Arrive(q, op, g, w)
    /\ cont' = [cont EXCEPT ![q] = [kind |-> kind, flow |-> r]]
    /\ UNCHANGED lost

(* The reply of request q, or an error: the request never arrived, or the  *)
(* server is still at it, or has done it and the reply is lost.            *)
Receive(q, kind, r, answer) ==
    /\ cont[q] = [kind |-> kind, flow |-> r]
    /\ cont' = [cont EXCEPT ![q] = NoCont]
    /\ \/ call[q].answer = answer /\ Server!Respond(q) /\ UNCHANGED lost
       \/ /\ Lossy /\ answer = "error" /\ lost' = TRUE
          /\ \/ UNCHANGED call
             \/ call[q].stage = "run" /\ call' = [call EXCEPT ![q] = Server!NoCall]
          /\ UNCHANGED <<now, rules, provider, watch, receipts>>

-----------------------------------------------------------------------------
RequireUnlock(q, r) ==
    /\ flow[r] = "new"
    /\ Request(q, "current", NoWatch, "current", r)
    /\ Goto(r, "asking")
    /\ UNCHANGED <<ui, grant, awaits, script, result>>

CurrentReply(q, r, answer) ==
    /\ Receive(q, "current", r, answer)
    /\ \/ /\ answer = "reward-required" /\ ui.prompt = NoPrompt
          /\ ui' = [ui EXCEPT !.prompt = r, !.phase = "prompt", !.session = NoWatch]
          /\ Goto(r, "offered")
          /\ UNCHANGED result
       \/ /\ answer # "reward-required" \/ ui.prompt # NoPrompt
          /\ result' = [result EXCEPT ![r] =
                           IF answer \in {"error", "reward-required"} THEN "rejected"
                           ELSE IF answer = "already-unlocked" THEN "unlocked" ELSE "denied"]
          /\ Goto(r, "over")
          /\ UNCHANGED ui
    /\ UNCHANGED <<grant, awaits, script>>

(* "Watch ad" is offered in phase prompt only. *)
BeginWatch(q, r) ==
    /\ ui.prompt = r /\ ui.phase = "prompt"
    /\ Request(q, "start", NoWatch, "start", r)
    /\ ui' = [ui EXCEPT !.phase = "loading"]
    /\ Goto(r, "start")
    /\ UNCHANGED <<grant, awaits, script, result>>

(* A tag that failed to load stays in the document: who finds it there     *)
(* waits for events that have been.                                        *)
EnsureGooglePublisherTagLoaded ==
    script' = CASE script = "absent" -> "loading"
                [] script = "failed" -> "spent"
                [] OTHER -> script

StartReply(q, r, answer) ==
    /\ Receive(q, "start", r, answer)
    /\ \/ /\ answer = "session"
          /\ ui' = [ui EXCEPT !.session = call[q].watch]
          /\ Goto(r, "script")
          /\ EnsureGooglePublisherTagLoaded
          /\ UNCHANGED result
       \/ /\ answer = "error"
          /\ Fails(r)
          /\ UNCHANGED script
       \/ /\ answer \notin {"session", "error"}
          /\ Settle("denied")
          /\ Goto(r, "over")
          /\ UNCHANGED script
    /\ UNCHANGED <<grant, awaits>>

ScriptLoads ==
    /\ script = "loading"
    /\ script' = "loaded"
    /\ UNCHANGED <<server, ui, flows, net, result>>

ScriptError ==
    /\ script = "loading" /\ ScriptFails
    /\ script' = "failed"
    /\ \/ /\ \E r \in Prompt : flow[r] = "script"
          /\ ui' = [ui EXCEPT !.phase = "error"]
       \/ (\A r \in Prompt : flow[r] # "script") /\ UNCHANGED ui
    /\ flow' = [r \in Prompt |-> IF flow[r] = "script" THEN "over" ELSE flow[r]]
    /\ UNCHANGED <<server, grant, awaits, net, result>>

(* The slot is displayed, or there is none to be had. *)
LaunchRewardedSlot(r) ==
    /\ flow[r] = "script" /\ script = "loaded"
    /\ \/ Goto(r, "ad") /\ UNCHANGED <<ui, result>>
       \/ Fails(r)
    /\ UNCHANGED <<server, grant, awaits, net, script>>

HandleReady(r) ==
    /\ flow[r] = "ad"
    /\ ui' = [ui EXCEPT !.phase = "showing-ad"]
    /\ Goto(r, "ready")
    /\ UNCHANGED <<server, grant, awaits, net, script, result>>

(* No ad within ten seconds. *)
HandleTimeout(r) ==
    /\ flow[r] = "ad"
    /\ Fails(r)
    /\ UNCHANGED <<server, grant, awaits, net, script>>

(* onGranted takes the session from the state; with no prompt open it throws. *)
HandleGranted(q, r) ==
    /\ flow[r] = "ready"
    /\ Goto(r, "rewarded")
    /\ \/ /\ ui.prompt # NoPrompt
          /\ Request(q, "grant", ui.session, "grant", r)
          /\ grant' = [grant EXCEPT ![r] = "pending"]
          /\ ui' = [ui EXCEPT !.grant = r]
       \/ ui.prompt = NoPrompt /\ UNCHANGED <<server, net, grant, ui>>
    /\ UNCHANGED <<awaits, script, result>>

(* The reply of grant resumes onGranted, then the onClosed that waits. *)
GrantReply(q, r, answer) ==
    LET resumed == {f \in Prompt : flow[f] = "closed" /\ awaits[f] = r} IN
    /\ Receive(q, "grant", r, answer)
    /\ \/ /\ answer = "granted"
          /\ grant' = [grant EXCEPT ![r] = "kept"]
          /\ \/ resumed # {} /\ Settle("granted")
             \/ resumed = {} /\ ui' = [ui EXCEPT !.phase = "granted"] /\ UNCHANGED result
       \/ /\ answer = "error"
          /\ grant' = [grant EXCEPT ![r] = "broken"]
          /\ \/ resumed # {} /\ ui' = [ui EXCEPT !.phase = "error"]
             \/ resumed = {} /\ UNCHANGED ui
          /\ UNCHANGED result
    /\ flow' = [f \in Prompt |-> IF f \in resumed THEN "over" ELSE flow[f]]
    /\ UNCHANGED <<awaits, script>>

MutHandleClosed(q, r) ==
    /\ flow[r] \in {"ready", "rewarded"}
    /\ ui.grant # NoPrompt
    /\ Settle("granted") /\ Goto(r, "over")
    /\ UNCHANGED <<server, net, awaits, grant, script>>

HandleClosed(q, r) ==
    /\ flow[r] \in {"ready", "rewarded"}
    /\ \/ /\ ui.grant # NoPrompt
          /\ \/ /\ grant[ui.grant] = "pending"
                /\ Goto(r, "closed")
                /\ awaits' = [awaits EXCEPT ![r] = ui.grant]
                /\ UNCHANGED <<ui, result>>
             \/ /\ grant[ui.grant] = "kept"
                /\ Settle("granted") /\ Goto(r, "over") /\ UNCHANGED awaits
             \/ grant[ui.grant] = "broken" /\ Fails(r) /\ UNCHANGED awaits
          /\ UNCHANGED <<server, net>>
       \/ /\ ui.grant = NoPrompt /\ ui.prompt # NoPrompt
          /\ Request(q, "close", ui.session, "closed", r)
          /\ Goto(r, "closing")
          /\ UNCHANGED <<ui, awaits, result>>
       \/ /\ ui.grant = NoPrompt /\ ui.prompt = NoPrompt
          /\ Fails(r)
          /\ UNCHANGED <<server, net, awaits>>
    /\ UNCHANGED <<grant, script>>

ClosedReply(q, r, answer) ==
    /\ Receive(q, "closed", r, answer)
    /\ \/ answer # "error" /\ Settle("denied") /\ Goto(r, "over")
       \/ answer = "error" /\ Fails(r)
    /\ UNCHANGED <<grant, awaits, script>>

MutCancelPrompt(q) ==
    /\ ui.prompt # NoPrompt
    /\ Settle("denied")
    /\ UNCHANGED <<server, net, flows, script>>

(* "Not now" in phase prompt, "Close" in phase error. *)
CancelPrompt(q) ==
    /\ ui.prompt # NoPrompt /\ ui.phase \in {"prompt", "error"}
    /\ DoubleClicks \/ \A p \in Slot : cont[p].kind # "cancel"
    /\ \/ /\ ui.session # NoWatch
          /\ Request(q, "close", ui.session, "cancel", NoPrompt)
          /\ UNCHANGED <<ui, result>>
       \/ ui.session = NoWatch /\ Settle("denied") /\ UNCHANGED <<server, net>>
    /\ UNCHANGED <<flows, script>>

(* Errors of close are swallowed; then the prompt open by now is settled. *)
CancelReply(q, answer) ==
    /\ Receive(q, "cancel", NoPrompt, answer)
    /\ Settle("denied")
    /\ UNCHANGED <<flows, script>>

-----------------------------------------------------------------------------
ServerStep(q) ==
    /\ \/ Server!Serve(q)
       \/ cont[q] = NoCont /\ Server!Respond(q)
    /\ UNCHANGED <<ui, flows, net, script, result>>

Tick == Server!Tick /\ UNCHANGED <<ui, flows, net, script, result>>

Reply(q) ==
    \E answer \in Server!Answers :
        \/ \E r \in Prompt :
               \/ CurrentReply(q, r, answer) \/ StartReply(q, r, answer)
               \/ GrantReply(q, r, answer) \/ ClosedReply(q, r, answer)
        \/ CancelReply(q, answer)

Choose == \E q \in Slot : CancelPrompt(q) \/ \E r \in Prompt : BeginWatch(q, r)

Ad(r) ==
    \/ LaunchRewardedSlot(r) \/ HandleReady(r) \/ HandleTimeout(r)
    \/ \E q \in Slot : HandleClosed(q, r)

Next ==
    \/ \E q \in Slot : ServerStep(q) \/ Reply(q)
    \/ \E q \in Slot, r \in Prompt : RequireUnlock(q, r) \/ HandleGranted(q, r)
    \/ Choose
    \/ \E r \in Prompt : Ad(r)
    \/ ScriptLoads \/ ScriptError \/ Tick

Spec == Init /\ [][Next]_vars

(* Requests are served and answered or break, the tag loads or fails, ads  *)
(* come or time out and are closed, people answer prompts: none of that is *)
(* put off for ever.                                                       *)
FairSpec ==
    /\ Spec
    /\ \A q \in Slot : WF_vars(ServerStep(q)) /\ WF_vars(Reply(q))
    /\ \A r \in Prompt : WF_vars(Ad(r))
    /\ WF_vars(Choose) /\ WF_vars(ScriptLoads \/ ScriptError)

-----------------------------------------------------------------------------
(* Nobody is told "granted" without the receipt that the server checks:    *)
(* each prompt that resolved granted has one of its own.                   *)
GrantedHasReceipt ==
    Cardinality({r \in Prompt : result[r] = "granted"}) <= Cardinality(receipts)

(* "rewardedSlotGranted is the authoritative unlock trigger": the reward   *)
(* of an ad watched to its end goes to the server, for a session that is   *)
(* still to be rewarded.                                                   *)
RewardReachesServer ==
    [][\A q \in Slot, r \in Prompt :
           HandleGranted(q, r) => grant'[r] = "pending" /\ ui.session \in Watch]_vars

(* No abandoned rows: once no prompt is open, no ad under way and no       *)
(* request in flight, and if no message was lost on the way, every watch   *)
(* session is rewarded or closed.                                          *)
NoAbandonedSession ==
    /\ ~lost
    /\ ui.prompt = NoPrompt
    /\ \A r \in Prompt : flow[r] \notin Watching
    /\ \A q \in Slot : call[q].stage = "idle"
    => \A w \in Watch : watch[w].status # "started"

(* requireUnlock comes back to its caller, whatever is lost on the way.    *)
(* As long as no load of the publisher tag has failed earlier, that is:    *)
(* only a prompt that finds the failed element in the document waits on,   *)
(* and it goes on waiting for it.                                          *)
SettlesWithTag ==
    \A r \in Prompt :
        flow[r] = "asking" ~> result[r] # "none" \/ (script = "spent" /\ flow[r] = "script")

=============================================================================
