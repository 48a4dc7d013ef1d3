--------------------- MODULE GoogleRewardedRuntimeProofs ---------------------
(***************************************************************************)
(* What the rewarded gate of a browser tab does with its server, for any   *)
(* prompts, gates, sessions and requests, whatever is lost on the way, as  *)
(* long as Close takes effect before it is clicked again: the reward of an *)
(* ad goes to the server, nobody is told "granted" without a receipt of    *)
(* his own, and no session is left behind started.                         *)
(***************************************************************************)
EXTENDS GoogleRewardedRuntime, FiniteSetTheorems, FunctionTheorems, TLAPS

ServerTheory == INSTANCE GoogleRewardedServiceProofs

Busy == {"loading", "showing-ad", "granted"}

UiType == [prompt : Prompt \union {NoPrompt}, phase : Busy \union {"idle", "prompt", "error"},
           session : Watch \union {NoWatch}, grant : Prompt \union {NoPrompt}]
ContType == [kind : {"none", "current", "start", "grant", "closed", "cancel"},
             flow : Prompt \union {NoPrompt}]

RuntimeType ==
    /\ ui \in UiType
    /\ flow \in [Prompt -> Watching \union {"new", "asking", "offered", "over"}]
    /\ grant \in [Prompt -> {"none", "pending", "kept", "broken"}]
    /\ awaits \in [Prompt -> Prompt \union {NoPrompt}]
    /\ cont \in [Slot -> ContType]
    /\ result \in [Prompt -> {"none", "rejected", "unlocked", "denied", "granted"}]

(* The state of the open prompt goes with the stage its flow is at. *)
Shown(r) ==
    /\ flow[r] \in Watching \union {"offered", "over"}
    /\ flow[r] = "offered" => ui.phase = "prompt" /\ ui.session = NoWatch /\ ui.grant = NoPrompt
    /\ flow[r] = "over" => ui.phase = "error"
    /\ flow[r] \in Watching => ui.phase \in Busy
    /\ flow[r] = "start" => ui.session = NoWatch
    /\ flow[r] \in Watching \ {"start"} => ui.session \in Watch
    /\ flow[r] \in Watching \ {"rewarded", "closed"} => ui.grant = NoPrompt
    /\ flow[r] \in {"rewarded", "closed"} => ui.grant = r /\ grant[r] # "none"
    /\ flow[r] = "closed" => grant[r] = "pending" /\ awaits[r] = r

(* An ad is under way for the open prompt only. *)
OpenInv ==
    /\ ui.prompt = NoPrompt => ui = InitialState
    /\ ui.prompt \in Prompt => Shown(ui.prompt)
    /\ \A r \in Prompt : flow[r] \in Watching => ui.prompt = r

(* A request in flight finds what it resumes where it left it. *)
Resumes(c) ==
    /\ c.kind = "current" => c.flow \in Prompt /\ flow[c.flow] = "asking"
    /\ c.kind = "start" => c.flow \in Prompt /\ flow[c.flow] = "start"
    /\ c.kind = "grant" => /\ c.flow \in Prompt /\ flow[c.flow] \in {"rewarded", "closed"}
                           /\ grant[c.flow] = "pending"
    /\ c.kind = "closed" => c.flow \in Prompt /\ flow[c.flow] = "closing"
    /\ c.kind = "cancel" => c.flow = NoPrompt /\ ui.phase = "error" /\ ui.session \in Watch

ContInv ==
    /\ \A q \in Slot : Resumes(cont[q])
    /\ \A p, q \in Slot : cont[p] = cont[q] /\ cont[p].kind # "none" => p = q

UiInv == RuntimeType /\ OpenInv /\ ContInv

-----------------------------------------------------------------------------
(* While an ad is under way its prompt is open and nothing else goes on. *)
LEMMA Watched ==
    ASSUME UiInv, NEW r \in Prompt, flow[r] \in Watching
    PROVE  /\ ui.prompt = r /\ Shown(r) /\ ui.phase \in Busy
           /\ \A x \in Prompt : x # r => flow[x] \notin Watching
           /\ \A q \in Slot : cont[q].kind # "cancel"
<1>1. ui.prompt = r /\ Shown(r) /\ ui.phase \in Busy
  BY DEF UiInv, OpenInv, Shown
<1>2. \A x \in Prompt : x # r => flow[x] \notin Watching
  BY <1>1 DEF UiInv, OpenInv
<1>3. \A q \in Slot : cont[q].kind # "cancel"
  BY <1>1 DEF UiInv, ContInv, Resumes, Busy
<1> QED
  BY <1>1, <1>2, <1>3

(* What an answer resumes is resumed by no other. *)
LEMMA Received ==
    ASSUME UiInv, NEW q \in Slot, NEW r \in Prompt, NEW answer,
           NEW kind \in {"current", "start", "grant", "closed"}, Receive(q, kind, r, answer)
    PROVE  /\ cont[q].kind = kind /\ cont[q].flow = r /\ Resumes(cont[q])
           /\ cont' \in [Slot -> ContType] /\ cont'[q] = NoCont
           /\ \A p \in Slot : p # q => cont'[p] = cont[p]
           /\ \A p \in Slot : p # q /\ cont[p].kind # "none" => cont[p].flow # r
<1>1. cont[q] = [kind |-> kind, flow |-> r] /\ cont' = [cont EXCEPT ![q] = NoCont]
  BY DEF Receive
<1>2. cont[q].kind = kind /\ cont[q].flow = r /\ Resumes(cont[q])
  BY <1>1 DEF UiInv, ContInv
<1>3. /\ cont' \in [Slot -> ContType] /\ cont'[q] = NoCont
      /\ \A p \in Slot : p # q => cont'[p] = cont[p]
  BY <1>1 DEF UiInv, RuntimeType, ContType, NoCont
<1>4. ASSUME NEW p \in Slot, p # q, cont[p].kind # "none", cont[p].flow = r PROVE FALSE
  <2>1. Resumes(cont[p]) /\ cont[p] \in ContType /\ cont[p] # cont[q]
    BY <1>4, <1>2 DEF UiInv, ContInv, RuntimeType
  <2>2. cont[p].kind = kind
    BY <1>2, <1>4, <2>1, RuntimeAssumption DEF Resumes, ContType
  <2>3. cont[p] = [kind |-> kind, flow |-> r]
    BY <1>4, <2>1, <2>2 DEF ContType
  <2> QED
    BY <1>1, <2>1, <2>3
<1> QED
  BY <1>2, <1>3, <1>4

LEMMA Requested ==
    ASSUME UiInv, NEW q \in Slot, NEW r \in Prompt \union {NoPrompt}, NEW op, NEW w,
           NEW kind \in {"current", "start", "grant", "closed", "cancel"},
           Request(q, op, w, kind, r)
    PROVE  /\ cont[q].kind = "none" /\ cont' \in [Slot -> ContType]
           /\ cont'[q].kind = kind /\ cont'[q].flow = r
           /\ \A p \in Slot : p # q => cont'[p] = cont[p]
BY DEF Request, UiInv, RuntimeType, ContType, NoCont

(* Conditions for the waiting requests to stay right when only prompt r     *)
(* moves, and the one that it asks or hears of, if any.                    *)
LEMMA ContKept ==
    ASSUME UiInv, NEW r \in Prompt,
           \A x \in Prompt : x # r => flow'[x] = flow[x] /\ grant'[x] = grant[x],
           (\A q \in Slot : cont[q].kind # "cancel") \/ (UNCHANGED ui),
           \A p \in Slot : \/ cont'[p].kind = "none"
                           \/ cont'[p] = cont[p] /\ cont[p].flow # r
    PROVE  ContInv'
<1>1. ASSUME NEW p \in Slot PROVE Resumes(cont[p])'
  <2>1. CASE cont'[p].kind = "none"
    BY <2>1 DEF Resumes
  <2>2. CASE cont'[p] = cont[p] /\ cont[p].flow # r
    <3>1. PICK c : c = cont[p] /\ Resumes(c) /\ c.flow # r
      BY <2>2 DEF UiInv, ContInv
    <3>2. Resumes(c)'
      BY <2>2, <3>1 DEF Resumes
    <3> QED
      BY <2>2, <3>1, <3>2
  <2> QED
    BY <2>1, <2>2
<1>2. \A p, q \in Slot : cont'[p] = cont'[q] /\ cont'[p].kind # "none" => p = q
  BY DEF UiInv, ContInv
<1> QED
  BY <1>1, <1>2 DEF ContInv

LEMMA ContAsked ==
    ASSUME UiInv, NEW r \in Prompt, NEW q \in Slot,
           \A x \in Prompt : x # r => flow'[x] = flow[x] /\ grant'[x] = grant[x],
           (\A p \in Slot : cont[p].kind # "cancel") \/ (UNCHANGED ui),
           Resumes(cont[q])', cont'[q].flow = r,
           \A p \in Slot : p # q => \/ cont'[p].kind = "none"
                                    \/ cont'[p] = cont[p] /\ cont[p].flow # r
    PROVE  ContInv'
<1>1. ASSUME NEW p \in Slot, p # q PROVE Resumes(cont[p])'
  <2>1. CASE cont'[p].kind = "none"
    BY <2>1 DEF Resumes
  <2>2. CASE cont'[p] = cont[p] /\ cont[p].flow # r
    <3>1. PICK c : c = cont[p] /\ Resumes(c) /\ c.flow # r
      BY <2>2 DEF UiInv, ContInv
    <3>2. Resumes(c)'
      BY <2>2, <3>1 DEF Resumes
    <3> QED
      BY <2>2, <3>1, <3>2
  <2> QED
    BY <1>1, <2>1, <2>2
<1>2. \A a, b \in Slot : cont'[a] = cont'[b] /\ cont'[a].kind # "none" => a = b
  <2> SUFFICES ASSUME NEW a \in Slot, NEW b \in Slot, cont'[a] = cont'[b],
                      cont'[a].kind # "none", a # b
               PROVE  FALSE
    OBVIOUS
  <2>1. a # q
    OBVIOUS
  <2>2. b # q
    OBVIOUS
  <2> QED
    BY <2>1, <2>2 DEF UiInv, ContInv
<1>3. \A p \in Slot : Resumes(cont[p])'
  BY <1>1
<1> QED
  BY <1>2, <1>3 DEF ContInv

(* The ways a step may change the open prompt r: its flow goes on, or it    *)
(* ends with an error on the screen, or the prompt is settled.             *)
LEMMA GoesOn ==
    ASSUME UiInv, NEW r \in Prompt, ui.prompt = r, NEW st \in Watching,
           flow' = [flow EXCEPT ![r] = st], ui' \in UiType, ui'.prompt = r, Shown(r)',
           grant' \in [Prompt -> {"none", "pending", "kept", "broken"}],
           awaits' \in [Prompt -> Prompt \union {NoPrompt}],
           cont' \in [Slot -> ContType], UNCHANGED result, ContInv'
    PROVE  UiInv'
<1>1. RuntimeType'
  BY DEF UiInv, RuntimeType
<1>2. \A x \in Prompt : x # r => flow'[x] \notin Watching
  BY DEF UiInv, RuntimeType, OpenInv
<1>3. OpenInv'
  BY <1>2, RuntimeAssumption DEF OpenInv
<1> QED
  BY <1>1, <1>3 DEF UiInv

LEMMA FailsOver ==
    ASSUME UiInv, NEW r \in Prompt, flow[r] \in Watching, Fails(r), UNCHANGED <<grant, awaits>>,
           cont' \in [Slot -> ContType],
           \A p \in Slot : cont'[p].kind = "none" \/ (cont'[p] = cont[p] /\ cont[p].flow # r)
    PROVE  UiInv'
<1>1. /\ ui.prompt = r /\ \A x \in Prompt : x # r => flow[x] \notin Watching
      /\ \A q \in Slot : cont[q].kind # "cancel"
  BY Watched
<1>2. /\ flow'[r] = "over" /\ \A x \in Prompt : x # r => flow'[x] = flow[x]
      /\ ui'.prompt = r /\ ui'.phase = "error"
  BY <1>1 DEF Fails, Goto, UiInv, RuntimeType, UiType
<1>3. RuntimeType'
  BY DEF Fails, Goto, UiInv, RuntimeType, UiType
<1>4. ContInv'
  BY <1>1, <1>2, ContKept
<1>5. OpenInv'
  BY <1>1, <1>2, RuntimeAssumption DEF OpenInv, Shown, Watching
<1> QED
  BY <1>3, <1>4, <1>5 DEF UiInv

LEMMA SettlesOver ==
    ASSUME UiInv, NEW r \in Prompt, flow[r] \in Watching,
           NEW outcome \in {"denied", "granted"}, Settle(outcome),
           flow' = [flow EXCEPT ![r] = "over"], UNCHANGED awaits,
           grant' \in [Prompt -> {"none", "pending", "kept", "broken"}],
           \A x \in Prompt : x # r => grant'[x] = grant[x],
           cont' \in [Slot -> ContType],
           \A p \in Slot : cont'[p].kind = "none" \/ (cont'[p] = cont[p] /\ cont[p].flow # r)
    PROVE  UiInv'
<1>1. /\ \A x \in Prompt : x # r => flow[x] \notin Watching
      /\ \A q \in Slot : cont[q].kind # "cancel"
  BY Watched
<1>2. /\ flow'[r] = "over" /\ \A x \in Prompt : x # r => flow'[x] = flow[x]
      /\ ui' = InitialState
  BY DEF Settle, UiInv, RuntimeType
<1>3. RuntimeType'
  BY DEF Settle, UiInv, RuntimeType, UiType, InitialState
<1>4. ContInv'
  BY <1>1, <1>2, ContKept
<1>5. OpenInv'
  BY <1>1, <1>2, RuntimeAssumption DEF OpenInv, InitialState, Watching
<1> QED
  BY <1>3, <1>4, <1>5 DEF UiInv

-----------------------------------------------------------------------------
LEMMA UnlockUi == ASSUME UiInv, NEW q \in Slot, NEW r \in Prompt, RequireUnlock(q, r) PROVE UiInv'
<1>1. flow[r] = "new" /\ Request(q, "current", NoWatch, "current", r)
      /\ flow' = [flow EXCEPT ![r] = "asking"]
      /\ UNCHANGED <<ui, grant, awaits, script, result>>
  BY DEF RequireUnlock, Goto
<1>2. /\ cont' \in [Slot -> ContType] /\ cont'[q].kind = "current" /\ cont'[q].flow = r
      /\ \A p \in Slot : p # q => cont'[p] = cont[p]
  BY <1>1, Requested
<1>3. flow'[r] = "asking" /\ \A x \in Prompt : x # r => flow'[x] = flow[x]
  BY <1>1 DEF UiInv, RuntimeType
<1>4. ui.prompt # r
  BY <1>1 DEF UiInv, OpenInv, Shown, Watching
<1>5. RuntimeType'
  BY <1>1, <1>2 DEF UiInv, RuntimeType
<1>6. OpenInv'
  BY <1>1, <1>3, <1>4 DEF UiInv, OpenInv, Shown, Watching
<1>7. \A p \in Slot : cont[p].kind = "none" \/ cont[p].flow # r
  BY <1>1, RuntimeAssumption DEF UiInv, ContInv, Resumes, RuntimeType, ContType
<1>8. Resumes(cont[q])'
  BY <1>2, <1>3 DEF Resumes
<1>9. ContInv'
  BY <1>1, <1>2, <1>3, <1>7, <1>8, ContAsked
<1> QED
  BY <1>5, <1>6, <1>9 DEF UiInv

LEMMA CurrentUi ==
    ASSUME UiInv, NEW q \in Slot, NEW r \in Prompt, NEW answer, CurrentReply(q, r, answer)
    PROVE  UiInv'
<1>1. Receive(q, "current", r, answer) /\ UNCHANGED <<grant, awaits, script>>
  BY DEF CurrentReply
<1>2. /\ flow[r] = "asking" /\ cont' \in [Slot -> ContType] /\ cont'[q] = NoCont
      /\ \A p \in Slot : p # q => cont'[p] = cont[p]
      /\ \A p \in Slot : p # q /\ cont[p].kind # "none" => cont[p].flow # r
  BY <1>1, Received DEF Resumes
<1>3. \A p \in Slot : cont'[p].kind = "none" \/ (cont'[p] = cont[p] /\ cont[p].flow # r)
  BY <1>2 DEF NoCont
<1>4. CASE /\ ui.prompt = NoPrompt
           /\ ui' = [ui EXCEPT !.prompt = r, !.phase = "prompt", !.session = NoWatch]
           /\ flow' = [flow EXCEPT ![r] = "offered"] /\ UNCHANGED result
  <2>1. /\ flow'[r] = "offered" /\ \A x \in Prompt : x # r => flow'[x] = flow[x]
    BY <1>4 DEF UiInv, RuntimeType
  <2>2. ui = InitialState /\ \A x \in Prompt : flow[x] \notin Watching
    BY <1>4, RuntimeAssumption DEF UiInv, OpenInv
  <2>8. ui'.prompt = r /\ ui'.phase = "prompt" /\ ui'.session = NoWatch /\ ui' \in UiType
    BY <1>4 DEF UiType, UiInv, RuntimeType
  <2>9. ui'.grant = NoPrompt
    BY <1>4, <2>2 DEF UiType, UiInv, RuntimeType, InitialState
  <2>3. ui'.prompt = r /\ ui'.phase = "prompt" /\ ui'.session = NoWatch /\ ui'.grant = NoPrompt
        /\ ui' \in UiType
    BY <2>8, <2>9
  <2>4. \A p \in Slot : cont[p].kind # "cancel"
    BY <2>2 DEF UiInv, ContInv, Resumes, InitialState
  <2>5. RuntimeType'
    BY <1>1, <1>2, <1>4, <2>3 DEF UiInv, RuntimeType
  <2>6. OpenInv'
    BY <2>1, <2>2, <2>3, RuntimeAssumption DEF OpenInv, Shown, Watching
  <2>7. ContInv'
    BY <1>1, <1>3, <2>1, <2>4, ContKept
  <2> QED
    BY <2>5, <2>6, <2>7 DEF UiInv
<1>5. CASE /\ result' = [result EXCEPT ![r] =
                           IF answer \in {"error", "reward-required"} THEN "rejected"
                           ELSE IF answer = "already-unlocked" THEN "unlocked" ELSE "denied"]
           /\ flow' = [flow EXCEPT ![r] = "over"] /\ UNCHANGED ui
  <2>1. /\ flow'[r] = "over" /\ \A x \in Prompt : x # r => flow'[x] = flow[x]
    BY <1>5 DEF UiInv, RuntimeType
  <2>2. ui.prompt # r
    BY <1>2 DEF UiInv, OpenInv, Shown, Watching
  <2>3. RuntimeType'
    BY <1>1, <1>2, <1>5 DEF UiInv, RuntimeType
  <2>4. OpenInv'
    BY <1>1, <1>5, <2>1, <2>2 DEF UiInv, OpenInv, Shown, Watching
  <2>5. ContInv'
    BY <1>1, <1>3, <1>5, <2>1, ContKept
  <2> QED
    BY <2>3, <2>4, <2>5 DEF UiInv
<1> QED
  BY <1>4, <1>5 DEF CurrentReply, Goto

LEMMA BeginUi == ASSUME UiInv, NEW q \in Slot, NEW r \in Prompt, BeginWatch(q, r) PROVE UiInv'
<1>1. /\ ui.prompt = r /\ ui.phase = "prompt" /\ Request(q, "start", NoWatch, "start", r)
      /\ ui' = [ui EXCEPT !.phase = "loading"] /\ flow' = [flow EXCEPT ![r] = "start"]
      /\ UNCHANGED <<grant, awaits, script, result>>
  BY DEF BeginWatch, Goto
<1>2. /\ cont' \in [Slot -> ContType] /\ cont'[q].kind = "start" /\ cont'[q].flow = r
      /\ \A p \in Slot : p # q => cont'[p] = cont[p]
  BY <1>1, Requested
<1>3. flow[r] = "offered" /\ ui.session = NoWatch /\ ui.grant = NoPrompt
  BY <1>1 DEF UiInv, OpenInv, Shown, Busy
<1>4. flow'[r] = "start" /\ \A x \in Prompt : x # r => flow'[x] = flow[x]
  BY <1>1 DEF UiInv, RuntimeType
<1>5. /\ ui' \in UiType /\ ui'.prompt = r /\ ui'.phase = "loading" /\ ui'.session = NoWatch
      /\ ui'.grant = NoPrompt
  BY <1>1, <1>3 DEF UiInv, RuntimeType, UiType, Busy
<1>6. Shown(r)'
  BY <1>4, <1>5 DEF Shown, Watching, Busy
<1>7. \A p \in Slot : cont[p].kind = "none" \/ (cont[p].flow # r /\ cont[p].kind # "cancel")
  BY <1>1, <1>3, RuntimeAssumption DEF UiInv, ContInv, Resumes, RuntimeType, ContType
<1>8. Resumes(cont[q])'
  BY <1>2, <1>4 DEF Resumes
<1>9. ContInv'
  BY <1>1, <1>2, <1>4, <1>7, <1>8, ContAsked
<1> QED
  BY <1>1, <1>2, <1>5, <1>6, <1>9, GoesOn DEF Watching, UiInv, RuntimeType

LEMMA StartUi ==
    ASSUME UiInv, NEW q \in Slot, NEW r \in Prompt, NEW answer, StartReply(q, r, answer),
           call[q].answer = "session" => call[q].watch \in Watch
    PROVE  UiInv'
<1>1. Receive(q, "start", r, answer) /\ UNCHANGED <<grant, awaits>>
  BY DEF StartReply
<1>2. /\ flow[r] = "start" /\ cont' \in [Slot -> ContType] /\ cont'[q] = NoCont
      /\ \A p \in Slot : p # q => cont'[p] = cont[p]
      /\ \A p \in Slot : p # q /\ cont[p].kind # "none" => cont[p].flow # r
  BY <1>1, Received DEF Resumes
<1>3. \A p \in Slot : cont'[p].kind = "none" \/ (cont'[p] = cont[p] /\ cont[p].flow # r)
  BY <1>2 DEF NoCont
<1>4. /\ flow[r] \in Watching /\ ui.prompt = r /\ ui.phase \in Busy /\ ui.grant = NoPrompt
      /\ \A p \in Slot : cont[p].kind # "cancel"
  BY <1>2, Watched DEF Watching, Shown
<1>5. CASE /\ answer = "session" /\ ui' = [ui EXCEPT !.session = call[q].watch]
           /\ flow' = [flow EXCEPT ![r] = "script"] /\ UNCHANGED result
  <2>1. call[q].watch \in Watch
    BY <1>1, <1>5 DEF Receive
  <2>2. flow'[r] = "script" /\ \A x \in Prompt : x # r => flow'[x] = flow[x]
    BY <1>5 DEF UiInv, RuntimeType
  <2>3. /\ ui' \in UiType /\ ui'.prompt = r /\ ui'.phase \in Busy /\ ui'.session \in Watch
        /\ ui'.grant = NoPrompt
    BY <1>4, <1>5, <2>1 DEF UiInv, RuntimeType, UiType
  <2>4. Shown(r)'
    BY <2>2, <2>3 DEF Shown, Watching
  <2>5. ContInv'
    BY <1>1, <1>3, <1>4, <2>2, ContKept
  <2> QED
    BY <1>1, <1>2, <1>4, <1>5, <2>3, <2>4, <2>5, GoesOn DEF Watching, UiInv, RuntimeType
<1>6. CASE Fails(r)
  BY <1>1, <1>2, <1>3, <1>4, <1>6, FailsOver
<1>7. CASE Settle("denied") /\ flow' = [flow EXCEPT ![r] = "over"]
  BY <1>1, <1>2, <1>3, <1>4, <1>7, SettlesOver DEF UiInv, RuntimeType
<1> QED
  BY <1>5, <1>6, <1>7 DEF StartReply, Goto

LEMMA GrantUi ==
    ASSUME UiInv, NEW q \in Slot, NEW r \in Prompt, NEW answer, GrantReply(q, r, answer)
    PROVE  UiInv'
<1> DEFINE resumed == {f \in Prompt : flow[f] = "closed" /\ awaits[f] = r}
<1>1. Receive(q, "grant", r, answer) /\ UNCHANGED <<awaits, script>>
  BY DEF GrantReply
<1>2. /\ flow[r] \in {"rewarded", "closed"} /\ cont' \in [Slot -> ContType] /\ cont'[q] = NoCont
      /\ \A p \in Slot : p # q => cont'[p] = cont[p]
      /\ \A p \in Slot : p # q /\ cont[p].kind # "none" => cont[p].flow # r
  BY <1>1, Received DEF Resumes
<1>3. \A p \in Slot : cont'[p].kind = "none" \/ (cont'[p] = cont[p] /\ cont[p].flow # r)
  BY <1>2 DEF NoCont
<1>4. /\ flow[r] \in Watching /\ ui.prompt = r /\ ui.phase \in Busy /\ Shown(r)
      /\ \A p \in Slot : cont[p].kind # "cancel"
      /\ \A x \in Prompt : x # r => flow[x] \notin Watching
  BY <1>2, Watched DEF Watching
<1>5. resumed = IF flow[r] = "closed" THEN {r} ELSE {}
  BY <1>4 DEF Shown, Watching
<1>6. PICK g \in {"kept", "broken"} : grant' = [grant EXCEPT ![r] = g]
  BY DEF GrantReply
<1>7. /\ grant' \in [Prompt -> {"none", "pending", "kept", "broken"}] /\ grant'[r] = g
      /\ \A x \in Prompt : x # r => grant'[x] = grant[x]
  BY <1>6 DEF UiInv, RuntimeType
<1>8. CASE flow[r] = "rewarded"
  <2>0. resumed = {} /\ flow' = [f \in Prompt |-> IF f \in resumed THEN "over" ELSE flow[f]]
    BY <1>5, <1>8 DEF GrantReply
  <2>1. /\ flow' = flow /\ UNCHANGED result
        /\ \/ ui' = [ui EXCEPT !.phase = "granted"]
           \/ UNCHANGED ui
    BY <2>0 DEF GrantReply, UiInv, RuntimeType
  <2>2. ui' \in UiType /\ ui'.prompt = r /\ ui'.phase \in Busy /\ ui'.session = ui.session
        /\ ui'.grant = ui.grant
    BY <1>4, <2>1 DEF UiInv, RuntimeType, UiType, Busy
  <2>3. Shown(r)'
    BY <1>4, <1>7, <1>8, <2>1, <2>2 DEF Shown, Watching
  <2>4. ContInv'
    BY <1>3, <1>4, <1>7, <2>1, ContKept DEF UiInv, RuntimeType
  <2>5. flow' = [flow EXCEPT ![r] = "rewarded"]
    BY <1>8, <2>1 DEF UiInv, RuntimeType
  <2> QED
    BY <1>1, <1>2, <1>4, <1>7, <2>1, <2>2, <2>3, <2>4, <2>5, GoesOn DEF Watching, UiInv, RuntimeType
<1>9. CASE flow[r] = "closed"
  <2>1. flow' = [flow EXCEPT ![r] = "over"]
    BY <1>5, <1>9 DEF GrantReply, UiInv, RuntimeType
  <2>2. CASE Settle("granted")
    BY <1>1, <1>2, <1>3, <1>4, <1>7, <2>1, <2>2, SettlesOver
  <2>3. CASE ui' = [ui EXCEPT !.phase = "error"] /\ UNCHANGED result
    <3>1. /\ flow'[r] = "over" /\ \A x \in Prompt : x # r => flow'[x] = flow[x]
          /\ ui'.prompt = r /\ ui'.phase = "error" /\ ui' \in UiType
      BY <1>4, <2>1, <2>3 DEF UiInv, RuntimeType, UiType
    <3>2. RuntimeType'
      BY <1>1, <1>2, <1>7, <2>1, <2>3, <3>1 DEF UiInv, RuntimeType
    <3>3. ContInv'
      BY <1>3, <1>4, <1>7, <3>1, ContKept
    <3>4. OpenInv'
      BY <1>4, <3>1, RuntimeAssumption DEF OpenInv, Shown, Watching
    <3> QED
      BY <3>2, <3>3, <3>4 DEF UiInv
  <2> QED
    BY <1>5, <1>9, <2>2, <2>3 DEF GrantReply
<1> QED
  BY <1>2, <1>8, <1>9

LEMMA ClosedUi ==
    ASSUME UiInv, NEW q \in Slot, NEW r \in Prompt, NEW answer, ClosedReply(q, r, answer)
    PROVE  UiInv'
<1>1. Receive(q, "closed", r, answer) /\ UNCHANGED <<grant, awaits, script>>
  BY DEF ClosedReply
<1>2. /\ flow[r] = "closing" /\ cont' \in [Slot -> ContType] /\ cont'[q] = NoCont
      /\ \A p \in Slot : p # q => cont'[p] = cont[p]
      /\ \A p \in Slot : p # q /\ cont[p].kind # "none" => cont[p].flow # r
  BY <1>1, Received DEF Resumes
<1>3. \A p \in Slot : cont'[p].kind = "none" \/ (cont'[p] = cont[p] /\ cont[p].flow # r)
  BY <1>2 DEF NoCont
<1>4. flow[r] \in Watching
  BY <1>2 DEF Watching
<1>5. CASE Fails(r)
  BY <1>1, <1>2, <1>3, <1>4, <1>5, FailsOver
<1>6. CASE Settle("denied") /\ flow' = [flow EXCEPT ![r] = "over"]
  BY <1>1, <1>2, <1>3, <1>4, <1>6, SettlesOver DEF UiInv, RuntimeType
<1> QED
  BY <1>5, <1>6 DEF ClosedReply, Goto

LEMMA GrantedUi == ASSUME UiInv, NEW q \in Slot, NEW r \in Prompt, HandleGranted(q, r) PROVE UiInv'
<1>1. flow[r] = "ready" /\ flow' = [flow EXCEPT ![r] = "rewarded"] /\ UNCHANGED <<awaits, script, result>>
  BY DEF HandleGranted, Goto
<1>2. /\ flow[r] \in Watching /\ ui.prompt = r /\ ui.phase \in Busy /\ ui.session \in Watch
      /\ \A p \in Slot : cont[p].kind # "cancel"
  BY <1>1, Watched DEF Watching, Shown
<1>3. /\ Request(q, "grant", ui.session, "grant", r) /\ grant' = [grant EXCEPT ![r] = "pending"]
      /\ ui' = [ui EXCEPT !.grant = r]
  BY <1>2, RuntimeAssumption DEF HandleGranted
<1>4. /\ cont' \in [Slot -> ContType] /\ cont'[q].kind = "grant" /\ cont'[q].flow = r
      /\ \A p \in Slot : p # q => cont'[p] = cont[p]
  BY <1>3, Requested
<1>5. /\ flow'[r] = "rewarded" /\ grant'[r] = "pending"
      /\ \A x \in Prompt : x # r => flow'[x] = flow[x] /\ grant'[x] = grant[x]
      /\ grant' \in [Prompt -> {"none", "pending", "kept", "broken"}]
  BY <1>1, <1>3 DEF UiInv, RuntimeType
<1>6. /\ ui' \in UiType /\ ui'.prompt = r /\ ui'.phase \in Busy /\ ui'.session \in Watch
      /\ ui'.grant = r
  BY <1>2, <1>3 DEF UiInv, RuntimeType, UiType
<1>7. Shown(r)'
  BY <1>5, <1>6 DEF Shown, Watching
<1>8. \A p \in Slot : cont[p].kind = "none" \/ cont[p].flow # r
  BY <1>1, <1>2, RuntimeAssumption DEF UiInv, ContInv, Resumes, RuntimeType, ContType
<1>9. Resumes(cont[q])'
  BY <1>4, <1>5 DEF Resumes
<1>10. ContInv'
  BY <1>2, <1>4, <1>5, <1>8, <1>9, ContAsked
<1> QED
  BY <1>1, <1>2, <1>4, <1>5, <1>6, <1>7, <1>10, GoesOn DEF Watching, UiInv, RuntimeType

LEMMA HandleClosedUi ==
    ASSUME UiInv, NEW q \in Slot, NEW r \in Prompt, HandleClosed(q, r)
    PROVE  UiInv'
<1>1. flow[r] \in {"ready", "rewarded"} /\ UNCHANGED <<grant, script>>
  BY DEF HandleClosed
<1>2. /\ flow[r] \in Watching /\ ui.prompt = r /\ ui.phase \in Busy /\ ui.session \in Watch
      /\ flow[r] = "ready" => ui.grant = NoPrompt
      /\ flow[r] = "rewarded" => ui.grant = r
      /\ \A p \in Slot : cont[p].kind # "cancel"
  BY <1>1, Watched DEF Watching, Shown
<1>3. CASE /\ ui.grant # NoPrompt /\ grant[ui.grant] = "pending"
           /\ flow' = [flow EXCEPT ![r] = "closed"]
           /\ awaits' = [awaits EXCEPT ![r] = ui.grant]
           /\ UNCHANGED <<ui, result, cont>>
  <2>1. /\ flow[r] = "rewarded" /\ ui.grant = r /\ grant'[r] = "pending"
        /\ flow'[r] = "closed" /\ awaits'[r] = r
        /\ \A x \in Prompt : x # r => flow'[x] = flow[x]
        /\ awaits' \in [Prompt -> Prompt \union {NoPrompt}]
    BY <1>1, <1>2, <1>3 DEF UiInv, RuntimeType
  <2>2. Shown(r)'
    BY <1>2, <1>3, <2>1 DEF Shown, Watching
  <2>3. ASSUME NEW p \in Slot PROVE Resumes(cont[p])'
    <3>1. PICK c : c = cont[p] /\ Resumes(c)
      BY DEF UiInv, ContInv
    <3>2. Resumes(c)'
      BY <1>1, <1>3, <2>1, <3>1 DEF Resumes
    <3> QED
      BY <1>3, <3>1, <3>2
  <2>4. ContInv'
    BY <1>3, <2>3 DEF UiInv, ContInv
  <2> QED
    BY <1>1, <1>2, <1>3, <2>1, <2>2, <2>4, GoesOn DEF Watching, UiInv, RuntimeType
<1>4. CASE /\ ui.grant # NoPrompt /\ grant[ui.grant] # "pending" /\ UNCHANGED <<awaits, cont>>
           /\ \/ Settle("granted") /\ flow' = [flow EXCEPT ![r] = "over"]
              \/ Fails(r)
  <2>1. flow[r] = "rewarded" /\ grant[r] # "pending"
    BY <1>1, <1>2, <1>4
  <2>2. \A p \in Slot : cont[p].kind = "none" \/ cont[p].flow # r
    BY <2>1, <1>2, RuntimeAssumption DEF UiInv, ContInv, Resumes, RuntimeType, ContType
  <2>3. \A p \in Slot : cont'[p].kind = "none" \/ (cont'[p] = cont[p] /\ cont[p].flow # r)
    BY <1>4, <2>2
  <2>4. CASE Fails(r)
    BY <1>1, <1>2, <1>4, <2>3, <2>4, FailsOver DEF UiInv, RuntimeType
  <2>5. CASE Settle("granted") /\ flow' = [flow EXCEPT ![r] = "over"]
    BY <1>1, <1>2, <1>4, <2>3, <2>5, SettlesOver DEF UiInv, RuntimeType
  <2> QED
    BY <1>4, <2>4, <2>5
<1>5. CASE /\ ui.grant = NoPrompt /\ Request(q, "close", ui.session, "closed", r)
           /\ flow' = [flow EXCEPT ![r] = "closing"] /\ UNCHANGED <<ui, awaits, result>>
  <2>1. /\ cont' \in [Slot -> ContType] /\ cont'[q].kind = "closed" /\ cont'[q].flow = r
        /\ \A p \in Slot : p # q => cont'[p] = cont[p]
    BY <1>5, Requested
  <2>2. /\ flow[r] = "ready" /\ flow'[r] = "closing"
        /\ \A x \in Prompt : x # r => flow'[x] = flow[x]
    BY <1>1, <1>2, <1>5, RuntimeAssumption DEF UiInv, RuntimeType
  <2>3. Shown(r)'
    BY <1>2, <1>5, <2>2 DEF Shown, Watching
  <2>4. \A p \in Slot : cont[p].kind = "none" \/ cont[p].flow # r
    BY <1>2, <2>2, RuntimeAssumption DEF UiInv, ContInv, Resumes, RuntimeType, ContType
  <2>5. Resumes(cont[q])'
    BY <2>1, <2>2 DEF Resumes
  <2>6. ContInv'
    BY <1>1, <1>2, <2>1, <2>2, <2>4, <2>5, ContAsked
  <2> QED
    BY <1>1, <1>2, <1>5, <2>1, <2>3, <2>6, GoesOn DEF Watching, UiInv, RuntimeType
<1> QED
  BY <1>2, <1>3, <1>4, <1>5, RuntimeAssumption DEF HandleClosed, Goto, Fails, net

LEMMA AdUi ==
    ASSUME UiInv, NEW r \in Prompt, LaunchRewardedSlot(r) \/ HandleReady(r) \/ HandleTimeout(r)
    PROVE  UiInv'
<1>1. flow[r] \in {"script", "ad"} /\ UNCHANGED <<grant, awaits, cont>>
  BY DEF LaunchRewardedSlot, HandleReady, HandleTimeout, net
<1>2. /\ flow[r] \in Watching /\ ui.prompt = r /\ ui.phase \in Busy /\ ui.session \in Watch
      /\ ui.grant = NoPrompt /\ \A p \in Slot : cont[p].kind # "cancel"
  BY <1>1, Watched DEF Watching, Shown
<1>3. \A p \in Slot : cont[p].kind = "none" \/ cont[p].flow # r
  BY <1>1, <1>2, RuntimeAssumption DEF UiInv, ContInv, Resumes, RuntimeType, ContType
<1>4. \A p \in Slot : cont'[p].kind = "none" \/ (cont'[p] = cont[p] /\ cont[p].flow # r)
  BY <1>1, <1>3
<1>5. CASE Fails(r)
  BY <1>1, <1>2, <1>4, <1>5, FailsOver DEF UiInv, RuntimeType
<1>6. ASSUME NEW st \in {"ad", "ready"}, flow' = [flow EXCEPT ![r] = st], UNCHANGED result,
             \/ UNCHANGED ui
             \/ ui' = [ui EXCEPT !.phase = "showing-ad"]
      PROVE  UiInv'
  <2>1. flow'[r] = st /\ \A x \in Prompt : x # r => flow'[x] = flow[x]
    BY <1>6 DEF UiInv, RuntimeType
  <2>2. /\ ui' \in UiType /\ ui'.prompt = r /\ ui'.phase \in Busy /\ ui'.session \in Watch
        /\ ui'.grant = NoPrompt
    BY <1>2, <1>6 DEF UiInv, RuntimeType, UiType, Busy
  <2>3. Shown(r)'
    BY <2>1, <2>2 DEF Shown, Watching
  <2>4. ContInv'
    BY <1>1, <1>2, <1>4, <2>1, ContKept
  <2> QED
    BY <1>1, <1>2, <1>6, <2>2, <2>3, <2>4, GoesOn DEF Watching, UiInv, RuntimeType
<1> QED
  BY <1>5, <1>6 DEF LaunchRewardedSlot, HandleReady, HandleTimeout, Goto

LEMMA TagUi == ASSUME UiInv, ScriptLoads \/ ScriptError PROVE UiInv'
<1>1. UNCHANGED <<grant, awaits, cont, result>>
  BY DEF ScriptLoads, ScriptError, net, flows
<1>2. ASSUME NEW r \in Prompt, flow[r] = "script", ScriptError PROVE UiInv'
  <2>1. /\ flow[r] \in Watching /\ ui.prompt = r /\ \A x \in Prompt : x # r => flow[x] # "script"
    BY <1>2, Watched DEF Watching
  <2>2. ui' = [ui EXCEPT !.phase = "error"]
        /\ flow' = [x \in Prompt |-> IF flow[x] = "script" THEN "over" ELSE flow[x]]
    BY <1>2 DEF ScriptError
  <2>3. flow' = [flow EXCEPT ![r] = "over"]
    BY <1>2, <2>1, <2>2 DEF UiInv, RuntimeType
  <2>4. Fails(r)
    BY <1>1, <2>2, <2>3 DEF Fails, Goto
  <2>5. \A p \in Slot : cont[p].kind = "none" \/ cont[p].flow # r
    BY <1>2, <2>1, Watched, RuntimeAssumption DEF UiInv, ContInv, Resumes, RuntimeType, ContType
  <2>6. \A p \in Slot : cont'[p].kind = "none" \/ (cont'[p] = cont[p] /\ cont[p].flow # r)
    BY <1>1, <2>5
  <2> QED
    BY <1>1, <2>1, <2>4, <2>6, FailsOver DEF UiInv, RuntimeType
<1>3. CASE UNCHANGED <<ui, flow>>
  BY <1>1, <1>3 DEF UiInv, RuntimeType, OpenInv, ContInv, Shown, Resumes
<1>4. CASE ScriptLoads
  BY <1>3, <1>4 DEF ScriptLoads, flows
<1>5. CASE ScriptError /\ \A r \in Prompt : flow[r] # "script"
  <2>1. UNCHANGED ui /\ flow' = [x \in Prompt |-> IF flow[x] = "script" THEN "over" ELSE flow[x]]
    BY <1>5 DEF ScriptError
  <2>2. flow' = flow
    BY <1>5, <2>1 DEF UiInv, RuntimeType
  <2> QED
    BY <1>3, <2>1, <2>2
<1> QED
  BY <1>2, <1>4, <1>5

(* Close in an error, or "Not now": with one click at a time there is one   *)
(* request to cancel at most, and nothing else under way.                  *)
LEMMA CancelUi ==
    ASSUME UiInv, ~DoubleClicks, NEW q \in Slot,
           CancelPrompt(q) \/ \E answer : CancelReply(q, answer)
    PROVE  UiInv'
<1>0. UNCHANGED <<flow, grant, awaits>>
  BY DEF CancelPrompt, CancelReply, flows
<1>1. ASSUME Settle("denied"), cont' \in [Slot -> ContType], ui.phase \notin Busy,
             \A p \in Slot : cont'[p].kind = "none"
                                 \/ (cont'[p] = cont[p] /\ cont[p].kind # "cancel")
      PROVE  UiInv'
  <2>1. \A r \in Prompt : flow[r] \notin Watching
    BY <1>1, Watched
  <2>2. ui' = InitialState
    BY <1>1 DEF Settle
  <2>3. RuntimeType'
    BY <1>0, <1>1, <2>2 DEF Settle, UiInv, RuntimeType, UiType, InitialState
  <2>4. OpenInv'
    BY <1>0, <2>1, <2>2, RuntimeAssumption DEF OpenInv, InitialState
  <2>5. ASSUME NEW p \in Slot PROVE Resumes(cont[p])'
    <3>1. CASE cont'[p].kind = "none"
      BY <3>1 DEF Resumes
    <3>2. CASE cont'[p] = cont[p] /\ cont[p].kind # "cancel"
      <4>1. PICK c : c = cont[p] /\ Resumes(c) /\ c.kind # "cancel"
        BY <3>2 DEF UiInv, ContInv
      <4>2. Resumes(c)'
        BY <1>0, <4>1 DEF Resumes
      <4> QED
        BY <3>2, <4>1, <4>2
    <3> QED
      BY <1>1, <3>1, <3>2
  <2>6. ContInv'
    BY <1>1, <2>5 DEF UiInv, ContInv
  <2> QED
    BY <2>3, <2>4, <2>6 DEF UiInv
<1>2. CASE CancelPrompt(q)
  <2>1. /\ ui.prompt # NoPrompt /\ ui.phase \in {"prompt", "error"}
        /\ \A p \in Slot : cont[p].kind # "cancel"
    BY <1>2 DEF CancelPrompt
  <2>2. CASE Settle("denied") /\ UNCHANGED cont
    <3>1. ui.phase \notin Busy
      BY <2>1 DEF Busy
    <3> QED
      BY <1>1, <2>1, <2>2, <3>1 DEF UiInv, RuntimeType
  <2>3. CASE /\ ui.session # NoWatch /\ Request(q, "close", ui.session, "cancel", NoPrompt)
             /\ UNCHANGED <<ui, result>>
    <3>1. /\ cont' \in [Slot -> ContType] /\ cont'[q].kind = "cancel" /\ cont'[q].flow = NoPrompt
          /\ \A p \in Slot : p # q => cont'[p] = cont[p]
      BY <2>3, Requested
    <3>2. ui.prompt \in Prompt /\ ui.session \in Watch
      BY <2>1, <2>3 DEF UiInv, RuntimeType, UiType
    <3>3. ui.phase = "error"
      BY <2>1, <2>3, <3>2 DEF UiInv, OpenInv, Shown, Busy
    <3>4. RuntimeType' /\ OpenInv'
      BY <1>0, <2>3, <3>1 DEF UiInv, RuntimeType, OpenInv, Shown
    <3>5. ASSUME NEW p \in Slot PROVE Resumes(cont[p])'
      <4>1. CASE p = q
        BY <2>3, <3>1, <3>2, <3>3, <4>1 DEF Resumes
      <4>2. CASE p # q
        <5>1. PICK c : c = cont[p] /\ Resumes(c)
          BY DEF UiInv, ContInv
        <5>2. Resumes(c)'
          BY <1>0, <2>3, <5>1 DEF Resumes
        <5> QED
          BY <3>1, <4>2, <5>1, <5>2
      <4> QED
        BY <4>1, <4>2
    <3>6. \A a, b \in Slot : cont'[a] = cont'[b] /\ cont'[a].kind # "none" => a = b
      BY <2>1, <3>1 DEF UiInv, ContInv
    <3> QED
      BY <3>4, <3>5, <3>6 DEF UiInv, ContInv
  <2> QED
    BY <1>2, <2>2, <2>3 DEF CancelPrompt, net
<1>3. CASE \E answer : CancelReply(q, answer)
  <2>1. /\ cont[q] = [kind |-> "cancel", flow |-> NoPrompt]
        /\ cont' = [cont EXCEPT ![q] = NoCont] /\ Settle("denied")
    BY <1>3 DEF CancelReply, Receive
  <2>2. ui.phase \notin Busy
    BY <2>1 DEF UiInv, ContInv, Resumes, Busy
  <2>3. ASSUME NEW p \in Slot, p # q, cont[p].kind = "cancel" PROVE FALSE
    <3>1. Resumes(cont[p]) /\ cont[p] \in ContType /\ cont[p] # cont[q]
      BY <2>1, <2>3 DEF UiInv, ContInv, RuntimeType
    <3> QED
      BY <2>1, <2>3, <3>1 DEF Resumes, ContType
  <2>4. /\ cont' \in [Slot -> ContType] /\ cont'[q].kind = "none"
        /\ \A p \in Slot : p # q => cont'[p] = cont[p]
    BY <2>1 DEF UiInv, RuntimeType, ContType, NoCont
  <2> QED
    BY <1>1, <2>1, <2>2, <2>3, <2>4
<1> QED
  BY <1>2, <1>3

LEMMA UiStep ==
    ASSUME UiInv, ~DoubleClicks, [Next]_vars,
           \A q \in Slot : call[q].answer = "session" => call[q].watch \in Watch
    PROVE  UiInv'
<1>1. CASE UNCHANGED <<ui, flow, grant, awaits, cont, result>>
  BY <1>1 DEF UiInv, RuntimeType, OpenInv, ContInv, Shown, Resumes
<1>2. CASE UNCHANGED vars \/ Tick \/ \E q \in Slot : ServerStep(q)
  BY <1>1, <1>2 DEF vars, flows, net, Tick, ServerStep
<1>3. CASE \E q \in Slot : Reply(q)
  <2>1. PICK q \in Slot : Reply(q)
    BY <1>3
  <2>2. ASSUME NEW r \in Prompt, NEW a, \/ CurrentReply(q, r, a) \/ StartReply(q, r, a)
                                        \/ GrantReply(q, r, a) \/ ClosedReply(q, r, a)
        PROVE  UiInv'
    BY <2>2, CurrentUi, StartUi, GrantUi, ClosedUi
  <2> QED
    BY <2>1, <2>2, CancelUi DEF Reply
<1>4. CASE \E q \in Slot, r \in Prompt : RequireUnlock(q, r) \/ HandleGranted(q, r)
  BY <1>4, UnlockUi, GrantedUi
<1>5. CASE Choose
  BY <1>5, CancelUi, BeginUi DEF Choose
<1>6. CASE \E r \in Prompt : Ad(r)
  BY <1>6, AdUi, HandleClosedUi DEF Ad
<1>7. CASE ScriptLoads \/ ScriptError
  BY <1>7, TagUi
<1> QED
  BY <1>2, <1>3, <1>4, <1>5, <1>6, <1>7 DEF Next

-----------------------------------------------------------------------------
(***************************************************************************)
(* The server goes its own way under all this: what is proved of it in any *)
(* surroundings holds of it here.                                          *)
(***************************************************************************)
LEMMA ServerIsSound == ServerTheory!RewardedAssumption
BY ServerAssumption DEF Server!RewardedAssumption, ServerTheory!RewardedAssumption

LEMMA SameRecords ==
    /\ Server!NoCall = ServerTheory!NoCall /\ Server!NoRow = ServerTheory!NoRow
    /\ Server!Answers = ServerTheory!Answers
BY DEF Server!NoCall, ServerTheory!NoCall, Server!NoRow, ServerTheory!NoRow,
       Server!Answers, ServerTheory!Answers, Server!Reasons, ServerTheory!Reasons

LEMMA SameCardinality == \A S : Server!Cardinality(S) = ServerTheory!Cardinality(S)
BY DEF Server!Cardinality, ServerTheory!Cardinality

LEMMA SameReason == \A g : Server!Reason(g) = ServerTheory!Reason(g)
<1>1. \A R : Server!Newest(R) = ServerTheory!Newest(R)
  BY SameCardinality DEF Server!Newest, ServerTheory!Newest
<1>2. \A g : Server!Recent(g) = ServerTheory!Recent(g)
  BY <1>1 DEF Server!Recent, ServerTheory!Recent
<1>3. \A R : Server!Today(R) = ServerTheory!Today(R)
  BY DEF Server!Today, ServerTheory!Today
<1> QED
  BY <1>2, <1>3, SameCardinality DEF Server!Reason, ServerTheory!Reason

LEMMA SameServe == \A q \in Slot : Server!Serve(q) => ServerTheory!Serve(q)
<1> SUFFICES ASSUME NEW q \in Slot, Server!Serve(q) PROVE ServerTheory!Serve(q)
  OBVIOUS
<1> USE DEF Server!config, ServerTheory!config, Server!tables, ServerTheory!tables
<1>1. \A w, a : Server!Answer(q, w, a) => ServerTheory!Answer(q, w, a)
  BY SameRecords DEF Server!Answer, ServerTheory!Answer
<1>2. \A op, stage : Server!At(q, op, stage) => ServerTheory!At(q, op, stage)
  BY DEF Server!At, ServerTheory!At
<1>3. \A w : Server!Receipt(w) = ServerTheory!Receipt(w) /\ Server!Rewarded(w) = ServerTheory!Rewarded(w)
  BY SameCardinality DEF Server!Receipt, ServerTheory!Receipt, Server!Rewarded, ServerTheory!Rewarded
<1>4. Server!GetCurrentState(q) => ServerTheory!GetCurrentState(q)
  BY <1>1, <1>2, SameReason DEF Server!GetCurrentState, ServerTheory!GetCurrentState
<1>5. Server!StartGate(q) => ServerTheory!StartGate(q)
  BY <1>1, <1>2, SameReason, SameCardinality DEF Server!StartGate, ServerTheory!StartGate
<1>6. Server!GrantReward(q) => ServerTheory!GrantReward(q)
  BY <1>1, <1>2, SameCardinality DEF Server!GrantReward, ServerTheory!GrantReward
<1>7. Server!CommitReward(q) => ServerTheory!CommitReward(q)
  BY <1>1, <1>2, <1>3 DEF Server!CommitReward, ServerTheory!CommitReward
<1>8. Server!CloseSession(q) => ServerTheory!CloseSession(q)
  BY <1>1, <1>2, <1>3 DEF Server!CloseSession, ServerTheory!CloseSession
<1>9. Server!PatchClosed(q) => ServerTheory!PatchClosed(q)
  BY <1>1, <1>2 DEF Server!PatchClosed, ServerTheory!PatchClosed
<1>10. \A w \in Watch : Server!CreateWatch(q, w) => ServerTheory!CreateWatch(q, w)
  BY <1>1, <1>2 DEF Server!CreateWatch, ServerTheory!CreateWatch
<1> QED
  BY <1>4, <1>5, <1>6, <1>7, <1>8, <1>9, <1>10 DEF Server!Serve, ServerTheory!Serve

LEMMA ServerInit == Server!Init => ServerTheory!Init
BY SameRecords DEF Server!Init, ServerTheory!Init

LEMMA SameRespond ==
    ASSUME NEW q \in Slot, Server!Respond(q)
    PROVE  /\ ServerTheory!Ends(q) /\ call' = [call EXCEPT ![q] = ServerTheory!NoCall]
           /\ UNCHANGED <<now, rules, provider, watch, receipts>>
BY SameRecords DEF Server!Respond, ServerTheory!Ends, ServerTheory!InTx,
   Server!config, ServerTheory!config, Server!tables, ServerTheory!tables

(* A request goes out, for whatever session, and one ends. *)
LEMMA RequestStep ==
    ASSUME NEW q \in Slot, NEW op \in {"current", "start", "grant", "close"},
           NEW w \in Watch \union {NoWatch}, NEW kind, NEW r, Request(q, op, w, kind, r)
    PROVE  /\ ServerTheory!AnyStep /\ UNCHANGED <<now, rules, provider, watch, receipts>>
           /\ \E g \in Gate : ServerTheory!Arrive(q, op, g, w)
<1>1. PICK g \in Gate : Server!Arrive(q, op, g, w)
  BY DEF Request
<1>2. ServerTheory!Arrive(q, op, g, w)
  BY <1>1, SameRecords DEF Server!Arrive, ServerTheory!Arrive, Server!config,
     ServerTheory!config, Server!tables, ServerTheory!tables
<1>3. UNCHANGED <<now, rules, provider, watch, receipts>>
  BY <1>1 DEF Server!Arrive, Server!config, Server!tables
<1> QED
  BY <1>2, <1>3 DEF ServerTheory!AnyStep

LEMMA ReceiveStep ==
    ASSUME NEW q \in Slot, NEW kind, NEW r, NEW answer, Receive(q, kind, r, answer)
    PROVE  /\ ServerTheory!AnyStep /\ UNCHANGED <<now, rules, provider, watch, receipts>>
           /\ \/ UNCHANGED call /\ answer = "error" /\ lost'
              \/ call' = [call EXCEPT ![q] = ServerTheory!NoCall]
<1>1. CASE Server!Respond(q)
  BY <1>1, SameRespond DEF ServerTheory!AnyStep
<1>2. CASE UNCHANGED <<now, rules, provider, watch, receipts, call>> /\ answer = "error" /\ lost'
  BY <1>2 DEF ServerTheory!AnyStep, ServerTheory!vars, ServerTheory!config, ServerTheory!tables
<1>3. CASE /\ call[q].stage = "run" /\ call' = [call EXCEPT ![q] = Server!NoCall]
           /\ UNCHANGED <<now, rules, provider, watch, receipts>>
  <2>1. ServerTheory!Ends(q) /\ call' = [call EXCEPT ![q] = ServerTheory!NoCall]
    BY <1>3, SameRecords DEF ServerTheory!Ends, ServerTheory!InTx, ServerTheory!config,
       ServerTheory!tables
  <2> QED
    BY <1>3, <2>1 DEF ServerTheory!AnyStep
<1> QED
  BY <1>1, <1>2, <1>3 DEF Receive

LEMMA ServerMoves ==
    ASSUME UiInv, [Next]_vars
    PROVE  ServerTheory!AnyStep
<1>1. ui.session \in Watch \union {NoWatch}
  BY DEF UiInv, RuntimeType, UiType
<1>2. CASE UNCHANGED server
  BY <1>2 DEF server, ServerTheory!AnyStep, ServerTheory!vars, ServerTheory!config,
     ServerTheory!tables
<1>3. ASSUME NEW q \in Slot, ServerStep(q) PROVE ServerTheory!AnyStep
  BY <1>3, SameServe, SameRespond DEF ServerStep, ServerTheory!AnyStep
<1>4. ASSUME NEW q \in Slot, Reply(q) PROVE ServerTheory!AnyStep
  <2>1. PICK kind, r, a : Receive(q, kind, r, a)
    BY <1>4 DEF Reply, CurrentReply, StartReply, GrantReply, ClosedReply, CancelReply
  <2> QED
    BY <2>1, ReceiveStep
<1>5. CASE Tick
  <2>1. ServerTheory!Tick
    BY <1>5 DEF Tick, Server!Tick, ServerTheory!Tick, Server!tables, ServerTheory!tables
  <2> QED
    BY <2>1 DEF ServerTheory!AnyStep
<1>6. ASSUME NEW q \in Slot, NEW r \in Prompt, RequireUnlock(q, r) \/ BeginWatch(q, r)
      PROVE  ServerTheory!AnyStep
  BY <1>6, RequestStep DEF RequireUnlock, BeginWatch
<1>7. ASSUME NEW q \in Slot, NEW r \in Prompt, HandleGranted(q, r) \/ HandleClosed(q, r)
      PROVE  ServerTheory!AnyStep
  <2>1. CASE Request(q, "grant", ui.session, "grant", r) \/ Request(q, "close", ui.session, "closed", r)
    BY <1>1, <2>1, RequestStep
  <2> QED
    BY <1>2, <1>7, <2>1 DEF HandleGranted, HandleClosed
<1>8. ASSUME NEW q \in Slot, CancelPrompt(q) PROVE ServerTheory!AnyStep
  BY <1>1, <1>2, <1>8, RequestStep DEF CancelPrompt
<1>9. ASSUME NEW r \in Prompt, LaunchRewardedSlot(r) \/ HandleReady(r) \/ HandleTimeout(r)
      PROVE  UNCHANGED server
  BY <1>9 DEF LaunchRewardedSlot, HandleReady, HandleTimeout
<1>10. CASE ScriptLoads \/ ScriptError \/ UNCHANGED vars
  BY <1>2, <1>10 DEF ScriptLoads, ScriptError, vars
<1> QED
  BY <1>2, <1>3, <1>4, <1>5, <1>6, <1>7, <1>8, <1>9, <1>10 DEF Next, Choose, Ad

-----------------------------------------------------------------------------
(***************************************************************************)
(* The prompts with the server: a reward is for the session the prompt was *)
(* opened with.                                                            *)
(***************************************************************************)
RewardInv == UiInv /\ ServerTheory!TypeInv /\ ServerTheory!RowInv /\ ServerTheory!AnswerInv

LEMMA RewardInit == Init => RewardInv
<1> SUFFICES ASSUME Init PROVE RewardInv
  OBVIOUS
<1>1. UiInv
  BY RuntimeAssumption DEF Init, UiInv, RuntimeType, UiType, ContType, InitialState, NoCont,
     OpenInv, ContInv, Resumes, Watching
<1>2. ServerTheory!Init
  BY ServerInit DEF Init
<1>3. ServerTheory!TypeInv
  BY <1>2, ServerTheory!TypeInit, ServerIsSound
<1>4. ServerTheory!RowInv /\ ServerTheory!AnswerInv
  BY <1>2 DEF ServerTheory!Init, ServerTheory!RowInv, ServerTheory!AnswerInv,
     ServerTheory!NoCall, ServerTheory!NoRow
<1> QED
  BY <1>1, <1>3, <1>4 DEF RewardInv

LEMMA RewardStep == ASSUME RewardInv, ~DoubleClicks, [Next]_vars PROVE RewardInv'
<1>1. UiInv'
  BY UiStep DEF RewardInv, ServerTheory!AnswerInv
<1>2. ServerTheory!AnyStep
  BY ServerMoves DEF RewardInv
<1>3. ServerTheory!TypeInv' /\ ServerTheory!RowInv' /\ ServerTheory!AnswerInv'
  BY <1>2, ServerIsSound, ServerTheory!TypeStep, ServerTheory!RowStep, ServerTheory!AnswerStep
     DEF RewardInv
<1> QED
  BY <1>1, <1>3 DEF RewardInv

(* The reward of an ad that was watched to its end goes to the server, for  *)
(* a session that its prompt has got, whatever is lost on the way, for any *)
(* prompts and requests of a tab where Close is clicked once.              *)
THEOREM RewardReachesServerHolds ==
    ASSUME ~DoubleClicks
    PROVE  Spec => RewardReachesServer
<1>1. ASSUME RewardInv, NEW q \in Slot, NEW r \in Prompt, HandleGranted(q, r)
      PROVE  grant'[r] = "pending" /\ ui.session \in Watch
  <2>1. flow[r] = "ready"
    BY <1>1 DEF HandleGranted
  <2>2. ui.prompt = r /\ ui.session \in Watch
    BY <1>1, <2>1, Watched DEF RewardInv, Watching, Shown
  <2>3. grant' = [grant EXCEPT ![r] = "pending"]
    BY <1>1, <2>2, RuntimeAssumption DEF HandleGranted
  <2> QED
    BY <1>1, <2>2, <2>3 DEF RewardInv, UiInv, RuntimeType
<1>2. RewardInv /\ [Next]_vars
          => [\A q \in Slot, r \in Prompt :
                  HandleGranted(q, r) => grant'[r] = "pending" /\ ui.session \in Watch]_vars
  BY <1>1
<1>3. RewardInv /\ [Next]_vars => RewardInv'
  BY RewardStep
<1> QED
  BY <1>2, <1>3, RewardInit, PTL DEF Spec, RewardReachesServer

-----------------------------------------------------------------------------
(***************************************************************************)
(* What requests in flight have come to on the server.  A request for a    *)
(* session is about one that is there; whoever hears that it was closed    *)
(* finds it over.                                                          *)
(***************************************************************************)
OpOf(kind) == IF kind \in {"closed", "cancel"} THEN "close" ELSE kind

Served(q) ==
    /\ \/ call[q].op = OpOf(cont[q].kind) /\ call[q].stage \in {"run", "write"}
       \/ call[q].op = "none" /\ call[q].stage = "done"
    /\ cont[q].kind \in {"grant", "closed", "cancel"} =>
           call[q].watch \in Watch /\ watch[call[q].watch].status # "none"
    /\ cont[q].kind \in {"closed", "cancel"} /\ call[q].stage = "done" =>
           watch[call[q].watch].status \in {"rewarded", "closed"}
    /\ call[q].answer = "session" => cont[q].kind = "start"

CallsInv ==
    /\ \A q \in Slot : cont[q].kind # "none" => Served(q)
    /\ ~lost => \A q \in Slot : call[q].stage # "idle" => cont[q].kind # "none"

TabInv ==
    /\ RewardInv /\ CallsInv
    /\ ServerTheory!ReceiptInv /\ ServerTheory!GrantedInv

LEMMA ServerStays ==
    ASSUME TabInv, ~DoubleClicks, [Next]_vars
    PROVE  /\ ServerTheory!AnyStep /\ RewardInv'
           /\ ServerTheory!ReceiptInv' /\ ServerTheory!GrantedInv'
<1>1. ServerTheory!AnyStep /\ RewardInv'
  BY ServerMoves, RewardStep DEF TabInv, RewardInv
<1> QED
  BY <1>1, ServerIsSound, ServerTheory!ReceiptStep DEF TabInv, RewardInv

(* A request that is left alone stays served. *)
LEMMA ServedStays ==
    ASSUME TabInv, ServerTheory!AnyStep, NEW q \in Slot, cont[q].kind # "none",
           cont'[q] = cont[q], call'[q] = call[q]
    PROVE  Served(q)'
<1>1. PICK c, k : c = call[q] /\ k = cont[q].kind
  OBVIOUS
<1>2. Served(q)
  BY DEF TabInv, CallsInv
<1>3. ASSUME c.watch \in Watch
      PROVE  /\ watch[c.watch].status # "none" => watch'[c.watch].status # "none"
             /\ watch[c.watch].status \in {"rewarded", "closed"}
                    => watch'[c.watch].status \in {"rewarded", "closed"}
  BY <1>3, ServerTheory!WatchOrigin, ServerTheory!StatusMoves, ServerIsSound DEF TabInv, RewardInv
<1> QED
  BY <1>1, <1>2, <1>3 DEF Served, OpOf

LEMMA CallsServe ==
    ASSUME TabInv, ServerTheory!AnyStep, NEW q \in Slot, ServerStep(q)
    PROVE  CallsInv'
<1>1. UNCHANGED <<cont, lost>>
  BY DEF ServerStep, net
<1>2. CASE Server!Respond(q) /\ cont[q] = NoCont
  <2>1. /\ call'[q].stage = "idle" /\ cont'[q].kind = "none"
        /\ \A p \in Slot : p # q => call'[p] = call[p]
    BY <1>1, <1>2, SameRespond DEF TabInv, RewardInv, ServerTheory!TypeInv, NoCont,
       ServerTheory!NoCall
  <2> QED
    BY <1>1, <2>1, ServedStays DEF CallsInv, TabInv
<1>3. CASE Server!Serve(q)
  <2>1. /\ call[q].stage \in {"run", "write"} /\ \A p \in Slot : p # q => call'[p] = call[p]
        /\ ServerTheory!GoesOn(q) \/ ServerTheory!Answered(q) \/ ServerTheory!Created(q)
    BY <1>3, SameServe, ServerTheory!ServeMoves, ServerIsSound DEF TabInv, RewardInv
  <2>2. PICK k : k = cont[q].kind /\ k = cont'[q].kind
    BY <1>1
  <2>3. ASSUME k # "none", ServerTheory!GoesOn(q) PROVE Served(q)'
    <3>1. /\ call[q].stage = "run" /\ call'[q].stage = "write" /\ call'[q].op = call[q].op
          /\ call'[q].watch = call[q].watch /\ UNCHANGED watch /\ call'[q].answer = "none"
      BY <2>3 DEF ServerTheory!GoesOn, ServerTheory!tables, TabInv, RewardInv,
         ServerTheory!AnswerInv
    <3> QED
      BY <2>2, <2>3, <3>1 DEF Served, TabInv, CallsInv
  <2>4. ASSUME k # "none", ServerTheory!Answered(q) PROVE Served(q)'
    <3>1. /\ call'[q].stage = "done" /\ call'[q].op = "none" /\ call'[q].answer # "session"
          /\ call[q].op \in {"grant", "close"} => call'[q].watch = call[q].watch
      BY <2>4 DEF ServerTheory!Answered, ServerTheory!Ended
    <3>2. /\ call[q].op = OpOf(k)
          /\ k \in {"grant", "closed", "cancel"} =>
                 call[q].watch \in Watch /\ watch[call[q].watch].status # "none"
      BY <2>1, <2>2, <2>4 DEF Served, TabInv, CallsInv
    <3>3. ASSUME k \in {"grant", "closed", "cancel"}
          PROVE  /\ call'[q].watch \in Watch /\ watch'[call'[q].watch].status # "none"
                 /\ k # "grant" => watch'[call'[q].watch].status \in {"rewarded", "closed"}
      <4>1. PICK w \in Watch : w = call[q].watch /\ w = call'[q].watch /\ watch[w].status # "none"
        BY <3>1, <3>2, <3>3 DEF OpOf
      <4>2. watch'[w].status # "none"
        BY <4>1, ServerTheory!WatchOrigin, ServerIsSound DEF TabInv, RewardInv
      <4>3. k # "grant" => watch'[w].status \in {"rewarded", "closed"}
        BY <2>4, <3>2, <3>3, <4>1, ServerTheory!CloseAnswered, ServerIsSound
           DEF TabInv, RewardInv, OpOf
      <4> QED
        BY <4>1, <4>2, <4>3
    <3> QED
      BY <2>2, <3>1, <3>3 DEF Served
  <2>5. ASSUME k # "none", ServerTheory!Created(q) PROVE Served(q)'
    <3>1. call[q].op = "start" /\ call'[q].stage = "done" /\ call'[q].op = "none"
      BY <2>5 DEF ServerTheory!Created, ServerTheory!CreateWatch, ServerTheory!At,
         ServerTheory!Ended
    <3>2. k = "start"
      BY <2>1, <2>2, <2>5, <3>1 DEF Served, TabInv, CallsInv, OpOf
    <3> QED
      BY <2>2, <3>1, <3>2 DEF Served
  <2>6. ASSUME NEW p \in Slot, cont'[p].kind # "none" PROVE Served(p)'
    <3>1. CASE p # q
      BY <1>1, <2>1, <2>6, <3>1, ServedStays
    <3>2. CASE p = q
      BY <2>1, <2>2, <2>3, <2>4, <2>5, <2>6, <3>2
    <3> QED
      BY <3>1, <3>2
  <2>7. ~lost' => \A p \in Slot : call'[p].stage # "idle" => cont'[p].kind # "none"
    BY <1>1, <2>1 DEF TabInv, CallsInv
  <2> QED
    BY <2>6, <2>7 DEF CallsInv
<1> QED
  BY <1>2, <1>3 DEF ServerStep

LEMMA CallsRequest ==
    ASSUME TabInv, ServerTheory!AnyStep, NEW q \in Slot, NEW w \in Watch \union {NoWatch},
           NEW kind \in {"current", "start", "grant", "closed", "cancel"},
           NEW r \in Prompt \union {NoPrompt}, Request(q, OpOf(kind), w, kind, r),
           kind \in {"grant", "closed", "cancel"} => w \in Watch /\ watch[w].status # "none"
    PROVE  CallsInv' /\ call'[q].watch = w
<1>1. /\ cont'[q].kind = kind /\ UNCHANGED lost
      /\ \A p \in Slot : p # q => cont'[p] = cont[p]
  BY Requested DEF TabInv, RewardInv, Request
<1>2. OpOf(kind) \in {"current", "start", "grant", "close"}
  BY DEF OpOf
<1>3. PICK g \in Gate : ServerTheory!Arrive(q, OpOf(kind), g, w)
  BY <1>2, RequestStep
<1>4. PICK rec : rec = [ServerTheory!NoCall EXCEPT !.op = OpOf(kind), !.stage = "run",
                                                  !.gate = g, !.watch = w]
  OBVIOUS
<1>5. rec.op = OpOf(kind) /\ rec.stage = "run" /\ rec.watch = w /\ rec.answer = "none"
  BY <1>4 DEF ServerTheory!NoCall
<1>6. call' = [call EXCEPT ![q] = rec] /\ UNCHANGED watch
  BY <1>3, <1>4 DEF ServerTheory!Arrive, ServerTheory!tables
<1>7. call'[q] = rec /\ \A p \in Slot : p # q => call'[p] = call[p]
  BY <1>6 DEF TabInv, RewardInv, ServerTheory!TypeInv
<1>8. Served(q)'
  BY <1>1, <1>5, <1>6, <1>7 DEF Served
<1>9. \A p \in Slot : p # q /\ cont'[p].kind # "none" => Served(p)'
  BY <1>1, <1>7, ServedStays
<1> QED
  BY <1>1, <1>5, <1>7, <1>8, <1>9 DEF CallsInv, TabInv

LEMMA CallsReceive ==
    ASSUME TabInv, ServerTheory!AnyStep, NEW q \in Slot, NEW kind, NEW r, NEW answer,
           Receive(q, kind, r, answer)
    PROVE  /\ CallsInv' /\ cont'[q].kind = "none" /\ (lost => lost')
           /\ \A p \in Slot : p # q => call'[p] = call[p] /\ cont'[p] = cont[p]
<1>1. cont'[q].kind = "none" /\ \A p \in Slot : p # q => cont'[p] = cont[p]
  BY DEF Receive, TabInv, RewardInv, UiInv, RuntimeType, NoCont
<1>2. \/ UNCHANGED call /\ lost'
      \/ call' = [call EXCEPT ![q] = ServerTheory!NoCall]
  BY ReceiveStep
<1>3. \A p \in Slot : p # q => call'[p] = call[p]
  BY <1>2 DEF TabInv, RewardInv, ServerTheory!TypeInv
<1>4. lost' \/ call'[q].stage = "idle"
  BY <1>2 DEF TabInv, RewardInv, ServerTheory!TypeInv, ServerTheory!NoCall
<1>5. lost => lost'
  BY DEF Receive
<1>6. \A p \in Slot : cont'[p].kind # "none" => Served(p)'
  BY <1>1, <1>3, ServedStays
<1> QED
  BY <1>1, <1>3, <1>4, <1>5, <1>6 DEF CallsInv, TabInv

LEMMA CallsLocal ==
    ASSUME TabInv, ServerTheory!AnyStep, UNCHANGED <<call, cont, lost>>
    PROVE  CallsInv'
BY ServedStays DEF CallsInv, TabInv

-----------------------------------------------------------------------------
(***************************************************************************)
(* The session f[r] that prompt r has got, if any: no two prompts have got *)
(* the same one, a prompt that is told "granted" has its receipt, and the  *)
(* requests for a session are for that of the prompt that made them.       *)
(***************************************************************************)
Sess(f) ==
    /\ \A r, s \in Prompt : f[r] = f[s] /\ f[r] \in Watch => r = s
    /\ \A r \in Prompt : f[r] \in Watch => watch[f[r]].status # "none"
    /\ ui.prompt \in Prompt => f[ui.prompt] = ui.session
    /\ \A r \in Prompt : flow[r] \in {"new", "asking"} => f[r] = NoWatch
    /\ \A r \in Prompt : grant[r] = "kept" \/ result[r] = "granted"
                             => \E x \in receipts : x.watch = f[r]

Asks(f, q) ==
    /\ cont[q].kind \in {"grant", "closed"} => call[q].watch = f[cont[q].flow]
    /\ cont[q].kind = "cancel" => call[q].watch = ui.session
    /\ cont[q].kind = "start" /\ call[q].answer = "session"
           => \A r \in Prompt : f[r] # call[q].watch

SessInv == \E f \in [Prompt -> Watch \union {NoWatch}] : Sess(f) /\ \A q \in Slot : Asks(f, q)

(* As long as nothing was lost, a started session is that of the open       *)
(* prompt or is on its way to it.                                          *)
KeptInv ==
    ~lost => \A w \in Watch : watch[w].status = "started" =>
        \/ ui.session = w
        \/ \E q \in Slot : /\ cont[q].kind = "start" /\ call[q].answer = "session"
                           /\ call[q].watch = w

(* What a step does to the requests: those that go on are asked for what    *)
(* they were, and a session that a request brings stays until it is heard. *)
NetGoes(f) ==
    /\ CallsInv' /\ \A q \in Slot : Asks(f, q)'
    /\ lost => lost'
    /\ \A q \in Slot : cont[q].kind = "start" /\ call[q].answer = "session"
           => lost' \/ (UNCHANGED <<cont[q], call[q]>>)

(* What a step does to the prompts when none of them gets a session.        *)
UiGoes(f) ==
    /\ \/ ui'.prompt = ui.prompt /\ ui'.session = ui.session
       \/ ui'.prompt = NoPrompt
       \/ ui'.prompt \in Prompt /\ flow[ui'.prompt] = "asking" /\ ui'.session = NoWatch
    /\ \A r \in Prompt : flow'[r] \in {"new", "asking"} => flow[r] \in {"new", "asking"}
    /\ \A r \in Prompt : grant'[r] = "kept" \/ result'[r] = "granted" =>
           grant[r] = "kept" \/ result[r] = "granted" \/ \E x \in receipts : x.watch = f[r]
    /\ ui.session \in Watch /\ ui'.session # ui.session =>
           lost' \/ watch[ui.session].status \in {"rewarded", "closed"}

LEMMA Goes ==
    ASSUME TabInv, KeptInv, ~DoubleClicks, [Next]_vars,
           NEW f \in [Prompt -> Watch \union {NoWatch}], Sess(f), UiGoes(f), NetGoes(f)
    PROVE  Sess(f)' /\ KeptInv'
<1>0. /\ ServerTheory!AnyStep /\ RewardInv'
      /\ ServerTheory!TypeInv /\ ServerTheory!RowInv /\ ServerTheory!AnswerInv'
  BY ServerStays DEF TabInv, RewardInv
<1>1. receipts \subseteq receipts'
  BY <1>0, ServerTheory!ReceiptsMove, ServerIsSound DEF ServerTheory!Commits
<1>2. \A w \in Watch : watch[w].status # "none" => watch'[w].status # "none"
  BY <1>0, ServerTheory!WatchOrigin, ServerIsSound
<1>3. Sess(f)'
  <2>1. \A r \in Prompt : f[r] \in Watch => watch'[f[r]].status # "none"
    BY <1>2 DEF Sess
  <2>2. ui'.prompt \in Prompt => f[ui'.prompt] = ui'.session
    BY RuntimeAssumption DEF Sess, UiGoes
  <2>3. \A r \in Prompt : flow'[r] \in {"new", "asking"} => f[r] = NoWatch
    BY DEF Sess, UiGoes
  <2>4. \A r \in Prompt : grant'[r] = "kept" \/ result'[r] = "granted"
                             => \E x \in receipts' : x.watch = f[r]
    BY <1>1 DEF Sess, UiGoes
  <2> QED
    BY <2>1, <2>2, <2>3, <2>4 DEF Sess
<1>4. ASSUME ~lost', NEW w \in Watch, watch'[w].status = "started"
      PROVE  \/ ui'.session = w
             \/ \E q \in Slot : /\ cont'[q].kind = "start" /\ call'[q].answer = "session"
                                /\ call'[q].watch = w
  <2>1. CASE watch[w].status = "started"
    <3>1. CASE ui.session = w
      BY <1>4, <2>1, <3>1 DEF UiGoes
    <3>2. CASE \E q \in Slot : /\ cont[q].kind = "start" /\ call[q].answer = "session"
                               /\ call[q].watch = w
      BY <1>4, <3>2 DEF NetGoes
    <3> QED
      BY <1>4, <2>1, <3>1, <3>2 DEF KeptInv, NetGoes
  <2>2. CASE watch[w].status # "started"
    <3>1. PICK q \in Slot : ServerTheory!CreateWatch(q, w)
      BY <1>0, <1>4, <2>2, ServerTheory!StatusMoves, ServerIsSound
    <3>2. call'[q].answer = "session" /\ call'[q].watch = w /\ call'[q].stage = "done"
      <4>1. PICK rec : rec = [ServerTheory!NoCall EXCEPT !.stage = "done", !.watch = w,
                                                         !.answer = "session"]
        OBVIOUS
      <4>2. /\ rec.stage = "done" /\ rec.watch = w /\ rec.answer = "session"
            /\ call' = [call EXCEPT ![q] = rec]
        BY <3>1, <4>1 DEF ServerTheory!CreateWatch, ServerTheory!Answer, ServerTheory!NoCall
      <4> QED
        BY <1>0, <4>2 DEF ServerTheory!TypeInv
    <3>3. cont'[q].kind = "start"
      BY <1>4, <3>2 DEF NetGoes, CallsInv, Served
    <3> QED
      BY <3>2, <3>3
  <2> QED
    BY <2>1, <2>2
<1> QED
  BY <1>3, <1>4 DEF KeptInv

LEMMA AskStays ==
    ASSUME NEW f, NEW q \in Slot, Asks(f, q), UNCHANGED <<cont[q], call[q]>>,
           cont[q].kind # "cancel" \/ ui'.session = ui.session
    PROVE  Asks(f, q)'
<1>1. PICK c, k : c = call[q] /\ k = cont[q]
  OBVIOUS
<1> QED
  BY <1>1 DEF Asks

LEMMA NetServe ==
    ASSUME TabInv, ServerTheory!AnyStep, NEW q \in Slot, ServerStep(q),
           NEW f \in [Prompt -> Watch \union {NoWatch}], Sess(f), \A p \in Slot : Asks(f, p)
    PROVE  NetGoes(f)
<1>1. CallsInv' /\ UNCHANGED <<cont, lost, ui>>
  BY CallsServe DEF ServerStep, net
<1>2. CASE Server!Respond(q) /\ cont[q] = NoCont
  <2>1. cont[q].kind = "none" /\ \A p \in Slot : p # q => call'[p] = call[p]
    BY <1>2, SameRespond DEF TabInv, RewardInv, ServerTheory!TypeInv, NoCont
  <2>2. Asks(f, q)'
    BY <1>1, <2>1 DEF Asks
  <2>3. \A p \in Slot : Asks(f, p)'
    BY <1>1, <2>1, <2>2, AskStays
  <2> QED
    BY <1>1, <2>1, <2>3 DEF NetGoes
<1>3. CASE Server!Serve(q)
  <2>1. /\ call[q].stage \in {"run", "write"} /\ \A p \in Slot : p # q => call'[p] = call[p]
        /\ ServerTheory!GoesOn(q) \/ ServerTheory!Answered(q) \/ ServerTheory!Created(q)
    BY <1>3, SameServe, ServerTheory!ServeMoves, ServerIsSound DEF TabInv, RewardInv
  <2>2. call[q].answer = "none"
    BY <2>1 DEF TabInv, RewardInv, ServerTheory!AnswerInv
  <2>3. ASSUME cont[q].kind = "none" PROVE Asks(f, q)'
    BY <1>1, <2>3 DEF Asks
  <2>4. ASSUME cont[q].kind # "none" PROVE Asks(f, q)'
    <3>1. call[q].op = OpOf(cont[q].kind)
      BY <2>1, <2>4 DEF TabInv, CallsInv, Served
    <3>2. CASE ServerTheory!GoesOn(q)
      BY <1>1, <2>2, <3>2 DEF ServerTheory!GoesOn, Asks
    <3>3. CASE ServerTheory!Answered(q)
      BY <1>1, <3>1, <3>3 DEF ServerTheory!Answered, Asks, OpOf
    <3>4. CASE ServerTheory!Created(q)
      <4>1. call[q].op = "start" /\ call'[q].watch \in Watch /\ watch[call'[q].watch].status = "none"
        BY <3>4 DEF ServerTheory!Created, ServerTheory!CreateWatch, ServerTheory!At
      <4>2. cont[q].kind = "start"
        BY <3>1, <4>1 DEF OpOf
      <4>3. \A r \in Prompt : f[r] # call'[q].watch
        BY <4>1 DEF Sess
      <4> QED
        BY <1>1, <4>2, <4>3 DEF Asks
    <3> QED
      BY <2>1, <3>2, <3>3, <3>4
  <2>5. \A p \in Slot : Asks(f, p)'
    BY <1>1, <2>1, <2>3, <2>4, AskStays
  <2> QED
    BY <1>1, <2>1, <2>2, <2>5 DEF NetGoes
<1> QED
  BY <1>2, <1>3 DEF ServerStep

LEMMA NetRequest ==
    ASSUME TabInv, ServerTheory!AnyStep, NEW q \in Slot, NEW w \in Watch \union {NoWatch},
           NEW kind \in {"current", "start", "grant", "closed", "cancel"},
           NEW r \in Prompt \union {NoPrompt}, Request(q, OpOf(kind), w, kind, r),
           NEW f \in [Prompt -> Watch \union {NoWatch}], Sess(f), \A p \in Slot : Asks(f, p),
           kind \in {"grant", "closed"} => r = ui.prompt,
           kind \in {"grant", "closed", "cancel"} => w = ui.session /\ w \in Watch,
           ui'.session = ui.session
    PROVE  NetGoes(f)
<1>1. ui.session \in Watch => ui.prompt \in Prompt /\ watch[ui.session].status # "none"
                              /\ ui.session = f[ui.prompt]
  BY ServerIsSound DEF TabInv, RewardInv, UiInv, RuntimeType, UiType, OpenInv, InitialState,
     Sess, ServerTheory!RewardedAssumption
<1>2. CallsInv' /\ call'[q].watch = w
  BY <1>1, CallsRequest
<1>3. /\ cont[q].kind = "none" /\ cont'[q].kind = kind /\ cont'[q].flow = r /\ UNCHANGED lost
      /\ \A p \in Slot : p # q => cont'[p] = cont[p]
  BY Requested DEF TabInv, RewardInv, Request
<1>4. call'[q].answer # "session" /\ \A p \in Slot : p # q => call'[p] = call[p]
  <2>1. OpOf(kind) \in {"current", "start", "grant", "close"}
    BY DEF OpOf
  <2>2. PICK g \in Gate : ServerTheory!Arrive(q, OpOf(kind), g, w)
    BY <2>1, RequestStep
  <2>3. PICK rec : rec = [ServerTheory!NoCall EXCEPT !.op = OpOf(kind), !.stage = "run",
                                                    !.gate = g, !.watch = w]
    OBVIOUS
  <2>4. rec.answer = "none" /\ call' = [call EXCEPT ![q] = rec]
    BY <2>2, <2>3 DEF ServerTheory!NoCall, ServerTheory!Arrive
  <2> QED
    BY <2>4 DEF TabInv, RewardInv, ServerTheory!TypeInv
<1>5. Asks(f, q)'
  BY <1>1, <1>2, <1>3, <1>4 DEF Asks
<1>6. \A p \in Slot : Asks(f, p)'
  BY <1>3, <1>4, <1>5, AskStays
<1> QED
  BY <1>2, <1>3, <1>4, <1>6 DEF NetGoes

LEMMA NetReceive ==
    ASSUME TabInv, ServerTheory!AnyStep, NEW q \in Slot, NEW kind, NEW r, NEW answer,
           Receive(q, kind, r, answer), kind # "start" \/ answer # "session",
           NEW f \in [Prompt -> Watch \union {NoWatch}], \A p \in Slot : Asks(f, p),
           \A p \in Slot : p # q => cont[p].kind # "cancel" \/ ui'.session = ui.session
    PROVE  NetGoes(f)
<1>1. /\ CallsInv' /\ cont'[q].kind = "none" /\ (lost => lost')
      /\ \A p \in Slot : p # q => call'[p] = call[p] /\ cont'[p] = cont[p]
  BY CallsReceive
<1>2. lost' \/ cont[q].kind # "start" \/ call[q].answer # "session"
  BY DEF Receive
<1>3. Asks(f, q)'
  BY <1>1 DEF Asks
<1>4. \A p \in Slot : Asks(f, p)'
  BY <1>1, <1>3, AskStays
<1> QED
  BY <1>1, <1>2, <1>4 DEF NetGoes

LEMMA NetLocal ==
    ASSUME TabInv, ServerTheory!AnyStep, UNCHANGED <<call, cont, lost>>,
           NEW f, \A p \in Slot : Asks(f, p),
           \A p \in Slot : cont[p].kind # "cancel" \/ ui'.session = ui.session
    PROVE  NetGoes(f)
<1>1. CallsInv'
  BY CallsLocal
<1>2. \A p \in Slot : Asks(f, p)'
  BY AskStays
<1> QED
  BY <1>1, <1>2 DEF NetGoes

-----------------------------------------------------------------------------
(***************************************************************************)
(* The actions one by one.  Only the reply that brings a session changes   *)
(* which sessions the prompts have got.                                    *)
(***************************************************************************)
TabStep == \E g \in [Prompt -> Watch \union {NoWatch}] :
                  Sess(g)' /\ KeptInv' /\ \A q \in Slot : Asks(g, q)'

LEMMA Steady ==
    ASSUME TabInv, KeptInv, ~DoubleClicks, [Next]_vars,
           NEW f \in [Prompt -> Watch \union {NoWatch}], Sess(f), UiGoes(f), NetGoes(f)
    PROVE  TabStep /\ CallsInv'
BY Goes DEF TabStep, NetGoes

(* The receipt that the reward of the open prompt has left. *)
LEMMA KeptReceipt ==
    ASSUME TabInv, NEW f \in [Prompt -> Watch \union {NoWatch}], Sess(f),
           ui.prompt \in Prompt, \E x \in receipts : x.watch = f[ui.prompt]
    PROVE  ui.session \in Watch /\ watch[ui.session].status \in {"rewarded", "closed"}
<1>1. PICK x \in receipts : x.watch = ui.session
  BY DEF Sess
<1>2. x.watch \in Watch
  BY DEF TabInv, RewardInv, ServerTheory!TypeInv, ServerTheory!ReceiptType
<1> QED
  BY <1>1, <1>2 DEF TabInv, ServerTheory!ReceiptInv

(* Steps that touch neither the prompts nor their requests. *)
LEMMA LocalGoes ==
    ASSUME TabInv, ServerTheory!AnyStep, NEW f, \A q \in Slot : Asks(f, q),
           UNCHANGED <<call, cont, lost, grant, result>>,
           ui'.prompt = ui.prompt, ui'.session = ui.session,
           \A r \in Prompt : flow'[r] \in {"new", "asking"} => flow[r] \in {"new", "asking"}
    PROVE  UiGoes(f) /\ NetGoes(f)
BY NetLocal DEF UiGoes

LEMMA FailsKeeps ==
    ASSUME UiInv, NEW r \in Prompt, Fails(r)
    PROVE  /\ ui'.prompt = ui.prompt /\ ui'.session = ui.session /\ UNCHANGED result
           /\ \A x \in Prompt : flow'[x] \in {"new", "asking"} => flow[x] \in {"new", "asking"}
BY DEF Fails, Goto, UiInv, RuntimeType, UiType

LEMMA AdGoes ==
    ASSUME TabInv, ServerTheory!AnyStep, NEW f, \A q \in Slot : Asks(f, q), NEW r \in Prompt,
           LaunchRewardedSlot(r) \/ HandleReady(r) \/ HandleTimeout(r)
    PROVE  UiGoes(f) /\ NetGoes(f)
<1>1. UNCHANGED <<call, cont, lost, grant, result>>
  BY DEF LaunchRewardedSlot, HandleReady, HandleTimeout, Fails, server, net
<1>2. /\ ui'.prompt = ui.prompt /\ ui'.session = ui.session
      /\ \A x \in Prompt : flow'[x] \in {"new", "asking"} => flow[x] \in {"new", "asking"}
  <2>1. CASE Fails(r)
    BY <2>1, FailsKeeps DEF TabInv, RewardInv
  <2>2. CASE HandleReady(r)
    BY <2>2 DEF HandleReady, Goto, TabInv, RewardInv, UiInv, RuntimeType, UiType
  <2>3. CASE flow' = [flow EXCEPT ![r] = "ad"] /\ UNCHANGED ui
    BY <2>3 DEF TabInv, RewardInv, UiInv, RuntimeType
  <2> QED
    BY <2>1, <2>2, <2>3 DEF LaunchRewardedSlot, HandleTimeout, Goto
<1> QED
  BY <1>1, <1>2, LocalGoes

LEMMA TagGoes ==
    ASSUME TabInv, ServerTheory!AnyStep, NEW f, \A q \in Slot : Asks(f, q),
           ScriptLoads \/ ScriptError \/ Tick \/ UNCHANGED vars
    PROVE  UiGoes(f) /\ NetGoes(f)
<1>1. UNCHANGED <<call, cont, lost, grant, result>>
  BY DEF ScriptLoads, ScriptError, Tick, Server!Tick, vars, flows, net, server, Server!tables
<1>2. ui'.prompt = ui.prompt /\ ui'.session = ui.session
  BY DEF ScriptLoads, ScriptError, Tick, vars, TabInv, RewardInv, UiInv, RuntimeType, UiType
<1>3. \A x \in Prompt : flow'[x] \in {"new", "asking"} => flow[x] \in {"new", "asking"}
  BY DEF ScriptLoads, ScriptError, Tick, vars, flows, TabInv, RewardInv, UiInv, RuntimeType
<1> QED
  BY <1>1, <1>2, <1>3, LocalGoes

LEMMA ServerGoes ==
    ASSUME TabInv, ServerTheory!AnyStep, NEW q \in Slot, ServerStep(q),
           NEW f \in [Prompt -> Watch \union {NoWatch}], Sess(f), \A p \in Slot : Asks(f, p)
    PROVE  UiGoes(f) /\ NetGoes(f)
<1>1. UNCHANGED <<ui, flow, grant, result>>
  BY DEF ServerStep, flows
<1> QED
  BY <1>1, NetServe DEF UiGoes

LEMMA RequireGoes ==
    ASSUME TabInv, ServerTheory!AnyStep, NEW q \in Slot, NEW r \in Prompt, RequireUnlock(q, r),
           NEW f \in [Prompt -> Watch \union {NoWatch}], Sess(f), \A p \in Slot : Asks(f, p)
    PROVE  UiGoes(f) /\ NetGoes(f)
<1>1. /\ flow[r] = "new" /\ Request(q, OpOf("current"), NoWatch, "current", r)
      /\ flow' = [flow EXCEPT ![r] = "asking"] /\ UNCHANGED <<ui, grant, result>>
  BY DEF RequireUnlock, Goto, OpOf
<1>2. NetGoes(f)
  BY <1>1, NetRequest
<1> QED
  BY <1>1, <1>2 DEF UiGoes, TabInv, RewardInv, UiInv, RuntimeType

LEMMA BeginGoes ==
    ASSUME TabInv, ServerTheory!AnyStep, NEW q \in Slot, NEW r \in Prompt, BeginWatch(q, r),
           NEW f \in [Prompt -> Watch \union {NoWatch}], Sess(f), \A p \in Slot : Asks(f, p)
    PROVE  UiGoes(f) /\ NetGoes(f)
<1>1. /\ Request(q, OpOf("start"), NoWatch, "start", r) /\ ui' = [ui EXCEPT !.phase = "loading"]
      /\ flow' = [flow EXCEPT ![r] = "start"] /\ UNCHANGED <<grant, result>>
  BY DEF BeginWatch, Goto, OpOf
<1>2. ui'.prompt = ui.prompt /\ ui'.session = ui.session
  BY <1>1 DEF TabInv, RewardInv, UiInv, RuntimeType, UiType
<1>3. NetGoes(f)
  BY <1>1, <1>2, NetRequest
<1> QED
  BY <1>1, <1>2, <1>3 DEF UiGoes, TabInv, RewardInv, UiInv, RuntimeType

LEMMA CurrentGoes ==
    ASSUME TabInv, ServerTheory!AnyStep, NEW q \in Slot, NEW r \in Prompt, NEW a,
           CurrentReply(q, r, a),
           NEW f \in [Prompt -> Watch \union {NoWatch}], Sess(f), \A p \in Slot : Asks(f, p)
    PROVE  UiGoes(f) /\ NetGoes(f)
<1>0. UiInv
  BY DEF TabInv, RewardInv
<1>1. Receive(q, "current", r, a) /\ UNCHANGED grant
  BY DEF CurrentReply
<1>2. flow[r] = "asking"
  BY <1>0, <1>1, Received DEF Resumes
<1>3. CASE /\ ui.prompt = NoPrompt
           /\ ui' = [ui EXCEPT !.prompt = r, !.phase = "prompt", !.session = NoWatch]
           /\ flow' = [flow EXCEPT ![r] = "offered"] /\ UNCHANGED result
  <2>1. ui'.prompt = r /\ ui'.session = NoWatch
    BY <1>0, <1>3 DEF UiInv, RuntimeType, UiType
  <2>2. ui.session = NoWatch
    BY <1>0, <1>3 DEF UiInv, OpenInv, InitialState
  <2>3. NetGoes(f)
    BY <1>1, <2>1, <2>2, NetReceive
  <2> QED
    BY <1>0, <1>1, <1>2, <1>3, <2>1, <2>2, <2>3 DEF UiGoes, UiInv, RuntimeType
<1>4. CASE /\ \E x \in {"rejected", "unlocked", "denied"} : result' = [result EXCEPT ![r] = x]
           /\ flow' = [flow EXCEPT ![r] = "over"] /\ UNCHANGED ui
  <2>1. NetGoes(f)
    BY <1>1, <1>4, NetReceive
  <2> QED
    BY <1>0, <1>1, <1>4, <2>1 DEF UiGoes, UiInv, RuntimeType
<1> QED
  BY <1>3, <1>4 DEF CurrentReply, Goto

(* The prompt is settled while its session is over, or it has none. *)
LEMMA SettleGoes ==
    ASSUME UiInv, ui.prompt \in Prompt, NEW outcome \in {"denied", "granted"}, Settle(outcome),
           NEW f \in [Prompt -> Watch \union {NoWatch}],
           \A r \in Prompt : flow'[r] \in {"new", "asking"} => flow[r] \in {"new", "asking"},
           \A r \in Prompt : grant'[r] = "kept" =>
               grant[r] = "kept" \/ \E x \in receipts : x.watch = f[r],
           outcome = "granted" => \E x \in receipts : x.watch = f[ui.prompt],
           ui.session \in Watch => lost' \/ watch[ui.session].status \in {"rewarded", "closed"}
    PROVE  UiGoes(f)
<1>1. ui'.prompt = NoPrompt
  BY DEF Settle, InitialState
<1>2. result' = [r \in Prompt |-> IF r = ui.prompt THEN outcome ELSE result[r]]
  BY DEF Settle
<1>3. \A r \in Prompt : result'[r] = "granted" =>
          result[r] = "granted" \/ \E x \in receipts : x.watch = f[r]
  BY <1>2
<1> QED
  BY <1>1, <1>3 DEF UiGoes

LEMMA StartGoes ==
    ASSUME TabInv, ServerTheory!AnyStep, NEW q \in Slot, NEW r \in Prompt, NEW a,
           StartReply(q, r, a), a # "session",
           NEW f \in [Prompt -> Watch \union {NoWatch}], Sess(f), \A p \in Slot : Asks(f, p)
    PROVE  UiGoes(f) /\ NetGoes(f)
<1>0. UiInv
  BY DEF TabInv, RewardInv
<1>1. Receive(q, "start", r, a) /\ UNCHANGED grant
  BY DEF StartReply
<1>2. flow[r] = "start"
  BY <1>0, <1>1, Received DEF Resumes
<1>3. ui.prompt = r /\ ui.session = NoWatch /\ \A p \in Slot : cont[p].kind # "cancel"
  BY <1>0, <1>2, Watched DEF Watching, Shown
<1>4. NetGoes(f)
  BY <1>1, <1>3, NetReceive
<1>5. CASE Fails(r)
  BY <1>0, <1>1, <1>4, <1>5, FailsKeeps DEF UiGoes
<1>6. CASE Settle("denied") /\ flow' = [flow EXCEPT ![r] = "over"]
  <2>1. \A x \in Prompt : flow'[x] \in {"new", "asking"} => flow[x] \in {"new", "asking"}
    BY <1>0, <1>6 DEF UiInv, RuntimeType
  <2>2. UiGoes(f)
    BY <1>0, <1>1, <1>3, <1>6, <2>1, SettleGoes, ServerIsSound
       DEF ServerTheory!RewardedAssumption
  <2> QED
    BY <1>4, <2>2
<1> QED
  BY <1>5, <1>6 DEF StartReply, Goto

LEMMA GrantedGoes ==
    ASSUME TabInv, ServerTheory!AnyStep, NEW q \in Slot, NEW r \in Prompt, HandleGranted(q, r),
           NEW f \in [Prompt -> Watch \union {NoWatch}], Sess(f), \A p \in Slot : Asks(f, p)
    PROVE  UiGoes(f) /\ NetGoes(f)
<1>0. UiInv
  BY DEF TabInv, RewardInv
<1>1. flow[r] = "ready" /\ flow' = [flow EXCEPT ![r] = "rewarded"] /\ UNCHANGED result
  BY DEF HandleGranted, Goto
<1>2. ui.prompt = r /\ ui.session \in Watch
  BY <1>0, <1>1, Watched DEF Watching, Shown
<1>3. /\ Request(q, OpOf("grant"), ui.session, "grant", r)
      /\ grant' = [grant EXCEPT ![r] = "pending"] /\ ui' = [ui EXCEPT !.grant = r]
  BY <1>2, RuntimeAssumption DEF HandleGranted, OpOf
<1>4. ui'.prompt = ui.prompt /\ ui'.session = ui.session
  BY <1>0, <1>3 DEF UiInv, RuntimeType, UiType
<1>5. NetGoes(f)
  BY <1>2, <1>3, <1>4, NetRequest
<1> QED
  BY <1>0, <1>1, <1>3, <1>4, <1>5 DEF UiGoes, UiInv, RuntimeType

LEMMA GrantGoes ==
    ASSUME TabInv, ServerTheory!AnyStep, NEW q \in Slot, NEW r \in Prompt, NEW a,
           GrantReply(q, r, a),
           NEW f \in [Prompt -> Watch \union {NoWatch}], Sess(f), \A p \in Slot : Asks(f, p)
    PROVE  UiGoes(f) /\ NetGoes(f)
<1>0. UiInv
  BY DEF TabInv, RewardInv
<1>1. Receive(q, "grant", r, a)
  BY DEF GrantReply
<1>2. /\ cont[q].kind = "grant" /\ cont[q].flow = r /\ flow[r] \in {"rewarded", "closed"}
      /\ grant[r] = "pending"
  BY <1>0, <1>1, Received DEF Resumes
<1>3. ui.prompt = r /\ ui.session \in Watch /\ \A p \in Slot : cont[p].kind # "cancel"
  BY <1>0, <1>2, Watched DEF Watching, Shown
<1>4. NetGoes(f)
  BY <1>1, <1>3, NetReceive
<1>5. \A x \in Prompt : flow'[x] \in {"new", "asking"} => flow[x] \in {"new", "asking"}
  BY DEF GrantReply
<1>6. CASE a = "granted" /\ grant' = [grant EXCEPT ![r] = "kept"]
  <2>1. call[q].answer = "granted"
    BY <1>1, <1>6 DEF Receive
  <2>2. \E x \in receipts : x.watch = f[r]
    BY <1>2, <2>1 DEF Asks, TabInv, ServerTheory!GrantedInv
  <2>3. \A x \in Prompt : x # r => grant'[x] = grant[x]
    BY <1>0, <1>6 DEF UiInv, RuntimeType
  <2>4. CASE Settle("granted")
    BY <1>0, <1>3, <1>4, <1>5, <2>2, <2>3, <2>4, KeptReceipt, SettleGoes
  <2>5. CASE ui' = [ui EXCEPT !.phase = "granted"] /\ UNCHANGED result
    <3>1. ui'.prompt = ui.prompt /\ ui'.session = ui.session
      BY <1>0, <2>5 DEF UiInv, RuntimeType, UiType
    <3> QED
      BY <1>4, <1>5, <2>2, <2>3, <2>5, <3>1 DEF UiGoes
  <2> QED
    BY <1>6, <2>4, <2>5 DEF GrantReply
<1>7. CASE /\ grant' = [grant EXCEPT ![r] = "broken"] /\ UNCHANGED result
           /\ ui' = [ui EXCEPT !.phase = "error"] \/ UNCHANGED ui
  <2>1. ui'.prompt = ui.prompt /\ ui'.session = ui.session
    BY <1>0, <1>7 DEF UiInv, RuntimeType, UiType
  <2>2. \A x \in Prompt : grant'[x] = "kept" => grant[x] = "kept"
    BY <1>0, <1>7 DEF UiInv, RuntimeType
  <2> QED
    BY <1>4, <1>5, <1>7, <2>1, <2>2 DEF UiGoes
<1> QED
  BY <1>6, <1>7 DEF GrantReply

LEMMA HandleClosedGoes ==
    ASSUME TabInv, ServerTheory!AnyStep, NEW q \in Slot, NEW r \in Prompt, HandleClosed(q, r),
           NEW f \in [Prompt -> Watch \union {NoWatch}], Sess(f), \A p \in Slot : Asks(f, p)
    PROVE  UiGoes(f) /\ NetGoes(f)
<1>0. UiInv
  BY DEF TabInv, RewardInv
<1>1. flow[r] \in {"ready", "rewarded"} /\ UNCHANGED grant
  BY DEF HandleClosed
<1>2. /\ ui.prompt = r /\ ui.session \in Watch
      /\ ui.grant # NoPrompt => ui.grant = r
      /\ \A p \in Slot : cont[p].kind # "cancel"
  BY <1>0, <1>1, Watched DEF Watching, Shown
<1>3. \A x \in Prompt : flow'[x] \in {"new", "asking"} => flow[x] \in {"new", "asking"}
  BY <1>0, <1>1 DEF HandleClosed, Fails, Goto, UiInv, RuntimeType
<1>4. CASE ui.grant # NoPrompt /\ grant[ui.grant] = "pending" /\ UNCHANGED <<ui, result, server, net>>
  BY <1>1, <1>3, <1>4, LocalGoes DEF server, net
<1>5. CASE ui.grant # NoPrompt /\ grant[ui.grant] = "kept" /\ Settle("granted") /\ UNCHANGED <<server, net>>
  <2>1. \E x \in receipts : x.watch = f[ui.prompt]
    BY <1>2, <1>5 DEF Sess
  <2>2. UiGoes(f)
    BY <1>0, <1>1, <1>2, <1>3, <1>5, <2>1, KeptReceipt, SettleGoes
  <2>3. NetGoes(f)
    BY <1>2, <1>5, NetLocal DEF server, net
  <2> QED
    BY <2>2, <2>3
<1>6. CASE Fails(r) /\ UNCHANGED <<server, net>>
  BY <1>0, <1>1, <1>6, FailsKeeps, LocalGoes DEF server, net
<1>7. CASE Request(q, "close", ui.session, "closed", r) /\ UNCHANGED <<ui, result>>
  <2>1. NetGoes(f)
    BY <1>2, <1>7, NetRequest DEF OpOf
  <2> QED
    BY <1>1, <1>3, <1>7, <2>1 DEF UiGoes
<1> QED
  BY <1>4, <1>5, <1>6, <1>7 DEF HandleClosed

LEMMA ClosedGoes ==
    ASSUME TabInv, ServerTheory!AnyStep, NEW q \in Slot, NEW r \in Prompt, NEW a,
           ClosedReply(q, r, a),
           NEW f \in [Prompt -> Watch \union {NoWatch}], Sess(f), \A p \in Slot : Asks(f, p)
    PROVE  UiGoes(f) /\ NetGoes(f)
<1>0. UiInv
  BY DEF TabInv, RewardInv
<1>1. Receive(q, "closed", r, a) /\ UNCHANGED grant
  BY DEF ClosedReply
<1>2. cont[q].kind = "closed" /\ cont[q].flow = r /\ flow[r] = "closing"
  BY <1>0, <1>1, Received DEF Resumes
<1>3. ui.prompt = r /\ ui.session \in Watch /\ \A p \in Slot : cont[p].kind # "cancel"
  BY <1>0, <1>2, Watched DEF Watching, Shown
<1>4. NetGoes(f)
  BY <1>1, <1>3, NetReceive
<1>5. CASE Fails(r)
  BY <1>0, <1>1, <1>4, <1>5, FailsKeeps DEF UiGoes
<1>6. CASE Settle("denied") /\ flow' = [flow EXCEPT ![r] = "over"] /\ a # "error"
  <2>1. call[q].stage = "done"
    BY <1>1, <1>6 DEF Receive, Server!Respond
  <2>2. watch[ui.session].status \in {"rewarded", "closed"}
    BY <1>2, <1>3, <2>1 DEF TabInv, CallsInv, Served, Asks, Sess
  <2>3. \A x \in Prompt : flow'[x] \in {"new", "asking"} => flow[x] \in {"new", "asking"}
    BY <1>0, <1>6 DEF UiInv, RuntimeType
  <2> QED
    BY <1>0, <1>1, <1>3, <1>4, <1>6, <2>2, <2>3, SettleGoes
<1> QED
  BY <1>5, <1>6 DEF ClosedReply, Goto

LEMMA CancelGoes ==
    ASSUME TabInv, ~DoubleClicks, ServerTheory!AnyStep, NEW q \in Slot,
           CancelPrompt(q) \/ \E a : CancelReply(q, a),
           NEW f \in [Prompt -> Watch \union {NoWatch}], Sess(f), \A p \in Slot : Asks(f, p)
    PROVE  UiGoes(f) /\ NetGoes(f)
<1>0. UiInv
  BY DEF TabInv, RewardInv
<1>1. UNCHANGED <<flow, grant>>
  BY DEF CancelPrompt, CancelReply, flows
<1>2. CASE CancelPrompt(q)
  <2>1. ui.prompt \in Prompt /\ ui.session \in Watch \union {NoWatch}
        /\ \A p \in Slot : cont[p].kind # "cancel"
    BY <1>0, <1>2 DEF CancelPrompt, UiInv, RuntimeType, UiType
  <2>2. CASE /\ Request(q, "close", ui.session, "cancel", NoPrompt) /\ ui.session # NoWatch
             /\ UNCHANGED <<ui, result>>
    <3>1. NetGoes(f)
      BY <2>1, <2>2, NetRequest DEF OpOf
    <3> QED
      BY <1>1, <2>2, <3>1 DEF UiGoes
  <2>3. CASE ui.session = NoWatch /\ Settle("denied") /\ UNCHANGED <<server, net>>
    <3>1. UiGoes(f)
      BY <1>0, <1>1, <2>1, <2>3, SettleGoes, ServerIsSound DEF ServerTheory!RewardedAssumption
    <3>2. NetGoes(f)
      BY <2>1, <2>3, NetLocal DEF server, net
    <3> QED
      BY <3>1, <3>2
  <2> QED
    BY <1>2, <2>2, <2>3 DEF CancelPrompt
<1>3. CASE \E a : CancelReply(q, a)
  <2>1. PICK a : Receive(q, "cancel", NoPrompt, a) /\ Settle("denied")
    BY <1>3 DEF CancelReply
  <2>2. cont[q] = [kind |-> "cancel", flow |-> NoPrompt]
    BY <2>1 DEF Receive
  <2>3. cont[q].kind = "cancel" /\ ui.session \in Watch /\ ui.prompt \in Prompt
    BY <1>0, <2>2 DEF UiInv, ContInv, Resumes, RuntimeType, UiType, OpenInv, InitialState
  <2>4. \A p \in Slot : p # q => cont[p].kind # "cancel"
    BY <1>0, <2>2 DEF UiInv, ContInv, RuntimeType, ContType, Resumes
  <2>5. NetGoes(f)
    BY <2>1, <2>4, NetReceive
  <2>6. lost' \/ call[q].stage = "done"
    BY <2>1 DEF Receive, Server!Respond
  <2>7. lost' \/ watch[ui.session].status \in {"rewarded", "closed"}
    BY <2>3, <2>6 DEF TabInv, CallsInv, Served, Asks
  <2> QED
    BY <1>0, <1>1, <2>1, <2>3, <2>5, <2>7, SettleGoes
<1> QED
  BY <1>2, <1>3

(* The reply that brings a session gives it to the prompt that asked.       *)
LEMMA SessionGoes ==
    ASSUME TabInv, KeptInv, ServerTheory!AnyStep, NEW q \in Slot, NEW r \in Prompt,
           StartReply(q, r, "session"),
           NEW f \in [Prompt -> Watch \union {NoWatch}], Sess(f), \A p \in Slot : Asks(f, p)
    PROVE  TabStep /\ CallsInv'
<1>0. UiInv /\ NoWatch \notin Watch
  BY ServerIsSound DEF TabInv, RewardInv, ServerTheory!RewardedAssumption
<1>1. /\ Receive(q, "start", r, "session") /\ UNCHANGED <<grant, result>>
      /\ ui' = [ui EXCEPT !.session = call[q].watch] /\ flow' = [flow EXCEPT ![r] = "script"]
  BY DEF StartReply, Goto
<1>2. /\ flow[r] = "start" /\ cont[q].kind = "start"
      /\ \A p \in Slot : p # q /\ cont[p].kind # "none" => cont[p].flow # r
  BY <1>0, <1>1, Received DEF Resumes
<1>3. /\ ui.prompt = r /\ ui.session = NoWatch /\ \A p \in Slot : cont[p].kind # "cancel"
  BY <1>0, <1>2, Watched DEF Watching, Shown
<1>4. /\ CallsInv' /\ cont'[q].kind = "none" /\ (lost => lost')
      /\ \A p \in Slot : p # q => call'[p] = call[p] /\ cont'[p] = cont[p]
      /\ UNCHANGED <<watch, receipts>>
  BY <1>1, CallsReceive, ReceiveStep
<1>5. call[q].answer = "session"
  BY <1>1 DEF Receive
<1>6. PICK w \in Watch : /\ w = call[q].watch /\ watch[w].status # "none"
                         /\ \A x \in Prompt : f[x] # w
  BY <1>2, <1>5 DEF TabInv, RewardInv, ServerTheory!AnswerInv, Asks
<1>7. PICK g : g = [f EXCEPT ![r] = w]
  OBVIOUS
<1>8. /\ g \in [Prompt -> Watch \union {NoWatch}] /\ g[r] = w
      /\ \A x \in Prompt : x # r => g[x] = f[x]
  BY <1>7
<1>9. f[r] = NoWatch
  BY <1>3 DEF Sess
<1>10. ui'.prompt = r /\ ui'.session = w
  BY <1>0, <1>1, <1>3, <1>6 DEF UiInv, RuntimeType, UiType
<1>11. flow'[r] = "script" /\ \A x \in Prompt : x # r => flow'[x] = flow[x]
  BY <1>0, <1>1 DEF UiInv, RuntimeType
<1>12. Sess(g)'
  <2>1. \A x, y \in Prompt : g[x] = g[y] /\ g[x] \in Watch => x = y
    BY <1>6, <1>8 DEF Sess
  <2>2. \A x \in Prompt : g[x] \in Watch => watch'[g[x]].status # "none"
    BY <1>4, <1>6, <1>8 DEF Sess
  <2>3. \A x \in Prompt : flow'[x] \in {"new", "asking"} => g[x] = NoWatch
    BY <1>8, <1>11 DEF Sess
  <2>4. \A x \in receipts : x.watch \in Watch
    BY DEF TabInv, RewardInv, ServerTheory!TypeInv, ServerTheory!ReceiptType
  <2>5. \A x \in Prompt : grant'[x] = "kept" \/ result'[x] = "granted"
                              => \E y \in receipts' : y.watch = g[x]
    BY <1>0, <1>1, <1>4, <1>8, <1>9, <2>4 DEF Sess
  <2> QED
    BY <1>8, <1>10, <2>1, <2>2, <2>3, <2>5 DEF Sess
<1>13. ASSUME NEW p \in Slot PROVE Asks(g, p)'
  <2>1. CASE p = q
    BY <1>4, <2>1 DEF Asks
  <2>2. CASE p # q
    <3>1. PICK c, k : c = call[p] /\ k = cont[p] /\ c = call'[p] /\ k = cont'[p]
      BY <1>4, <2>2
    <3>2. k.kind \in {"grant", "closed"} => c.watch = f[k.flow] /\ k.flow \in Prompt /\ k.flow # r
      BY <1>0, <1>2, <2>2, <3>1 DEF Asks, UiInv, ContInv, Resumes
    <3>3. k.kind # "cancel"
      BY <1>3, <3>1
    <3>4. k.kind = "start" /\ c.answer = "session" =>
              c.watch # w /\ \A x \in Prompt : f[x] # c.watch
      BY <1>5, <1>6, <2>2, <3>1 DEF Asks, TabInv, RewardInv, ServerTheory!AnswerInv
    <3> QED
      BY <1>8, <3>1, <3>2, <3>3, <3>4 DEF Asks
  <2> QED
    BY <2>1, <2>2
<1>14. KeptInv'
  <2> SUFFICES ASSUME ~lost', NEW v \in Watch, watch[v].status = "started", v # w
               PROVE  \E p \in Slot : /\ cont'[p].kind = "start" /\ call'[p].answer = "session"
                                      /\ call'[p].watch = v
    BY <1>4, <1>10 DEF KeptInv
  <2>1. PICK p \in Slot : cont[p].kind = "start" /\ call[p].answer = "session" /\ call[p].watch = v
    BY <1>0, <1>3, <1>4 DEF KeptInv
  <2>2. p # q
    BY <1>6, <2>1
  <2> QED
    BY <1>4, <2>1, <2>2
<1> QED
  BY <1>4, <1>8, <1>12, <1>13, <1>14 DEF TabStep

LEMMA TabMoves ==
    ASSUME TabInv, KeptInv, SessInv, ~DoubleClicks, [Next]_vars
    PROVE  TabInv' /\ KeptInv' /\ SessInv'
<1>1. PICK f \in [Prompt -> Watch \union {NoWatch}] : Sess(f) /\ \A q \in Slot : Asks(f, q)
  BY DEF SessInv
<1>2. /\ ServerTheory!AnyStep /\ RewardInv'
      /\ ServerTheory!ReceiptInv' /\ ServerTheory!GrantedInv'
  BY ServerStays
<1> SUFFICES TabStep /\ CallsInv'
  BY <1>2 DEF TabInv, TabStep, SessInv
<1>3. CASE \E q \in Slot, r \in Prompt : StartReply(q, r, "session")
  BY <1>1, <1>2, <1>3, SessionGoes
<1>4. ASSUME UiGoes(f), NetGoes(f) PROVE TabStep /\ CallsInv'
  BY <1>1, <1>4, Steady
<1>5. CASE \E q \in Slot : ServerStep(q)
  BY <1>1, <1>2, <1>4, <1>5, ServerGoes
<1>6. ASSUME NEW q \in Slot, NEW r \in Prompt, NEW a, CurrentReply(q, r, a)
      PROVE  TabStep /\ CallsInv'
  BY <1>1, <1>2, <1>4, <1>6, CurrentGoes
<1>7. ASSUME NEW q \in Slot, NEW r \in Prompt, NEW a, StartReply(q, r, a), a # "session"
       PROVE  TabStep /\ CallsInv'
  BY <1>1, <1>2, <1>4, <1>7, StartGoes
<1>8. ASSUME NEW q \in Slot, NEW r \in Prompt, NEW a, GrantReply(q, r, a) \/ ClosedReply(q, r, a)
       PROVE  TabStep /\ CallsInv'
  BY <1>1, <1>2, <1>4, <1>8, GrantGoes, ClosedGoes
<1>9. CASE \E q \in Slot : CancelPrompt(q) \/ \E a : CancelReply(q, a)
  BY <1>1, <1>2, <1>4, <1>9, CancelGoes
<1>10. CASE \E q \in Slot : Reply(q)
  <2>0. PICK q \in Slot : Reply(q)
    BY <1>10
  <2>1. PICK a : \/ CancelReply(q, a)
                 \/ \E r \in Prompt : \/ CurrentReply(q, r, a) \/ StartReply(q, r, a)
                                     \/ GrantReply(q, r, a) \/ ClosedReply(q, r, a)
    BY <2>0 DEF Reply
  <2>2. CASE CancelReply(q, a)
    BY <1>9, <2>2
  <2>3. ASSUME NEW r \in Prompt, CurrentReply(q, r, a) \/ GrantReply(q, r, a) \/ ClosedReply(q, r, a)
        PROVE  TabStep /\ CallsInv'
    BY <1>6, <1>8, <2>3
  <2>4. ASSUME NEW r \in Prompt, StartReply(q, r, a) PROVE TabStep /\ CallsInv'
    <3>1. CASE a = "session"
      BY <1>3, <2>4, <3>1
    <3>2. CASE a # "session"
      BY <1>7, <2>4, <3>2
    <3> QED
      BY <3>1, <3>2
  <2> QED
    BY <2>1, <2>2, <2>3, <2>4
<1>11. CASE \E q \in Slot, r \in Prompt : \/ RequireUnlock(q, r) \/ HandleGranted(q, r)
                                         \/ BeginWatch(q, r) \/ HandleClosed(q, r)
  BY <1>1, <1>2, <1>4, <1>11, RequireGoes, GrantedGoes, BeginGoes, HandleClosedGoes
<1>12. CASE \E r \in Prompt : LaunchRewardedSlot(r) \/ HandleReady(r) \/ HandleTimeout(r)
  BY <1>1, <1>2, <1>4, <1>12, AdGoes
<1>13. CASE ScriptLoads \/ ScriptError \/ Tick \/ UNCHANGED vars
  BY <1>1, <1>2, <1>4, <1>13, TagGoes
<1> QED
  BY <1>5, <1>9, <1>10, <1>11, <1>12, <1>13 DEF Next, Choose, Ad

LEMMA TabInit == Init => TabInv /\ KeptInv /\ SessInv
<1> SUFFICES ASSUME Init PROVE TabInv /\ KeptInv /\ SessInv
  OBVIOUS
<1>1. RewardInv /\ ServerTheory!Init
  BY RewardInit, ServerInit DEF Init
<1>2. ServerTheory!ReceiptInv /\ ServerTheory!GrantedInv
  BY <1>1 DEF ServerTheory!Init, ServerTheory!ReceiptInv, ServerTheory!GrantedInv, ServerTheory!NoCall, ServerTheory!NoRow
<1>3. CallsInv
  BY <1>1 DEF Init, CallsInv, NoCont, ServerTheory!Init, ServerTheory!NoCall
<1>4. KeptInv
  BY <1>1 DEF KeptInv, ServerTheory!Init, ServerTheory!NoRow
<1>5. PICK f : f = [r \in Prompt |-> NoWatch]
  OBVIOUS
<1>6. Sess(f) /\ \A q \in Slot : Asks(f, q)
  BY <1>1, <1>5, ServerIsSound, RuntimeAssumption
     DEF Init, Sess, Asks, NoCont, InitialState, ServerTheory!RewardedAssumption
<1>7. SessInv
  BY <1>5, <1>6 DEF SessInv
<1> QED
  BY <1>1, <1>2, <1>3, <1>4, <1>7 DEF TabInv

LEMMA TabHolds ==
    ASSUME ~DoubleClicks
    PROVE  Spec => [](TabInv /\ KeptInv /\ SessInv)
<1>1. (TabInv /\ KeptInv /\ SessInv) /\ [Next]_vars => (TabInv /\ KeptInv /\ SessInv)'
  BY TabMoves
<1> QED
  BY <1>1, TabInit, PTL DEF Spec

(* Nobody is told "granted" without a receipt of his own: for any prompts,  *)
(* sessions and requests, whatever is lost on the way and however the tag  *)
(* and the ads turn out, if Close is clicked once.                         *)
THEOREM GrantedHasReceiptHolds ==
    ASSUME ~DoubleClicks
    PROVE  Spec => []GrantedHasReceipt
<1>1. ASSUME TabInv, SessInv PROVE GrantedHasReceipt
  <2>1. PICK f \in [Prompt -> Watch \union {NoWatch}] : Sess(f)
    BY <1>1 DEF SessInv
  <2> DEFINE G == {r \in Prompt : result[r] = "granted"}
             of == [r \in G |-> CHOOSE x \in receipts : x.watch = f[r]]
  <2>2. \A r \in G : of[r] \in receipts /\ of[r].watch = f[r]
    BY <2>1 DEF Sess
  <2>3. \A x \in receipts : x.watch \in Watch
    BY <1>1 DEF TabInv, RewardInv, ServerTheory!TypeInv, ServerTheory!ReceiptType
  <2>4. \A r, s \in G : of[r] = of[s] => r = s
    BY <2>1, <2>2, <2>3 DEF Sess
  <2>5. of \in Injection(G, receipts)
    <3>1. of \in [G -> receipts]
      BY <2>2
    <3> HIDE DEF of
    <3> QED
      BY <2>4, <3>1 DEF Injection, IsInjective
  <2>6. IsFiniteSet(receipts)
    BY <1>1 DEF TabInv, RewardInv, ServerTheory!TypeInv, ServerTheory!IsFiniteSet, IsFiniteSet
  <2>7. Cardinality(G) <= Cardinality(receipts)
    BY <2>5, <2>6, FS_Injection
  <2> QED
    BY <2>7 DEF GrantedHasReceipt
<1> QED
  BY <1>1, TabHolds, PTL

(* No session is left behind started when nothing was lost: by then it was  *)
(* rewarded or closed, for any prompts, sessions and requests.             *)
THEOREM NoAbandonedSessionHolds ==
    ASSUME ~DoubleClicks
    PROVE  Spec => []NoAbandonedSession
<1>1. ASSUME TabInv, KeptInv PROVE NoAbandonedSession
  <2> SUFFICES ASSUME ~lost, ui.prompt = NoPrompt, \A q \in Slot : call[q].stage = "idle",
                      NEW w \in Watch, watch[w].status = "started"
               PROVE  FALSE
    BY DEF NoAbandonedSession
  <2>1. ui.session = NoWatch
    BY <1>1 DEF TabInv, RewardInv, UiInv, OpenInv, InitialState
  <2>2. \A q \in Slot : call[q].answer = "none"
    BY <1>1 DEF TabInv, RewardInv, ServerTheory!AnswerInv
  <2> QED
    BY <1>1, <2>1, <2>2, ServerIsSound DEF KeptInv, ServerTheory!RewardedAssumption
<1> QED
  BY <1>1, TabHolds, PTL

=============================================================================
