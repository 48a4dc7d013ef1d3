--------------------- MODULE GoogleRewardedServiceProofs ---------------------
(***************************************************************************)
(* What GoogleRewardedService does for any gates, sessions, requests and   *)
(* rules: its types, that every answered grant has its receipt and a grant *)
(* sent again adds none, that unlock, cooldown and limit bind the watches  *)
(* that begin later, and what a client may rely on in an answer            *)
(* (AnswerInv), in any surroundings.                                       *)
(***************************************************************************)
EXTENDS GoogleRewardedService, FiniteSetTheorems, FunctionTheorems, TLAPS

RowType == [status : {"none", "started", "rewarded", "closed"}, gate : Gate,
            seen : Nat, at : 0..MaxTime]
ReceiptType == [n : Nat, watch : Watch, gate : Gate, grantedAt : 0..MaxTime,
                until : 0..(MaxTime + UnlockMinutes)]
CallType == [op : {"none", "current", "start", "grant", "close"},
             stage : {"idle", "run", "write", "done"}, gate : Gate,
             watch : Watch \union {NoWatch}, seen : Nat, at : 0..MaxTime, answer : Answers]

(* The requests whose second half writes a session know which one.         *)
CallInv ==
    \A q \in Slot : call[q].op \in {"grant", "close"} /\ call[q].stage = "write"
                        => call[q].watch \in Watch

(* The steps of the server in any surroundings: requests for whatever       *)
(* session, that end when they are answered or break off outside of the    *)
(* transaction.                                                            *)
InTx(q) == call[q].op = "grant" /\ call[q].stage = "write"

Ends(q) ==
    /\ ~InTx(q)
    /\ call' = [call EXCEPT ![q] = NoCall]
    /\ UNCHANGED <<config, tables>>

AnyStep ==
    \/ \E q \in Slot : Serve(q) \/ Ends(q)
    \/ \E q \in Slot, g \in Gate, w \in Watch \union {NoWatch} :
           \E op \in {"current", "start", "grant", "close"} : Arrive(q, op, g, w)
    \/ Tick \/ Configure \/ UNCHANGED vars

LEMMA Steps == [Next]_vars => AnyStep
<1>1. ASSUME NEW q \in Slot, Respond(q) PROVE Ends(q)
  BY <1>1 DEF Respond, Ends, InTx
<1> QED
  BY <1>1 DEF Next, AnyStep

TypeInv ==
    /\ now \in 0..MaxTime /\ rules \subseteq Gate /\ provider \in BOOLEAN
    /\ watch \in [Watch -> RowType]
    /\ receipts \subseteq ReceiptType /\ IsFiniteSet(receipts)
    /\ call \in [Slot -> CallType]
    /\ CallInv

-----------------------------------------------------------------------------
LEMMA NoCallType == NoCall \in CallType /\ NoRow \in RowType
<1>1. (CHOOSE g \in Gate : TRUE) \in Gate
  BY RewardedAssumption
<1>2. 0 \in 0..MaxTime
  BY RewardedAssumption
<1> QED
  BY <1>1, <1>2 DEF NoCall, NoRow, CallType, RowType, Answers, Reasons

(* How a call ends: the record of an answer has the type of a call.        *)
LEMMA AnswerType ==
    ASSUME TypeInv, NEW q \in Slot, NEW w \in Watch \union {NoWatch}, NEW a \in Answers,
           Answer(q, w, a)
    PROVE  /\ call' \in [Slot -> CallType]
           /\ CallInv'
           /\ call'[q].stage = "done" /\ call'[q].op = "none"
           /\ call'[q].watch = w /\ call'[q].answer = a
           /\ \A p \in Slot : p # q => call'[p] = call[p]
<1> DEFINE rec == [NoCall EXCEPT !.stage = "done", !.watch = w, !.answer = a]
<1>1. rec \in CallType /\ rec.op = "none" /\ rec.stage = "done" /\ rec.watch = w /\ rec.answer = a
  BY NoCallType DEF CallType, NoCall
<1>2. call' = [call EXCEPT ![q] = rec]
  BY DEF Answer
<1> HIDE DEF rec
<1>3. call' \in [Slot -> CallType]
  BY <1>1, <1>2 DEF TypeInv
<1>4. call'[q] = rec /\ \A p \in Slot : p # q => call'[p] = call[p]
  BY <1>2 DEF TypeInv
<1>5. CallInv'
  BY <1>1, <1>4 DEF TypeInv, CallInv, CallType
<1> QED
  BY <1>1, <1>3, <1>4, <1>5

LEMMA ReceiptIsTyped ==
    ASSUME TypeInv, NEW w \in Watch
    PROVE  /\ Receipt(w) \in ReceiptType
           /\ receipts \union {Receipt(w)} \subseteq ReceiptType
           /\ IsFiniteSet(receipts \union {Receipt(w)})
<1>1. Cardinality(receipts) \in Nat
  BY FS_CardinalityType DEF TypeInv
<1>2. now + UnlockMinutes \in 0..(MaxTime + UnlockMinutes)
  BY RewardedAssumption DEF TypeInv
<1>3. watch[w].gate \in Gate
  BY DEF TypeInv, RowType
<1>4. Receipt(w) \in ReceiptType
  BY <1>1, <1>2, <1>3 DEF Receipt, ReceiptType, TypeInv
<1>5. IsFiniteSet(receipts \union {Receipt(w)})
  BY FS_AddElement DEF TypeInv
<1> QED
  BY <1>4, <1>5 DEF TypeInv

LEMMA ReasonIsAnswer == \A g : Reason(g) \in Answers
BY DEF Reason, Answers, Reasons

(* The row of a session and the type of the table after a change of status. *)
LEMMA RowStaysTyped ==
    ASSUME TypeInv, NEW w \in Watch, NEW st \in {"none", "started", "rewarded", "closed"}
    PROVE  [watch EXCEPT ![w].status = st] \in [Watch -> RowType]
BY DEF TypeInv, RowType

LEMMA TypeInit == Init => TypeInv
<1> SUFFICES ASSUME Init PROVE TypeInv
  OBVIOUS
<1>1. now \in 0..MaxTime /\ rules \subseteq Gate /\ provider \in BOOLEAN
  BY RewardedAssumption DEF Init
<1>2. receipts \subseteq ReceiptType /\ IsFiniteSet(receipts)
  BY FS_EmptySet DEF Init
<1>3. watch \in [Watch -> RowType] /\ call \in [Slot -> CallType]
  BY NoCallType DEF Init
<1>4. CallInv
  BY DEF Init, CallInv, NoCall
<1> QED
  BY <1>1, <1>2, <1>3, <1>4 DEF TypeInv

LEMMA TypeStep == TypeInv /\ AnyStep => TypeInv'
<1> SUFFICES ASSUME TypeInv, AnyStep PROVE TypeInv'
  OBVIOUS
<1>1. ASSUME NEW q \in Slot, NEW g \in Gate, NEW w \in Watch \union {NoWatch},
             NEW op \in {"current", "start", "grant", "close"}, Arrive(q, op, g, w)
      PROVE  TypeInv'
  <2> DEFINE rec == [NoCall EXCEPT !.op = op, !.stage = "run", !.gate = g, !.watch = w]
  <2>1. rec \in CallType /\ rec.stage = "run"
    BY NoCallType DEF CallType, NoCall
  <2>2. call' = [call EXCEPT ![q] = rec]
    BY <1>1 DEF Arrive
  <2> HIDE DEF rec
  <2>3. call' \in [Slot -> CallType] /\ CallInv'
    BY <2>1, <2>2 DEF TypeInv, CallInv
  <2> QED
    BY <1>1, <2>3 DEF Arrive, TypeInv, config, tables
<1>2. ASSUME NEW q \in Slot, GetCurrentState(q) PROVE TypeInv'
  <2>1. call' \in [Slot -> CallType] /\ CallInv'
    BY <1>2, ReasonIsAnswer, AnswerType DEF GetCurrentState
  <2> QED
    BY <1>2, <2>1 DEF GetCurrentState, TypeInv, config, tables
<1>3. ASSUME NEW q \in Slot, StartGate(q) PROVE TypeInv'
  <2>1. Cardinality(receipts) \in Nat
    BY FS_CardinalityType DEF TypeInv
  <2>2. call' \in [Slot -> CallType] /\ CallInv'
    <3>1. CASE Answer(q, NoWatch, Reason(call[q].gate))
      BY <3>1, ReasonIsAnswer, AnswerType
    <3>2. CASE call' = [call EXCEPT ![q].stage = "write", ![q].at = now,
                                    ![q].seen = Cardinality(receipts)]
      <4> DEFINE n == Cardinality(receipts)
      <4>1. call \in [Slot -> CallType] /\ now \in 0..MaxTime /\ n \in Nat
        BY <2>1 DEF TypeInv
      <4> HIDE DEF n
      <4>2. call' = [call EXCEPT ![q] = [call[q] EXCEPT !.stage = "write", !.at = now,
                                                        !.seen = n]]
        BY <3>2, <4>1 DEF n, CallType
      <4>3. [call[q] EXCEPT !.stage = "write", !.at = now, !.seen = n] \in CallType
        BY <4>1 DEF CallType
      <4>4. call'[q].op = "start"
        BY <1>3, <4>1, <4>2 DEF StartGate, At, CallType
      <4> QED
        BY <4>1, <4>2, <4>3, <4>4 DEF TypeInv, CallInv
    <3> QED
      BY <1>3, <3>1, <3>2 DEF StartGate
  <2> QED
    BY <1>3, <2>2 DEF StartGate, TypeInv, config, tables
<1>4. ASSUME NEW q \in Slot, NEW w \in Watch, CreateWatch(q, w) PROVE TypeInv'
  <2>1. call' \in [Slot -> CallType] /\ CallInv'
    BY <1>4, AnswerType DEF CreateWatch, Answers
  <2>2. watch' \in [Watch -> RowType]
    BY <1>4 DEF CreateWatch, TypeInv, RowType, CallType
  <2> QED
    BY <1>4, <2>1, <2>2 DEF CreateWatch, TypeInv, config
<1>5. ASSUME NEW q \in Slot, GrantReward(q) PROVE TypeInv'
  <2> DEFINE w == call[q].watch
  <2>0. w \in Watch \union {NoWatch}
    BY DEF TypeInv, CallType
  <2>1. call' \in [Slot -> CallType] /\ CallInv'
    <3>1. CASE w \in Watch /\ call' = [call EXCEPT ![q].stage = "write",
                                                   ![q].seen = Cardinality(receipts)]
      <4> DEFINE n == Cardinality(receipts)
      <4>1. call \in [Slot -> CallType] /\ n \in Nat
        BY FS_CardinalityType DEF TypeInv
      <4> HIDE DEF n
      <4>2. call' = [call EXCEPT ![q] = [call[q] EXCEPT !.stage = "write", !.seen = n]]
        BY <3>1, <4>1 DEF n, CallType
      <4>3. [call[q] EXCEPT !.stage = "write", !.seen = n] \in CallType
        BY <4>1 DEF CallType
      <4> QED
        BY <3>1, <4>1, <4>2, <4>3 DEF TypeInv, CallInv, CallType
    <3>2. CASE Answer(q, w, "granted") \/ Answer(q, w, "error")
      BY <2>0, <3>2, AnswerType DEF Answers
    <3> QED
      BY <1>5, <3>1, <3>2 DEF GrantReward
  <2> QED
    BY <1>5, <2>1 DEF GrantReward, TypeInv, config, tables
<1>6. ASSUME NEW q \in Slot, CommitReward(q) PROVE TypeInv'
  <2> DEFINE w == call[q].watch
  <2>1. w \in Watch
    BY <1>6 DEF CommitReward, At, TypeInv, CallInv
  <2>2. call' \in [Slot -> CallType] /\ CallInv'
    BY <1>6, <2>1, AnswerType DEF CommitReward, Answers
  <2>3. receipts' \subseteq ReceiptType /\ IsFiniteSet(receipts')
    BY <1>6, <2>1, ReceiptIsTyped DEF CommitReward
  <2>4. watch' \in [Watch -> RowType]
    BY <1>6, <2>1, RowStaysTyped DEF CommitReward
  <2> QED
    BY <1>6, <2>2, <2>3, <2>4 DEF CommitReward, TypeInv, config
<1>7. ASSUME NEW q \in Slot, CloseSession(q) PROVE TypeInv'
  <2> DEFINE w == call[q].watch
  <2>0. w \in Watch \union {NoWatch}
    BY DEF TypeInv, CallType
  <2>1. call' \in [Slot -> CallType] /\ CallInv'
    <3>1. CASE w \in Watch /\ call' = [call EXCEPT ![q].stage = "write"]
      BY <1>7, <3>1 DEF TypeInv, CallType, CallInv
    <3>2. CASE Answer(q, w, "already-rewarded") \/ Answer(q, w, "error")
      BY <2>0, <3>2, AnswerType DEF Answers
    <3> QED
      BY <1>7, <3>1, <3>2 DEF CloseSession
  <2> QED
    BY <1>7, <2>1 DEF CloseSession, TypeInv, config, tables
<1>8. ASSUME NEW q \in Slot, PatchClosed(q) PROVE TypeInv'
  <2> DEFINE w == call[q].watch
  <2>1. w \in Watch
    BY <1>8 DEF PatchClosed, At, TypeInv, CallInv
  <2>2. call' \in [Slot -> CallType] /\ CallInv'
    BY <1>8, <2>1, AnswerType DEF PatchClosed, Answers
  <2>3. watch' \in [Watch -> RowType]
    BY <1>8, <2>1, RowStaysTyped DEF PatchClosed
  <2> QED
    BY <1>8, <2>2, <2>3 DEF PatchClosed, TypeInv, config
<1>9. ASSUME NEW q \in Slot, Ends(q) PROVE TypeInv'
  <2>1. call' \in [Slot -> CallType] /\ CallInv'
    BY <1>9, NoCallType DEF Ends, TypeInv, CallInv, NoCall
  <2> QED
    BY <1>9, <2>1 DEF Ends, TypeInv, config, tables
<1>10. CASE Tick
  BY <1>10, RewardedAssumption DEF Tick, TypeInv, CallInv, tables
<1>11. CASE Configure
  BY <1>11 DEF Configure, TypeInv, CallInv, tables
<1>12. CASE UNCHANGED vars
  BY <1>12 DEF vars, config, tables, TypeInv, CallInv
<1> QED
  BY <1>1, <1>2, <1>3, <1>4, <1>5, <1>6, <1>7, <1>8, <1>9, <1>10, <1>11, <1>12
     DEF AnyStep, Serve

(* Sessions, receipts and requests stay in their domains, with what each    *)
(* phase of a request has read.                                            *)
THEOREM TypeCorrect == Spec => []TypeInv
BY TypeInit, TypeStep, Steps, PTL DEF Spec

(* The type invariant of the rewarded server, for every value of the       *)
(* constants.                                                              *)
THEOREM TypeOKHolds == Spec => []TypeOK
<1>1. TypeInv => TypeOK
  BY DEF TypeInv, TypeOK, RowType, ReceiptType, CallType
<1> QED
  BY <1>1, TypeCorrect, PTL

-----------------------------------------------------------------------------
(***************************************************************************)
(* Receipts and answers: only sessions that were rewarded or closed have   *)
(* receipts, a rewarded one and one answered as granted have one.          *)
(***************************************************************************)
ReceiptInv ==
    /\ \A r \in receipts : watch[r.watch].status \in {"rewarded", "closed"}
    /\ \A w \in Watch : watch[w].status = "rewarded" => Rewarded(w)

GrantedInv ==
    \A q \in Slot : call[q].answer = "granted" => \E r \in receipts : r.watch = call[q].watch

(* A step that answers request q with what is not a grant, or with one that *)
(* has its receipt.                                                        *)
LEMMA AnswerKeeps ==
    ASSUME TypeInv, GrantedInv, NEW q \in Slot, receipts \subseteq receipts',
           NEW w \in Watch \union {NoWatch}, NEW a \in Answers, Answer(q, w, a),
           a = "granted" => \E r \in receipts' : r.watch = w
    PROVE  GrantedInv'
BY AnswerType DEF GrantedInv

LEMMA ReceiptStep ==
    ASSUME TypeInv, ReceiptInv, GrantedInv, AnyStep
    PROVE  ReceiptInv' /\ GrantedInv'
<1>1. ASSUME NEW q \in Slot, NEW g, NEW w, NEW op, Arrive(q, op, g, w)
      PROVE  ReceiptInv' /\ GrantedInv'
  <2>1. /\ call'[q].stage = "run" /\ call'[q].answer = "none"
        /\ \A p \in Slot : p # q => call'[p] = call[p]
    BY <1>1 DEF Arrive, TypeInv, NoCall
  <2> QED
    BY <1>1, <2>1 DEF Arrive, tables, ReceiptInv, Rewarded, GrantedInv
<1>2. ASSUME NEW q \in Slot, GetCurrentState(q) PROVE ReceiptInv' /\ GrantedInv'
  <2>1. Reason(call[q].gate) # "granted"
    BY DEF Reason
  <2>2. GrantedInv'
    BY <1>2, <2>1, ReasonIsAnswer, AnswerKeeps DEF GetCurrentState, tables
  <2> QED
    BY <1>2, <2>2 DEF GetCurrentState, tables, ReceiptInv, Rewarded
<1>3. ASSUME NEW q \in Slot, StartGate(q) PROVE ReceiptInv' /\ GrantedInv'
  <2>1. CASE Answer(q, NoWatch, Reason(call[q].gate))
    <3>1. Reason(call[q].gate) # "granted"
      BY DEF Reason
    <3>2. GrantedInv'
      BY <1>3, <2>1, <3>1, ReasonIsAnswer, AnswerKeeps DEF StartGate, tables
    <3> QED
      BY <1>3, <3>2 DEF StartGate, tables, ReceiptInv, Rewarded
  <2>2. CASE call' = [call EXCEPT ![q].stage = "write", ![q].at = now,
                                  ![q].seen = Cardinality(receipts)]
    <3>1. /\ call'[q].op = "start" /\ call'[q].answer = call[q].answer
          /\ call'[q].watch = call[q].watch
          /\ \A p \in Slot : p # q => call'[p] = call[p]
      BY <1>3, <2>2 DEF StartGate, At, TypeInv, CallType
    <3> QED
      BY <1>3, <3>1 DEF StartGate, tables, ReceiptInv, Rewarded, GrantedInv
  <2> QED
    BY <1>3, <2>1, <2>2 DEF StartGate
<1>4. ASSUME NEW q \in Slot, NEW w \in Watch, CreateWatch(q, w)
      PROVE  ReceiptInv' /\ GrantedInv'
  <2>2. GrantedInv'
    BY <1>4, AnswerKeeps DEF CreateWatch, Answers
  <2>3. \A r \in receipts : r.watch # w
    BY <1>4 DEF CreateWatch, ReceiptInv
  <2>4. /\ receipts' = receipts /\ watch'[w].status = "started"
        /\ \A v \in Watch : v # w => watch'[v] = watch[v]
    BY <1>4 DEF CreateWatch, TypeInv
  <2>5. \A r \in receipts : r.watch \in Watch
    BY DEF TypeInv, ReceiptType
  <2> QED
    BY <2>2, <2>3, <2>4, <2>5 DEF ReceiptInv, Rewarded
<1>5. ASSUME NEW q \in Slot, GrantReward(q) PROVE ReceiptInv' /\ GrantedInv'
  <2> DEFINE w == call[q].watch
  <2>1. w \in Watch \union {NoWatch} /\ At(q, "grant", "run") /\ UNCHANGED tables
    BY <1>5 DEF GrantReward, TypeInv, CallType
  <2>2. ReceiptInv'
    BY <2>1 DEF ReceiptInv, Rewarded, tables
  <2>3. CASE call' = [call EXCEPT ![q].stage = "write", ![q].seen = Cardinality(receipts)]
    <3>1. /\ call'[q].watch = w /\ call'[q].answer = call[q].answer
          /\ \A p \in Slot : p # q => call'[p] = call[p]
      BY <2>3 DEF TypeInv, CallType
    <3> QED
      BY <2>1, <2>2, <3>1 DEF tables, GrantedInv
  <2>4. CASE w \in Watch /\ watch[w].status = "rewarded" /\ Answer(q, w, "granted")
    <3>1. \E r \in receipts : r.watch = w
      BY <2>4 DEF ReceiptInv, Rewarded
    <3> QED
      BY <2>1, <2>2, <2>4, <3>1, AnswerKeeps DEF tables, Answers
  <2>5. CASE Answer(q, w, "error")
    BY <2>1, <2>2, <2>5, AnswerKeeps DEF tables, Answers
  <2> QED
    BY <1>5, <2>3, <2>4, <2>5 DEF GrantReward
<1>6. ASSUME NEW q \in Slot, CommitReward(q) PROVE ReceiptInv' /\ GrantedInv'
  <2> DEFINE w == call[q].watch
             new == Receipt(w)
  <2>1. w \in Watch
    BY <1>6 DEF CommitReward, At, TypeInv, CallInv
  <2>2. /\ receipts' = receipts \union {new} /\ watch'[w].status = "rewarded"
        /\ \A v \in Watch : v # w => watch'[v] = watch[v]
        /\ Answer(q, w, "granted")
    BY <1>6, <2>1 DEF CommitReward, TypeInv, RowType
  <2>3. new.watch = w
    BY DEF Receipt
  <2>4. \A r \in receipts : r.watch \in Watch
    BY DEF TypeInv, ReceiptType
  <2> HIDE DEF new
  <2>5. GrantedInv'
    BY <2>1, <2>2, <2>3, AnswerKeeps DEF Answers
  <2> QED
    BY <2>1, <2>2, <2>3, <2>4, <2>5 DEF ReceiptInv, Rewarded
<1>7. ASSUME NEW q \in Slot, CloseSession(q) PROVE ReceiptInv' /\ GrantedInv'
  <2> DEFINE w == call[q].watch
  <2>1. w \in Watch \union {NoWatch} /\ At(q, "close", "run") /\ UNCHANGED tables
    BY <1>7 DEF CloseSession, TypeInv, CallType
  <2>2. ReceiptInv'
    BY <2>1 DEF ReceiptInv, Rewarded, tables
  <2>3. CASE call' = [call EXCEPT ![q].stage = "write"]
    <3>1. /\ call'[q].op = "close" /\ call'[q].answer = call[q].answer
          /\ call'[q].watch = call[q].watch
          /\ \A p \in Slot : p # q => call'[p] = call[p]
      BY <2>1, <2>3 DEF At, TypeInv, CallType
    <3> QED
      BY <2>1, <2>2, <3>1 DEF tables, GrantedInv
  <2>4. CASE Answer(q, w, "already-rewarded") \/ Answer(q, w, "error")
    BY <2>1, <2>2, <2>4, AnswerKeeps DEF tables, Answers
  <2> QED
    BY <1>7, <2>3, <2>4 DEF CloseSession
<1>8. ASSUME NEW q \in Slot, PatchClosed(q) PROVE ReceiptInv' /\ GrantedInv'
  <2> DEFINE w == call[q].watch
  <2>1. w \in Watch /\ At(q, "close", "write")
    BY <1>8 DEF PatchClosed, At, TypeInv, CallInv
  <2>2. /\ receipts' = receipts /\ watch'[w].status = "closed"
        /\ \A v \in Watch : v # w => watch'[v] = watch[v]
    BY <1>8, <2>1 DEF PatchClosed, TypeInv, RowType
  <2>3. GrantedInv'
    BY <1>8, <2>1, <2>2, AnswerKeeps DEF PatchClosed, Answers
  <2>4. \A r \in receipts : r.watch \in Watch
    BY DEF TypeInv, ReceiptType
  <2> QED
    BY <2>2, <2>3, <2>4 DEF ReceiptInv, Rewarded
<1>9. ASSUME NEW q \in Slot, Ends(q) PROVE ReceiptInv' /\ GrantedInv'
  <2>1. /\ call'[q].stage = "idle" /\ call'[q].answer = "none"
        /\ \A p \in Slot : p # q => call'[p] = call[p]
    BY <1>9 DEF Ends, TypeInv, NoCall
  <2> QED
    BY <1>9, <2>1 DEF Ends, tables, ReceiptInv, Rewarded, GrantedInv
<1>10. CASE Tick \/ Configure \/ UNCHANGED vars
  BY <1>10 DEF Tick, Configure, vars, tables, ReceiptInv, Rewarded, GrantedInv
<1> QED
  BY <1>1, <1>2, <1>3, <1>4, <1>5, <1>6, <1>7, <1>8, <1>9, <1>10 DEF AnyStep, Serve

-----------------------------------------------------------------------------
(***************************************************************************)
(* The newest receipts of a set whose numbers differ: all of them, or as   *)
(* many as the window takes, the newest of all among them.                 *)
(***************************************************************************)
Newer(R, r) == {x \in R : x.n > r.n}

Numbered(R) ==
    /\ IsFiniteSet(R)
    /\ \A r \in R : r.n \in Nat
    /\ \A r, x \in R : r.n = x.n => r = x

LEMMA NewerCount ==
    ASSUME NEW R, Numbered(R), NEW r \in R
    PROVE  /\ IsFiniteSet(Newer(R, r)) /\ Cardinality(Newer(R, r)) \in Nat
           /\ Cardinality(R) \in Nat /\ Cardinality(Newer(R, r)) < Cardinality(R)
<1>1. Newer(R, r) \in SUBSET R /\ r \notin Newer(R, r)
  BY DEF Newer, Numbered
<1>2. IsFiniteSet(Newer(R, r)) /\ Cardinality(Newer(R, r)) <= Cardinality(R)
      /\ Cardinality(Newer(R, r)) # Cardinality(R)
  BY <1>1, FS_Subset DEF Numbered
<1>3. Cardinality(R) \in Nat /\ Cardinality(Newer(R, r)) \in Nat
  BY <1>2, FS_CardinalityType DEF Numbered
<1> QED
  BY <1>2, <1>3

LEMMA NewerDiffers ==
    ASSUME NEW R, Numbered(R), NEW a \in R, NEW b \in R, a.n < b.n
    PROVE  Cardinality(Newer(R, b)) # Cardinality(Newer(R, a))
<1>1. \A x \in R : x.n \in Nat
  BY DEF Numbered
<1>2. Newer(R, b) \in SUBSET Newer(R, a) /\ b \in Newer(R, a) /\ b \notin Newer(R, b)
  BY <1>1 DEF Newer
<1>3. IsFiniteSet(Newer(R, a))
  BY NewerCount
<1> QED
  BY <1>2, <1>3, FS_Subset

(* For each k below its size, a set has an element with just k newer ones. *)
LEMMA Ranks ==
    ASSUME NEW R, Numbered(R), NEW k \in Nat, k < Cardinality(R)
    PROVE  \E r \in R : Cardinality(Newer(R, r)) = k
<1> DEFINE c == Cardinality(R)
           rank == [r \in R |-> Cardinality(Newer(R, r))]
<1>1. c \in Nat /\ IsFiniteSet(R)
  BY FS_CardinalityType DEF Numbered
<1>2. IsFiniteSet(0..(c-1)) /\ Cardinality(0..(c-1)) = c
  <2> HIDE DEF c
  <2>1. 0 \in Int /\ c - 1 \in Int /\ (IF 0 > c - 1 THEN 0 ELSE (c - 1) - 0 + 1) = c
    BY <1>1
  <2>2. IsFiniteSet(0..(c-1))
        /\ Cardinality(0..(c-1)) = IF 0 > c - 1 THEN 0 ELSE (c - 1) - 0 + 1
    BY <2>1, FS_Interval
  <2> QED
    BY <2>1, <2>2
<1>3. rank \in [R -> 0..(c-1)]
  <2> SUFFICES ASSUME NEW r \in R PROVE Cardinality(Newer(R, r)) \in 0..(c-1)
    OBVIOUS
  <2> QED
    BY <1>1, NewerCount
<1>4. \A a, b \in R : rank[a] = rank[b] => a = b
  <2> SUFFICES ASSUME NEW a \in R, NEW b \in R, a # b PROVE rank[a] # rank[b]
    OBVIOUS
  <2>1. a.n \in Nat /\ b.n \in Nat /\ a.n # b.n
    BY DEF Numbered
  <2>2. a.n < b.n \/ b.n < a.n
    BY <2>1
  <2>3. Cardinality(Newer(R, a)) # Cardinality(Newer(R, b))
    BY <2>2, NewerDiffers
  <2> QED
    BY <2>3
<1> HIDE DEF rank, c
<1>5. rank \in Injection(R, 0..(c-1))
  BY <1>3, <1>4, Fun_IsInj
<1>6. rank \in Surjection(R, 0..(c-1))
  BY <1>2, <1>5, FS_Injection DEF c
<1>7. k \in 0..(c-1)
  BY <1>1 DEF c
<1>8. PICK r \in R : rank[r] = k
  BY <1>6, <1>7 DEF Surjection
<1> QED
  BY <1>8 DEF rank

LEMMA NewestCount ==
    ASSUME NEW R, Numbered(R)
    PROVE  /\ IsFiniteSet(Newest(R)) /\ Cardinality(Newest(R)) \in Nat
           /\ Newest(R) = R \/ ReceiptWindow <= Cardinality(Newest(R))
<1> DEFINE c == Cardinality(R)
           W == ReceiptWindow
<1>1. c \in Nat /\ W \in Nat
  BY FS_CardinalityType, RewardedAssumption DEF Numbered
<1>2. Newest(R) = {r \in R : Cardinality(Newer(R, r)) < W}
  BY DEF Newest, Newer
<1>3. Newest(R) \in SUBSET R
  BY <1>2
<1>4. IsFiniteSet(Newest(R)) /\ Cardinality(Newest(R)) \in Nat
  BY <1>3, FS_Subset, FS_CardinalityType DEF Numbered
<1>5. CASE c <= W
  <2>1. \A r \in R : Cardinality(Newer(R, r)) < W
    <3> SUFFICES ASSUME NEW r \in R PROVE Cardinality(Newer(R, r)) < W
      OBVIOUS
    <3>1. Cardinality(Newer(R, r)) \in Nat /\ Cardinality(Newer(R, r)) < c
      BY NewerCount
    <3> QED
      BY <1>1, <1>5, <3>1
  <2> QED
    BY <1>2, <1>4, <2>1
<1>6. CASE c > W
  <2> DEFINE pick == [k \in 0..(W-1) |-> CHOOSE r \in R : Cardinality(Newer(R, r)) = k]
  <2>1. ASSUME NEW k \in 0..(W-1)
        PROVE  pick[k] \in R /\ Cardinality(Newer(R, pick[k])) = k /\ k < W
    <3>1. k \in Nat /\ k < c /\ k < W
      BY <1>1, <1>6
    <3>2. \E r \in R : Cardinality(Newer(R, r)) = k
      BY <3>1, Ranks
    <3> QED
      BY <3>1, <3>2
  <2>2. pick \in [0..(W-1) -> Newest(R)]
    <3>1. \A k \in 0..(W-1) : pick[k] \in Newest(R)
      BY <1>2, <2>1
    <3> QED
      BY <3>1
  <2>3. \A j, k \in 0..(W-1) : pick[j] = pick[k] => j = k
    BY <2>1
  <2> HIDE DEF pick
  <2>4. pick \in Injection(0..(W-1), Newest(R))
    BY <2>2, <2>3, Fun_IsInj
  <2>5. Cardinality(0..(W-1)) <= Cardinality(Newest(R))
    BY <1>4, <2>4, FS_Injection
  <2>6. Cardinality(0..(W-1)) = W
    BY <1>1, FS_Interval
  <2> QED
    BY <1>4, <2>5, <2>6
<1> QED
  BY <1>1, <1>5, <1>6

LEMMA NewestOfAll ==
    ASSUME NEW R, Numbered(R), R # {}, ReceiptWindow > 0
    PROVE  \E m \in Newest(R) : \A r \in R : r.n <= m.n
<1>1. Cardinality(R) \in Nat /\ Cardinality(R) # 0
  BY FS_CardinalityType, FS_EmptySet DEF Numbered
<1>2. PICK m \in R : Cardinality(Newer(R, m)) = 0
  BY <1>1, Ranks
<1>3. Newer(R, m) = {}
  BY <1>2, NewerCount, FS_EmptySet
<1>4. \A r \in R : r.n <= m.n
  BY <1>3 DEF Newer, Numbered
<1>5. m \in Newest(R)
  BY <1>2 DEF Newest, Newer
<1> QED
  BY <1>4, <1>5

-----------------------------------------------------------------------------
(***************************************************************************)
(* The limits of a gate.  Receipts are numbered in the order of their      *)
(* times; what evaluateGate reads of them, the newest ones, speaks for all *)
(* of them as long as the window takes as many as the limit of a day.      *)
(***************************************************************************)
NumberInv ==
    /\ \A r \in receipts : r.n <= Cardinality(receipts)
    /\ \A r, x \in receipts : r.n = x.n => r = x
    /\ \A r, x \in receipts : r.n <= x.n => r.grantedAt <= x.grantedAt
    /\ \A r \in receipts : r.grantedAt <= now /\ r.until = r.grantedAt + UnlockMinutes

Before(g, seen) == {r \in receipts : r.gate = g /\ r.n <= seen}

Bound(g, seen, at) ==
    /\ seen <= Cardinality(receipts)
    /\ \A r \in Before(g, seen) : r.until <= at
    /\ \A r \in Before(g, seen) : r.grantedAt + CooldownMinutes <= at
    /\ DailyLimit # NoLimit =>
           Cardinality({r \in Before(g, seen) : r.grantedAt \div DayLength = at \div DayLength})
               < DailyLimit

BoundInv ==
    /\ \A w \in Watch : watch[w].status # "none" =>
                            Bound(watch[w].gate, watch[w].seen, watch[w].at)
    /\ \A q \in Slot : call[q].op = "start" /\ call[q].stage = "write" =>
                            Bound(call[q].gate, call[q].seen, call[q].at)

(* A reward adds the receipt of the next number, of this minute. *)
Commits(w) == receipts' = receipts \union {Receipt(w)} /\ now' = now

LEMMA ReceiptsMove ==
    ASSUME TypeInv, AnyStep
    PROVE  \/ receipts' = receipts /\ now <= now' /\ now' \in Nat
           \/ \E w \in Watch : Commits(w)
<1>0. now \in Nat
  BY DEF TypeInv
<1>1. ASSUME NEW q \in Slot, CommitReward(q) PROVE \E w \in Watch : Commits(w)
  <2>1. call[q].watch \in Watch
    BY <1>1 DEF CommitReward, At, TypeInv, CallInv
  <2> QED
    BY <1>1, <2>1 DEF CommitReward, Commits, config
<1>2. ASSUME NEW q \in Slot, Serve(q), ~CommitReward(q) PROVE UNCHANGED <<receipts, now>>
  BY <1>2 DEF Serve, GetCurrentState, StartGate, GrantReward, CloseSession, PatchClosed,
              CreateWatch, config, tables
<1>3. ASSUME NEW q \in Slot, NEW g, NEW w, NEW op, Arrive(q, op, g, w) \/ Ends(q)
      PROVE  UNCHANGED <<receipts, now>>
  BY <1>3 DEF Arrive, Ends, config, tables
<1>4. CASE Tick \/ Configure \/ UNCHANGED vars
  BY <1>0, <1>4 DEF Tick, Configure, vars, config, tables
<1> QED
  BY <1>0, <1>1, <1>2, <1>3, <1>4 DEF AnyStep

LEMMA NumberStep == TypeInv /\ NumberInv /\ AnyStep => NumberInv'
<1> SUFFICES ASSUME TypeInv, NumberInv, AnyStep PROVE NumberInv'
  OBVIOUS
<1>1. CASE receipts' = receipts /\ now <= now' /\ now' \in Nat
  BY <1>1 DEF NumberInv, TypeInv, ReceiptType
<1>2. ASSUME NEW w \in Watch, Commits(w) PROVE NumberInv'
  <2>1. PICK c : c = Cardinality(receipts) /\ c \in Nat
    BY FS_CardinalityType DEF TypeInv
  <2>0. PICK new : new = Receipt(w)
    OBVIOUS
  <2>2. new.n = c + 1 /\ new.grantedAt = now /\ new.until = now + UnlockMinutes
    BY <2>0, <2>1 DEF Receipt
  <2>3. \A r \in receipts : r.n \in Nat /\ r.n <= c /\ r.grantedAt \in Nat /\ r.grantedAt <= now
    BY <2>1 DEF NumberInv, TypeInv, ReceiptType
  <2>4. new \notin receipts
    BY <2>1, <2>2, <2>3
  <2>5. Cardinality(receipts') = c + 1
    BY <1>2, <2>0, <2>1, <2>4, FS_AddElement DEF Commits, TypeInv
  <2>6. receipts' = receipts \union {new} /\ now' = now /\ now \in Nat
    BY <1>2, <2>0 DEF Commits, TypeInv
  <2>7. \A r \in receipts' : r.n <= c + 1
    BY <2>1, <2>2, <2>3, <2>6
  <2>8. \A r, x \in receipts' : r.n = x.n => r = x
    BY <2>1, <2>2, <2>3, <2>6 DEF NumberInv
  <2>9. \A r, x \in receipts' : r.n <= x.n => r.grantedAt <= x.grantedAt
    BY <2>1, <2>2, <2>3, <2>6 DEF NumberInv
  <2>10. \A r \in receipts' : r.grantedAt <= now' /\ r.until = r.grantedAt + UnlockMinutes
    BY <2>2, <2>3, <2>6 DEF NumberInv
  <2> QED
    BY <2>5, <2>7, <2>8, <2>9, <2>10 DEF NumberInv
<1> QED
  BY <1>1, <1>2, ReceiptsMove

(* What binds a start binds it for good: later receipts have later numbers. *)
LEMMA BoundStays ==
    ASSUME TypeInv, NumberInv, AnyStep, NEW g, NEW seen \in Nat, NEW at, Bound(g, seen, at)
    PROVE  Bound(g, seen, at)'
<1>1. CASE receipts' = receipts
  BY <1>1 DEF Bound, Before
<1>2. ASSUME NEW w \in Watch, Commits(w) PROVE Bound(g, seen, at)'
  <2>1. PICK c : c = Cardinality(receipts) /\ c \in Nat
    BY FS_CardinalityType DEF TypeInv
  <2>2. Receipt(w).n = c + 1 /\ seen <= c
    BY <2>1 DEF Receipt, Bound
  <2>3. Before(g, seen)' = Before(g, seen)
    BY <1>2, <2>1, <2>2 DEF Commits, Before
  <2>4. Cardinality(receipts') \in {c, c + 1}
    BY <1>2, <2>1, FS_AddElement DEF Commits, TypeInv
  <2>5. seen <= Cardinality(receipts')
    BY <2>1, <2>2, <2>4
  <2> QED
    BY <2>3, <2>5 DEF Bound
<1> QED
  BY <1>1, <1>2, ReceiptsMove

LEMMA DayBetween ==
    ASSUME NEW a \in Nat, NEW b \in Nat, NEW c \in Nat, a <= b, b <= c,
           a \div DayLength = c \div DayLength
    PROVE  b \div DayLength = c \div DayLength
<1>1. PICK d \in Nat \ {0} : d = DayLength
  BY RewardedAssumption
<1>2. a \div d <= b \div d /\ b \div d <= c \div d
  BY <1>1
<1>3. a \div d \in Nat /\ b \div d \in Nat /\ c \div d \in Nat
  BY <1>1
<1> QED
  BY <1>1, <1>2, <1>3

(* What evaluateGate found says that no receipt of the gate is in the way. *)
LEMMA StartIsBound ==
    ASSUME TypeInv, NumberInv, ReceiptWindow > 0,
           DailyLimit # NoLimit => DailyLimit <= ReceiptWindow,
           NEW g, Reason(g) = "reward-required"
    PROVE  Bound(g, Cardinality(receipts), now)
<1> DEFINE R == {r \in receipts : r.gate = g}
           today(S) == {r \in S : r.grantedAt \div DayLength = now \div DayLength}
<1>0. /\ now \in Nat /\ {UnlockMinutes, CooldownMinutes, ReceiptWindow} \subseteq Nat
      /\ \A r \in receipts : r.n \in Nat /\ r.grantedAt \in Nat /\ r.grantedAt <= now
                             /\ r.until = r.grantedAt + UnlockMinutes
  BY RewardedAssumption DEF TypeInv, ReceiptType, NumberInv
<1>1. Cardinality(receipts) \in Nat /\ Before(g, Cardinality(receipts)) = R
  BY FS_CardinalityType DEF TypeInv, NumberInv, Before
<1>2. Numbered(R)
  <2>1. R \in SUBSET receipts /\ IsFiniteSet(receipts)
    BY DEF TypeInv
  <2>2. IsFiniteSet(R)
    BY <2>1, FS_Subset
  <2> QED
    BY <1>0, <2>2 DEF Numbered, NumberInv
<1>3. Recent(g) = Newest(R) /\ Newest(R) \subseteq R
  BY DEF Recent, Newest
<1>4. /\ \A r \in Newest(R) : ~(r.until > now)
      /\ \A r \in Newest(R) : (\A x \in Newest(R) : x.n <= r.n) =>
                                   ~(r.grantedAt + CooldownMinutes > now)
      /\ DailyLimit # NoLimit => ~(Cardinality(today(Newest(R))) >= DailyLimit)
  BY <1>3 DEF Reason, Today
<1> HIDE DEF R
<1>5. ASSUME NEW r \in R
      PROVE  r.until <= now /\ r.grantedAt + CooldownMinutes <= now
  <2>1. PICK m \in Newest(R) : \A x \in R : x.n <= m.n
    BY <1>2, <1>5, NewestOfAll
  <2>2. m \in receipts /\ r \in receipts /\ m \in R
    BY <1>3 DEF R
  <2>3. r.grantedAt <= m.grantedAt
    BY <2>1, <2>2 DEF NumberInv
  <2>4. m.until <= now /\ m.grantedAt + CooldownMinutes <= now
    BY <1>0, <1>3, <1>4, <2>1, <2>2
  <2> QED
    BY <1>0, <2>2, <2>3, <2>4
<1>6. ASSUME DailyLimit # NoLimit PROVE Cardinality(today(R)) < DailyLimit
  <2>1. DailyLimit \in Nat /\ DailyLimit <= ReceiptWindow
    BY <1>6, RewardedAssumption
  <2>2. IsFiniteSet(Newest(R)) /\ Cardinality(Newest(R)) \in Nat
    BY <1>2, NewestCount
  <2>3. today(Newest(R)) \in SUBSET Newest(R)
    OBVIOUS
  <2>4. Cardinality(today(Newest(R))) \in Nat
    BY <2>2, <2>3, FS_Subset, FS_CardinalityType
  <2>5. Cardinality(today(Newest(R))) < DailyLimit
    BY <1>4, <1>6, <2>1, <2>4
  <2>6. CASE today(R) \subseteq Newest(R)
    <3>1. today(R) = today(Newest(R))
      BY <1>3, <2>6
    <3> QED
      BY <2>5, <3>1
  <2>7. CASE ~(today(R) \subseteq Newest(R))
    <3>1. PICK r \in today(R) : r \notin Newest(R)
      BY <2>7
    <3>2. r \in R /\ r \in receipts /\ r.grantedAt \div DayLength = now \div DayLength
      BY DEF R
    <3>3. ~(Cardinality(Newer(R, r)) < ReceiptWindow)
      BY <3>1, <3>2 DEF Newest, Newer
    <3>4. ASSUME NEW x \in Newest(R) PROVE x \in today(Newest(R))
      <4>1. x \in R /\ x \in receipts /\ Cardinality(Newer(R, x)) < ReceiptWindow
        BY <1>3 DEF Newest, Newer, R
      <4>2. ~(x.n <= r.n)
        <5> SUFFICES ASSUME x.n <= r.n PROVE FALSE
          OBVIOUS
        <5>1. Newer(R, r) \in SUBSET Newer(R, x)
          BY <1>0, <3>2, <4>1 DEF Newer, R
        <5>2. /\ IsFiniteSet(Newer(R, x)) /\ Cardinality(Newer(R, x)) \in Nat
              /\ Cardinality(Newer(R, r)) \in Nat
          BY <1>2, <3>2, <4>1, NewerCount
        <5>3. Cardinality(Newer(R, r)) <= Cardinality(Newer(R, x))
          BY <5>1, <5>2, FS_Subset
        <5> QED
          BY <1>0, <3>3, <4>1, <5>2, <5>3
      <4>3. r.n <= x.n
        BY <1>0, <3>2, <4>1, <4>2
      <4>4. r.grantedAt <= x.grantedAt
        BY <3>2, <4>1, <4>3 DEF NumberInv
      <4>5. x.grantedAt \div DayLength = now \div DayLength
        BY <1>0, <3>2, <4>1, <4>4, DayBetween
      <4> QED
        BY <4>5
    <3>5. today(Newest(R)) = Newest(R)
      BY <3>4
    <3>6. ReceiptWindow <= Cardinality(Newest(R))
      BY <1>2, <3>1, <3>2, NewestCount
    <3>7. Cardinality(Newest(R)) < DailyLimit
      BY <2>5, <3>5
    <3>8. PICK k \in Nat : k = Cardinality(Newest(R))
      BY <2>2
    <3>9. k < DailyLimit /\ ReceiptWindow <= k /\ ReceiptWindow \in Nat
      BY <1>0, <3>6, <3>7, <3>8
    <3> QED
      BY <2>1, <3>9
  <2> QED
    BY <2>6, <2>7
<1> QED
  BY <1>1, <1>5, <1>6 DEF Bound

(* A request comes to the point of writing by the first half of a start, a *)
(* grant or a close.                                                       *)
LEMMA WriteOrigin ==
    ASSUME TypeInv, AnyStep, NEW q \in Slot, call'[q].stage = "write", call'[q] # call[q]
    PROVE  /\ call'[q].op = call[q].op /\ call'[q].gate = call[q].gate
           /\ call'[q].watch = call[q].watch
           /\ UNCHANGED <<config, tables>>
           /\ \/ /\ StartGate(q) /\ Reason(call[q].gate) = "reward-required"
                 /\ call'[q].seen = Cardinality(receipts) /\ call'[q].at = now
              \/ /\ GrantReward(q) /\ call[q].op = "grant"
                 /\ watch[call[q].watch].status = "started"
                 /\ call'[q].seen = Cardinality(receipts)
              \/ /\ CloseSession(q) /\ call[q].op = "close"
                 /\ watch[call[q].watch].status # "none"
<1>1. ASSUME NEW p \in Slot, NEW rec, rec.stage # "write", call' = [call EXCEPT ![p] = rec]
      PROVE  FALSE
  BY <1>1 DEF TypeInv
<1>2. ASSUME NEW p \in Slot, NEW w, NEW a, Answer(p, w, a) PROVE FALSE
  <2>1. PICK rec : rec = [NoCall EXCEPT !.stage = "done", !.watch = w, !.answer = a]
    OBVIOUS
  <2>2. rec.stage = "done"
    BY <2>1 DEF NoCall
  <2> QED
    BY <1>1, <1>2, <2>1, <2>2 DEF Answer
<1>3. ASSUME NEW p \in Slot, NEW op, NEW g, NEW w, Arrive(p, op, g, w) PROVE FALSE
  <2>1. PICK rec : rec = [NoCall EXCEPT !.op = op, !.stage = "run", !.gate = g, !.watch = w]
    OBVIOUS
  <2>2. rec.stage = "run"
    BY <2>1 DEF NoCall
  <2> QED
    BY <1>1, <1>3, <2>1, <2>2 DEF Arrive
<1>4. ASSUME NEW p \in Slot, Ends(p) PROVE FALSE
  <2>1. NoCall.stage = "idle"
    BY DEF NoCall
  <2> QED
    BY <1>1, <1>4, <2>1 DEF Ends
<1>5. ~(Tick \/ Configure \/ UNCHANGED vars)
  BY DEF Tick, Configure, vars
<1>6. PICK p \in Slot : Serve(p)
  BY <1>3, <1>4, <1>5 DEF AnyStep
<1>7. CASE StartGate(p)
  <2>1. /\ Reason(call[p].gate) = "reward-required" /\ UNCHANGED <<config, tables>>
        /\ call' = [call EXCEPT ![p].stage = "write", ![p].at = now,
                                ![p].seen = Cardinality(receipts)]
    BY <1>2, <1>7 DEF StartGate
  <2>2. p = q
    BY <2>1 DEF TypeInv
  <2> QED
    BY <1>7, <2>1, <2>2 DEF TypeInv, CallType
<1>8. CASE GrantReward(p)
  <2>1. /\ watch[call[p].watch].status = "started" /\ UNCHANGED <<config, tables>>
        /\ call[p].op = "grant"
        /\ call' = [call EXCEPT ![p].stage = "write", ![p].seen = Cardinality(receipts)]
    BY <1>2, <1>8 DEF GrantReward, At
  <2>2. p = q
    BY <2>1 DEF TypeInv
  <2> QED
    BY <1>8, <2>1, <2>2 DEF TypeInv, CallType
<1>9. CASE CloseSession(p)
  <2>1. /\ watch[call[p].watch].status # "none" /\ UNCHANGED <<config, tables>>
        /\ call' = [call EXCEPT ![p].stage = "write"] /\ call[p].op = "close"
    BY <1>2, <1>9 DEF CloseSession, At
  <2>2. p = q
    BY <2>1 DEF TypeInv
  <2> QED
    BY <1>9, <2>1, <2>2 DEF TypeInv, CallType
<1> QED
  BY <1>2, <1>6, <1>7, <1>8, <1>9
     DEF Serve, GetCurrentState, CommitReward, PatchClosed, CreateWatch

(* Sessions that requests are about to write are there, and they stay. *)
RowInv ==
    \A q \in Slot : call[q].op \in {"grant", "close"} /\ call[q].stage = "write" =>
                        watch[call[q].watch].status # "none"

(* Where the gate and the limits of a session have come from. *)
LEMMA WatchOrigin ==
    ASSUME TypeInv, RowInv, AnyStep, NEW w \in Watch
    PROVE  \/ /\ watch'[w].status # "none" => watch[w].status # "none"
              /\ watch[w].status # "none" => watch'[w].status # "none"
              /\ watch'[w].gate = watch[w].gate /\ watch'[w].seen = watch[w].seen
              /\ watch'[w].at = watch[w].at
           \/ \E q \in Slot : /\ call[q].op = "start" /\ call[q].stage = "write"
                              /\ watch[w].status = "none" /\ watch'[w].status # "none"
                              /\ watch'[w].gate = call[q].gate
                              /\ watch'[w].seen = call[q].seen /\ watch'[w].at = call[q].at
<1>1. CASE \E q \in Slot, v \in Watch : CreateWatch(q, v)
  <2>1. PICK q \in Slot, v \in Watch : CreateWatch(q, v)
    BY <1>1
  <2>2. CASE w = v
    BY <2>1, <2>2 DEF CreateWatch, At, TypeInv
  <2>3. CASE w # v
    BY <2>1, <2>3 DEF CreateWatch, TypeInv
  <2> QED
    BY <2>2, <2>3
<1>2. CASE \E q \in Slot : CommitReward(q) \/ PatchClosed(q)
  <2>1. PICK q \in Slot : CommitReward(q) \/ PatchClosed(q)
    BY <1>2
  <2>2. PICK st \in {"rewarded", "closed"} : watch' = [watch EXCEPT ![call[q].watch].status = st]
    BY <2>1 DEF CommitReward, PatchClosed
  <2>3. watch[call[q].watch].status # "none"
    BY <2>1 DEF CommitReward, PatchClosed, At, RowInv
  <2> QED
    BY <2>2, <2>3 DEF TypeInv, RowType
<1>3. CASE UNCHANGED watch
  BY <1>3
<1> QED
  BY <1>1, <1>2, <1>3 DEF AnyStep, Serve, Arrive, GetCurrentState, StartGate, GrantReward,
     CloseSession, Ends, Tick, Configure, vars, config, tables

LEMMA RowStep == TypeInv /\ RowInv /\ AnyStep => RowInv'
<1> SUFFICES ASSUME TypeInv, RowInv, AnyStep, NEW q \in Slot,
                    call'[q].op \in {"grant", "close"}, call'[q].stage = "write"
             PROVE  watch'[call'[q].watch].status # "none"
  BY DEF RowInv
<1>1. \A w \in Watch : watch[w].status # "none" => watch'[w].status # "none"
  BY WatchOrigin
<1>2. CASE call'[q] = call[q]
  <2>1. call[q].watch \in Watch /\ watch[call[q].watch].status # "none"
    BY <1>2 DEF TypeInv, CallInv, RowInv
  <2> QED
    BY <1>1, <1>2, <2>1
<1>3. CASE call'[q] # call[q]
  <2>1. /\ call'[q].op = call[q].op /\ call'[q].watch = call[q].watch /\ UNCHANGED watch
        /\ StartGate(q) \/ watch[call[q].watch].status # "none"
    BY <1>3, WriteOrigin DEF tables
  <2>2. ~StartGate(q)
    BY <2>1 DEF StartGate, At
  <2> QED
    BY <2>1, <2>2
<1> QED
  BY <1>2, <1>3

LEMMA BoundStep ==
    ASSUME TypeInv, NumberInv, RowInv, BoundInv, AnyStep, ReceiptWindow > 0,
           DailyLimit # NoLimit => DailyLimit <= ReceiptWindow
    PROVE  BoundInv'
<1>1. ASSUME NEW w \in Watch, watch'[w].status # "none"
      PROVE  Bound(watch[w].gate, watch[w].seen, watch[w].at)'
  <2>1. PICK g, n, at : g = watch'[w].gate /\ n = watch'[w].seen /\ at = watch'[w].at
    OBVIOUS
  <2>2. n \in Nat /\ Bound(g, n, at)
    BY <1>1, <2>1, WatchOrigin DEF BoundInv, TypeInv, RowType, CallType
  <2>3. Bound(g, n, at)'
    BY <2>2, BoundStays
  <2> QED
    BY <2>1, <2>3
<1>2. ASSUME NEW q \in Slot, call'[q].op = "start", call'[q].stage = "write"
      PROVE  Bound(call[q].gate, call[q].seen, call[q].at)'
  <2>1. PICK g, n, at : g = call'[q].gate /\ n = call'[q].seen /\ at = call'[q].at
    OBVIOUS
  <2>2. CASE call'[q] = call[q]
    <3>1. n \in Nat /\ Bound(g, n, at)
      BY <1>2, <2>1, <2>2 DEF BoundInv, TypeInv, CallType
    <3>2. Bound(g, n, at)'
      BY <3>1, BoundStays
    <3> QED
      BY <2>1, <3>2
  <2>3. CASE call'[q] # call[q]
    <3>1. /\ call'[q].op = call[q].op /\ call'[q].gate = call[q].gate
          /\ UNCHANGED <<config, tables>> /\ Reason(call[q].gate) = "reward-required"
          /\ call'[q].seen = Cardinality(receipts) /\ call'[q].at = now
      BY <1>2, <2>3, WriteOrigin
    <3>2. Bound(g, n, at)
      BY <2>1, <3>1, StartIsBound
    <3>3. n \in Nat
      BY <2>1, <3>1, FS_CardinalityType DEF TypeInv
    <3>4. Bound(g, n, at)'
      BY <3>2, <3>3, BoundStays
    <3> QED
      BY <2>1, <3>4
  <2> QED
    BY <2>2, <2>3
<1> QED
  BY <1>1, <1>2 DEF BoundInv

(* As long as the window of receipts that a start reads is not empty and   *)
(* takes the limit of a day, every watch began outside the unlock and the  *)
(* cooldown of all receipts there were when its start was evaluated, and   *)
(* within the limit of its day.                                            *)
THEOREM LimitsBindLaterWatchesHolds ==
    ASSUME ReceiptWindow > 0, DailyLimit # NoLimit => DailyLimit <= ReceiptWindow
    PROVE  Spec => []LimitsBindLaterWatches
<1>1. Init => NumberInv /\ RowInv /\ BoundInv
  BY DEF Init, NumberInv, RowInv, BoundInv, NoCall, NoRow
<1>2. TypeInv /\ (NumberInv /\ RowInv /\ BoundInv) /\ [Next]_vars
          => (NumberInv /\ RowInv /\ BoundInv)'
  BY NumberStep, RowStep, BoundStep, Steps
<1>3. BoundInv => LimitsBindLaterWatches
  BY DEF BoundInv, Bound, Before, LimitsBindLaterWatches
<1> QED
  BY <1>1, <1>2, <1>3, TypeCorrect, PTL DEF Spec

-----------------------------------------------------------------------------
(***************************************************************************)
(* A grant sent again adds no receipt.  What a grant read binds it to the  *)
(* end: a session that is started has no receipt yet, and receipts written *)
(* later have later numbers.                                               *)
(***************************************************************************)
Unpaid(w, seen) ==
    /\ seen <= Cardinality(receipts)
    /\ \A r \in receipts : r.watch = w => seen < r.n

ReadInv == \A q \in Slot : InTx(q) => Unpaid(call[q].watch, call[q].seen)

LEMMA UnpaidStays ==
    ASSUME TypeInv, AnyStep, NEW w, NEW seen \in Nat, Unpaid(w, seen)
    PROVE  Unpaid(w, seen)'
<1>1. CASE receipts' = receipts
  BY <1>1 DEF Unpaid
<1>2. ASSUME NEW v \in Watch, Commits(v) PROVE Unpaid(w, seen)'
  <2>1. PICK c : c = Cardinality(receipts) /\ c \in Nat
    BY FS_CardinalityType DEF TypeInv
  <2>2. Receipt(v).n = c + 1 /\ seen <= c
    BY <2>1 DEF Receipt, Unpaid
  <2>3. Cardinality(receipts') \in {c, c + 1}
    BY <1>2, <2>1, FS_AddElement DEF Commits, TypeInv
  <2>4. seen <= Cardinality(receipts') /\ seen < Receipt(v).n
    BY <2>1, <2>2, <2>3
  <2> QED
    BY <1>2, <2>4 DEF Commits, Unpaid
<1> QED
  BY <1>1, <1>2, ReceiptsMove

LEMMA ReadStep == TypeInv /\ ReceiptInv /\ ReadInv /\ AnyStep => ReadInv'
<1> SUFFICES ASSUME TypeInv, ReceiptInv, ReadInv, AnyStep, NEW q \in Slot,
                    call'[q].op = "grant", call'[q].stage = "write"
             PROVE  Unpaid(call[q].watch, call[q].seen)'
  BY DEF ReadInv, InTx
<1>1. PICK w, n : w = call'[q].watch /\ n = call'[q].seen
  OBVIOUS
<1>2. n \in Nat /\ Unpaid(w, n)
  <2>1. CASE call'[q] = call[q]
    BY <1>1, <2>1 DEF ReadInv, InTx, TypeInv, CallType
  <2>2. CASE call'[q] # call[q]
    <3>1. /\ w = call[q].watch /\ watch[w].status = "started" /\ n = Cardinality(receipts)
      BY <1>1, <2>2, WriteOrigin DEF StartGate, At
    <3>2. n \in Nat
      BY <3>1, FS_CardinalityType DEF TypeInv
    <3> QED
      BY <3>1, <3>2 DEF Unpaid, ReceiptInv
  <2> QED
    BY <2>1, <2>2
<1>3. Unpaid(w, n)'
  BY <1>2, UnpaidStays
<1> QED
  BY <1>1, <1>3

(* For any sessions, gates, rules and number of requests: a session gets a *)
(* second receipt only from a grant that read the session before the first *)
(* was written, so that asking again never unlocks again.                  *)
THEOREM RetryAddsNoReceiptHolds == Spec => RetryAddsNoReceipt
<1>1. Init => ReceiptInv /\ GrantedInv /\ ReadInv
  BY DEF Init, ReceiptInv, GrantedInv, ReadInv, InTx, NoCall, NoRow
<1>2. TypeInv /\ (ReceiptInv /\ GrantedInv /\ ReadInv) /\ [Next]_vars
          => (ReceiptInv /\ GrantedInv /\ ReadInv)'
  BY ReceiptStep, ReadStep, Steps
<1>3. TypeInv /\ ReadInv /\ [Next]_vars
          => [\A q \in Slot : CommitReward(q) =>
                  \A r \in receipts : r.watch = call[q].watch => call[q].seen < r.n]_vars
  BY DEF ReadInv, Unpaid, CommitReward, At, InTx
<1> QED
  BY <1>1, <1>2, <1>3, TypeCorrect, PTL DEF Spec, RetryAddsNoReceipt

-----------------------------------------------------------------------------
(***************************************************************************)
(* What a client may rely on: an answer that names a session names one     *)
(* that is there, and no other request has been answered with it.          *)
(***************************************************************************)
AnswerInv ==
    /\ \A q \in Slot : call[q].stage # "done" => call[q].answer = "none"
    /\ \A q \in Slot : call[q].answer = "session" =>
           call[q].watch \in Watch /\ watch[call[q].watch].status # "none"
    /\ \A p, q \in Slot : call[p].answer = "session" /\ call[q].answer = "session"
                              /\ call[p].watch = call[q].watch => p = q

(* How the calls move when one of them does: a new one or none any more,    *)
(* one that goes on without an answer, one that is answered.               *)
Renews(q) ==
    /\ call'[q].answer = "none" /\ call'[q].stage \in {"idle", "run"}
    /\ UNCHANGED <<config, tables>>

GoesOn(q) ==
    /\ call[q].stage = "run" /\ call'[q].stage = "write"
    /\ call'[q].op = call[q].op /\ call'[q].watch = call[q].watch
    /\ call'[q].answer = call[q].answer
    /\ UNCHANGED <<config, tables>>

Ended(q) == call'[q].stage = "done" /\ call'[q].op = "none"

Answered(q) ==
    /\ Ended(q) /\ Serve(q)
    /\ call'[q].answer \in Answers \ {"session", "none"}
    /\ \/ call[q].op \in {"current", "start"} /\ call'[q].answer \in Reasons
       \/ call[q].op \in {"grant", "close"} /\ call'[q].watch = call[q].watch

Created(q) ==
    /\ Ended(q) /\ call'[q].answer = "session"
    /\ call'[q].watch \in Watch /\ CreateWatch(q, call'[q].watch)

LEMMA CallMoves ==
    ASSUME TypeInv, AnyStep, NEW q \in Slot, call'[q] # call[q]
    PROVE  /\ \A p \in Slot : p # q => call'[p] = call[p]
           /\ Renews(q) \/ GoesOn(q) \/ Answered(q) \/ Created(q)
<1>1. ASSUME NEW p \in Slot, NEW rec, call' = [call EXCEPT ![p] = rec]
      PROVE  p = q /\ call'[q] = rec /\ \A x \in Slot : x # q => call'[x] = call[x]
  BY <1>1 DEF TypeInv
<1>2. ASSUME NEW p \in Slot, NEW w, NEW a, Answer(p, w, a)
      PROVE  /\ p = q /\ \A x \in Slot : x # q => call'[x] = call[x]
             /\ call'[q].watch = w /\ call'[q].answer = a /\ Ended(q)
  <2>1. PICK rec : rec = [NoCall EXCEPT !.stage = "done", !.watch = w, !.answer = a]
    OBVIOUS
  <2>2. rec.stage = "done" /\ rec.watch = w /\ rec.answer = a /\ rec.op = "none"
    BY <2>1 DEF NoCall
  <2> QED
    BY <1>1, <1>2, <2>1, <2>2 DEF Answer, Ended
<1>3. ASSUME NEW p \in Slot, NEW op, NEW g, NEW w, Arrive(p, op, g, w)
      PROVE  Renews(q) /\ \A x \in Slot : x # q => call'[x] = call[x]
  <2>1. PICK rec : rec = [NoCall EXCEPT !.op = op, !.stage = "run", !.gate = g, !.watch = w]
    OBVIOUS
  <2>2. rec.stage = "run" /\ rec.answer = "none"
    BY <2>1 DEF NoCall
  <2>3. call' = [call EXCEPT ![p] = rec] /\ UNCHANGED <<config, tables>>
    BY <1>3, <2>1 DEF Arrive
  <2> QED
    BY <1>1, <2>2, <2>3 DEF Renews
<1>4. ASSUME NEW p \in Slot, Ends(p)
      PROVE  Renews(q) /\ \A x \in Slot : x # q => call'[x] = call[x]
  <2>1. NoCall.stage = "idle" /\ NoCall.answer = "none"
    BY DEF NoCall
  <2> QED
    BY <1>1, <1>4, <2>1 DEF Ends, Renews
<1>5. ~(Tick \/ Configure \/ UNCHANGED vars)
  BY DEF Tick, Configure, vars
<1>6. ASSUME NEW p \in Slot, NEW w \in Watch, CreateWatch(p, w)
      PROVE  Created(q) /\ \A x \in Slot : x # q => call'[x] = call[x]
  BY <1>2, <1>6 DEF CreateWatch, Created
<1>7. ASSUME NEW p \in Slot, GetCurrentState(p) \/ StartGate(p), NEW a,
             Answer(p, NoWatch, Reason(call[p].gate))
      PROVE  Answered(q) /\ \A x \in Slot : x # q => call'[x] = call[x]
  <2>1. Reason(call[p].gate) \in Answers \ {"session", "none"}
        /\ Reason(call[p].gate) \in Reasons
    BY DEF Reason, Answers, Reasons
  <2> QED
    BY <1>2, <1>7, <2>1 DEF GetCurrentState, StartGate, At, Answered, Serve
<1>8. ASSUME NEW p \in Slot, GrantReward(p) \/ CommitReward(p) \/ CloseSession(p) \/ PatchClosed(p),
             NEW a \in {"granted", "error", "already-rewarded", "closed"},
             Answer(p, call[p].watch, a)
      PROVE  Answered(q) /\ \A x \in Slot : x # q => call'[x] = call[x]
  BY <1>2, <1>8 DEF GrantReward, CommitReward, CloseSession, PatchClosed, At, Answered, Serve,
     Answers
<1>9. ASSUME NEW p \in Slot, StartGate(p),
             call' = [call EXCEPT ![p].stage = "write", ![p].at = now,
                                  ![p].seen = Cardinality(receipts)]
      PROVE  GoesOn(q) /\ \A x \in Slot : x # q => call'[x] = call[x]
  <2>1. p = q
    BY <1>9 DEF TypeInv
  <2> QED
    BY <1>9, <2>1 DEF StartGate, At, GoesOn, TypeInv, CallType
<1>10. ASSUME NEW p \in Slot, GrantReward(p) \/ CloseSession(p), UNCHANGED <<config, tables>>,
              \/ call' = [call EXCEPT ![p].stage = "write"]
              \/ call' = [call EXCEPT ![p].stage = "write", ![p].seen = Cardinality(receipts)]
      PROVE  GoesOn(q) /\ \A x \in Slot : x # q => call'[x] = call[x]
  <2>1. p = q
    BY <1>10 DEF TypeInv
  <2> QED
    BY <1>10, <2>1 DEF GrantReward, CloseSession, At, GoesOn, TypeInv, CallType
<1>11. PICK p \in Slot : \/ Serve(p) \/ Ends(p)
                         \/ \E op, g, w : Arrive(p, op, g, w)
  BY <1>5 DEF AnyStep
<1>12. CASE Ends(p) \/ \E op, g, w : Arrive(p, op, g, w)
  BY <1>3, <1>4, <1>12
<1>13. CASE GetCurrentState(p) \/ StartGate(p)
  BY <1>7, <1>9, <1>13 DEF GetCurrentState, StartGate
<1>14. CASE GrantReward(p) \/ CommitReward(p)
  BY <1>8, <1>10, <1>14 DEF GrantReward, CommitReward
<1>15. CASE CloseSession(p) \/ PatchClosed(p)
  BY <1>8, <1>10, <1>15 DEF CloseSession, PatchClosed
<1> QED
  BY <1>6, <1>11, <1>12, <1>13, <1>14, <1>15 DEF Serve

LEMMA ServeMoves ==
    ASSUME TypeInv, NEW q \in Slot, Serve(q)
    PROVE  /\ call[q].stage \in {"run", "write"} /\ \A p \in Slot : p # q => call'[p] = call[p]
           /\ GoesOn(q) \/ Answered(q) \/ Created(q)
<1>1. ASSUME NEW w, NEW a, Answer(q, w, a) PROVE call'[q].stage = "done"
  <2>1. PICK rec : rec = [NoCall EXCEPT !.stage = "done", !.watch = w, !.answer = a]
    OBVIOUS
  <2>2. rec.stage = "done" /\ call' = [call EXCEPT ![q] = rec]
    BY <1>1, <2>1 DEF NoCall, Answer
  <2> QED
    BY <2>2 DEF TypeInv
<1>2. CASE GetCurrentState(q) \/ CommitReward(q) \/ PatchClosed(q)
           \/ \E w \in Watch : CreateWatch(q, w)
  <2>1. call[q].stage \in {"run", "write"} /\ call'[q].stage = "done"
    BY <1>1, <1>2 DEF GetCurrentState, CommitReward, PatchClosed, CreateWatch, At
  <2> QED
    BY <2>1, CallMoves DEF AnyStep, Renews
<1>3. CASE StartGate(q) \/ GrantReward(q) \/ CloseSession(q)
  <2>1. call[q].stage = "run"
    BY <1>3 DEF StartGate, GrantReward, CloseSession, At
  <2>2. call'[q].stage \in {"write", "done"}
    <3>1. CASE call' = [call EXCEPT ![q].stage = "write", ![q].at = now,
                                    ![q].seen = Cardinality(receipts)]
      BY <3>1 DEF TypeInv, CallType
    <3>2. CASE \/ call' = [call EXCEPT ![q].stage = "write"]
               \/ call' = [call EXCEPT ![q].stage = "write", ![q].seen = Cardinality(receipts)]
      BY <3>2 DEF TypeInv, CallType
    <3> QED
      BY <1>1, <1>3, <3>1, <3>2 DEF StartGate, GrantReward, CloseSession
  <2> QED
    BY <2>1, <2>2, CallMoves DEF AnyStep, Renews
<1> QED
  BY <1>2, <1>3 DEF Serve

LEMMA AnswerStep == TypeInv /\ RowInv /\ AnswerInv /\ AnyStep => AnswerInv'
<1> SUFFICES ASSUME TypeInv, RowInv, AnswerInv, AnyStep PROVE AnswerInv'
  OBVIOUS
<1>1. \A w \in Watch : watch[w].status # "none" => watch'[w].status # "none"
  BY WatchOrigin
<1>2. CASE UNCHANGED call
  BY <1>1, <1>2 DEF AnswerInv
<1>3. CASE ~UNCHANGED call
  <2>1. PICK q \in Slot : call'[q] # call[q]
    <3>1. call \in [Slot -> CallType] /\ call' \in [Slot -> CallType]
      BY TypeStep DEF TypeInv
    <3> QED
      BY <1>3, <3>1
  <2>2. \A p \in Slot : p # q => call'[p] = call[p]
    BY <2>1, CallMoves
  <2>3. CASE Renews(q)
    BY <1>1, <2>2, <2>3 DEF Renews, AnswerInv
  <2>4. CASE GoesOn(q)
    BY <1>1, <2>2, <2>4 DEF GoesOn, AnswerInv
  <2>5. CASE Answered(q)
    BY <1>1, <2>2, <2>5 DEF Answered, Ended, AnswerInv
  <2>6. CASE Created(q)
    <3>1. PICK w \in Watch : w = call'[q].watch /\ watch[w].status = "none"
                             /\ watch'[w].status # "none"
      BY <2>6 DEF Created, CreateWatch, TypeInv
    <3> QED
      BY <1>1, <2>2, <2>6, <3>1 DEF Created, Ended, AnswerInv
  <2> QED
    BY <2>1, <2>3, <2>4, <2>5, <2>6, CallMoves
<1> QED
  BY <1>2, <1>3

(* A session is started by the request that creates it only, and one that   *)
(* was rewarded or closed is never started again.                          *)
LEMMA StatusMoves ==
    ASSUME TypeInv, AnyStep, NEW w \in Watch
    PROVE  /\ watch[w].status \in {"rewarded", "closed"} => watch'[w].status \in {"rewarded", "closed"}
           /\ \/ watch'[w].status = "started" => watch[w].status = "started"
              \/ \E q \in Slot : CreateWatch(q, w)
<1>1. ASSUME NEW q \in Slot, NEW v \in Watch, CreateWatch(q, v)
      PROVE  w = v \/ watch'[w] = watch[w]
  BY <1>1 DEF CreateWatch, TypeInv
<1>2. CASE \E q \in Slot, v \in Watch : CreateWatch(q, v)
  BY <1>1, <1>2 DEF CreateWatch
<1>3. CASE \E q \in Slot : CommitReward(q) \/ PatchClosed(q)
  <2>1. PICK q \in Slot : CommitReward(q) \/ PatchClosed(q)
    BY <1>3
  <2>2. PICK st \in {"rewarded", "closed"} : watch' = [watch EXCEPT ![call[q].watch].status = st]
    BY <2>1 DEF CommitReward, PatchClosed
  <2> QED
    BY <2>2 DEF TypeInv, RowType
<1>4. CASE UNCHANGED watch
  BY <1>4
<1> QED
  BY <1>2, <1>3, <1>4 DEF AnyStep, Serve, Arrive, GetCurrentState, StartGate, GrantReward,
     CloseSession, Ends, Tick, Configure, vars, config, tables

(* Whoever closes a session that is there finds it over by the answer. *)
LEMMA CloseAnswered ==
    ASSUME TypeInv, ReceiptInv, NEW q \in Slot, NEW w \in Watch, w = call[q].watch,
           watch[w].status # "none", call[q].op = "close", Answered(q)
    PROVE  watch'[w].status \in {"rewarded", "closed"}
<1>1. CloseSession(q) \/ PatchClosed(q)
  BY DEF Answered, Serve, At, GetCurrentState, StartGate, GrantReward, CommitReward, CreateWatch
<1>2. CASE PatchClosed(q)
  BY <1>2 DEF PatchClosed, TypeInv, RowType
<1>3. CASE CloseSession(q)
  <2>1. call' # [call EXCEPT ![q].stage = "write"]
    BY DEF Answered, Ended, TypeInv, CallType
  <2>2. UNCHANGED watch /\ Rewarded(w)
    BY <1>3, <2>1 DEF CloseSession, tables
  <2> QED
    BY <2>2 DEF Rewarded, ReceiptInv
<1> QED
  BY <1>1, <1>2, <1>3

=============================================================================
