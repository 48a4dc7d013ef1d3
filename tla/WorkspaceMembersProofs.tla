------------------------ MODULE WorkspaceMembersProofs ------------------------
(***************************************************************************)
(* What WorkspaceMembers does for any users, roles, requests in flight,    *)
(* invitations and failures, alone and with the rooms and tabs of          *)
(* WorkspaceRealtime around it.                                            *)
(*                                                                         *)
(* A request knows a few facts about the tables (CallInv).  Those that its *)
(* own steps establish survive the steps of all the others because these   *)
(* only move the tables on (Grows): no invitation becomes pending again,   *)
(* no membership's row disappears, and none is deactivated uncounted.      *)
(***************************************************************************)
EXTENDS WorkspaceRealtime, SequenceTheorems, TLAPS

Stages == {"idle", "insert", "own", "authorize", "read", "write", "expire",
           "late", "find", "grant", "mark", "publish", "done"}
Answers == {"none", "created", "ok", "error", "not-found", "no-access",
            "not-permitted", "conflict", "wrong-email", "expired"}
InviteStatus == {"pending", "accepted", "revoked", "expired"}
MemberStatus == {"none", "active", "revoked"}

RowType == [role : Role \union {NoRole}, status : MemberStatus]
InviteType == [email : User, role : Assignable, late : BOOLEAN, status : InviteStatus]
CallType == [op : Ops \union {"none"}, stage : Stages,
             actor : User, user : User, id : Nat, role : Role \union {NoRole},
             found : BOOLEAN, todo : SUBSET Nat, seen : Nat, older : SUBSET Nat,
             answer : Answers]

TypeInv ==
    /\ workspace \in BOOLEAN
    /\ member \in [User -> RowType]
    /\ invite \in Seq(InviteType)
    /\ call \in [Slot -> CallType]
    /\ calls \in Nat /\ faults \in Nat
    /\ gone \in [User -> Nat] /\ granted \subseteq Nat

-----------------------------------------------------------------------------
(* What a request knows.  Excused: u is a member, or has been removed since *)
(* the request was made.                                                   *)
Excused(q, u) == Active(u) \/ call[q].seen < gone[u]

(* updateMemberRole and removeMember: the row they are to write is there,  *)
(* and if it is no longer active the removal was counted.                  *)
MemberCallInv(q) ==
    /\ call[q].op = "setRole" /\ call[q].stage # "done" => call[q].seen <= gone[call[q].user]
    /\ call[q].op \in {"setRole", "remove"} /\ call[q].stage = "write" =>
           call[q].user # Owner /\ member[call[q].user].status # "none"
    /\ call[q].op = "setRole" /\ call[q].stage = "write" => Excused(q, call[q].user)

(* createInvite: the invitations it found when it was asked for are those  *)
(* of its address, and those still pending are still to be expired.        *)
NewInviteInv(q) ==
    call[q].op = "invite" =>
        /\ call[q].older \subseteq DOMAIN invite
        /\ call[q].stage # "done" => /\ call[q].role \in Assignable
                                     /\ \A i \in call[q].older : invite[i].email = call[q].user
        /\ call[q].stage = "expire" =>
               call[q].older \intersect Pending \subseteq call[q].todo /\ call[q].todo \subseteq DOMAIN invite
        /\ call[q].stage = "publish" \/ call[q].answer = "ok" => call[q].older \intersect Pending = {}

(* acceptInviteByToken: its invitation was pending when it was asked for,  *)
(* and its addressee is let in before it is marked.                        *)
AcceptInv(q) ==
    call[q].op = "accept" =>
        LET u == call[q].actor IN
        /\ call[q].seen <= gone[u]
        /\ call[q].stage = "read" => (call[q].id \in Pending => call[q].id \in call[q].older)
        /\ call[q].stage \in {"late", "find", "grant", "mark", "publish"} => call[q].id \in call[q].older
        /\ call[q].stage \in {"find", "grant", "mark"} => invite[call[q].id].email = u
        /\ call[q].stage = "grant" /\ ~call[q].found => member[u].status = "none" \/ Excused(q, u)
        /\ call[q].stage = "mark" => call[q].id \in granted /\ member[u].status # "none"
        /\ call[q].stage \in {"mark", "publish"} \/ call[q].answer = "ok" => Excused(q, u)

CallInv(q) ==
    /\ call[q].op \in {"revoke", "accept", "refuse"} /\ call[q].stage # "done" => call[q].id \in DOMAIN invite
    /\ call[q].answer # "none" => call[q].stage = "done"
    /\ call[q].actor = Owner => call[q].answer # "no-access"
    /\ MemberCallInv(q) /\ NewInviteInv(q) /\ AcceptInv(q)

IInv == TypeInv /\ AcceptedIsMember /\ \A q \in Slot : CallInv(q)

-----------------------------------------------------------------------------
(* How the tables may change under a request.                              *)
InviteGrows ==
    /\ DOMAIN invite \subseteq DOMAIN invite'
    /\ \A i \in DOMAIN invite : /\ invite'[i].email = invite[i].email
                                /\ i \in Pending' => i \in Pending

MemberGrows ==
    /\ gone' \in [User -> Nat] /\ \A u \in User : gone[u] <= gone'[u]
    /\ \A u \in User : member[u].status # "none" => member'[u].status # "none"
    /\ \A u \in User : Active(u)' \/ member'[u].status = member[u].status \/ gone[u] < gone'[u]

Grows == InviteGrows /\ MemberGrows /\ granted \subseteq granted'

LEMMA Still == TypeInv /\ UNCHANGED <<invite, member, gone, granted>> => Grows
BY DEF TypeInv, Grows, InviteGrows, MemberGrows, Pending

LEMMA ExcusedStays ==
    ASSUME TypeInv, MemberGrows, NEW p \in Slot, call'[p] = call[p], NEW u \in User,
           call[p].seen <= gone[u], Excused(p, u)
    PROVE  Excused(p, u)'
<1>1. gone[u] \in Nat /\ gone'[u] \in Nat /\ call[p].seen \in Nat
  BY DEF TypeInv, MemberGrows, CallType
<1> QED
  BY <1>1 DEF Excused, Active, MemberGrows

(* What a request knows is still so after a step of another one.           *)
LEMMA KnowledgeStays ==
    ASSUME TypeInv, Grows, NEW p \in Slot, call'[p] = call[p], CallInv(p)
    PROVE  CallInv(p)'
<1> DEFINE c == call[p]
<1>0. c \in CallType /\ c.actor \in User /\ c.user \in User /\ c.seen \in Nat
  BY DEF TypeInv, CallType
<1>1. DOMAIN invite \subseteq DOMAIN invite' /\ Pending' \intersect DOMAIN invite \subseteq Pending
  BY DEF Grows, InviteGrows
<1>2. \A u \in User : /\ gone[u] \in Nat /\ gone'[u] \in Nat /\ gone[u] <= gone'[u]
                      /\ c.seen <= gone[u] => c.seen <= gone'[u]
  BY <1>0 DEF Grows, MemberGrows, TypeInv
<1>3. MemberCallInv(p)'
  <2>1. c.op = "setRole" /\ c.stage # "done" => c.seen <= gone'[c.user]
    BY <1>0, <1>2 DEF CallInv, MemberCallInv
  <2>2. c.op \in {"setRole", "remove"} /\ c.stage = "write" =>
            c.user # Owner /\ member'[c.user].status # "none"
    BY <1>0 DEF CallInv, MemberCallInv, Grows, MemberGrows
  <2>3. c.op = "setRole" /\ c.stage = "write" => Excused(p, c.user)'
    BY <1>0, ExcusedStays DEF CallInv, MemberCallInv, Grows
  <2> QED
    BY <2>1, <2>2, <2>3 DEF MemberCallInv, Excused, Active
<1>4. NewInviteInv(p)'
  <2> SUFFICES ASSUME c.op = "invite" PROVE NewInviteInv(p)'
    BY DEF NewInviteInv
  <2>1. c.older \subseteq DOMAIN invite
    BY DEF CallInv, NewInviteInv
  <2>2. c.stage # "done" => c.role \in Assignable /\ \A i \in c.older : invite'[i].email = c.user
    BY <2>1 DEF CallInv, NewInviteInv, Grows, InviteGrows
  <2>3. c.older \intersect Pending' \subseteq c.older \intersect Pending
    BY <1>1, <2>1
  <2> QED
    BY <1>1, <2>1, <2>2, <2>3 DEF CallInv, NewInviteInv
<1>5. AcceptInv(p)'
  <2> SUFFICES ASSUME c.op = "accept" PROVE AcceptInv(p)'
    BY DEF AcceptInv
  <2> DEFINE u == c.actor
  <2>1. c.seen <= gone[u] /\ c.seen <= gone'[u] /\ u \in User
    BY <1>0, <1>2 DEF CallInv, AcceptInv
  <2>2. c.stage # "done" => c.id \in DOMAIN invite
    BY DEF CallInv
  <2>3. c.stage = "read" => (c.id \in Pending' => c.id \in c.older)
    BY <1>1, <2>2 DEF CallInv, AcceptInv
  <2>4. c.stage \in {"late", "find", "grant", "mark", "publish"} => c.id \in c.older
    BY DEF CallInv, AcceptInv
  <2>5. c.stage \in {"find", "grant", "mark"} => invite'[c.id].email = u
    BY <2>2 DEF CallInv, AcceptInv, Grows, InviteGrows
  <2>6. Excused(p, u) => Excused(p, u)'
    BY <2>1, ExcusedStays DEF Grows
  <2>7. member[u].status = "none" => member'[u].status = "none" \/ Excused(p, u)'
    BY <1>0, <1>2, <2>1 DEF Excused, Active, Grows, MemberGrows
  <2>8. member[u].status # "none" => member'[u].status # "none"
    BY <2>1 DEF Grows, MemberGrows
  <2>9. granted \subseteq granted'
    BY DEF Grows
  <2>10. c.stage = "grant" /\ ~c.found => member'[u].status = "none" \/ Excused(p, u)'
    BY <2>6, <2>7 DEF CallInv, AcceptInv
  <2>11. c.stage = "mark" => c.id \in granted' /\ member'[u].status # "none"
    BY <2>8, <2>9 DEF CallInv, AcceptInv
  <2>12. c.stage \in {"mark", "publish"} \/ c.answer = "ok" => Excused(p, u)'
    BY <2>6 DEF CallInv, AcceptInv
  <2> QED
    BY <2>1, <2>3, <2>4, <2>5, <2>10, <2>11, <2>12 DEF AcceptInv
<1>6. /\ c.op \in {"revoke", "accept", "refuse"} /\ c.stage # "done" => c.id \in DOMAIN invite'
      /\ c.answer # "none" => c.stage = "done"
      /\ c.actor = Owner => c.answer # "no-access"
  BY <1>1 DEF CallInv
<1> QED
  BY <1>3, <1>4, <1>5, <1>6 DEF CallInv

-----------------------------------------------------------------------------
(* How a request moves.                                                    *)
Others(q) == \A p \in Slot : p # q => call'[p] = call[p]

LEMMA CallMoves ==
    ASSUME TypeInv, NEW q \in Slot, NEW rec \in CallType, call' = [call EXCEPT ![q] = rec]
    PROVE  call' \in [Slot -> CallType] /\ call'[q] = rec /\ Others(q)
BY DEF TypeInv, Others

LEMMA GotoMoves ==
    ASSUME TypeInv, NEW q \in Slot, NEW stage \in Stages, Goto(q, stage)
    PROVE  /\ call' \in [Slot -> CallType] /\ Others(q)
           /\ call'[q] = [call[q] EXCEPT !.stage = stage]
<1>1. call' = [call EXCEPT ![q] = [call[q] EXCEPT !.stage = stage]]
  BY DEF Goto, TypeInv
<1>2. [call[q] EXCEPT !.stage = stage] \in CallType
  BY DEF TypeInv, CallType
<1> QED
  BY <1>1, <1>2, CallMoves

LEMMA IdleType == Idle \in CallType
BY WorkspaceAssumption DEF Idle, CallType, Stages, Answers, Ops

LEMMA FinishMoves ==
    ASSUME TypeInv, NEW q \in Slot, NEW a \in Answers, Finish(q, a)
    PROVE  /\ call' \in [Slot -> CallType] /\ Others(q)
           /\ call'[q].op = call[q].op /\ call'[q].actor = call[q].actor
           /\ call'[q].stage = "done" /\ call'[q].answer = a
           /\ call'[q].seen = IF a = "ok" THEN call[q].seen ELSE 0
           /\ call'[q].older = IF a = "ok" THEN call[q].older ELSE {}
<1> DEFINE seen == IF a = "ok" THEN call[q].seen ELSE 0
           older == IF a = "ok" THEN call[q].older ELSE {}
           rec == [Idle EXCEPT !.op = call[q].op, !.stage = "done", !.answer = a,
                               !.actor = call[q].actor, !.seen = seen, !.older = older]
<1>1. call[q] \in CallType
  BY DEF TypeInv
<1>2. seen \in Nat /\ older \in SUBSET Nat
  BY <1>1 DEF CallType
<1>3. call' = [call EXCEPT ![q] = rec]
  BY DEF Finish
<1> HIDE DEF seen, older
<1>4. rec \in CallType
  BY <1>1, <1>2, IdleType DEF CallType, Stages
<1>5. /\ rec.op = call[q].op /\ rec.actor = call[q].actor /\ rec.stage = "done"
      /\ rec.answer = a /\ rec.seen = seen /\ rec.older = older
  BY DEF Idle
<1> HIDE DEF rec
<1> QED
  BY <1>3, <1>4, <1>5, CallMoves DEF seen, older

-----------------------------------------------------------------------------
(* How the tables move.                                                    *)
LEMMA InviteTyped ==
    ASSUME TypeInv
    PROVE  /\ DOMAIN invite = 1..Len(invite) /\ Len(invite) \in Nat
           /\ \A i \in DOMAIN invite : invite[i] \in InviteType
<1>1. invite \in Seq(InviteType)
  BY DEF TypeInv
<1> QED
  BY <1>1, LenProperties

LEMMA InviteMoves ==
    ASSUME TypeInv, NEW i \in DOMAIN invite, NEW status \in InviteStatus \ {"pending"},
           SetInvite(i, status)
    PROVE  /\ invite' \in Seq(InviteType) /\ DOMAIN invite' = DOMAIN invite
           /\ InviteGrows /\ i \notin Pending'
           /\ \A j \in DOMAIN invite : /\ invite'[j].email = invite[j].email
                                       /\ j # i => invite'[j] = invite[j]
                                       /\ j = i => invite'[j].status = status
<1>1. invite[i] \in InviteType /\ i \in 1..Len(invite)
  BY InviteTyped
<1>2. [invite[i] EXCEPT !.status = status] \in InviteType
  BY <1>1 DEF InviteType
<1>3. invite' = [invite EXCEPT ![i] = [invite[i] EXCEPT !.status = status]]
  BY <1>1 DEF SetInvite
<1>4. invite' \in Seq(InviteType) /\ DOMAIN invite' = DOMAIN invite
  BY <1>1, <1>2, <1>3, ExceptSeq DEF TypeInv
<1>5. invite'[i] = [invite[i] EXCEPT !.status = status] /\ \A j \in DOMAIN invite : j # i => invite'[j] = invite[j]
  BY <1>3
<1>6. invite'[i].status = status /\ invite'[i].email = invite[i].email
  BY <1>1, <1>5 DEF InviteType
<1>7. InviteGrows /\ i \notin Pending'
  BY <1>4, <1>5, <1>6 DEF InviteGrows, Pending
<1> QED
  BY <1>4, <1>5, <1>6, <1>7

(* A membership is written: as an active one, or the removal is counted.   *)
LEMMA MemberMoves ==
    ASSUME TypeInv, NEW u \in User, NEW row \in RowType, row.status # "none",
           member' = [member EXCEPT ![u] = row], gone' \in [User -> Nat],
           \A v \in User : gone[v] <= gone'[v],
           row.status = "active" \/ gone[u] < gone'[u]
    PROVE  MemberGrows /\ member' \in [User -> RowType] /\ member'[u] = row
BY DEF TypeInv, MemberGrows, Active

(* An invitation that was accepted stays that of someone let in.           *)
LEMMA AcceptedStays ==
    ASSUME TypeInv, AcceptedIsMember, Grows,
           \A i \in DOMAIN invite' :
               invite'[i].status = "accepted" => i \in DOMAIN invite /\ invite[i].status = "accepted"
    PROVE  AcceptedIsMember'
<1> SUFFICES ASSUME NEW i \in DOMAIN invite', invite'[i].status = "accepted"
             PROVE  i \in granted' /\ member'[invite'[i].email].status # "none"
  BY DEF AcceptedIsMember
<1>1. i \in DOMAIN invite /\ i \in granted /\ member[invite[i].email].status # "none"
  BY DEF AcceptedIsMember
<1>2. invite[i].email \in User /\ invite'[i].email = invite[i].email
  BY <1>1, InviteTyped DEF InviteType, Grows, InviteGrows
<1> QED
  BY <1>1, <1>2 DEF Grows, MemberGrows

-----------------------------------------------------------------------------
(* A step of one request: what the others know is still so.                *)
LEMMA StepOfOne ==
    ASSUME IInv, NEW q \in Slot, TypeInv', Grows, AcceptedIsMember', CallInv(q)', Others(q)
    PROVE  IInv'
<1>1. \A p \in Slot : p # q => CallInv(p)'
  BY KnowledgeStays DEF IInv, Others
<1> QED
  BY <1>1 DEF IInv

(* A step that only reads.                                                 *)
LEMMA Reads ==
    ASSUME IInv, NEW q \in Slot, UNCHANGED <<tables, history>>, calls' \in Nat, faults' \in Nat,
           call' \in [Slot -> CallType], Others(q), CallInv(q)'
    PROVE  IInv'
<1>1. TypeInv'
  BY DEF IInv, TypeInv, tables, history
<1>2. Grows
  BY Still DEF IInv, tables, history
<1>3. AcceptedIsMember'
  BY <1>2, AcceptedStays DEF IInv, tables
<1> QED
  BY <1>1, <1>2, <1>3, StepOfOne

(* A request that ends without success knows nothing any more.             *)
LEMMA EndKnows ==
    ASSUME TypeInv, NEW q \in Slot, NEW a \in Answers \ {"none", "ok"}, Finish(q, a),
           a = "no-access" => call[q].actor # Owner, gone' \in [User -> Nat]
    PROVE  CallInv(q)'
<1>1. /\ call'[q].op = call[q].op /\ call'[q].actor = call[q].actor
      /\ call'[q].stage = "done" /\ call'[q].answer = a /\ call'[q].seen = 0
      /\ call'[q].older = {} /\ call'[q].actor \in User
  BY FinishMoves DEF TypeInv, CallType
<1>2. MemberCallInv(q)' /\ NewInviteInv(q)'
  BY <1>1 DEF MemberCallInv, NewInviteInv
<1>3. AcceptInv(q)'
  BY <1>1 DEF AcceptInv
<1> QED
  BY <1>1, <1>2, <1>3 DEF CallInv

LEMMA Ends ==
    ASSUME IInv, NEW q \in Slot, NEW a \in Answers \ {"none", "ok"}, Finish(q, a),
           a = "no-access" => call[q].actor # Owner,
           UNCHANGED <<tables, history>>, calls' \in Nat, faults' \in Nat
    PROVE  IInv'
<1>1. call' \in [Slot -> CallType] /\ Others(q)
  BY FinishMoves DEF IInv
<1>2. CallInv(q)'
  BY EndKnows DEF IInv, TypeInv, history
<1> QED
  BY <1>1, <1>2, Reads

-----------------------------------------------------------------------------
(* The actions, one after another.                                         *)
LEMMA InitInv == Init => IInv
<1> SUFFICES ASSUME Init PROVE IInv
  OBVIOUS
<1>1. call \in [Slot -> CallType] /\ \A q \in Slot : call[q] = Idle
  BY IdleType DEF Init
<1>2. NoMember \in RowType
  BY DEF NoMember, RowType, MemberStatus
<1>3. member \in [User -> RowType]
  BY <1>2 DEF Init, RowType, MemberStatus
<1>4. invite \in Seq(InviteType) /\ \A i \in DOMAIN invite : invite[i].status = "pending"
  <2> PICK n \in 0..MaxInvites :
          invite \in [1..n -> [email : User, role : Assignable, status : {"pending"}, late : {FALSE}]]
    BY DEF Init
  <2>1. n \in Nat
    BY WorkspaceAssumption
  <2>2. \A i \in 1..n : invite[i] \in InviteType /\ invite[i].status = "pending"
    BY DEF InviteType, InviteStatus
  <2> QED
    BY <2>1, <2>2
<1>5. TypeInv
  BY <1>1, <1>3, <1>4 DEF Init, TypeInv
<1>6. AcceptedIsMember
  BY <1>4 DEF AcceptedIsMember
<1>7. ASSUME NEW q \in Slot PROVE CallInv(q)
  BY <1>1 DEF CallInv, MemberCallInv, NewInviteInv, AcceptInv, Idle
<1> QED
  BY <1>5, <1>6, <1>7 DEF IInv

LEMMA ArriveStep ==
    ASSUME IInv, NEW q \in Slot, NEW op \in Ops, NEW actor \in User, NEW u \in User, NEW i \in Nat,
           NEW role \in Role \union {NoRole},
           op \in {"revoke", "accept", "refuse"} => i \in DOMAIN invite,
           op = "accept" => u = actor, op = "invite" => role \in Assignable,
           Arrive(q, op, actor, u, i, role)
    PROVE  IInv'
<1> DEFINE stage == IF op = "create" THEN "insert"
                    ELSE IF op \in Managing THEN "authorize" ELSE "read"
           seen == IF op \in {"setRole", "accept"} THEN gone[u] ELSE 0
           older == IF op = "invite" THEN PendingOf(u) ELSE IF op = "accept" THEN Pending ELSE {}
           rec == [Idle EXCEPT !.op = op, !.actor = actor, !.user = u, !.id = i, !.role = role,
                               !.stage = stage, !.seen = seen, !.older = older]
<1>0. TypeInv /\ gone \in [User -> Nat]
  BY DEF IInv, TypeInv
<1>1. /\ stage \in {"insert", "authorize", "read"} /\ seen \in Nat /\ older \in SUBSET Nat
      /\ op \in {"setRole", "accept"} => seen = gone[u]
      /\ op = "invite" => older = PendingOf(u) /\ stage = "authorize"
      /\ op = "accept" => older = Pending /\ stage = "read"
  BY <1>0, InviteTyped DEF Pending, PendingOf, Managing
<1>2. call' = [call EXCEPT ![q] = rec]
  BY DEF Arrive
<1> HIDE DEF stage, seen, older
<1>3. rec \in CallType
  BY <1>1, IdleType DEF CallType, Stages
<1>4. /\ rec.op = op /\ rec.actor = actor /\ rec.user = u /\ rec.id = i /\ rec.stage = stage /\ rec.role = role
      /\ rec.seen = seen /\ rec.older = older /\ rec.answer = "none" /\ rec.found = FALSE
  BY DEF Idle
<1> HIDE DEF rec
<1>5. call' \in [Slot -> CallType] /\ call'[q] = rec /\ Others(q)
  BY <1>0, <1>2, <1>3, CallMoves
<1>6. UNCHANGED <<tables, history, faults>> /\ calls' \in Nat
  BY <1>0 DEF Arrive, TypeInv
<1>7. UNCHANGED <<invite, gone>>
  BY <1>6 DEF tables, history
<1>8. MemberCallInv(q)'
  BY <1>0, <1>1, <1>4, <1>5, <1>7 DEF MemberCallInv
<1>9. NewInviteInv(q)'
  BY <1>1, <1>4, <1>5, <1>7 DEF NewInviteInv, Pending, PendingOf
<1>10. AcceptInv(q)'
  BY <1>0, <1>1, <1>4, <1>5, <1>7 DEF AcceptInv, Pending
<1>11. CallInv(q)'
  BY <1>4, <1>5, <1>7, <1>8, <1>9, <1>10 DEF CallInv
<1> QED
  BY <1>5, <1>6, <1>11, Reads DEF IInv, TypeInv

(* A request goes on without having learned anything.                      *)
LEMMA GoesOn ==
    ASSUME IInv, NEW q \in Slot, NEW stage \in {"own", "read", "publish"}, Goto(q, stage),
           stage = "read" => call[q].op \in Managing,
           call[q].op # "accept",
           stage = "publish" => call[q].op # "invite",
           Grows, call[q].stage # "done", call[q].answer = "none"
    PROVE  CallInv(q)'
<1>1. /\ call' \in [Slot -> CallType] /\ call[q] \in CallType
      /\ call'[q] = [call[q] EXCEPT !.stage = stage]
  BY GotoMoves DEF IInv, TypeInv, Stages
<1>2. /\ call'[q].op = call[q].op /\ call'[q].actor = call[q].actor /\ call'[q].user = call[q].user
      /\ call'[q].id = call[q].id /\ call'[q].seen = call[q].seen /\ call'[q].older = call[q].older
      /\ call'[q].answer = "none" /\ call'[q].stage = stage /\ call'[q].role = call[q].role
  BY <1>1 DEF CallType
<1>3. call[q].seen \in Nat /\ call[q].user \in User
  BY <1>1 DEF CallType
<1>4. DOMAIN invite \subseteq DOMAIN invite' /\ \A j \in DOMAIN invite : invite'[j].email = invite[j].email
  BY DEF Grows, InviteGrows
<1>5. CallInv(q)
  BY DEF IInv
<1>6. MemberCallInv(q)'
  <2>1. \A u \in User : gone[u] \in Nat /\ gone'[u] \in Nat /\ gone[u] <= gone'[u]
    BY DEF Grows, MemberGrows, IInv, TypeInv
  <2> QED
    BY <1>2, <1>3, <1>5, <2>1 DEF CallInv, MemberCallInv
<1>7. NewInviteInv(q)'
  BY <1>2, <1>4, <1>5 DEF CallInv, NewInviteInv
<1>8. AcceptInv(q)'
  BY <1>2 DEF AcceptInv
<1> QED
  BY <1>2, <1>4, <1>5, <1>6, <1>7, <1>8 DEF CallInv

(* A request that is being served has not been answered.                   *)
LEMMA NoAnswerYet == \A q \in Slot : IInv /\ call[q].stage # "done" => call[q].answer = "none"
BY DEF IInv, CallInv

LEMMA InsertWorkspaceStep == ASSUME IInv, NEW q \in Slot, InsertWorkspace(q) PROVE IInv'
<1>1. UNCHANGED <<member, invite, calls, faults, gone, granted>> /\ workspace' \in BOOLEAN
  BY DEF InsertWorkspace, history
<1>2. Goto(q, "own") /\ call[q].stage = "insert" /\ call[q].op = "create"
  BY DEF InsertWorkspace, At
<1>3. call' \in [Slot -> CallType] /\ Others(q)
  BY <1>2, GotoMoves DEF IInv, Stages
<1>4. TypeInv' /\ Grows
  BY <1>1, <1>3, Still DEF IInv, TypeInv
<1>5. AcceptedIsMember'
  BY <1>1, <1>4, AcceptedStays DEF IInv
<1>6. CallInv(q)'
  BY <1>2, <1>4, GoesOn, NoAnswerYet
<1> QED
  BY <1>3, <1>4, <1>5, <1>6, StepOfOne

LEMMA OwnerRowType == [role |-> OwnerRole, status |-> "active"] \in RowType
BY WorkspaceAssumption DEF RowType, Role, MemberStatus

LEMMA EnsureOwnerMembershipStep == ASSUME IInv, NEW q \in Slot, EnsureOwnerMembership(q) PROVE IInv'
<1> DEFINE row == [role |-> OwnerRole, status |-> "active"]
<1>0. TypeInv /\ gone \in [User -> Nat] /\ row \in RowType /\ Owner \in User
  BY OwnerRowType, WorkspaceAssumption DEF IInv, TypeInv
<1>1. UNCHANGED <<workspace, invite, calls, faults, gone, granted>> /\ member' = [member EXCEPT ![Owner] = row]
  BY DEF EnsureOwnerMembership, history
<1>2. Finish(q, "created") /\ "created" \in Answers \ {"none", "ok"}
  BY DEF EnsureOwnerMembership, Answers
<1>3. call' \in [Slot -> CallType] /\ Others(q)
  BY <1>0, <1>2, FinishMoves
<1>4. MemberGrows /\ member' \in [User -> RowType]
  <2>1. row.status = "active" /\ \A v \in User : gone[v] <= gone'[v]
    BY <1>0, <1>1
  <2> HIDE DEF row
  <2> QED
    BY <1>0, <1>1, <2>1, MemberMoves
<1>5. TypeInv' /\ Grows
  BY <1>0, <1>1, <1>3, <1>4 DEF TypeInv, Grows, InviteGrows, Pending
<1>6. AcceptedIsMember'
  BY <1>1, <1>5, AcceptedStays DEF IInv
<1>7. CallInv(q)'
  BY <1>0, <1>1, <1>2, EndKnows
<1> QED
  BY <1>3, <1>5, <1>6, <1>7, StepOfOne

LEMMA AuthorizeStep == ASSUME IInv, NEW q \in Slot, Authorize(q) PROVE IInv'
<1> DEFINE actor == call[q].actor
           heals == actor = Owner /\ ~Active(Owner)
           row == IF heals THEN [role |-> OwnerRole, status |-> "active"] ELSE member[actor]
<1>0. TypeInv /\ gone \in [User -> Nat] /\ actor \in User /\ call[q].op \in Managing
      /\ call[q].stage = "authorize" /\ member \in [User -> RowType]
  BY DEF IInv, TypeInv, CallType, Authorize, At
<1>1. /\ UNCHANGED <<workspace, invite, calls, faults, gone, granted>>
      /\ member' = member \/ member' = [member EXCEPT ![actor] = row]
  BY DEF Authorize, history
<1>2. row \in RowType /\ (heals => row.status = "active") /\ (~heals => row = member[actor])
  BY <1>0, OwnerRowType
<1>3. MemberGrows /\ member' \in [User -> RowType]
  <2>1. \A v \in User : gone[v] <= gone'[v]
    BY <1>0, <1>1
  <2>2. CASE heals /\ member' # member
    <3> HIDE DEF row, heals, actor
    <3> QED
      BY <1>0, <1>1, <1>2, <2>1, <2>2, MemberMoves
  <2>3. CASE ~heals \/ member' = member
    <3>1. member' = member
      BY <1>0, <1>1, <1>2, <2>3
    <3> QED
      BY <1>0, <1>1, <2>1, <3>1 DEF MemberGrows
  <2> QED
    BY <2>2, <2>3
<1>4. Grows
  BY <1>1, <1>3 DEF Grows, InviteGrows, Pending
<1>5. call' \in [Slot -> CallType] /\ Others(q) /\ CallInv(q)'
  <2>1. CASE Goto(q, "read")
    <3>1. call' \in [Slot -> CallType] /\ Others(q)
      BY <1>0, <2>1, GotoMoves DEF Stages
    <3>2. CallInv(q)'
      BY <1>0, <1>4, <2>1, GoesOn, NoAnswerYet DEF Managing
    <3> QED
      BY <3>1, <3>2
  <2>2. ASSUME NEW a \in {"not-found", "no-access", "not-permitted"}, Finish(q, a),
               a = "no-access" => row.status # "active"
        PROVE  call' \in [Slot -> CallType] /\ Others(q) /\ CallInv(q)'
    <3>1. a \in Answers \ {"none", "ok"}
      BY DEF Answers
    <3>2. a = "no-access" => actor # Owner
      BY <1>0, <1>2, <2>2 DEF Active
    <3> QED
      BY <1>0, <1>1, <2>2, <3>1, <3>2, FinishMoves, EndKnows
  <2> QED
    BY <2>1, <2>2 DEF Authorize
<1>6. TypeInv'
  BY <1>0, <1>1, <1>3, <1>5 DEF TypeInv
<1>7. AcceptedIsMember'
  BY <1>1, <1>4, AcceptedStays DEF IInv
<1> QED
  BY <1>4, <1>5, <1>6, <1>7, StepOfOne

LEMMA ReadMemberStep == ASSUME IInv, NEW q \in Slot, ReadMember(q) PROVE IInv'
<1> DEFINE c == call[q]
           row == member[c.user]
<1>0. TypeInv /\ c \in CallType /\ c.user \in User /\ c.op \in {"setRole", "remove"} /\ c.stage = "read"
  BY DEF IInv, TypeInv, CallType, ReadMember, At
<1>1. UNCHANGED <<tables, history, calls, faults>>
  BY DEF ReadMember
<1>2. calls' \in Nat /\ faults' \in Nat /\ UNCHANGED <<tables, history>> /\ UNCHANGED <<invite, member, gone>>
  BY <1>0, <1>1 DEF TypeInv, tables, history
<1>3. ASSUME NEW a \in {"not-found", "conflict"}, Finish(q, a) PROVE IInv'
  <2>1. a \in Answers \ {"none", "ok"}
    BY DEF Answers
  <2> QED
    BY <1>2, <1>3, <2>1, Ends
<1>4. ASSUME row.status = "active", c.user # Owner,
             call' = [call EXCEPT ![q].stage = "write",
                                  ![q].role = IF call[q].op = "remove" THEN row.role ELSE @]
      PROVE  IInv'
  <2> DEFINE role == IF c.op = "remove" THEN row.role ELSE c.role
             rec == [c EXCEPT !.stage = "write", !.role = role]
  <2>1. role \in Role \union {NoRole}
    BY <1>0 DEF TypeInv, RowType, CallType
  <2>2. call' = [call EXCEPT ![q] = rec]
    BY <1>0, <1>4 DEF TypeInv, CallType
  <2> HIDE DEF role
  <2>3. /\ rec \in CallType /\ rec.op = c.op /\ rec.stage = "write" /\ rec.user = c.user
        /\ rec.seen = c.seen /\ rec.answer = c.answer /\ rec.actor = c.actor
    BY <1>0, <2>1 DEF CallType, Stages
  <2> HIDE DEF rec
  <2>4. call' \in [Slot -> CallType] /\ Others(q) /\ call'[q] = rec
    BY <1>0, <2>2, <2>3, CallMoves
  <2>5. MemberCallInv(q)'
    BY <1>0, <1>2, <1>4, <2>3, <2>4 DEF IInv, CallInv, MemberCallInv, Excused, Active
  <2>6. NewInviteInv(q)' /\ AcceptInv(q)'
    BY <1>0, <2>3, <2>4 DEF NewInviteInv, AcceptInv
  <2>7. CallInv(q)'
    BY <1>0, <2>3, <2>4, <2>5, <2>6, NoAnswerYet DEF CallInv
  <2> QED
    BY <1>2, <2>4, <2>7, Reads
<1> QED
  BY <1>3, <1>4 DEF ReadMember

LEMMA WriteMemberStep == ASSUME IInv, NEW q \in Slot, WriteMember(q) PROVE IInv'
<1> DEFINE c == call[q]
           u == c.user
           row == [role |-> c.role, status |-> IF c.op = "remove" THEN "revoked" ELSE "active"]
<1>0. /\ TypeInv /\ c \in CallType /\ u \in User /\ c.op \in {"setRole", "remove"}
      /\ c.stage = "write" /\ gone \in [User -> Nat]
  BY DEF IInv, TypeInv, CallType, WriteMember, At
<1>1. UNCHANGED <<workspace, invite, calls, faults, granted>> /\ Goto(q, "publish")
  BY DEF WriteMember
<1>2. member' = [member EXCEPT ![u] = row]
  BY DEF WriteMember, Upsert
<1>3. gone' \in [User -> Nat] /\ (\A v \in User : gone[v] <= gone'[v])
      /\ (row.status = "active" \/ gone[u] < gone'[u])
  BY <1>0 DEF WriteMember
<1>4. row \in RowType /\ row.status # "none"
  BY <1>0 DEF RowType, MemberStatus, CallType
<1>5. MemberGrows /\ member' \in [User -> RowType]
  <2> HIDE DEF row, u
  <2> QED
    BY <1>0, <1>2, <1>3, <1>4, MemberMoves
<1>6. Grows
  BY <1>1, <1>5 DEF Grows, InviteGrows, Pending
<1>7. call' \in [Slot -> CallType] /\ Others(q)
  BY <1>0, <1>1, GotoMoves DEF Stages
<1>8. CallInv(q)'
  BY <1>0, <1>1, <1>6, GoesOn, NoAnswerYet
<1>9. TypeInv'
  BY <1>0, <1>1, <1>3, <1>5, <1>7 DEF TypeInv
<1>10. AcceptedIsMember'
  BY <1>1, <1>6, AcceptedStays DEF IInv
<1> QED
  BY <1>6, <1>7, <1>8, <1>9, <1>10, StepOfOne

LEMMA FindOlderInvitesStep == ASSUME IInv, NEW q \in Slot, FindOlderInvites(q) PROVE IInv'
<1> DEFINE c == call[q]
           rec == [c EXCEPT !.stage = "expire", !.todo = PendingOf(c.user)]
<1>0. TypeInv /\ c \in CallType /\ c.op = "invite" /\ c.stage = "read" /\ CallInv(q)
  BY DEF IInv, TypeInv, FindOlderInvites, At
<1>1. /\ UNCHANGED <<tables, history>> /\ calls' \in Nat /\ faults' \in Nat
      /\ UNCHANGED <<invite, member, gone>>
  BY <1>0 DEF FindOlderInvites, TypeInv, tables, history
<1>2. PendingOf(c.user) \in SUBSET Nat /\ PendingOf(c.user) \subseteq DOMAIN invite
  BY <1>0, InviteTyped DEF PendingOf, Pending
<1>3. call' = [call EXCEPT ![q] = rec]
  BY <1>0 DEF FindOlderInvites, TypeInv, CallType
<1>4. /\ rec \in CallType /\ rec.op = c.op /\ rec.stage = "expire" /\ rec.todo = PendingOf(c.user)
      /\ rec.older = c.older /\ rec.user = c.user /\ rec.answer = c.answer /\ rec.actor = c.actor
      /\ rec.role = c.role
  BY <1>0, <1>2 DEF CallType, Stages
<1> HIDE DEF rec
<1>5. call' \in [Slot -> CallType] /\ Others(q) /\ call'[q] = rec
  BY <1>0, <1>3, <1>4, CallMoves
<1>6. c.older \subseteq DOMAIN invite /\ c.role \in Assignable /\ \A i \in c.older : invite[i].email = c.user
  BY <1>0 DEF CallInv, NewInviteInv
<1>7. c.older \intersect Pending \subseteq PendingOf(c.user)
  BY <1>6 DEF PendingOf
<1>8. NewInviteInv(q)'
  BY <1>0, <1>1, <1>2, <1>4, <1>5, <1>6, <1>7, NoAnswerYet DEF NewInviteInv, Pending
<1>9. MemberCallInv(q)' /\ AcceptInv(q)'
  BY <1>0, <1>4, <1>5 DEF MemberCallInv, AcceptInv
<1>10. CallInv(q)'
  BY <1>0, <1>4, <1>5, <1>8, <1>9, NoAnswerYet DEF CallInv
<1> QED
  BY <1>1, <1>5, <1>10, Reads

LEMMA ExpireOlderInviteStep ==
    ASSUME IInv, NEW q \in Slot, NEW i \in Ids, ExpireOlderInvite(q, i)
    PROVE  IInv'
<1> DEFINE c == call[q]
           rec == [c EXCEPT !.todo = c.todo \ {i}]
<1>0. /\ TypeInv /\ c \in CallType /\ c.op = "invite" /\ c.stage = "expire" /\ CallInv(q)
      /\ i \in c.todo /\ c.answer = "none"
  BY NoAnswerYet DEF IInv, TypeInv, ExpireOlderInvite, At
<1>1. /\ c.todo \subseteq DOMAIN invite /\ c.older \subseteq DOMAIN invite
      /\ c.older \intersect Pending \subseteq c.todo /\ c.role \in Assignable
      /\ \A j \in c.older : invite[j].email = c.user
  BY <1>0 DEF CallInv, NewInviteInv
<1>2. UNCHANGED <<workspace, member, calls, faults, gone, granted>> /\ SetInvite(i, "expired")
  BY DEF ExpireOlderInvite, history
<1>3. /\ invite' \in Seq(InviteType) /\ DOMAIN invite' = DOMAIN invite /\ InviteGrows
      /\ i \notin Pending' /\ \A j \in DOMAIN invite : /\ invite'[j].email = invite[j].email
                                                       /\ j # i => invite'[j] = invite[j]
                                                       /\ j = i => invite'[j].status = "expired"
  <2>1. i \in DOMAIN invite /\ "expired" \in InviteStatus \ {"pending"}
    BY <1>0, <1>1 DEF InviteStatus
  <2> QED
    BY <1>0, <1>2, <2>1, InviteMoves
<1>4. call' = [call EXCEPT ![q] = rec]
  BY <1>0 DEF ExpireOlderInvite, TypeInv, CallType
<1>5. /\ rec \in CallType /\ rec.op = c.op /\ rec.stage = "expire" /\ rec.todo = c.todo \ {i}
      /\ rec.older = c.older /\ rec.user = c.user /\ rec.answer = "none" /\ rec.role = c.role
  BY <1>0 DEF CallType
<1> HIDE DEF rec
<1>6. call' \in [Slot -> CallType] /\ Others(q) /\ call'[q] = rec
  BY <1>0, <1>4, <1>5, CallMoves
<1>7. Grows
  BY <1>0, <1>2, <1>3 DEF Grows, MemberGrows, TypeInv, Active
<1>8. TypeInv'
  BY <1>0, <1>2, <1>3, <1>6 DEF TypeInv
<1>9. AcceptedIsMember'
  BY <1>0, <1>3, <1>7, AcceptedStays DEF IInv
<1>10. Pending' \intersect DOMAIN invite \subseteq Pending \ {i}
  BY <1>3 DEF InviteGrows
<1>11. NewInviteInv(q)'
  <2>1. call'[q].older \intersect Pending' \subseteq call'[q].todo /\ call'[q].todo \subseteq DOMAIN invite'
    BY <1>1, <1>3, <1>5, <1>6, <1>10
  <2>2. \A j \in call'[q].older : invite'[j].email = call'[q].user
    BY <1>1, <1>3, <1>5, <1>6
  <2>3. call'[q].older \subseteq DOMAIN invite'
    BY <1>1, <1>3, <1>5, <1>6
  <2>4. call'[q].role \in Assignable /\ call'[q].stage = "expire" /\ call'[q].answer = "none"
    BY <1>1, <1>5, <1>6
  <2> QED
    BY <2>1, <2>2, <2>3, <2>4 DEF NewInviteInv
<1>12. MemberCallInv(q)' /\ AcceptInv(q)'
  BY <1>0, <1>5, <1>6 DEF MemberCallInv, AcceptInv
<1>13. CallInv(q)'
  BY <1>0, <1>5, <1>6, <1>11, <1>12 DEF CallInv
<1> QED
  BY <1>6, <1>7, <1>8, <1>9, <1>13, StepOfOne

LEMMA InsertInviteStep == ASSUME IInv, NEW q \in Slot, InsertInvite(q) PROVE IInv'
<1> DEFINE c == call[q]
           n == Len(invite) + 1
           new == [email |-> c.user, role |-> c.role, status |-> "pending", late |-> FALSE]
           rec == [c EXCEPT !.stage = "publish", !.id = n]
<1>0. /\ TypeInv /\ c \in CallType /\ c.op = "invite" /\ c.stage = "expire" /\ CallInv(q)
      /\ c.todo = {} /\ c.answer = "none"
  BY NoAnswerYet DEF IInv, TypeInv, InsertInvite, At
<1>1. /\ c.older \subseteq DOMAIN invite /\ c.older \intersect Pending = {}
      /\ c.role \in Assignable /\ \A j \in c.older : invite[j].email = c.user
  BY <1>0 DEF CallInv, NewInviteInv
<1>2. UNCHANGED <<workspace, member, calls, faults, gone, granted>> /\ invite' = Append(invite, new)
  BY DEF InsertInvite, history
<1>3. Len(invite) \in Nat /\ n \in Nat /\ n \notin DOMAIN invite /\ DOMAIN invite = 1..Len(invite)
  BY <1>0, InviteTyped
<1>4. call' = [call EXCEPT ![q] = rec]
  BY <1>0 DEF InsertInvite, TypeInv, CallType
<1>5. new \in InviteType
  BY <1>0, <1>1 DEF InviteType, InviteStatus, CallType
<1>6. /\ invite' \in Seq(InviteType) /\ DOMAIN invite' = DOMAIN invite \union {n}
      /\ invite'[n] = new /\ \A j \in DOMAIN invite : invite'[j] = invite[j]
  <2> HIDE DEF new
  <2>1. /\ invite' \in Seq(InviteType) /\ Len(invite') = n
        /\ invite'[n] = new /\ \A j \in 1..Len(invite) : invite'[j] = invite[j]
    BY <1>0, <1>2, <1>5, AppendProperties DEF TypeInv
  <2>2. DOMAIN invite' = 1..n
    BY <2>1, LenProperties
  <2> QED
    BY <1>3, <2>1, <2>2
<1> HIDE DEF n
<1>7. /\ rec \in CallType /\ rec.op = c.op /\ rec.stage = "publish"
      /\ rec.older = c.older /\ rec.user = c.user /\ rec.role = c.role /\ rec.answer = "none"
  BY <1>0, <1>3 DEF CallType, Stages
<1> HIDE DEF rec
<1>8. call' \in [Slot -> CallType] /\ Others(q) /\ call'[q] = rec
  BY <1>0, <1>4, <1>7, CallMoves
<1>9. InviteGrows /\ c.older \intersect Pending' = {}
  BY <1>1, <1>6 DEF InviteGrows, Pending
<1>10. Grows
  BY <1>0, <1>2, <1>9 DEF Grows, MemberGrows, TypeInv, Active
<1>11. TypeInv'
  BY <1>0, <1>2, <1>6, <1>8 DEF TypeInv
<1>12. AcceptedIsMember'
  <2>1. new.status = "pending"
    OBVIOUS
  <2>2. \A i \in DOMAIN invite' :
            invite'[i].status = "accepted" => i \in DOMAIN invite /\ invite[i].status = "accepted"
    BY <1>6, <2>1
  <2> QED
    BY <1>0, <1>10, <2>2, AcceptedStays DEF IInv
<1>13. NewInviteInv(q)'
  BY <1>1, <1>6, <1>7, <1>8, <1>9 DEF NewInviteInv
<1>14. MemberCallInv(q)' /\ AcceptInv(q)'
  BY <1>0, <1>7, <1>8 DEF MemberCallInv, AcceptInv
<1>15. CallInv(q)'
  BY <1>0, <1>7, <1>8, <1>13, <1>14 DEF CallInv
<1> QED
  BY <1>8, <1>10, <1>11, <1>12, <1>15, StepOfOne

-----------------------------------------------------------------------------
(* The invitation a request is about.                                      *)
LEMMA ItsInvite ==
    ASSUME IInv, NEW q \in Slot, call[q].op \in {"revoke", "accept", "refuse"}, call[q].stage # "done"
    PROVE  /\ call[q].id \in DOMAIN invite /\ invite[call[q].id] \in InviteType
           /\ call[q].actor \in User /\ call[q] \in CallType
BY InviteTyped DEF IInv, CallInv, TypeInv, CallType

LEMMA ReadInviteStep == ASSUME IInv, NEW q \in Slot, ReadInvite(q) PROVE IInv'
<1> DEFINE c == call[q]
           i == c.id
<1>0. /\ TypeInv /\ c.op \in {"revoke", "accept", "refuse"} /\ c.stage = "read" /\ CallInv(q)
      /\ c.answer = "none"
  BY NoAnswerYet DEF IInv, ReadInvite, At
<1>1. i \in DOMAIN invite /\ invite[i] \in InviteType /\ c \in CallType /\ c.actor \in User
  BY <1>0, ItsInvite
<1>2. /\ UNCHANGED <<tables, history>> /\ calls' \in Nat /\ faults' \in Nat
      /\ UNCHANGED <<invite, member, gone, granted>>
  BY <1>0 DEF ReadInvite, TypeInv, tables, history
<1>3. ASSUME NEW a \in {"not-found", "wrong-email"}, Finish(q, a) PROVE IInv'
  <2>1. a \in Answers \ {"none", "ok"}
    BY DEF Answers
  <2> QED
    BY <1>2, <1>3, <2>1, Ends
<1>4. CASE c.op = "revoke" /\ Goto(q, "write")
  <2>1. /\ call' \in [Slot -> CallType] /\ Others(q)
        /\ call'[q] = [call[q] EXCEPT !.stage = "write"]
    BY <1>0, <1>4, GotoMoves DEF Stages
  <2>2. /\ call'[q].op = "revoke" /\ call'[q].id = i /\ call'[q].answer = "none"
        /\ call'[q].stage = "write"
    BY <1>0, <1>1, <1>4, <2>1 DEF CallType
  <2>3. CallInv(q)'
    BY <1>1, <1>2, <2>2 DEF CallInv, MemberCallInv, NewInviteInv, AcceptInv
  <2> QED
    BY <1>2, <2>1, <2>3, Reads
<1>5. ASSUME i \in Pending, c.op # "revoke", invite[i].email = c.actor,
             call' = [call EXCEPT ![q].role = invite[i].role,
                        ![q].stage = IF invite[i].late THEN "late"
                                     ELSE IF call[q].op = "accept" THEN "find" ELSE "write"]
      PROVE  IInv'
  <2> DEFINE stage == IF invite[i].late THEN "late" ELSE IF c.op = "accept" THEN "find" ELSE "write"
             role == invite[i].role
             rec == [c EXCEPT !.role = role, !.stage = stage]
  <2>1. stage \in {"late", "find", "write"} /\ role \in Role /\ (c.op = "accept" => stage # "write")
    BY <1>1 DEF InviteType, Role
  <2>2. call' = [call EXCEPT ![q] = rec]
    BY <1>0, <1>1, <1>5 DEF TypeInv, CallType
  <2> HIDE DEF stage, role
  <2>3. /\ rec \in CallType /\ rec.op = c.op /\ rec.stage = stage /\ rec.id = i
        /\ rec.seen = c.seen /\ rec.older = c.older /\ rec.answer = "none" /\ rec.actor = c.actor
    BY <1>0, <1>1, <2>1 DEF CallType, Stages
  <2> HIDE DEF rec
  <2>4. call' \in [Slot -> CallType] /\ Others(q) /\ call'[q] = rec
    BY <1>0, <2>2, <2>3, CallMoves
  <2>5. c.op = "accept" => c.seen <= gone[c.actor] /\ i \in c.older
    BY <1>0, <1>5 DEF CallInv, AcceptInv
  <2>6. AcceptInv(q)'
    BY <1>2, <1>5, <2>1, <2>3, <2>4, <2>5 DEF AcceptInv
  <2>7. MemberCallInv(q)' /\ NewInviteInv(q)'
    BY <1>0, <2>3, <2>4 DEF MemberCallInv, NewInviteInv
  <2>8. CallInv(q)'
    BY <1>1, <1>2, <2>3, <2>4, <2>6, <2>7 DEF CallInv
  <2> QED
    BY <1>2, <2>4, <2>8, Reads
<1> QED
  BY <1>3, <1>4, <1>5 DEF ReadInvite

LEMMA RevokeLateInviteStep == ASSUME IInv, NEW q \in Slot, RevokeLateInvite(q) PROVE IInv'
<1> DEFINE i == call[q].id
<1>0. /\ TypeInv /\ call[q].op \in {"accept", "refuse"} /\ call[q].stage = "late"
      /\ SetInvite(i, "revoked") /\ Finish(q, "expired")
      /\ UNCHANGED <<workspace, member, calls, faults, gone, granted>>
  BY DEF IInv, RevokeLateInvite, At, history
<1>1. i \in DOMAIN invite /\ "revoked" \in InviteStatus \ {"pending"} /\ "expired" \in Answers \ {"none", "ok"}
  BY <1>0, ItsInvite DEF InviteStatus, Answers
<1>2. /\ invite' \in Seq(InviteType) /\ DOMAIN invite' = DOMAIN invite /\ InviteGrows
      /\ \A j \in DOMAIN invite : invite'[j].status = "accepted" => invite[j].status = "accepted"
  BY <1>0, <1>1, InviteMoves
<1>3. call' \in [Slot -> CallType] /\ Others(q) /\ CallInv(q)'
  BY <1>0, <1>1, FinishMoves, EndKnows DEF TypeInv
<1>4. Grows
  BY <1>0, <1>2 DEF Grows, MemberGrows, TypeInv, Active
<1>5. TypeInv'
  BY <1>0, <1>2, <1>3 DEF TypeInv
<1>6. AcceptedIsMember'
  BY <1>0, <1>2, <1>4, AcceptedStays DEF IInv
<1> QED
  BY <1>3, <1>4, <1>5, <1>6, StepOfOne

LEMMA RevokeByIdStep == ASSUME IInv, NEW q \in Slot, RevokeById(q) PROVE IInv'
<1> DEFINE i == call[q].id
<1>0. /\ TypeInv /\ call[q].op \in {"revoke", "refuse"} /\ call[q].stage = "write"
      /\ SetInvite(i, "revoked") /\ Goto(q, "publish")
      /\ UNCHANGED <<workspace, member, calls, faults, gone, granted>>
  BY DEF IInv, RevokeById, At, history
<1>1. i \in DOMAIN invite /\ "revoked" \in InviteStatus \ {"pending"}
  BY <1>0, ItsInvite DEF InviteStatus
<1>2. /\ invite' \in Seq(InviteType) /\ DOMAIN invite' = DOMAIN invite /\ InviteGrows
      /\ \A j \in DOMAIN invite : invite'[j].status = "accepted" => invite[j].status = "accepted"
  BY <1>0, <1>1, InviteMoves
<1>3. call' \in [Slot -> CallType] /\ Others(q)
  BY <1>0, GotoMoves DEF Stages
<1>4. Grows
  BY <1>0, <1>2 DEF Grows, MemberGrows, TypeInv, Active
<1>5. CallInv(q)'
  BY <1>0, <1>4, GoesOn, NoAnswerYet
<1>6. TypeInv'
  BY <1>0, <1>2, <1>3 DEF TypeInv
<1>7. AcceptedIsMember'
  BY <1>0, <1>2, <1>4, AcceptedStays DEF IInv
<1> QED
  BY <1>3, <1>4, <1>5, <1>6, <1>7, StepOfOne

LEMMA FindMembershipStep == ASSUME IInv, NEW q \in Slot, FindMembership(q) PROVE IInv'
<1> DEFINE c == call[q]
           found == member[c.actor].status # "none"
           rec == [c EXCEPT !.stage = "grant", !.found = found]
<1>0. /\ TypeInv /\ c.op = "accept" /\ c.stage = "find" /\ CallInv(q) /\ c.answer = "none"
  BY NoAnswerYet DEF IInv, FindMembership, At
<1>1. c.id \in DOMAIN invite /\ c \in CallType /\ c.actor \in User
  BY <1>0, ItsInvite
<1>2. /\ UNCHANGED <<tables, history>> /\ calls' \in Nat /\ faults' \in Nat
      /\ UNCHANGED <<invite, member, gone, granted>>
  BY <1>0 DEF FindMembership, TypeInv, tables, history
<1>3. call' = [call EXCEPT ![q] = rec]
  BY <1>0, <1>1 DEF FindMembership, TypeInv, CallType
<1>4. found \in BOOLEAN
  OBVIOUS
<1>5. ~found => member[c.actor].status = "none"
  OBVIOUS
<1> HIDE DEF found
<1>6. /\ rec \in CallType /\ rec.op = "accept" /\ rec.stage = "grant" /\ rec.id = c.id /\ rec.found = found
      /\ rec.seen = c.seen /\ rec.older = c.older /\ rec.answer = "none" /\ rec.actor = c.actor
  BY <1>0, <1>1, <1>4 DEF CallType, Stages
<1> HIDE DEF rec
<1>7. call' \in [Slot -> CallType] /\ Others(q) /\ call'[q] = rec
  BY <1>0, <1>3, <1>6, CallMoves
<1>8. c.seen <= gone[c.actor] /\ c.id \in c.older /\ invite[c.id].email = c.actor
  BY <1>0 DEF CallInv, AcceptInv
<1>9. AcceptInv(q)'
  BY <1>2, <1>5, <1>6, <1>7, <1>8 DEF AcceptInv
<1>10. MemberCallInv(q)' /\ NewInviteInv(q)'
  BY <1>6, <1>7 DEF MemberCallInv, NewInviteInv
<1>11. CallInv(q)'
  BY <1>1, <1>2, <1>6, <1>7, <1>9, <1>10 DEF CallInv
<1> QED
  BY <1>2, <1>7, <1>11, Reads

(* What a request to accept keeps of its record when it goes on.           *)
LEMMA AcceptGoesOn ==
    ASSUME IInv, NEW q \in Slot, call[q].op = "accept", call[q].stage # "done",
           NEW stage \in {"mark", "publish"}, Goto(q, stage)
    PROVE  /\ call' \in [Slot -> CallType] /\ Others(q)
           /\ call'[q].op = "accept" /\ call'[q].stage = stage /\ call'[q].answer = "none"
           /\ call'[q].id = call[q].id /\ call'[q].actor = call[q].actor
           /\ call'[q].seen = call[q].seen /\ call'[q].older = call[q].older
           /\ call'[q].found = call[q].found
<1>1. call' \in [Slot -> CallType] /\ Others(q) /\ call'[q] = [call[q] EXCEPT !.stage = stage]
  BY GotoMoves DEF IInv, Stages
<1>2. call[q] \in CallType /\ call[q].answer = "none"
  BY NoAnswerYet DEF IInv, TypeInv
<1> QED
  BY <1>1, <1>2 DEF CallType

LEMMA GrantMembershipStep == ASSUME IInv, NEW q \in Slot, GrantMembership(q) PROVE IInv'
<1> DEFINE c == call[q]
           u == c.actor
           row == [role |-> c.role, status |-> "active"]
<1>0. /\ TypeInv /\ c.op = "accept" /\ c.stage = "grant" /\ CallInv(q) /\ gone \in [User -> Nat]
      /\ UNCHANGED <<workspace, invite, calls, faults, gone>> /\ granted' = granted \union {c.id}
      /\ Goto(q, "mark") /\ member' = Upsert(u, c.found, c.role, "active")
  BY DEF IInv, TypeInv, GrantMembership, At
<1>1. c.id \in DOMAIN invite /\ c \in CallType /\ u \in User /\ c.id \in Nat
  BY <1>0, ItsInvite DEF CallType
<1>2. /\ call' \in [Slot -> CallType] /\ Others(q)
      /\ call'[q].op = "accept" /\ call'[q].stage = "mark" /\ call'[q].answer = "none"
      /\ call'[q].id = c.id /\ call'[q].actor = u
      /\ call'[q].seen = c.seen /\ call'[q].older = c.older
  BY <1>0, AcceptGoesOn
<1>3. /\ c.seen <= gone[u] /\ c.id \in c.older /\ invite[c.id].email = u
      /\ ~c.found => member[u].status = "none" \/ Excused(q, u)
  BY <1>0 DEF CallInv, AcceptInv
<1>4. /\ MemberGrows /\ member' \in [User -> RowType] /\ member'[u].status # "none"
      /\ member'[u].status = "active" \/ c.seen < gone[u]
  <2>1. CASE member' = [member EXCEPT ![u] = row]
    <3>1. row \in RowType /\ row.status = "active"
      BY <1>1 DEF RowType, MemberStatus, CallType
    <3>2. \A v \in User : gone[v] <= gone'[v]
      BY <1>0
    <3> HIDE DEF row
    <3> QED
      BY <1>0, <1>1, <2>1, <3>1, <3>2, MemberMoves
  <2>2. CASE member' = member /\ ~c.found /\ member[u].status # "none"
    <3>1. MemberGrows
      BY <1>0, <2>2 DEF MemberGrows
    <3> QED
      BY <1>0, <1>3, <2>2, <3>1 DEF TypeInv, Excused, Active
  <2> QED
    BY <1>0, <2>1, <2>2 DEF Upsert
<1>5. Grows
  BY <1>0, <1>4 DEF Grows, InviteGrows, Pending
<1>6. TypeInv'
  BY <1>0, <1>1, <1>2, <1>4 DEF TypeInv
<1>7. AcceptedIsMember'
  BY <1>0, <1>5, AcceptedStays DEF IInv
<1>8. AcceptInv(q)'
  BY <1>0, <1>2, <1>3, <1>4 DEF AcceptInv, Excused, Active
<1>9. MemberCallInv(q)' /\ NewInviteInv(q)'
  BY <1>2 DEF MemberCallInv, NewInviteInv
<1>10. CallInv(q)'
  BY <1>0, <1>1, <1>2, <1>8, <1>9 DEF CallInv
<1> QED
  BY <1>2, <1>5, <1>6, <1>7, <1>10, StepOfOne

LEMMA MarkAcceptedStep == ASSUME IInv, NEW q \in Slot, MarkAccepted(q) PROVE IInv'
<1> DEFINE c == call[q]
           u == c.actor
           i == c.id
<1>0. /\ TypeInv /\ c.op = "accept" /\ c.stage = "mark" /\ CallInv(q)
      /\ UNCHANGED <<workspace, member, calls, faults, gone, granted>>
      /\ SetInvite(i, "accepted") /\ Goto(q, "publish")
  BY DEF IInv, MarkAccepted, At, history
<1>1. i \in DOMAIN invite /\ u \in User /\ "accepted" \in InviteStatus \ {"pending"}
  BY <1>0, ItsInvite DEF InviteStatus
<1>2. /\ invite' \in Seq(InviteType) /\ DOMAIN invite' = DOMAIN invite /\ InviteGrows
      /\ \A j \in DOMAIN invite : /\ invite'[j].email = invite[j].email
                                  /\ j # i => invite'[j] = invite[j]
  BY <1>0, <1>1, InviteMoves
<1>3. /\ call' \in [Slot -> CallType] /\ Others(q)
      /\ call'[q].op = "accept" /\ call'[q].stage = "publish" /\ call'[q].answer = "none"
      /\ call'[q].id = i /\ call'[q].actor = u
      /\ call'[q].seen = c.seen /\ call'[q].older = c.older
  BY <1>0, AcceptGoesOn
<1>4. /\ c.seen <= gone[u] /\ i \in c.older /\ invite[i].email = u
      /\ i \in granted /\ member[u].status # "none" /\ Excused(q, u)
  BY <1>0 DEF CallInv, AcceptInv
<1>5. Grows
  BY <1>0, <1>2 DEF Grows, MemberGrows, TypeInv, Active
<1>6. TypeInv'
  BY <1>0, <1>2, <1>3 DEF TypeInv
<1>7. AcceptedIsMember'
  <2> SUFFICES ASSUME NEW j \in DOMAIN invite', invite'[j].status = "accepted"
               PROVE  j \in granted' /\ member'[invite'[j].email].status # "none"
    BY DEF AcceptedIsMember
  <2>1. CASE j = i
    BY <1>0, <1>1, <1>2, <1>4, <2>1
  <2>2. CASE j # i
    BY <1>0, <1>2, <2>2 DEF IInv, AcceptedIsMember
  <2> QED
    BY <2>1, <2>2
<1>8. AcceptInv(q)'
  BY <1>0, <1>3, <1>4 DEF AcceptInv, Excused, Active
<1>9. MemberCallInv(q)' /\ NewInviteInv(q)'
  BY <1>3 DEF MemberCallInv, NewInviteInv
<1>10. CallInv(q)'
  BY <1>1, <1>2, <1>3, <1>8, <1>9 DEF CallInv
<1> QED
  BY <1>3, <1>5, <1>6, <1>7, <1>10, StepOfOne

-----------------------------------------------------------------------------
LEMMA PublishStep == ASSUME IInv, NEW q \in Slot, Publish(q) PROVE IInv'
<1> DEFINE c == call[q]
<1>0. /\ TypeInv /\ c.stage = "publish" /\ CallInv(q) /\ Finish(q, "ok") /\ "ok" \in Answers
      /\ c \in CallType /\ c.seen \in Nat
  BY DEF IInv, TypeInv, CallType, Publish, Answers
<1>1. /\ UNCHANGED <<tables, history>> /\ calls' \in Nat /\ faults' \in Nat
      /\ UNCHANGED <<invite, member, gone>>
  BY <1>0 DEF Publish, TypeInv, tables, history
<1>2. /\ call' \in [Slot -> CallType] /\ Others(q)
      /\ call'[q].op = c.op /\ call'[q].actor = c.actor
      /\ call'[q].stage = "done" /\ call'[q].answer = "ok"
      /\ call'[q].seen = c.seen /\ call'[q].older = c.older
  BY <1>0, FinishMoves
<1>3. NewInviteInv(q)'
  BY <1>0, <1>1, <1>2 DEF CallInv, NewInviteInv, Pending
<1>4. AcceptInv(q)'
  BY <1>0, <1>1, <1>2 DEF CallInv, AcceptInv, Excused, Active
<1>5. MemberCallInv(q)'
  BY <1>2 DEF MemberCallInv
<1>6. CallInv(q)'
  BY <1>2, <1>3, <1>4, <1>5 DEF CallInv
<1> QED
  BY <1>1, <1>2, <1>6, Reads

LEMMA RespondStep == ASSUME IInv, NEW q \in Slot, Respond(q) PROVE IInv'
<1>0. TypeInv /\ call' = [call EXCEPT ![q] = Idle]
  BY DEF IInv, Respond
<1>1. UNCHANGED <<tables, history>> /\ calls' \in Nat /\ faults' \in Nat
  BY <1>0 DEF Respond, TypeInv
<1>2. call' \in [Slot -> CallType] /\ Others(q) /\ call'[q] = Idle
  BY <1>0, IdleType, CallMoves
<1>3. CallInv(q)'
  BY <1>2 DEF CallInv, MemberCallInv, NewInviteInv, AcceptInv, Idle
<1> QED
  BY <1>1, <1>2, <1>3, Reads

LEMMA CallFailsStep == ASSUME IInv, NEW q \in Slot, CallFails(q) PROVE IInv'
<1>1. UNCHANGED <<tables, history>> /\ calls' \in Nat /\ faults' \in Nat /\ Finish(q, "error")
  BY DEF CallFails, IInv, TypeInv
<1>2. "error" \in Answers \ {"none", "ok"}
  BY DEF Answers
<1> QED
  BY <1>1, <1>2, Ends

LEMMA InviteGrowsLateStep == ASSUME IInv, NEW i \in Ids, InviteGrowsLate(i) PROVE IInv'
<1>0. /\ TypeInv /\ i \in DOMAIN invite /\ invite[i] \in InviteType /\ i \in 1..Len(invite)
      /\ UNCHANGED <<workspace, member, call, calls, faults, gone, granted>>
  BY InviteTyped DEF IInv, InviteGrowsLate, Pending, history
<1> DEFINE row == [invite[i] EXCEPT !.late = TRUE]
<1>1. invite' = [invite EXCEPT ![i] = row]
  BY <1>0 DEF InviteGrowsLate
<1>2. row \in InviteType /\ row.status = invite[i].status /\ row.email = invite[i].email
  BY <1>0 DEF InviteType
<1> HIDE DEF row
<1>3. invite' \in Seq(InviteType) /\ DOMAIN invite' = DOMAIN invite
  BY <1>0, <1>1, <1>2, ExceptSeq DEF TypeInv
<1>4. \A j \in DOMAIN invite : invite'[j].status = invite[j].status /\ invite'[j].email = invite[j].email
  BY <1>1, <1>2
<1>5. Grows
  BY <1>0, <1>3, <1>4 DEF Grows, InviteGrows, MemberGrows, Pending, TypeInv, Active
<1>6. TypeInv'
  BY <1>0, <1>3 DEF TypeInv
<1>7. AcceptedIsMember'
  BY <1>0, <1>3, <1>4, <1>5, AcceptedStays DEF IInv
<1>8. \A q \in Slot : CallInv(q)'
  BY <1>0, <1>5, KnowledgeStays DEF IInv
<1> QED
  BY <1>6, <1>7, <1>8 DEF IInv

LEMMA RequestsStep == ASSUME IInv, NEW q \in Slot, Requests(q) PROVE IInv'
<1>0. /\ Owner \in User /\ NoRole \in Role \union {NoRole} /\ 0 \in Nat
      /\ \A role \in Assignable : role \in Role \union {NoRole}
      /\ \A i \in DOMAIN invite : i \in Nat /\ invite[i].email \in User
  BY WorkspaceAssumption, InviteTyped DEF Role, IInv, InviteType
<1>1. CASE Arrive(q, "create", Owner, Owner, 0, NoRole)
  BY <1>0, <1>1, ArriveStep DEF Ops
<1>2. ASSUME NEW actor \in User, NEW u \in User, NEW role \in Assignable,
             \/ Arrive(q, "remove", actor, u, 0, NoRole)
             \/ Arrive(q, "setRole", actor, u, 0, role)
             \/ Arrive(q, "invite", actor, u, 0, role)
      PROVE  IInv'
  BY <1>0, <1>2, ArriveStep DEF Ops
<1>3. ASSUME NEW actor \in User, NEW i \in DOMAIN invite,
             \/ Arrive(q, "revoke", actor, invite[i].email, i, NoRole)
             \/ Arrive(q, "accept", actor, actor, i, NoRole)
             \/ Arrive(q, "refuse", actor, actor, i, NoRole)
      PROVE  IInv'
  BY <1>0, <1>3, ArriveStep DEF Ops
<1> QED
  BY <1>1, <1>2, <1>3 DEF Requests

LEMMA NextStep == IInv /\ [Next]_wvars => IInv'
<1> SUFFICES ASSUME IInv, [Next]_wvars PROVE IInv'
  OBVIOUS
<1>1. ASSUME NEW q \in Slot, Serve(q) PROVE IInv'
  BY <1>1, InsertWorkspaceStep, EnsureOwnerMembershipStep, AuthorizeStep, ReadMemberStep,
     WriteMemberStep, FindOlderInvitesStep, ExpireOlderInviteStep, InsertInviteStep,
     ReadInviteStep, RevokeLateInviteStep, RevokeByIdStep, FindMembershipStep,
     GrantMembershipStep, MarkAcceptedStep DEF Serve
<1>2. CASE UNCHANGED wvars
  <2>1. UNCHANGED <<tables, call, calls, faults, history>> /\ TypeInv
    BY <1>2 DEF wvars, IInv
  <2>2. UNCHANGED <<workspace, member, invite, call, calls, faults, gone, granted>>
    BY <2>1 DEF tables, history
  <2>3. TypeInv' /\ Grows
    BY <2>1, <2>2, Still DEF TypeInv
  <2>4. AcceptedIsMember'
    BY <2>2, <2>3, AcceptedStays DEF IInv
  <2>5. \A q \in Slot : CallInv(q)'
    BY <2>1, <2>3, KnowledgeStays DEF IInv
  <2> QED
    BY <2>3, <2>4, <2>5 DEF IInv
<1> QED
  BY <1>1, <1>2, RequestsStep, PublishStep, RespondStep, CallFailsStep, InviteGrowsLateStep
     DEF Next, Environment

(* What every request knows holds throughout.                              *)
THEOREM KnowledgeHolds == Spec => []IInv
BY InitInv, NextStep, PTL DEF Spec

-----------------------------------------------------------------------------
(* The variables have their types.                                         *)
THEOREM TypeOKHolds == Spec => []TypeOK
<1>1. IInv => TypeOK
  BY DEF IInv, TypeInv, TypeOK, RowType, InviteType, CallType, Stages, Answers, InviteStatus, MemberStatus
<1> QED
  BY <1>1, KnowledgeHolds, PTL

(* An invitation answered, revoked or replaced when it is asked for gives  *)
(* no role (acceptInviteByToken).                                          *)
THEOREM HandledInviteGrantsNothingHolds == Spec => []HandledInviteGrantsNothing
<1>1. IInv => HandledInviteGrantsNothing
  BY DEF IInv, CallInv, AcceptInv, HandledInviteGrantsNothing
<1> QED
  BY <1>1, KnowledgeHolds, PTL

(* Who is told that an invitation is accepted is a member, unless removed  *)
(* since asking: whatever row the insert of upsertMembership meets.        *)
THEOREM AcceptedIsInHolds == Spec => []AcceptedIsIn
<1>1. IInv => AcceptedIsIn
  <2> SUFFICES ASSUME IInv, NEW q \in Slot, call[q].op = "accept", call[q].answer = "ok"
               PROVE  Active(call[q].actor) \/ gone[call[q].actor] > call[q].seen
    BY DEF AcceptedIsIn
  <2>1. Excused(q, call[q].actor)
    BY DEF IInv, CallInv, AcceptInv
  <2> QED
    BY <2>1 DEF Excused
<1> QED
  BY <1>1, KnowledgeHolds, PTL

(* An invitation is marked accepted only once its addressee has a          *)
(* membership, whatever fails between the two writes.                      *)
THEOREM AcceptedIsMemberHolds == Spec => []AcceptedIsMember
<1>1. IInv => AcceptedIsMember
  BY DEF IInv
<1> QED
  BY <1>1, KnowledgeHolds, PTL

(* createInvite leaves none of the address's older invitations pending.    *)
THEOREM NewInviteReplacesOlderHolds == Spec => []NewInviteReplacesOlder
<1>1. IInv => NewInviteReplacesOlder
  BY DEF IInv, CallInv, NewInviteInv, NewInviteReplacesOlder
<1> QED
  BY <1>1, KnowledgeHolds, PTL

(* The owner is never refused, also when creating the workspace stopped    *)
(* before the membership was written.                                      *)
THEOREM OwnerHasAccessHolds == Spec => []OwnerHasAccess
<1>1. IInv => OwnerHasAccess
  BY DEF IInv, CallInv, OwnerHasAccess
<1> QED
  BY <1>1, KnowledgeHolds, PTL

(* The steps that write the table of memberships.                          *)
LEMMA MemberWriters ==
    ASSUME Next, member' # member
    PROVE  \E q \in Slot : EnsureOwnerMembership(q) \/ Authorize(q) \/ WriteMember(q) \/ GrantMembership(q)
<1>1. \A q \in Slot : Requests(q) => UNCHANGED member
  <2>1. \A q, op, actor, v, i, role : Arrive(q, op, actor, v, i, role) => UNCHANGED member
    BY DEF Arrive, tables
  <2> QED
    BY <2>1, Zenon DEF Requests
<1>2. \A q \in Slot : InsertWorkspace(q) \/ ReadMember(q) \/ FindOlderInvites(q) => UNCHANGED member
  BY DEF InsertWorkspace, ReadMember, FindOlderInvites, tables
<1>3. \A q \in Slot : InsertInvite(q) \/ (\E i \in Ids : ExpireOlderInvite(q, i)) => UNCHANGED member
  BY DEF InsertInvite, ExpireOlderInvite
<1>4. \A q \in Slot : ReadInvite(q) \/ RevokeLateInvite(q) \/ RevokeById(q) => UNCHANGED member
  BY DEF ReadInvite, RevokeLateInvite, RevokeById, tables
<1>5. \A q \in Slot : FindMembership(q) \/ MarkAccepted(q) => UNCHANGED member
  BY DEF FindMembership, MarkAccepted, tables
<1>6. \A q \in Slot : Publish(q) \/ Respond(q) \/ CallFails(q) => UNCHANGED member
  BY DEF Publish, Respond, CallFails, tables
<1>7. Environment => UNCHANGED member
  BY DEF Environment, InviteGrowsLate
<1> QED
  BY <1>1, <1>2, <1>3, <1>4, <1>5, <1>6, <1>7 DEF Next, Serve

(* Who was removed comes back by an invitation, or by a role change asked  *)
(* for before the removal (updateMemberRole, removeMember).                *)
THEOREM RemovedStaysOutHolds == Spec => RemovedStaysOut
<1> DEFINE A == \A u \in User \ {Owner} : member[u].status = "revoked" /\ member'[u].status = "active" =>
                  \E q \in Slot :
                      \/ At(q, {"accept"}, "grant") /\ call[q].actor = u
                      \/ At(q, {"setRole"}, "write") /\ call[q].user = u /\ call[q].seen < gone[u]
<1>1. IInv /\ [Next]_wvars => [A]_wvars
  <2> SUFFICES ASSUME IInv, Next, NEW u \in User \ {Owner},
                      member[u].status = "revoked", member'[u].status = "active"
               PROVE  \E q \in Slot :
                          \/ At(q, {"accept"}, "grant") /\ call[q].actor = u
                          \/ At(q, {"setRole"}, "write") /\ call[q].user = u /\ call[q].seen < gone[u]
    OBVIOUS
  <2>0. member \in [User -> RowType] /\ member' # member
    BY DEF IInv, TypeInv
  <2>1. PICK q \in Slot : EnsureOwnerMembership(q) \/ Authorize(q) \/ WriteMember(q) \/ GrantMembership(q)
    BY <2>0, MemberWriters
  <2>2. CASE EnsureOwnerMembership(q)
    BY <2>0, <2>2 DEF EnsureOwnerMembership
  <2>3. CASE Authorize(q)
    <3> DEFINE actor == call[q].actor
               row == IF actor = Owner /\ ~Active(Owner) THEN [role |-> OwnerRole, status |-> "active"]
                      ELSE member[actor]
    <3>1. member' = member \/ member' = [member EXCEPT ![actor] = row]
      BY <2>3 DEF Authorize
    <3>2. actor = Owner \/ row = member[actor]
      OBVIOUS
    <3> HIDE DEF row, actor
    <3> QED
      BY <2>0, <3>1, <3>2
  <2>4. CASE WriteMember(q)
    <3>1. call[q].user = u /\ call[q].op = "setRole" /\ call[q].stage = "write"
      BY <2>0, <2>4 DEF WriteMember, Upsert, At
    <3>2. Excused(q, u)
      BY <3>1 DEF IInv, CallInv, MemberCallInv
    <3> QED
      BY <3>1, <3>2 DEF Excused, Active, At
  <2>5. CASE GrantMembership(q)
    BY <2>0, <2>5 DEF GrantMembership, Upsert, At
  <2> QED
    BY <2>1, <2>2, <2>3, <2>4, <2>5
<1> QED
  BY <1>1, KnowledgeHolds, PTL DEF Spec, RemovedStaysOut

-----------------------------------------------------------------------------
(* WorkspaceRealtime: the tabs listen to the server, they do not steer it. *)
LEMMA RealtimeStep == ASSUME RNext PROVE Next \/ UNCHANGED wvars
BY DEF RNext, Execute, Bridge, Fail, Next

(* The server that the tabs listen to is the one of WorkspaceMembers: what *)
(* is proved above holds of it.                                            *)
THEOREM ServerUnchangedByTabs == RInit /\ [][RNext]_vars => Spec
<1>1. RInit => Init
  BY DEF RInit
<1>2. [RNext]_vars => [Next]_wvars
  BY RealtimeStep DEF vars
<1> QED
  BY <1>1, <1>2, PTL DEF Spec

(* A row of the memberships is never deleted.                              *)
LEMMA RowsStay ==
    ASSUME IInv, [Next]_wvars, NEW u \in User, member[u].status # "none"
    PROVE  member'[u].status # "none"
<1>0. member \in [User -> RowType]
  BY DEF IInv, TypeInv
<1>1. CASE member' = member
  BY <1>1
<1>2. CASE member' # member
  <2>1. Next
    BY <1>2 DEF wvars, tables
  <2>2. PICK q \in Slot : EnsureOwnerMembership(q) \/ Authorize(q) \/ WriteMember(q) \/ GrantMembership(q)
    BY <1>2, <2>1, MemberWriters
  <2>3. CASE EnsureOwnerMembership(q)
    BY <1>0, <2>3 DEF EnsureOwnerMembership
  <2>4. CASE Authorize(q)
    <3> DEFINE actor == call[q].actor
               row == IF actor = Owner /\ ~Active(Owner) THEN [role |-> OwnerRole, status |-> "active"]
                      ELSE member[actor]
    <3>1. member' = member \/ member' = [member EXCEPT ![actor] = row]
      BY <2>4 DEF Authorize
    <3>2. row.status = "active" \/ row = member[actor]
      OBVIOUS
    <3> HIDE DEF row, actor
    <3> QED
      BY <1>0, <3>1, <3>2
  <2>5. CASE WriteMember(q)
    BY <1>0, <2>5 DEF WriteMember, Upsert
  <2>6. CASE GrantMembership(q)
    BY <1>0, <2>6 DEF GrantMembership, Upsert
  <2> QED
    BY <2>2, <2>3, <2>4, <2>5, <2>6
<1> QED
  BY <1>1, <1>2

(* A tab is in the workspace's room, or about to join it, only if its user *)
(* has a row by now, whatever was listed for the tab before.               *)
Joining(t) == sock[t] = "listed" /\ joins[t]

RoomsInv ==
    /\ sock \in [Tab -> {"off", "hello", "listed", "on"}]
    /\ joins \in [Tab -> BOOLEAN]
    /\ rooms \subseteq Tab
    /\ \A t \in Tab : t \in rooms \/ Joining(t) => member[UserOf[t]].status # "none"

LEMMA RoomsInit == TabInit => RoomsInv
BY DEF TabInit, RoomsInv, Joining

LEMMA RoomsStep == IInv /\ RoomsInv /\ [RNext]_vars => RoomsInv'
<1> SUFFICES ASSUME IInv, RoomsInv, [RNext]_vars PROVE RoomsInv'
  OBVIOUS
<1>1. \A t \in Tab : UserOf[t] \in User
  BY RealtimeAssumption
<1>2. [Next]_wvars
  BY RealtimeStep DEF vars
<1>3. \A t \in Tab : member[UserOf[t]].status # "none" => member'[UserOf[t]].status # "none"
  BY <1>1, <1>2, RowsStay
<1>4. CASE UNCHANGED <<sock, joins, rooms>>
  <2>1. \A t \in Tab : Joining(t)' = Joining(t)
    BY <1>4 DEF Joining
  <2> QED
    BY <1>3, <1>4, <2>1 DEF RoomsInv
<1>5. ASSUME NEW t \in Tab, Connect(t) PROVE RoomsInv'
  BY <1>3, <1>5 DEF Connect, RoomsInv, Joining
<1>6. ASSUME NEW t \in Tab, ListWorkspaces(t) PROVE RoomsInv'
  <2>1. /\ joins' = [joins EXCEPT ![t] = Active(UserOf[t])]
        /\ sock' = [sock EXCEPT ![t] = "listed"] /\ rooms' = rooms
    BY <1>6 DEF ListWorkspaces
  <2>2. Active(UserOf[t]) \in BOOLEAN /\ (Active(UserOf[t]) => member[UserOf[t]].status # "none")
    BY DEF Active
  <2>3. joins' \in [Tab -> BOOLEAN] /\ sock' \in [Tab -> {"off", "hello", "listed", "on"}]
    BY <2>1, <2>2 DEF RoomsInv
  <2>4. \A s \in Tab \ {t} : Joining(s)' = Joining(s)
    BY <2>1 DEF RoomsInv, Joining
  <2>5. Joining(t)' => member[UserOf[t]].status # "none"
    BY <2>1, <2>2 DEF RoomsInv, Joining
  <2> QED
    BY <1>3, <2>1, <2>3, <2>4, <2>5 DEF RoomsInv
<1>7. ASSUME NEW t \in Tab, JoinRooms(t) PROVE RoomsInv'
  <2>1. /\ sock' = [sock EXCEPT ![t] = "on"] /\ UNCHANGED joins
        /\ sock[t] = "listed"
        /\ \/ rooms' = rooms
           \/ joins[t] /\ rooms' = rooms \union {t}
    BY <1>7 DEF JoinRooms
  <2>2. \A s \in Tab : Joining(s)' => Joining(s)
    BY <2>1 DEF RoomsInv, Joining
  <2>3. \A s \in rooms' : s \in rooms \/ (s = t /\ Joining(t))
    BY <2>1 DEF Joining
  <2> QED
    BY <1>3, <1>7, <2>1, <2>2, <2>3 DEF RoomsInv
<1>8. ASSUME NEW t \in Tab, Drop(t) PROVE RoomsInv'
  <2>1. /\ sock' = [sock EXCEPT ![t] = "off"] /\ UNCHANGED joins /\ rooms' = rooms \ {t}
    BY <1>8 DEF Drop
  <2>2. \A s \in Tab : Joining(s)' => Joining(s)
    BY <2>1 DEF RoomsInv, Joining
  <2> QED
    BY <1>3, <2>1, <2>2 DEF RoomsInv
<1>9. ASSUME NEW t \in Tab, Browse(t) PROVE UNCHANGED <<sock, joins, rooms>>
  BY <1>9 DEF Browse, Refresh, Apply
<1>10. (\E q \in Slot : Execute(q) \/ Bridge(q) \/ Fail(q)) => UNCHANGED <<sock, joins, rooms>>
  BY DEF Execute, Bridge, Fail
<1>11. UNCHANGED tvars => UNCHANGED <<sock, joins, rooms>>
  BY DEF tvars
<1>12. UNCHANGED vars => UNCHANGED tvars
  BY DEF vars
<1> QED
  BY <1>4, <1>5, <1>6, <1>7, <1>8, <1>9, <1>10, <1>11, <1>12 DEF RNext, TabStep

(* The workspace's events go to nobody who has never been a member: also   *)
(* when the memberships a tab's rooms are taken from were read before the  *)
(* tab joins them (roomPolicy of workspaces-core, realtime).               *)
THEOREM RoomsAreForMembersHolds == RFairSpec => []RoomsAreForMembers
<1>1. RInit => IInv /\ RoomsInv
  BY InitInv, RoomsInit DEF RInit
<1>2. IInv /\ RoomsInv /\ [RNext]_vars => IInv' /\ RoomsInv'
  <2>1. [RNext]_vars => [Next]_wvars
    BY RealtimeStep DEF vars
  <2> QED
    BY <2>1, NextStep, RoomsStep
<1>3. RoomsInv => RoomsAreForMembers
  BY DEF RoomsInv, RoomsAreForMembers
<1> QED
  BY <1>1, <1>2, <1>3, PTL DEF RFairSpec

=============================================================================
