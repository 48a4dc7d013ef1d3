--------------------------- MODULE WorkspaceMembers ---------------------------
(***************************************************************************)
(* The server of workspaces-core for one workspace: its memberships and    *)
(* invitations.  No service call runs in a transaction: calls interleave   *)
(* at every query, and a query that fails leaves what was written before.  *)
(*                                                                         *)
(* A user's email is the user: an invitation names the user it is sent to. *)
(* gone, granted and the fields seen and older of a call are history.      *)
(***************************************************************************)
EXTENDS Naturals, Sequences, FiniteSets

CONSTANTS
    User, Owner,
    Manager,     \* roles that may manage members and invitations
    Assignable,  \* roles an invitation or a role change may give
    OwnerRole, NoRole,
    Slot,        \* requests in flight
    MaxInvites, MaxCalls, MaxFaults

ASSUME WorkspaceAssumption ==
    /\ Owner \in User
    /\ OwnerRole \in Manager \ Assignable /\ NoRole \notin Manager \union Assignable
    /\ Assignable # {}
    /\ {MaxInvites, MaxCalls, MaxFaults} \subseteq Nat

VARIABLES
    workspace,  \* is its row there?
    member,     \* rows of workspace_memberships, one per user at most
    invite,     \* rows of workspace_invites, by id
    call,       \* the requests in flight
    calls, faults,
    gone,       \* how often a member was removed
    granted     \* invitations whose role was written to a membership

tables == <<workspace, member, invite>>
history == <<gone, granted>>
wvars == <<tables, call, calls, faults, history>>

Role == Manager \union Assignable
NoMember == [role |-> NoRole, status |-> "none"]
Ids == 1..MaxInvites

Ops == {"create", "setRole", "remove", "invite", "revoke", "accept", "refuse"}
Managing == {"setRole", "remove", "invite", "revoke"}
Idle == [op |-> "none", stage |-> "idle", actor |-> Owner, user |-> Owner, id |-> 0,
         role |-> NoRole, found |-> FALSE, todo |-> {}, seen |-> 0, older |-> {},
         answer |-> "none"]

Active(u) == member[u].status = "active"
Pending == {i \in DOMAIN invite : invite[i].status = "pending"}
PendingOf(u) == {i \in Pending : invite[i].email = u}

Goto(q, stage) == call' = [call EXCEPT ![q].stage = stage]
Finish(q, a) ==
    call' = [call EXCEPT ![q] = [Idle EXCEPT !.op = call[q].op, !.stage = "done", !.answer = a,
                                  !.actor = call[q].actor,
                                  !.seen = IF a = "ok" THEN call[q].seen ELSE 0,
                                  !.older = IF a = "ok" THEN call[q].older ELSE {}]]
At(q, ops, stage) == call[q].op \in ops /\ call[q].stage = stage

MutUpsert(u, found, role, status) ==
    IF member[u].status # "none" THEN member
    ELSE [member EXCEPT ![u] = [role |-> role, status |-> status]]

MutSwapUpsert(u, found, role, status) ==
    IF ~found /\ member[u].status # "none" THEN member
    ELSE [member EXCEPT ![u] = [role |-> status, status |-> role]]

(* upsertMembership and ensureOwnerMembership: a row that was not found is *)
(* inserted, and an insert that meets a row by now is dropped.             *)
Upsert(u, found, role, status) ==
    IF ~found /\ member[u].status # "none" THEN member
    ELSE [member EXCEPT ![u] = [role |-> role, status |-> status]]

SetInvite(i, status) == invite' = [invite EXCEPT ![i].status = status]

-----------------------------------------------------------------------------
(* The workspace is still to be created, or there with some members, some  *)
(* past members and some invitations sent: calls are bounded from then on. *)
Init ==
    /\ workspace \in BOOLEAN
    /\ member \in [User -> {NoMember} \union [role : Role, status : {"active", "revoked"}]]
    /\ \A u \in User : \/ u # Owner /\ member[u].role \in Assignable \union {NoRole}
                       \/ u = Owner /\ workspace /\ member[u] = [role |-> OwnerRole, status |-> "active"]
                       \/ u = Owner /\ ~workspace /\ member[u] = NoMember
    /\ \E n \in 0..MaxInvites :
           invite \in [1..n -> [email : User, role : Assignable, status : {"pending"}, late : {FALSE}]]
    /\ ~workspace => invite = << >> /\ member = [u \in User |-> NoMember]
    /\ call = [q \in Slot |-> Idle]
    /\ calls = 0 /\ faults = 0
    /\ gone = [u \in User |-> 0]
    /\ granted = {}

(* A request reaches the server.  Invitations are answered by whoever      *)
(* holds the link, members and invitations managed by whoever tries.       *)
Arrive(q, op, actor, u, i, role) ==
    /\ call[q].stage = "idle" /\ calls < MaxCalls
    /\ calls' = calls + 1
    /\ call' = [call EXCEPT ![q] =
           [Idle EXCEPT !.op = op, !.actor = actor, !.user = u, !.id = i, !.role = role,
                        !.stage = IF op = "create" THEN "insert"
                                  ELSE IF op \in Managing THEN "authorize" ELSE "read",
                        !.seen = IF op \in {"setRole", "accept"} THEN gone[u] ELSE 0,
                        !.older = IF op = "invite" THEN PendingOf(u)
                                  ELSE IF op = "accept" THEN Pending ELSE {}]]
    /\ UNCHANGED <<tables, faults, history>>

(* createWorkspaceForAuthenticatedUser: the row, then the membership.      *)
InsertWorkspace(q) ==
    /\ At(q, {"create"}, "insert")
    /\ workspace' = TRUE
    /\ Goto(q, "own")
    /\ UNCHANGED <<member, invite, calls, faults, history>>

EnsureOwnerMembership(q) ==
    /\ At(q, {"create"}, "own")
    /\ member' = [member EXCEPT ![Owner] = [role |-> OwnerRole, status |-> "active"]]
    /\ Finish(q, "created")
    /\ UNCHANGED <<workspace, invite, calls, faults, history>>

MutAuthorize(q) ==
    LET actor == call[q].actor IN
    /\ At(q, Managing, "authorize")
    /\ \/ ~workspace /\ Finish(q, "not-found")
       \/ workspace /\ ~Active(actor) /\ Finish(q, "no-access")
       \/ workspace /\ Active(actor) /\ member[actor].role \notin Manager /\ Finish(q, "not-permitted")
       \/ workspace /\ Active(actor) /\ member[actor].role \in Manager /\ Goto(q, "read")
    /\ UNCHANGED <<tables, calls, faults, history>>

(* resolveWorkspaceContextForUserBySlug, then the action's permission.  An *)
(* owner without an active membership gets it back first.                  *)
Authorize(q) ==
    LET actor == call[q].actor
        heals == actor = Owner /\ ~Active(Owner)
        row == IF heals THEN [role |-> OwnerRole, status |-> "active"] ELSE member[actor] IN
    /\ At(q, Managing, "authorize")
    /\ IF workspace THEN member' = [member EXCEPT ![actor] = row] ELSE UNCHANGED member
    /\ \/ ~workspace /\ Finish(q, "not-found")
       \/ workspace /\ row.status # "active" /\ Finish(q, "no-access")
       \/ workspace /\ row.status = "active" /\ row.role \notin Manager /\ Finish(q, "not-permitted")
       \/ workspace /\ row.status = "active" /\ row.role \in Manager /\ Goto(q, "read")
    /\ UNCHANGED <<workspace, invite, calls, faults, history>>

MutReadMember(q) ==
    LET row == member[call[q].user] IN
    /\ At(q, {"setRole", "remove"}, "read")
    /\ \/ row.status = "none" /\ Finish(q, "not-found")
       \/ /\ row.status # "none"
          /\ call[q].user = Owner \/ row.role = OwnerRole
          /\ Finish(q, "conflict")
       \/ /\ row.status # "none" /\ call[q].user # Owner /\ row.role # OwnerRole
          /\ call' = [call EXCEPT ![q].stage = "write",
                                  ![q].role = IF call[q].op = "remove" THEN row.role ELSE @]
    /\ UNCHANGED <<tables, calls, faults, history>>

(* updateMemberRole and removeMember read the member; removeMember will    *)
(* write the role it reads here.                                           *)
ReadMember(q) ==
    LET row == member[call[q].user] IN
    /\ At(q, {"setRole", "remove"}, "read")
    /\ \/ row.status # "active" /\ Finish(q, "not-found")
       \/ /\ row.status = "active"
          /\ call[q].user = Owner \/ row.role = OwnerRole
          /\ Finish(q, "conflict")
       \/ /\ row.status = "active" /\ call[q].user # Owner /\ row.role # OwnerRole
          /\ call' = [call EXCEPT ![q].stage = "write",
                                  ![q].role = IF call[q].op = "remove" THEN row.role ELSE @]
    /\ UNCHANGED <<tables, calls, faults, history>>

WriteMember(q) ==
    LET u == call[q].user IN
    /\ At(q, {"setRole", "remove"}, "write")
    /\ member' = Upsert(u, TRUE, call[q].role,
                        IF call[q].op = "remove" THEN "revoked" ELSE "active")
    /\ gone' = IF call[q].op = "remove" THEN [gone EXCEPT ![u] = @ + 1] ELSE gone
    /\ Goto(q, "publish")
    /\ UNCHANGED <<workspace, invite, calls, faults, granted>>

-----------------------------------------------------------------------------
MutFindOlderInvites(q) ==
    /\ At(q, {"invite"}, "read")
    /\ call' = [call EXCEPT ![q].stage = "expire",
                    ![q].todo = {i \in PendingOf(call[q].user) : invite[i].late}]
    /\ UNCHANGED <<tables, calls, faults, history>>

(* expirePendingByWorkspaceIdAndEmail queries, then patches row by row.    *)
FindOlderInvites(q) ==
    /\ At(q, {"invite"}, "read")
    /\ call' = [call EXCEPT ![q].stage = "expire", ![q].todo = PendingOf(call[q].user)]
    /\ UNCHANGED <<tables, calls, faults, history>>

ExpireOlderInvite(q, i) ==
    /\ At(q, {"invite"}, "expire") /\ i \in call[q].todo
    /\ SetInvite(i, "expired")
    /\ call' = [call EXCEPT ![q].todo = @ \ {i}]
    /\ UNCHANGED <<workspace, member, calls, faults, history>>

InsertInvite(q) ==
    /\ At(q, {"invite"}, "expire") /\ call[q].todo = {}
    /\ invite' = Append(invite, [email |-> call[q].user, role |-> call[q].role,
                                 status |-> "pending", late |-> FALSE])
    /\ call' = [call EXCEPT ![q].stage = "publish", ![q].id = Len(invite) + 1]
    /\ UNCHANGED <<workspace, member, calls, faults, history>>

MutReadInvite(q) ==
    LET i == call[q].id IN
    /\ At(q, {"revoke", "accept", "refuse"}, "read")
    /\ \/ invite[i].email # call[q].actor /\ Finish(q, "wrong-email")
       \/ /\ invite[i].email = call[q].actor
          /\ call' = [call EXCEPT ![q].role = invite[i].role,
                  ![q].stage = IF invite[i].late THEN "late"
                               ELSE IF call[q].op = "accept" THEN "find" ELSE "write"]
    /\ UNCHANGED <<tables, calls, faults, history>>

(* findPendingByIdForWorkspace, findPendingByTokenHash and the checks of   *)
(* requirePendingInviteForUserByToken and revokeExpiredInviteAndThrow.     *)
ReadInvite(q) ==
    LET i == call[q].id IN
    /\ At(q, {"revoke", "accept", "refuse"}, "read")
    /\ \/ i \notin Pending /\ Finish(q, "not-found")
       \/ i \in Pending /\ call[q].op = "revoke" /\ Goto(q, "write")
       \/ /\ i \in Pending /\ call[q].op # "revoke" /\ invite[i].email # call[q].actor
          /\ Finish(q, "wrong-email")
       \/ /\ i \in Pending /\ call[q].op # "revoke" /\ invite[i].email = call[q].actor
          /\ call' = [call EXCEPT ![q].role = invite[i].role,
                  ![q].stage = IF invite[i].late THEN "late"
                               ELSE IF call[q].op = "accept" THEN "find" ELSE "write"]
    /\ UNCHANGED <<tables, calls, faults, history>>

RevokeLateInvite(q) ==
    /\ At(q, {"accept", "refuse"}, "late")
    /\ SetInvite(call[q].id, "revoked")
    /\ Finish(q, "expired")
    /\ UNCHANGED <<workspace, member, calls, faults, history>>

(* revokeById, for revokeInvite and for refuseInviteByToken.               *)
RevokeById(q) ==
    /\ At(q, {"revoke", "refuse"}, "write")
    /\ SetInvite(call[q].id, "revoked")
    /\ Goto(q, "publish")
    /\ UNCHANGED <<workspace, member, calls, faults, history>>

FindMembership(q) ==
    /\ At(q, {"accept"}, "find")
    /\ call' = [call EXCEPT ![q].stage = "grant", ![q].found = member[call[q].actor].status # "none"]
    /\ UNCHANGED <<tables, calls, faults, history>>

GrantMembership(q) ==
    /\ At(q, {"accept"}, "grant")
    /\ member' = Upsert(call[q].actor, call[q].found, call[q].role, "active")
    /\ granted' = granted \union {call[q].id}
    /\ Goto(q, "mark")
    /\ UNCHANGED <<workspace, invite, calls, faults, gone>>

MarkAccepted(q) ==
    /\ At(q, {"accept"}, "mark")
    /\ SetInvite(call[q].id, "accepted")
    /\ Goto(q, "publish")
    /\ UNCHANGED <<workspace, member, calls, faults, history>>

-----------------------------------------------------------------------------
(* The method has resolved: its events are published before the answer.    *)
Publish(q) ==
    /\ call[q].stage = "publish"
    /\ Finish(q, "ok")
    /\ UNCHANGED <<tables, calls, faults, history>>

Respond(q) ==
    /\ call[q].stage = "done"
    /\ call' = [call EXCEPT ![q] = Idle]
    /\ UNCHANGED <<tables, calls, faults, history>>

(* A query fails and the call is answered with an error.  After the last   *)
(* write those that manage list the members or invitations, and look up    *)
(* the addressee for an event.                                             *)
CallFails(q) ==
    /\ call[q].stage \notin {"idle", "done"} /\ faults < MaxFaults
    /\ call[q].stage = "publish" => call[q].op \in Managing
    /\ faults' = faults + 1
    /\ Finish(q, "error")
    /\ UNCHANGED <<tables, calls, history>>

InviteGrowsLate(i) ==
    /\ i \in Pending /\ ~invite[i].late
    /\ invite' = [invite EXCEPT ![i].late = TRUE]
    /\ UNCHANGED <<workspace, member, call, calls, faults, history>>

Serve(q) ==
    \/ InsertWorkspace(q) \/ EnsureOwnerMembership(q) \/ Authorize(q)
    \/ ReadMember(q) \/ WriteMember(q)
    \/ FindOlderInvites(q) \/ (\E i \in Ids : ExpireOlderInvite(q, i)) \/ InsertInvite(q)
    \/ ReadInvite(q) \/ RevokeLateInvite(q) \/ RevokeById(q)
    \/ FindMembership(q) \/ GrantMembership(q) \/ MarkAccepted(q)

(* Every invitation asked for has an id left. *)
Room == Len(invite) + Cardinality({q \in Slot : call[q].op = "invite" /\ call[q].id = 0
                                                  /\ call[q].stage # "done"}) < MaxInvites

Requests(q) ==
    \/ ~workspace /\ Arrive(q, "create", Owner, Owner, 0, NoRole)
    \/ \E actor, u \in User, role \in Assignable :
           workspace /\ \/ Arrive(q, "remove", actor, u, 0, NoRole)
                        \/ Arrive(q, "setRole", actor, u, 0, role)
                        \/ Room /\ Arrive(q, "invite", actor, u, 0, role)
    \/ \E actor \in User, i \in DOMAIN invite :
           \/ Arrive(q, "revoke", actor, invite[i].email, i, NoRole)
           \/ Arrive(q, "accept", actor, actor, i, NoRole)
           \/ Arrive(q, "refuse", actor, actor, i, NoRole)

Environment == \E i \in Ids : InviteGrowsLate(i)

Next ==
    \/ \E q \in Slot : Requests(q) \/ Serve(q) \/ Publish(q) \/ Respond(q) \/ CallFails(q)
    \/ Environment

Spec == Init /\ [][Next]_wvars

-----------------------------------------------------------------------------
TypeOK ==
    /\ workspace \in BOOLEAN
    /\ member \in [User -> [role : Role \union {NoRole}, status : {"none", "active", "revoked"}]]
    /\ invite \in Seq([email : User, role : Assignable, late : BOOLEAN,
                       status : {"pending", "accepted", "revoked", "expired"}])
    /\ call \in [Slot -> [op : Ops \union {"none"},
                          stage : {"idle", "insert", "own", "authorize", "read", "write", "expire",
                                   "late", "find", "grant", "mark", "publish", "done"},
                          actor : User, user : User, id : Nat, role : Role \union {NoRole},
                          found : BOOLEAN, todo : SUBSET Nat, seen : Nat, older : SUBSET Nat,
                          answer : {"none", "created", "ok", "error", "not-found", "no-access",
                                    "not-permitted", "conflict", "wrong-email", "expired"}]]
    /\ calls \in Nat /\ faults \in Nat
    /\ gone \in [User -> Nat] /\ granted \subseteq Nat

(* Who was removed comes back only by accepting an invitation, or by a     *)
(* role change that was asked for before the removal was written: never by *)
(* one asked for afterwards (updateMemberRole, removeMember).              *)
RemovedStaysOut ==
    [][\A u \in User \ {Owner} : member[u].status = "revoked" /\ member'[u].status = "active" =>
          \E q \in Slot :
              \/ At(q, {"accept"}, "grant") /\ call[q].actor = u
              \/ At(q, {"setRole"}, "write") /\ call[q].user = u /\ call[q].seen < gone[u]]_wvars

(* An invitation gives its role only to who asks for it while it is        *)
(* pending: acceptances, refusals, revocations and newer invitations all   *)
(* patch it by id, and none of them makes it good again for a later call.  *)
HandledInviteGrantsNothing ==
    \A q \in Slot : call[q].op = "accept" /\ call[q].stage \in {"grant", "mark", "publish"} =>
        call[q].id \in call[q].older

(* Who is told that the invitation is accepted is a member, unless removed *)
(* since asking: also when the insert met a row of another acceptance, and *)
(* when the row was there from an earlier membership.                      *)
AcceptedIsIn ==
    \A q \in Slot : call[q].op = "accept" /\ call[q].answer = "ok" =>
        Active(call[q].actor) \/ gone[call[q].actor] > call[q].seen

(* An invitation is marked accepted only when its addressee has been given *)
(* a membership, whatever fails between the two writes.                    *)
AcceptedIsMember ==
    \A i \in DOMAIN invite : invite[i].status = "accepted" =>
        i \in granted /\ member[invite[i].email].status # "none"

(* A new invitation replaces those that were pending for the same address  *)
(* when it was asked for.                                                  *)
NewInviteReplacesOlder ==
    \A q \in Slot : call[q].op = "invite" /\ call[q].answer = "ok" =>
        call[q].older \intersect Pending = {}

(* The owner is let into the workspace, also when its creation stopped     *)
(* before the owner's membership was written.                              *)
OwnerHasAccess ==
    \A q \in Slot : call[q].actor = Owner => call[q].answer # "no-access"

=============================================================================
