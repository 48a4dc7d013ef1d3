-------------------------- MODULE WorkspaceRealtime --------------------------
(***************************************************************************)
(* What the tabs of a workspace's users are told of WorkspaceMembers.      *)
(* Every service call publishes users.bootstrap.changed after its writes;  *)
(* the realtime bridge sends it to the sockets of the event's rooms, and   *)
(* a tab that hears it queues a refresh of its bootstrap payload.  Rooms   *)
(* are joined once per connection; what is sent while a tab is offline is  *)
(* lost, and reconnecting alone refreshes nothing.                         *)
(***************************************************************************)
EXTENDS WorkspaceMembers

CONSTANTS Tab, UserOf, MaxDrops

ASSUME RealtimeAssumption == UserOf \in [Tab -> User] /\ MaxDrops \in Nat

VARIABLES
    sock,      \* the tab's connection: off, hello, listed or on
    joins,     \* did the list of memberships read for it have the workspace?
    rooms,     \* the tabs in the workspace's room
    due,       \* refreshes a tab has queued
    fetching,  \* tabs whose refresh was answered and is not applied yet
    behind,    \* history: how far a tab is behind what it is to be told
    drops

tvars == <<sock, joins, rooms, due, fetching, behind, drops>>
vars == <<wvars, tvars>>

(* The sockets of user:<id> are those that got past authentication.        *)
InUserRoom(t) == sock[t] # "off"

(* The audience of the call's bootstrap event: the workspace's room for    *)
(* members, with the addressee for invitations, the actor for a decision.  *)
Audience(q) ==
    {t \in Tab :
        \/ call[q].op \in Managing /\ t \in rooms
        \/ call[q].op \in {"invite", "revoke"} /\ InUserRoom(t) /\ UserOf[t] = call[q].user
        \/ call[q].op \in {"accept", "refuse"} /\ InUserRoom(t) /\ UserOf[t] = call[q].actor}

-----------------------------------------------------------------------------
(* A tab has opened: the refresh that its boot awaits is done.             *)
TabInit ==
    /\ sock = [t \in Tab |-> "off"]
    /\ joins = [t \in Tab |-> FALSE]
    /\ rooms = {} /\ fetching = {}
    /\ due = [t \in Tab |-> 0]
    /\ behind = [t \in Tab |-> "no"]
    /\ drops = 0

Connect(t) ==
    /\ sock[t] = "off"
    /\ sock' = [sock EXCEPT ![t] = "hello"]
    /\ UNCHANGED <<joins, rooms, due, fetching, behind, drops>>

(* listActiveWorkspaceIdsByUserId; the rooms are joined when it returns.   *)
ListWorkspaces(t) ==
    /\ sock[t] = "hello"
    /\ sock' = [sock EXCEPT ![t] = "listed"]
    /\ joins' = [joins EXCEPT ![t] = Active(UserOf[t])]
    /\ UNCHANGED <<rooms, due, fetching, behind, drops>>

MutJoinRooms(t) ==
    /\ sock[t] = "listed"
    /\ sock' = [sock EXCEPT ![t] = "on"]
    /\ rooms' = rooms \union {t}
    /\ UNCHANGED <<joins, due, fetching, behind, drops>>

JoinRooms(t) ==
    /\ sock[t] = "listed"
    /\ sock' = [sock EXCEPT ![t] = "on"]
    /\ rooms' = IF joins[t] THEN rooms \union {t} ELSE rooms
    /\ UNCHANGED <<joins, due, fetching, behind, drops>>

(* Events still on their way to the tab are lost.                          *)
Drop(t) ==
    /\ sock[t] # "off" /\ drops < MaxDrops
    /\ drops' = drops + 1
    /\ sock' = [sock EXCEPT ![t] = "off"]
    /\ rooms' = rooms \ {t}
    /\ behind' = [behind EXCEPT ![t] = "no"]
    /\ \/ UNCHANGED due
       \/ due[t] > 0 /\ due' = [due EXCEPT ![t] = 0]
    /\ UNCHANGED <<joins, fetching>>

MutHear(targets) == due' = [t \in Tab |-> IF t \in targets \ fetching THEN 1 ELSE due[t]]

(* The event reaches the sockets of its rooms; each tab queues a refresh.  *)
Hear(targets) == due' = [t \in Tab |-> due[t] + IF t \in targets THEN 1 ELSE 0]

(* refreshQueue: one refresh after the other.  The payload is computed at  *)
(* one moment and applied at a later one.                                  *)
Refresh(t) ==
    /\ due[t] > 0 /\ t \notin fetching
    /\ due' = [due EXCEPT ![t] = @ - 1]
    /\ fetching' = fetching \union {t}
    /\ behind' = [behind EXCEPT ![t] = IF @ = "yes" THEN "catching" ELSE @]
    /\ UNCHANGED <<sock, joins, rooms, drops>>

Apply(t) ==
    /\ t \in fetching
    /\ fetching' = fetching \ {t}
    /\ behind' = [behind EXCEPT ![t] = IF @ = "catching" THEN "no" ELSE @]
    /\ UNCHANGED <<sock, joins, rooms, due, drops>>

Browse(t) == Refresh(t) \/ Apply(t)

TabStep(t) == Connect(t) \/ ListWorkspaces(t) \/ JoinRooms(t) \/ Drop(t) \/ Browse(t)

(* A step of the server; when it is a call's last write, the tabs in the   *)
(* rooms its event goes to are behind.                                     *)
Execute(q) ==
    /\ Serve(q)
    /\ behind' = [t \in Tab |-> IF call'[q].stage = "publish" /\ t \in Audience(q)
                                THEN "yes" ELSE behind[t]]
    /\ UNCHANGED <<sock, joins, rooms, due, fetching, drops>>

Bridge(q) ==
    /\ Publish(q)
    /\ Hear(Audience(q))
    /\ UNCHANGED <<sock, joins, rooms, fetching, behind, drops>>

(* What a call that fails before its event changed is not told to anyone.  *)
Fail(q) ==
    /\ CallFails(q)
    /\ behind' = [t \in Tab |-> IF call[q].stage = "publish" /\ t \in Audience(q)
                                THEN "no" ELSE behind[t]]
    /\ UNCHANGED <<sock, joins, rooms, due, fetching, drops>>

-----------------------------------------------------------------------------
RInit == Init /\ TabInit

RNext ==
    \/ \E q \in Slot : Execute(q) \/ Bridge(q) \/ Fail(q)
    \/ \E q \in Slot : (Requests(q) \/ Respond(q)) /\ UNCHANGED tvars
    \/ Environment /\ UNCHANGED tvars
    \/ \E t \in Tab : TabStep(t) /\ UNCHANGED wvars

(* A call that has written publishes, a tab works off what it has queued.  *)
(* Nothing obliges a user to ask or a network to come back.                *)
Fairness ==
    /\ \A q \in Slot : WF_vars(Bridge(q))
    /\ \A t \in Tab : WF_vars(Browse(t) /\ UNCHANGED wvars)

RFairSpec == RInit /\ [][RNext]_vars /\ Fairness

-----------------------------------------------------------------------------
(* What a call has changed is seen: a tab that is in the rooms of the      *)
(* call's event at its last write applies, later on, a payload computed    *)
(* after that write, although its refreshes are queued and answered while  *)
(* other calls write.  Excepted are a tab that goes offline and a call     *)
(* that fails between its last write and its event; WebBootstrap has what  *)
(* a tab does with a payload when its user has moved to another page.      *)
TabCatchesUp ==
    \A t \in Tab : behind[t] # "no" ~> behind[t] = "no"

(* The workspace's events go to nobody who has never been a member.        *)
RoomsAreForMembers ==
    \A t \in rooms : member[UserOf[t]].status # "none"

=============================================================================
