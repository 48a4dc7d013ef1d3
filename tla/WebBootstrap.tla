----------------------------- MODULE WebBootstrap -----------------------------
(***************************************************************************)
(* One browser tab's picture of who is signed in and of the workspace it   *)
(* is on: the queue of bootstrap refreshes (shell-web), the handler that   *)
(* writes their payloads to the placement context (workspaces-web) and the *)
(* auth guard (auth-web), after the app has booted.                        *)
(*                                                                         *)
(* The server is what it answers: seat[s] is the user's standing in        *)
(* workspace s, rev counts its changes, signs those of who is signed in.   *)
(* A request carries the cookies of its sending: it is answered as signed  *)
(* out if the user has signed in or out since.  The payload's list of      *)
(* workspaces and the standing in the requested one are read one after the *)
(* other.  Redirects of the route guards are moves like any other.         *)
(***************************************************************************)
EXTENDS Naturals, Sequences

CONSTANTS
    Path, Slug, NoSlug,
    Seat,            \* how a user can stand in a workspace
    SlugOf,          \* the workspace a path is in, or NoSlug
    Code,            \* how a request can fail: HTTP statuses, 0 for the network
    HandlersThrow,   \* may a registered payload handler throw?
    MaxMoves, MaxChanges, MaxFaults

ASSUME BootstrapAssumption ==
    /\ NoSlug \notin Slug /\ SlugOf \in [Path -> Slug \union {NoSlug}]
    /\ {"resolved"} \subseteq Seat /\ Seat \subseteq {"resolved", "not_found", "forbidden"}
    /\ HandlersThrow \in BOOLEAN
    /\ {MaxMoves, MaxChanges, MaxFaults} \subseteq Nat

VARIABLES
    seat, signedIn, signs, rev,   \* the server
    news,      \* events on their way to the tab
    path,      \* the router's current route
    lastSlug,  \* lastRouteWorkspaceSlug
    queued,    \* refreshes chained to the queue's promise and not begun
    flight,    \* the requests being performed
    broken,    \* was the queue's promise rejected?
    retry,     \* is a Retry button shown?
    context, status,
    session,   \* the auth guard's fetches: activeRefreshPromise
    auth,
    behind, authBehind,    \* history: why the last refresh left the tab behind
    moves, changes, faults

server == <<seat, signedIn, signs, rev, changes>>
route == <<path, lastSlug, moves>>
queue == <<queued, flight, broken, retry>>
shown == <<context, status, behind>>
guard == <<session, auth, authBehind>>
vars == <<server, news, route, queue, shown, guard, faults>>

Status == {"", "resolved", "not_found", "forbidden", "unauthenticated", "error"}
Workspaces == {s \in Slug : signedIn /\ seat[s] = "resolved"}

(* What a request that was sent with the cookies of then finds. *)
SignedIn(sent) == signedIn /\ sent.signs = signs
RevFound(sent) == IF signedIn /\ sent.signs # signs THEN sent.rev ELSE rev

Standing(s) == IF s = NoSlug THEN "" ELSE IF signedIn THEN seat[s] ELSE "unauthenticated"
Remove(k) == SubSeq(flight, 1, k - 1) \o SubSeq(flight, k + 1, Len(flight))

-----------------------------------------------------------------------------
Init ==
    /\ seat \in [Slug -> Seat] /\ signedIn \in BOOLEAN /\ signs = 0 /\ rev = 0
    /\ news = [data |-> 0, sign |-> 0]
    /\ path \in Path /\ lastSlug = SlugOf[path]
    /\ queued = 0 /\ flight = << >> /\ broken = FALSE /\ retry = FALSE
    /\ context = [slug |-> IF lastSlug \in Workspaces THEN lastSlug ELSE NoSlug,
                  permissions |-> IF lastSlug \in Workspaces THEN lastSlug ELSE NoSlug, rev |-> 0]
    /\ status = [s \in Slug |-> IF s = lastSlug THEN Standing(s) ELSE ""]
    /\ session = << >> /\ auth = [in |-> signedIn, rev |-> 0]
    /\ behind = "no" /\ authBehind = "no"
    /\ moves = 0 /\ changes = 0 /\ faults = 0

(* Something the tab is told of with users.bootstrap.changed.              *)
SeatChanges(s, standing) ==
    /\ changes < MaxChanges /\ standing # seat[s]
    /\ changes' = changes + 1 /\ rev' = rev + 1
    /\ seat' = [seat EXCEPT ![s] = standing]
    /\ news' = [news EXCEPT !.data = @ + 1]
    /\ UNCHANGED <<signedIn, signs, route, queue, shown, guard, faults>>

(* The user signs in or out here: the view then calls the guard's refresh. *)
SignsInOrOut ==
    /\ changes < MaxChanges
    /\ changes' = changes + 1 /\ rev' = rev + 1
    /\ signedIn' = ~signedIn /\ signs' = signs + 1
    /\ news' = [news EXCEPT !.sign = @ + 1]
    /\ UNCHANGED <<seat, route, queue, shown, guard, faults>>

MutMove(p) ==
    /\ p # path /\ moves < MaxMoves
    /\ moves' = moves + 1
    /\ path' = p /\ lastSlug' = p
    /\ queued' = IF SlugOf[p] # lastSlug THEN queued + 1 ELSE queued
    /\ UNCHANGED <<server, news, flight, broken, retry, shown, guard, faults>>

(* afterEach: only a move to another workspace asks for a refresh.         *)
Move(p) ==
    /\ p # path /\ moves < MaxMoves
    /\ moves' = moves + 1
    /\ path' = p /\ lastSlug' = SlugOf[p]
    /\ queued' = IF SlugOf[p] # lastSlug THEN queued + 1 ELSE queued
    /\ UNCHANGED <<server, news, flight, broken, retry, shown, guard, faults>>

-----------------------------------------------------------------------------
(* performRefresh, once the queue's promise gets there.                    *)
MutBegin ==
    /\ queued > 0 /\ ~broken
    /\ queued' = queued - 1
    /\ flight' = Append(flight, [stage |-> "asked", path |-> path, slug |-> SlugOf[path],
                                 in |-> FALSE, workspaces |-> {}, standing |-> "",
                                 rev |-> rev, signs |-> signs])
    /\ UNCHANGED <<server, news, route, broken, retry, shown, guard, faults>>

Begin ==
    /\ queued > 0 /\ ~broken /\ flight = << >>
    /\ queued' = queued - 1
    /\ flight' = Append(flight, [stage |-> "asked", path |-> path, slug |-> SlugOf[path],
                                 in |-> FALSE, workspaces |-> {}, standing |-> "",
                                 rev |-> rev, signs |-> signs])
    /\ UNCHANGED <<server, news, route, broken, retry, shown, guard, faults>>

(* The workspace contributor of /api/bootstrap lists the workspaces, then  *)
(* resolves the requested one.                                             *)
ListWorkspaces(k) ==
    /\ flight[k].stage = "asked"
    /\ flight' = [flight EXCEPT ![k] = [@ EXCEPT
                      !.stage = "listed", !.in = SignedIn(flight[k]), !.rev = RevFound(flight[k]),
                      !.workspaces = IF SignedIn(flight[k]) THEN Workspaces ELSE {}]]
    /\ UNCHANGED <<server, news, route, queued, broken, retry, shown, guard, faults>>

ResolveWorkspace(k) ==
    LET s == flight[k].slug IN
    /\ flight[k].stage = "listed"
    /\ flight' = [flight EXCEPT ![k] = [@ EXCEPT !.stage = "answered",
                      !.standing = IF s = NoSlug THEN "" ELSE IF flight[k].in THEN seat[s] ELSE "unauthenticated"]]
    /\ UNCHANGED <<server, news, route, queued, broken, retry, shown, guard, faults>>

Show(r) ==
    LET s == SlugOf[path] IN
    /\ context' = [slug |-> IF s \in r.workspaces THEN s ELSE NoSlug,
                   permissions |-> IF r.standing = "resolved" THEN r.slug ELSE NoSlug, rev |-> r.rev]
    /\ status' = IF s = NoSlug THEN status ELSE [status EXCEPT ![s] = r.standing]
    /\ behind' = "no"

MutApply(k) ==
    /\ flight[k].stage = "answered"
    /\ flight' = Remove(k)
    /\ Show(flight[k])
    /\ UNCHANGED <<server, news, route, queued, broken, retry, guard, faults>>

(* applyBootstrapPayload drops what was asked for on another path.         *)
Apply(k) ==
    /\ flight[k].stage = "answered"
    /\ flight' = Remove(k)
    /\ \/ flight[k].path = path /\ Show(flight[k])
       \/ flight[k].path # path /\ behind' = "dropped" /\ UNCHANGED <<context, status>>
    /\ UNCHANGED <<server, news, route, queued, broken, retry, guard, faults>>

(* A handler throws, before or after the workspace's own handler wrote the *)
(* context.  The payload's promise is returned without await: the catch    *)
(* clause is passed by, and the queue's promise stays rejected.            *)
HandlerThrows(k) ==
    /\ HandlersThrow /\ faults < MaxFaults /\ flight[k].stage = "answered"
    /\ faults' = faults + 1
    /\ flight' = Remove(k) /\ broken' = TRUE
    /\ \/ flight[k].path = path /\ Show(flight[k])
       \/ behind' = "dropped" /\ UNCHANGED <<context, status>>
    /\ UNCHANGED <<server, news, route, queued, retry, guard>>

(* handleBootstrapError; a Retry is offered when the network failed.  When *)
(* the server got before it failed makes no difference: a GET only reads.  *)
RefreshFails(k, code) ==
    LET s == SlugOf[path]
        told == CASE code = 401 -> "unauthenticated" [] code = 403 -> "forbidden"
                  [] code = 404 -> "not_found" [] OTHER -> "error" IN
    /\ faults < MaxFaults /\ flight[k].stage = "asked"
    /\ faults' = faults + 1
    /\ flight' = Remove(k)
    /\ \/ /\ flight[k].path = path
          /\ status' = IF s = NoSlug THEN status ELSE [status EXCEPT ![s] = told]
          /\ context' = IF told = "error" THEN context
                        ELSE [context EXCEPT !.slug = NoSlug, !.permissions = NoSlug]
       \/ flight[k].path # path /\ UNCHANGED <<context, status>>
    /\ behind' = "failed"
    /\ retry' = (retry \/ code = 0)
    /\ UNCHANGED <<server, news, route, queued, broken, guard>>

Retry ==
    /\ retry
    /\ retry' = FALSE /\ queued' = queued + 1
    /\ UNCHANGED <<server, news, route, flight, broken, shown, guard, faults>>

-----------------------------------------------------------------------------
(* The guard's refresh joins the fetch that is in flight, if there is one, *)
(* even if that one has been answered already or was sent before the user  *)
(* signed in.                                                              *)
RefreshAuth ==
    session' = IF session = << >>
               THEN <<[stage |-> "asked", in |-> FALSE, rev |-> rev, signs |-> signs,
                       joined |-> FALSE]>>
               ELSE [session EXCEPT ![1].joined = \/ session[1].stage = "answered"
                                                  \/ RevFound(session[1]) # rev]

MutHearChange ==
    /\ news.data > 0
    /\ news' = [news EXCEPT !.data = @ - 1]
    /\ queued' = queued + 1
    /\ UNCHANGED <<server, route, flight, broken, retry, shown, guard, faults>>

(* users.bootstrap.changed is heard by both.                               *)
HearChange ==
    /\ news.data > 0
    /\ news' = [news EXCEPT !.data = @ - 1]
    /\ queued' = queued + 1
    /\ RefreshAuth
    /\ UNCHANGED <<server, route, flight, broken, retry, shown, auth, authBehind, faults>>

SignedInOrOut ==
    /\ news.sign > 0
    /\ news' = [news EXCEPT !.sign = @ - 1]
    /\ RefreshAuth
    /\ UNCHANGED <<server, route, queue, shown, auth, authBehind, faults>>

AnswerSession(k) ==
    /\ session[k].stage = "asked"
    /\ session' = [session EXCEPT ![k] = [@ EXCEPT
                      !.stage = "answered", !.in = SignedIn(session[k]), !.rev = RevFound(session[k])]]
    /\ UNCHANGED <<server, news, route, queue, shown, auth, authBehind, faults>>

DropSession(k) == session' = SubSeq(session, 1, k - 1) \o SubSeq(session, k + 1, Len(session))

MutApplySession(k) ==
    /\ session[k].stage = "answered"
    /\ auth' = [in |-> session[k].in, rev |-> session[k].rev]
    /\ authBehind' = IF session[k].joined THEN "joined" ELSE "no"
    /\ DropSession(k)
    /\ UNCHANGED <<server, news, route, queue, shown, faults>>

(* notifyListeners: the app refreshes its bootstrap payload (auth.state).  *)
ApplySession(k) ==
    /\ session[k].stage = "answered"
    /\ auth' = [in |-> session[k].in, rev |-> session[k].rev]
    /\ authBehind' = IF session[k].joined THEN "joined" ELSE "no"
    /\ queued' = queued + 1
    /\ DropSession(k)
    /\ UNCHANGED <<server, news, route, flight, broken, retry, shown, faults>>

(* A transient failure keeps the state and tells nobody; another one       *)
(* leaves the user signed out here.                                        *)
SessionFails(k, transient) ==
    /\ faults < MaxFaults /\ session[k].stage = "asked"
    /\ faults' = faults + 1
    /\ authBehind' = "failed"
    /\ auth' = IF transient THEN auth ELSE [auth EXCEPT !.in = FALSE]
    /\ queued' = IF transient THEN queued ELSE queued + 1
    /\ DropSession(k)
    /\ UNCHANGED <<server, news, route, flight, broken, retry, shown>>

-----------------------------------------------------------------------------
Server == (\E s \in Slug, standing \in Seat : SeatChanges(s, standing)) \/ SignsInOrOut

User == Retry \/ \E p \in Path : Move(p)

Queue ==
    \/ Begin
    \/ \E k \in DOMAIN flight :
           ListWorkspaces(k) \/ ResolveWorkspace(k) \/ Apply(k)

Guard ==
    \/ HearChange \/ SignedInOrOut
    \/ \E k \in DOMAIN session : AnswerSession(k) \/ ApplySession(k)

Trouble ==
    \/ \E k \in DOMAIN flight : HandlerThrows(k) \/ \E code \in Code : RefreshFails(k, code)
    \/ \E k \in DOMAIN session, transient \in BOOLEAN : SessionFails(k, transient)

Next == Server \/ User \/ Queue \/ Guard \/ Trouble

Spec == Init /\ [][Next]_vars

-----------------------------------------------------------------------------
TypeOK ==
    /\ seat \in [Slug -> Seat] /\ signedIn \in BOOLEAN /\ {signs, rev} \subseteq Nat
    /\ news \in [data : Nat, sign : Nat]
    /\ path \in Path /\ lastSlug \in Slug \union {NoSlug}
    /\ queued \in Nat /\ broken \in BOOLEAN /\ retry \in BOOLEAN
    /\ flight \in Seq([stage : {"asked", "listed", "answered"}, path : Path, slug : Slug \union {NoSlug},
                       in : BOOLEAN, workspaces : SUBSET Slug, standing : Status, rev : Nat, signs : Nat])
    /\ context \in [slug : Slug \union {NoSlug}, permissions : Slug \union {NoSlug}, rev : Nat]
    /\ status \in [Slug -> Status]
    /\ session \in Seq([stage : {"asked", "answered"}, in : BOOLEAN, rev : Nat, signs : Nat,
                        joined : BOOLEAN])
    /\ auth \in [in : BOOLEAN, rev : Nat]
    /\ behind \in {"no", "failed", "dropped"} /\ authBehind \in {"no", "failed", "joined"}
    /\ {moves, changes, faults} \subseteq Nat

Quiet == queued = 0 /\ flight = << >> /\ session = << >> /\ news = [data |-> 0, sign |-> 0]

(* When everything asked for has been worked off, the guard knows whether  *)
(* the user is signed in, unless its last fetch failed, or was joined      *)
(* after it had been answered or by the refresh that follows a sign-in it  *)
(* does not know of.                                                       *)
QuietAuthIsCurrent ==
    Quiet /\ authBehind = "no" => auth = [in |-> signedIn, rev |-> rev]

(* Then the context is also that of the workspace the tab is on, however   *)
(* the user moved and the workspaces changed meanwhile, unless the last    *)
(* refresh failed, or was answered when the user had moved to another page *)
(* of the same workspace, or a handler threw and broke the queue.          *)
QuietContextIsCurrent ==
    Quiet /\ behind = "no" /\ authBehind = "no" /\ ~broken =>
        LET s == SlugOf[path] IN
        /\ context.rev = rev
        /\ context.slug = IF s \in Workspaces THEN s ELSE NoSlug
        /\ context.permissions = context.slug
        /\ s # NoSlug => status[s] = Standing(s)

(* The permissions written with a workspace are those held in it: no       *)
(* payload asked for another workspace is mixed with the current route's.  *)
PermissionsOfTheWorkspace ==
    context.slug # NoSlug => context.permissions \in {context.slug, NoSlug}

(* Refreshes that are asked for while others are in flight, fail or are    *)
(* dropped never put the context back to an older answer (refreshQueue),   *)
(* nor do overlapping fetches of the session put the guard's state back    *)
(* (activeRefreshPromise).                                                 *)
NeverGoesBack == [][context'.rev >= context.rev /\ auth'.rev >= auth.rev]_vars

=============================================================================
