-------------------------- MODULE WebBootstrapProofs --------------------------
(***************************************************************************)
(* What WebBootstrap does for any paths, workspaces, moves and failures.   *)
(*                                                                         *)
(* The queue performs one refresh at a time and the guard one fetch.       *)
(* GuardInv and ContextInv say what an answer under way is worth when       *)
(* nothing else is to come: every change of the server puts an event on    *)
(* its way, every event a fetch and every fetch a refresh, so that an      *)
(* answer that is older than the last change is never the last.            *)
(***************************************************************************)
EXTENDS WebBootstrap, SequenceTheorems, TLAPS

FlightType == [stage : {"asked", "listed", "answered"}, path : Path, slug : Slug \union {NoSlug},
               in : BOOLEAN, workspaces : SUBSET Slug, standing : Status, rev : Nat,
               signs : Nat]
SessionType == [stage : {"asked", "answered"}, in : BOOLEAN, rev : Nat, signs : Nat,
                joined : BOOLEAN]

TypeInv ==
    /\ TypeOK
    /\ flight \in Seq(FlightType) /\ Len(flight) <= 1
    /\ session \in Seq(SessionType) /\ Len(session) <= 1

RouteInv ==
    /\ lastSlug = SlugOf[path]
    /\ \A k \in DOMAIN flight : flight[k].slug = SlugOf[flight[k].path]

NoNews == news.data = 0 /\ news.sign = 0

(* A request knows of all changes up to its sending, at least: the user     *)
(* who signed in or out since was one change more.                         *)
OnTime(r) == r.rev <= rev /\ (r.stage = "asked" /\ r.signs # signs => r.rev < rev)

(* What the guard is told, and what it has asked for.                      *)
GuardInv ==
    /\ NoNews /\ session = << >> /\ authBehind = "no" => auth.in = signedIn /\ auth.rev = rev
    /\ auth.rev <= rev
    /\ \A k \in DOMAIN session :
           /\ auth.rev <= session[k].rev /\ OnTime(session[k])
           /\ NoNews /\ ~session[k].joined =>
                  IF session[k].stage = "asked" THEN RevFound(session[k]) = rev
                  ELSE session[k].in = signedIn /\ session[k].rev = rev

(* Nothing will ask for another refresh, and none is waiting.              *)
Last == NoNews /\ session = << >> /\ authBehind = "no" /\ queued = 0 /\ ~broken

IsCurrent ==
    LET s == SlugOf[path] IN
    /\ context.rev = rev
    /\ context.slug = IF s \in Workspaces THEN s ELSE NoSlug
    /\ context.permissions = context.slug
    /\ s # NoSlug => status[s] = Standing(s)

ContextInv ==
    Last =>
        /\ flight = << >> /\ behind = "no" => IsCurrent
        /\ \A k \in DOMAIN flight :
               /\ flight[k].slug = SlugOf[path]
               /\ flight[k].stage = "asked" => RevFound(flight[k]) = rev
               /\ flight[k].stage # "asked" =>
                      /\ flight[k].rev = rev /\ flight[k].in = signedIn
                      /\ flight[k].workspaces = Workspaces
               /\ flight[k].stage = "answered" => flight[k].standing = Standing(flight[k].slug)

RevInv ==
    /\ context.rev <= rev
    /\ \A k \in DOMAIN flight : context.rev <= flight[k].rev /\ OnTime(flight[k])

QueueInv == RouteInv /\ ContextInv /\ RevInv /\ PermissionsOfTheWorkspace

IInv == TypeInv /\ GuardInv /\ QueueInv

-----------------------------------------------------------------------------
LEMMA OneOnly ==
    ASSUME NEW S, NEW q \in Seq(S), Len(q) <= 1, NEW k \in DOMAIN q
    PROVE  /\ k = 1 /\ Len(q) = 1 /\ DOMAIN q = {1} /\ q[1] \in S /\ q # << >>
           /\ SubSeq(q, 1, k - 1) \o SubSeq(q, k + 1, Len(q)) = << >>
<1>1. Len(q) \in Nat /\ DOMAIN q = 1..Len(q)
  BY LenProperties
<1>2. k = 1 /\ Len(q) = 1 /\ DOMAIN q = {1}
  BY <1>1
<1>3. q[1] \in S /\ q # << >>
  BY <1>2, ElementOfSeq
<1>4. SubSeq(q, 1, 0) = << >> /\ SubSeq(q, 2, 1) = << >>
  BY SubSeqEmpty
<1> QED
  BY <1>2, <1>3, <1>4

LEMMA OneChanged ==
    ASSUME NEW S, NEW q \in Seq(S), Len(q) <= 1, NEW k \in DOMAIN q, NEW e \in S
    PROVE  LET p == [q EXCEPT ![k] = e]
           IN  p \in Seq(S) /\ Len(p) = 1 /\ DOMAIN p = {1} /\ p[1] = e /\ p # << >>
<1>1. k = 1 /\ Len(q) = 1 /\ DOMAIN q = {1}
  BY OneOnly
<1>2. [q EXCEPT ![1] = e] \in Seq(S) /\ Len([q EXCEPT ![1] = e]) = 1 /\ [q EXCEPT ![1] = e][1] = e
  BY <1>1, ExceptSeq
<1>3. DOMAIN [q EXCEPT ![1] = e] = {1} /\ [q EXCEPT ![1] = e] # << >>
  BY <1>1, <1>2
<1> QED
  BY <1>1, <1>2, <1>3

LEMMA Single ==
    ASSUME NEW S, NEW e \in S
    PROVE  /\ Append(<< >>, e) = <<e>> /\ <<e>> \in Seq(S) /\ Len(<<e>>) = 1
           /\ DOMAIN <<e>> = {1} /\ <<e>>[1] = e
OBVIOUS

LEMMA NothingAtAll ==
    ASSUME NEW S
    PROVE  << >> \in Seq(S) /\ Len(<< >>) = 0 /\ DOMAIN << >> = {}
OBVIOUS

-----------------------------------------------------------------------------
(* What an action leaves alone keeps its part of the invariant.            *)
LEMMA GuardFrame ==
    ASSUME GuardInv, UNCHANGED <<news, session, authBehind, auth, signedIn, signs, rev>>
    PROVE  GuardInv'
BY DEF GuardInv, NoNews, OnTime, RevFound

(* What a request finds is no older than its sending, and it is the latest *)
(* only for a request that finds who is signed in.                         *)
LEMMA Found ==
    ASSUME TypeInv, NEW r, r.rev \in Nat, OnTime(r), r.stage = "asked"
    PROVE  /\ RevFound(r) \in Nat /\ r.rev <= RevFound(r) /\ RevFound(r) <= rev
           /\ RevFound(r) = rev => SignedIn(r) = signedIn
<1>1. rev \in Nat /\ signedIn \in BOOLEAN
  BY DEF TypeInv, TypeOK
<1>2. CASE signedIn /\ r.signs # signs
  <2>1. RevFound(r) = r.rev /\ ~SignedIn(r)
    BY <1>2 DEF RevFound, SignedIn
  <2>2. r.rev < rev
    BY <1>2 DEF OnTime
  <2> QED
    BY <1>1, <2>1, <2>2
<1>3. CASE ~(signedIn /\ r.signs # signs)
  <2>1. RevFound(r) = rev
    BY <1>3 DEF RevFound
  <2>2. SignedIn(r) = signedIn
    BY <1>1, <1>3 DEF SignedIn
  <2>3. r.rev <= rev
    BY DEF OnTime
  <2> QED
    BY <1>1, <2>1, <2>2, <2>3
<1> QED
  BY <1>2, <1>3

LEMMA InitIInv == Init => IInv
<1> SUFFICES ASSUME Init PROVE IInv
  OBVIOUS
<1>1. flight \in Seq(FlightType) /\ Len(flight) = 0 /\ DOMAIN flight = {}
      /\ session \in Seq(SessionType) /\ Len(session) = 0 /\ DOMAIN session = {}
  BY NothingAtAll DEF Init
<1>2. TypeOK
  <2>1. path \in Path /\ lastSlug = SlugOf[path] /\ lastSlug \in Slug \union {NoSlug}
    BY BootstrapAssumption DEF Init
  <2>2. status \in [Slug -> Status]
    BY BootstrapAssumption DEF Init, Status, Standing
  <2>3. context \in [slug : Slug \union {NoSlug}, permissions : Slug \union {NoSlug}, rev : Nat]
    BY <2>1 DEF Init
  <2>4. news \in [data : Nat, sign : Nat] /\ auth \in [in : BOOLEAN, rev : Nat]
    BY DEF Init
  <2> QED
    BY <1>1, <2>1, <2>2, <2>3, <2>4 DEF Init, TypeOK, FlightType, SessionType
<1>3. GuardInv
  <2>1. auth.in = signedIn /\ auth.rev = rev /\ rev = 0
    BY DEF Init
  <2> QED
    BY <1>1, <2>1 DEF GuardInv
<1>4. IsCurrent
  <2>1. context.rev = rev /\ context.permissions = context.slug
        /\ context.slug = IF SlugOf[path] \in Workspaces THEN SlugOf[path] ELSE NoSlug
    BY DEF Init
  <2>2. SlugOf[path] # NoSlug => status[SlugOf[path]] = Standing(SlugOf[path])
    BY BootstrapAssumption DEF Init
  <2> QED
    BY <2>1, <2>2 DEF IsCurrent
<1>5. QueueInv
  <2>1. lastSlug = SlugOf[path] /\ context.rev = 0 /\ rev = 0
    BY DEF Init
  <2>2. PermissionsOfTheWorkspace
    BY <1>4 DEF IsCurrent, PermissionsOfTheWorkspace
  <2> QED
    BY <1>1, <1>4, <2>1, <2>2 DEF QueueInv, RouteInv, ContextInv, RevInv
<1> QED
  BY <1>1, <1>2, <1>3, <1>5 DEF IInv, TypeInv

LEMMA Typed ==
    ASSUME TypeInv
    PROVE  /\ news = [data |-> news.data, sign |-> news.sign] /\ news.data \in Nat /\ news.sign \in Nat
           /\ rev \in Nat /\ signs \in Nat /\ queued \in Nat /\ context.rev \in Nat /\ auth.rev \in Nat
           /\ \A k \in DOMAIN flight : flight[k] \in FlightType /\ flight[k].rev \in Nat
           /\ \A k \in DOMAIN session : session[k] \in SessionType /\ session[k].rev \in Nat
<1>1. /\ \A k \in DOMAIN flight : flight[k] \in FlightType
      /\ \A k \in DOMAIN session : session[k] \in SessionType
  BY ElementOfSeq, LenProperties DEF TypeInv
<1>2. /\ \A k \in DOMAIN flight : flight[k].rev \in Nat
      /\ \A k \in DOMAIN session : session[k].rev \in Nat
  BY <1>1 DEF FlightType, SessionType
<1>3. news \in [data : Nat, sign : Nat] /\ rev \in Nat /\ signs \in Nat /\ queued \in Nat
      /\ context \in [slug : Slug \union {NoSlug}, permissions : Slug \union {NoSlug}, rev : Nat]
      /\ auth \in [in : BOOLEAN, rev : Nat]
  BY DEF TypeInv, TypeOK
<1> QED
  BY <1>1, <1>2, <1>3

(* Either kind of event is put on its way.                                 *)
LEMMA NewsComes ==
    ASSUME IInv, rev' = rev + 1, signs' \in Nat, UNCHANGED <<route, queue, shown, guard>>,
           NEW d \in {0, 1}, news' = [data |-> news.data + d, sign |-> news.sign + 1 - d]
    PROVE  GuardInv' /\ QueueInv' /\ news' \in [data : Nat, sign : Nat]
<1> USE DEF route, queue, shown, guard
<1>1. TypeInv
  BY DEF IInv
<1>2. ~NoNews' /\ news' \in [data : Nat, sign : Nat]
  BY <1>1, Typed DEF NoNews
<1>3. GuardInv'
  BY <1>1, <1>2, Typed DEF IInv, GuardInv, OnTime
<1>4. QueueInv'
  BY <1>1, <1>2, Typed DEF IInv, QueueInv, RouteInv, ContextInv, Last, RevInv, OnTime,
     PermissionsOfTheWorkspace
<1> QED
  BY <1>2, <1>3, <1>4

LEMMA SeatChangesStep ==
    ASSUME IInv, NEW s \in Slug, NEW standing \in Seat, SeatChanges(s, standing)
    PROVE  IInv'
<1> USE DEF SeatChanges
<1>1. news' = [data |-> news.data + 1, sign |-> news.sign + 1 - 1]
  <2>1. TypeInv /\ news' = [news EXCEPT !.data = @ + 1]
    BY DEF IInv
  <2> QED
    BY <2>1, Typed
<1>2. GuardInv' /\ QueueInv' /\ news' \in [data : Nat, sign : Nat]
  <2>1. signs' \in Nat
    BY DEF IInv, TypeInv, TypeOK
  <2> QED
    BY <1>1, <2>1, NewsComes
<1>3. TypeOK'
  <2>1. seat' \in [Slug -> Seat] /\ rev' \in Nat /\ signs' \in Nat /\ changes' \in Nat
    BY DEF IInv, TypeInv, TypeOK
  <2> QED
    BY <1>2, <2>1 DEF IInv, TypeInv, TypeOK, route, queue, shown, guard
<1>4. TypeInv'
  BY <1>3 DEF IInv, TypeInv, queue, guard
<1> QED
  BY <1>2, <1>4 DEF IInv

LEMMA SignsInOrOutStep ==
    ASSUME IInv, SignsInOrOut
    PROVE  IInv'
<1> USE DEF SignsInOrOut
<1>1. news' = [data |-> news.data + 0, sign |-> news.sign + 1 - 0]
  <2>1. TypeInv /\ news' = [news EXCEPT !.sign = @ + 1]
    BY DEF IInv
  <2> QED
    BY <2>1, Typed
<1>2. GuardInv' /\ QueueInv' /\ news' \in [data : Nat, sign : Nat]
  <2>1. signs' \in Nat
    BY DEF IInv, TypeInv, TypeOK
  <2> QED
    BY <1>1, <2>1, NewsComes
<1>3. TypeOK'
  <2>1. signedIn' \in BOOLEAN /\ rev' \in Nat /\ signs' \in Nat /\ changes' \in Nat
    BY DEF IInv, TypeInv, TypeOK
  <2> QED
    BY <1>2, <2>1 DEF IInv, TypeInv, TypeOK, route, queue, shown, guard
<1>4. TypeInv'
  BY <1>3 DEF IInv, TypeInv, queue, guard
<1> QED
  BY <1>2, <1>4 DEF IInv

(* A move inside a workspace leaves what is shown and asked for as good as *)
(* it was; one to another workspace asks for a refresh.                    *)
LEMMA MoveStep ==
    ASSUME IInv, NEW p \in Path, Move(p)
    PROVE  IInv'
<1> USE DEF Move, server, shown, guard
<1>1. TypeInv'
  <2>1. path' \in Path /\ lastSlug' \in Slug \union {NoSlug} /\ moves' \in Nat /\ queued' \in Nat
    BY BootstrapAssumption DEF IInv, TypeInv, TypeOK
  <2> QED
    BY <2>1 DEF IInv, TypeInv, TypeOK
<1>2. GuardInv'
  BY GuardFrame DEF IInv
<1>3. Last' => Last /\ SlugOf[path'] = SlugOf[path]
  <2>1. queued \in Nat /\ lastSlug = SlugOf[path]
    BY DEF IInv, TypeInv, TypeOK, QueueInv, RouteInv
  <2> QED
    BY <2>1 DEF Last, NoNews
<1>4. ContextInv'
  <2> SUFFICES ASSUME Last' PROVE ContextInv'
    BY DEF ContextInv
  <2>1. Last /\ SlugOf[path'] = SlugOf[path]
    BY <1>3
  <2>2. IsCurrent => IsCurrent'
    BY <2>1 DEF IsCurrent, Workspaces, Standing
  <2> QED
    BY <2>1, <2>2 DEF IInv, QueueInv, ContextInv, Workspaces, Standing, RevFound
<1>5. QueueInv'
  BY <1>4 DEF IInv, QueueInv, RouteInv, RevInv, OnTime, PermissionsOfTheWorkspace
<1> QED
  BY <1>1, <1>2, <1>5 DEF IInv

LEMMA RetryStep ==
    ASSUME IInv, Retry
    PROVE  IInv'
<1> USE DEF Retry, server, route, shown, guard
<1>1. queued \in Nat /\ queued' \in Nat /\ retry' \in BOOLEAN
  <2>1. queued \in Nat /\ queued' = queued + 1
    BY DEF IInv, TypeInv, TypeOK
  <2>2. queued' \in Nat
    BY <2>1
  <2>3. retry' \in BOOLEAN
    OBVIOUS
  <2> QED
    BY <2>1, <2>2, <2>3
<1>2. TypeInv'
  BY <1>1 DEF IInv, TypeInv, TypeOK
<1>3. GuardInv'
  BY GuardFrame DEF IInv
<1>4. ~Last'
  BY <1>1 DEF Last
<1>5. QueueInv'
  BY <1>4 DEF IInv, QueueInv, RouteInv, ContextInv, RevInv, OnTime, PermissionsOfTheWorkspace
<1> QED
  BY <1>2, <1>3, <1>5 DEF IInv

-----------------------------------------------------------------------------
(* The steps of a refresh.  They leave the server and the guard alone.     *)
LEMMA BeginStep ==
    ASSUME IInv, Begin
    PROVE  IInv'
<1> DEFINE e == [stage |-> "asked", path |-> path, slug |-> SlugOf[path],
                 in |-> FALSE, workspaces |-> {}, standing |-> "",
                 rev |-> rev, signs |-> signs]
<1>1. /\ queued > 0 /\ flight = << >> /\ queued' = queued - 1 /\ flight' = Append(<< >>, e)
      /\ UNCHANGED <<server, news, route, broken, retry, shown, guard, faults>>
  BY DEF Begin
<1>2. e \in FlightType
  BY BootstrapAssumption DEF IInv, TypeInv, TypeOK, FlightType, Status
<1>3. /\ e.stage = "asked" /\ e.slug = SlugOf[path] /\ e.path = path
      /\ e.rev = rev /\ e.signs = signs
  OBVIOUS
<1> HIDE DEF e
<1>4. flight' \in Seq(FlightType) /\ Len(flight') = 1 /\ DOMAIN flight' = {1} /\ flight'[1] = e
  BY <1>1, <1>2, Single
<1>5. flight' # << >>
  BY <1>4
<1>6. queued' \in Nat
  <2>1. queued \in Nat
    BY Typed DEF IInv
  <2> QED
    BY <1>1, <2>1
<1>7. TypeInv'
  BY <1>1, <1>4, <1>6 DEF IInv, TypeInv, TypeOK, FlightType, server, route, shown, guard
<1>8. GuardInv'
  BY <1>1, GuardFrame DEF IInv, server, guard
<1>9. /\ path' = path /\ lastSlug' = lastSlug /\ context' = context
      /\ rev' = rev /\ rev \in Nat /\ signs' = signs
  BY <1>1 DEF server, route, shown, IInv, TypeInv, TypeOK
<1>10. RouteInv' /\ RevInv' /\ PermissionsOfTheWorkspace'
  BY <1>3, <1>4, <1>9 DEF IInv, QueueInv, RouteInv, RevInv, OnTime, PermissionsOfTheWorkspace
<1>11. ContextInv'
  BY <1>3, <1>4, <1>5, <1>9 DEF ContextInv, RevFound
<1> QED
  BY <1>7, <1>8, <1>10, <1>11 DEF IInv, QueueInv

(* The one refresh under way has become e.                                 *)
LEMMA FlightChanges ==
    ASSUME IInv, NEW k \in DOMAIN flight, NEW e \in FlightType, flight' = [flight EXCEPT ![k] = e],
           UNCHANGED <<server, news, route, queued, broken, retry, shown, guard, faults>>
    PROVE  /\ TypeInv' /\ GuardInv' /\ PermissionsOfTheWorkspace'
           /\ k = 1 /\ DOMAIN flight' = {1} /\ flight'[1] = e /\ flight' # << >>
<1> USE DEF server, route, shown, guard
<1>1. /\ k = 1 /\ DOMAIN flight' = {1} /\ flight'[1] = e /\ flight' # << >>
      /\ flight' \in Seq(FlightType) /\ Len(flight') = 1
  BY OneOnly, OneChanged DEF IInv, TypeInv
<1>2. TypeInv'
  BY <1>1 DEF IInv, TypeInv, TypeOK, FlightType
<1>3. GuardInv'
  BY GuardFrame DEF IInv
<1>4. PermissionsOfTheWorkspace'
  BY DEF IInv, QueueInv, PermissionsOfTheWorkspace
<1> QED
  BY <1>1, <1>2, <1>3, <1>4

LEMMA ListWorkspacesStep ==
    ASSUME IInv, NEW k \in DOMAIN flight, ListWorkspaces(k)
    PROVE  IInv'
<1> DEFINE in == SignedIn(flight[k])
           found == RevFound(flight[k])
           list == IF in THEN Workspaces ELSE {}
           e == [flight[k] EXCEPT !.stage = "listed", !.in = in, !.rev = found, !.workspaces = list]
<1>1. /\ TypeInv /\ flight[k] \in FlightType /\ OnTime(flight[k]) /\ flight[k].rev \in Nat
      /\ flight[k].stage = "asked" /\ context.rev <= flight[k].rev /\ context.rev \in Nat
  BY Typed DEF IInv, QueueInv, RevInv, ListWorkspaces
<1>0. /\ found \in Nat /\ context.rev <= found /\ found <= rev /\ rev \in Nat
      /\ found = rev => in = signedIn /\ list = Workspaces
  <2>1. /\ found \in Nat /\ flight[k].rev <= found /\ found <= rev
        /\ found = rev => in = signedIn
    BY <1>1, Found
  <2>2. in = signedIn => list = Workspaces
    BY DEF Workspaces
  <2>3. rev \in Nat
    BY <1>1, Typed
  <2> HIDE DEF in, found, list
  <2> QED
    BY <1>1, <2>1, <2>2, <2>3
<1>2. e \in FlightType /\ flight' = [flight EXCEPT ![k] = e]
  <2>1. flight' = [flight EXCEPT ![k] = e]
    BY DEF ListWorkspaces
  <2>2. in \in BOOLEAN /\ list \in SUBSET Slug
    BY DEF SignedIn, Workspaces
  <2> HIDE DEF in, found, list
  <2> QED
    BY <1>0, <1>1, <2>1, <2>2 DEF FlightType
<1> HIDE DEF in, found, list
<1>3. /\ e.stage = "listed" /\ e.in = in /\ e.workspaces = list /\ e.rev = found
      /\ e.slug = flight[k].slug /\ e.path = flight[k].path
  BY <1>1 DEF FlightType
<1> HIDE DEF e
<1>4. UNCHANGED <<server, news, route, queued, broken, retry, shown, guard, faults>>
  BY DEF ListWorkspaces
<1>5. /\ TypeInv' /\ GuardInv' /\ PermissionsOfTheWorkspace'
      /\ k = 1 /\ DOMAIN flight' = {1} /\ flight'[1] = e /\ flight' # << >>
  BY <1>2, <1>4, FlightChanges
<1>6. RouteInv' /\ RevInv'
  BY <1>0, <1>3, <1>4, <1>5 DEF IInv, QueueInv, RouteInv, RevInv, OnTime, server, route, shown
<1>7. ContextInv'
  <2> SUFFICES ASSUME Last' PROVE ContextInv'
    BY DEF ContextInv
  <2>1. Last
    BY <1>4 DEF Last, NoNews, guard
  <2>2. Workspaces' = Workspaces /\ signedIn' = signedIn /\ rev' = rev /\ path' = path
    BY <1>4 DEF Workspaces, server, route
  <2>3. e.slug = SlugOf[path] /\ found = rev
    BY <1>1, <1>3, <2>1 DEF IInv, QueueInv, ContextInv, found
  <2> QED
    BY <1>0, <1>3, <1>5, <2>2, <2>3 DEF ContextInv
<1> QED
  BY <1>5, <1>6, <1>7 DEF IInv, QueueInv

LEMMA ResolveWorkspaceStep ==
    ASSUME IInv, NEW k \in DOMAIN flight, ResolveWorkspace(k)
    PROVE  IInv'
<1> DEFINE s == flight[k].slug
           there == IF s = NoSlug THEN "" ELSE IF flight[k].in THEN seat[s] ELSE "unauthenticated"
           e == [flight[k] EXCEPT !.stage = "answered", !.standing = there]
<1>1. TypeInv /\ flight[k] \in FlightType
  BY Typed DEF IInv
<1>2. e \in FlightType /\ flight' = [flight EXCEPT ![k] = e]
  <2>1. there \in Status
    BY <1>1, BootstrapAssumption DEF TypeInv, TypeOK, FlightType, Status
  <2> HIDE DEF there
  <2>2. e \in FlightType
    BY <1>1, <2>1 DEF FlightType
  <2>3. flight' = [flight EXCEPT ![k] = e]
    BY DEF ResolveWorkspace, there
  <2> QED
    BY <2>2, <2>3
<1>3. /\ e.stage = "answered" /\ e.in = flight[k].in /\ e.workspaces = flight[k].workspaces
      /\ e.rev = flight[k].rev /\ e.standing = there
      /\ e.slug = flight[k].slug /\ e.path = flight[k].path
  BY <1>1 DEF FlightType
<1> HIDE DEF e, there
<1>4. /\ UNCHANGED <<server, news, route, queued, broken, retry, shown, guard, faults>>
      /\ flight[k].stage = "listed"
  BY DEF ResolveWorkspace
<1>5. /\ TypeInv' /\ GuardInv' /\ PermissionsOfTheWorkspace'
      /\ k = 1 /\ DOMAIN flight' = {1} /\ flight'[1] = e /\ flight' # << >>
  BY <1>2, <1>4, FlightChanges
<1>6. RouteInv' /\ RevInv'
  BY <1>3, <1>4, <1>5 DEF IInv, QueueInv, RouteInv, RevInv, OnTime, server, route, shown
<1>7. ContextInv'
  <2> SUFFICES ASSUME Last' PROVE ContextInv'
    BY DEF ContextInv
  <2>1. Last
    BY <1>4 DEF Last, NoNews, guard
  <2>2. Workspaces' = Workspaces /\ signedIn' = signedIn /\ rev' = rev /\ path' = path
    BY <1>4 DEF Workspaces, server, route
  <2>3. /\ e.slug = SlugOf[path] /\ e.rev = rev /\ e.in = signedIn /\ e.workspaces = Workspaces
    BY <1>3, <1>4, <2>1 DEF IInv, QueueInv, ContextInv
  <2>4. Standing(flight[1].slug)' = e.standing
    <3>1. flight'[1].slug = s /\ seat' = seat
      BY <1>3, <1>4, <1>5 DEF server
    <3> QED
      BY <1>3, <1>5, <2>2, <2>3, <3>1 DEF Standing, there
  <2> QED
    BY <1>3, <1>5, <2>2, <2>3, <2>4 DEF ContextInv
<1> QED
  BY <1>5, <1>6, <1>7 DEF IInv, QueueInv

ContextType == [slug : Slug \union {NoSlug}, permissions : Slug \union {NoSlug}, rev : Nat]

(* The payload r of a refresh asked for on the current path is shown.      *)
LEMMA ShowTyped ==
    ASSUME IInv, NEW k \in DOMAIN flight, Show(flight[k])
    PROVE  context' \in ContextType /\ status' \in [Slug -> Status] /\ behind' = "no"
<1>1. TypeInv /\ flight[k] \in FlightType
  BY Typed DEF IInv
<1>2. path \in Path /\ SlugOf[path] \in Slug \union {NoSlug} /\ status \in [Slug -> Status]
  BY <1>1, BootstrapAssumption DEF TypeInv, TypeOK
<1>3. context' \in ContextType
  BY <1>1, <1>2 DEF Show, FlightType, ContextType
<1>4. status' \in [Slug -> Status]
  BY <1>1, <1>2 DEF Show, FlightType
<1> QED
  BY <1>3, <1>4 DEF Show

LEMMA ShowIsSafe ==
    ASSUME IInv, NEW k \in DOMAIN flight, flight[k].stage = "answered", flight[k].path = path,
           Show(flight[k])
    PROVE  /\ PermissionsOfTheWorkspace'
           /\ context.rev <= context'.rev /\ context'.rev <= rev
<1>1. flight[k].slug = SlugOf[path]
  BY DEF IInv, QueueInv, RouteInv
<1>2. /\ context'.slug \in {SlugOf[path], NoSlug}
      /\ context'.permissions \in {SlugOf[path], NoSlug} /\ context'.rev = flight[k].rev
  BY <1>1 DEF Show
<1>3. PermissionsOfTheWorkspace'
  BY <1>2 DEF PermissionsOfTheWorkspace
<1>4. context.rev <= context'.rev /\ context'.rev <= rev
  BY <1>2 DEF IInv, QueueInv, RevInv, OnTime
<1> QED
  BY <1>3, <1>4

LEMMA ShowIsCurrent ==
    ASSUME IInv, NEW k \in DOMAIN flight, flight[k].stage = "answered", flight[k].path = path,
           Show(flight[k]), Last, UNCHANGED <<server, path>>
    PROVE  IsCurrent'
<1> DEFINE s == SlugOf[path]
<1>1. TypeInv /\ s \in Slug \union {NoSlug} /\ status \in [Slug -> Status]
  BY BootstrapAssumption DEF IInv, TypeInv, TypeOK
<1>2. /\ flight[k].slug = s /\ flight[k].rev = rev /\ flight[k].workspaces = Workspaces
      /\ flight[k].standing = Standing(s)
  BY DEF IInv, QueueInv, ContextInv
<1>3. /\ context'.rev = rev
      /\ context'.slug = IF s \in Workspaces THEN s ELSE NoSlug
      /\ context'.permissions = IF Standing(s) = "resolved" THEN s ELSE NoSlug
      /\ s # NoSlug => status'[s] = Standing(s)
  BY <1>1, <1>2 DEF Show
<1>4. Standing(s) = "resolved" <=> s \in Workspaces
  BY <1>1, BootstrapAssumption DEF Standing, Workspaces
<1>5. path' = path /\ rev' = rev /\ seat' = seat /\ signedIn' = signedIn
  BY DEF server
<1>6. Workspaces' = Workspaces
  BY <1>5 DEF Workspaces
<1>7. s # NoSlug => status'[s] = IF signedIn' THEN seat'[s] ELSE "unauthenticated"
  BY <1>3, <1>5 DEF Standing
<1> QED
  BY <1>3, <1>4, <1>5, <1>6, <1>7 DEF IsCurrent, Standing

LEMMA RemoveOne ==
    ASSUME IInv, NEW k \in DOMAIN flight, flight' = Remove(k)
    PROVE  flight' = << >> /\ flight' \in Seq(FlightType) /\ Len(flight') = 0 /\ DOMAIN flight' = {}
<1>1. flight' = << >>
  BY OneOnly DEF IInv, TypeInv, Remove
<1> QED
  BY <1>1, NothingAtAll

(* A refresh is over, whatever it leaves in the context.                   *)
LEMMA RefreshEnds ==
    ASSUME IInv, NEW k \in DOMAIN flight, flight' = Remove(k),
           UNCHANGED <<server, news, route, queued, guard>>,
           faults' \in Nat, broken' \in BOOLEAN, retry' \in BOOLEAN, behind' \in {"no", "failed", "dropped"},
           context' \in ContextType, status' \in [Slug -> Status],
           PermissionsOfTheWorkspace', context'.rev <= rev,
           Last' /\ behind' = "no" => IsCurrent'
    PROVE  IInv'
<1>1. flight' = << >> /\ flight' \in Seq(FlightType) /\ Len(flight') = 0 /\ DOMAIN flight' = {}
  BY RemoveOne
<1>2. TypeInv'
  BY <1>1 DEF IInv, TypeInv, TypeOK, FlightType, ContextType, server, route, guard
<1>3. GuardInv'
  BY GuardFrame DEF IInv, server, guard
<1>4. RouteInv' /\ RevInv' /\ ContextInv'
  BY <1>1 DEF IInv, QueueInv, RouteInv, RevInv, ContextInv, server, route
<1> QED
  BY <1>2, <1>3, <1>4 DEF IInv, QueueInv

LEMMA ApplyStep ==
    ASSUME IInv, NEW k \in DOMAIN flight, Apply(k)
    PROVE  IInv'
<1>1. /\ flight[k].stage = "answered" /\ flight' = Remove(k)
      /\ UNCHANGED <<server, news, route, queued, broken, retry, guard, faults>>
  BY DEF Apply
<1>2. faults' \in Nat /\ broken' \in BOOLEAN /\ retry' \in BOOLEAN
  BY <1>1 DEF IInv, TypeInv, TypeOK
<1>3. CASE flight[k].path = path /\ Show(flight[k])
  <2>1. context' \in ContextType /\ status' \in [Slug -> Status] /\ behind' = "no"
    BY <1>3, ShowTyped
  <2>2. PermissionsOfTheWorkspace' /\ context'.rev <= rev
    BY <1>1, <1>3, ShowIsSafe
  <2>3. Last' => Last
    BY <1>1 DEF Last, NoNews, guard
  <2>4. Last' => IsCurrent'
    BY <1>1, <1>3, <2>3, ShowIsCurrent DEF route
  <2> QED
    BY <1>1, <1>2, <2>1, <2>2, <2>4, RefreshEnds
<1>4. CASE behind' = "dropped" /\ UNCHANGED <<context, status>>
  <2>1. context' \in ContextType /\ status' \in [Slug -> Status]
    BY <1>4 DEF IInv, TypeInv, TypeOK, ContextType
  <2>2. PermissionsOfTheWorkspace' /\ context'.rev <= rev
    BY <1>4 DEF IInv, QueueInv, RevInv, PermissionsOfTheWorkspace
  <2> QED
    BY <1>1, <1>2, <1>4, <2>1, <2>2, RefreshEnds
<1> QED
  BY <1>3, <1>4 DEF Apply

LEMMA HandlerThrowsStep ==
    ASSUME IInv, NEW k \in DOMAIN flight, HandlerThrows(k)
    PROVE  IInv'
<1>1. /\ flight[k].stage = "answered" /\ flight' = Remove(k) /\ broken' = TRUE
      /\ UNCHANGED <<server, news, route, queued, retry, guard>>
  BY DEF HandlerThrows
<1>2. faults' \in Nat /\ broken' \in BOOLEAN /\ retry' \in BOOLEAN
  <2>1. faults \in Nat /\ faults' = faults + 1 /\ retry \in BOOLEAN
    BY DEF IInv, TypeInv, TypeOK, HandlerThrows
  <2>2. faults' \in Nat
    BY <2>1
  <2> QED
    BY <1>1, <2>1, <2>2
<1>3. ~Last'
  BY <1>1 DEF Last
<1>4. CASE flight[k].path = path /\ Show(flight[k])
  <2>1. context' \in ContextType /\ status' \in [Slug -> Status] /\ behind' = "no"
    BY <1>4, ShowTyped
  <2>2. PermissionsOfTheWorkspace' /\ context'.rev <= rev
    BY <1>1, <1>4, ShowIsSafe
  <2> QED
    BY <1>1, <1>2, <1>3, <2>1, <2>2, RefreshEnds
<1>5. CASE behind' = "dropped" /\ UNCHANGED <<context, status>>
  <2>1. context' \in ContextType /\ status' \in [Slug -> Status]
    BY <1>5 DEF IInv, TypeInv, TypeOK, ContextType
  <2>2. PermissionsOfTheWorkspace' /\ context'.rev <= rev
    BY <1>5 DEF IInv, QueueInv, RevInv, PermissionsOfTheWorkspace
  <2> QED
    BY <1>1, <1>2, <1>5, <2>1, <2>2, RefreshEnds
<1> QED
  BY <1>4, <1>5 DEF HandlerThrows

LEMMA RefreshFailsStep ==
    ASSUME IInv, NEW k \in DOMAIN flight, NEW code \in Code, RefreshFails(k, code)
    PROVE  IInv'
<1>1. /\ flight' = Remove(k) /\ behind' = "failed" /\ UNCHANGED <<server, news, route, queued, broken, guard>>
      /\ retry' = (retry \/ code = 0) /\ faults' = faults + 1
  BY DEF RefreshFails
<1>2. faults' \in Nat /\ broken' \in BOOLEAN /\ retry' \in BOOLEAN
  <2>1. faults \in Nat /\ broken \in BOOLEAN
    BY DEF IInv, TypeInv, TypeOK
  <2>2. faults' \in Nat
    BY <1>1, <2>1
  <2>3. retry' \in BOOLEAN
    BY <1>1
  <2> QED
    BY <1>1, <2>1, <2>2, <2>3
<1>3. context \in ContextType /\ status \in [Slug -> Status]
  BY DEF IInv, TypeInv, TypeOK, ContextType
<1>4. \/ context' = context
      \/ context' = [context EXCEPT !.slug = NoSlug, !.permissions = NoSlug]
  BY DEF RefreshFails
<1>5. status' \in [Slug -> Status]
  <2>1. PICK told \in Status : \/ status' = status
                               \/ status' = [status EXCEPT ![SlugOf[path]] = told]
    BY DEF RefreshFails, Status
  <2> QED
    BY <1>3, <2>1
<1>6. context' \in ContextType /\ PermissionsOfTheWorkspace' /\ context'.rev <= rev
  BY <1>3, <1>4 DEF ContextType, IInv, QueueInv, RevInv, PermissionsOfTheWorkspace
<1> QED
  BY <1>1, <1>2, <1>5, <1>6, RefreshEnds

-----------------------------------------------------------------------------
(* The steps of the guard.  A new fetch, or one that is joined, makes up   *)
(* for the event that set it off.                                          *)
LEMMA RefreshAuthEffect ==
    ASSUME IInv, RefreshAuth
    PROVE  /\ session' \in Seq(SessionType) /\ Len(session') = 1 /\ DOMAIN session' = {1} /\ session' # << >>
           /\ auth.rev <= session'[1].rev /\ OnTime(session'[1])
           /\ ~session'[1].joined => session'[1].stage = "asked" /\ RevFound(session'[1]) = rev
<1> DEFINE first == [stage |-> "asked", in |-> FALSE, rev |-> rev, signs |-> signs,
                     joined |-> FALSE]
<1>0. rev \in Nat /\ signs \in Nat /\ auth.rev \in Nat /\ auth.rev <= rev
  BY Typed DEF IInv, GuardInv
<1>1. CASE session = << >>
  <2>1. /\ first \in SessionType /\ first.stage = "asked"
        /\ first.rev = rev /\ first.signs = signs
    BY <1>0 DEF SessionType
  <2>2. session' = <<first>>
    BY <1>1 DEF RefreshAuth
  <2> HIDE DEF first
  <2>3. /\ session' \in Seq(SessionType) /\ Len(session') = 1 /\ DOMAIN session' = {1} /\ session'[1] = first
    BY <2>1, <2>2, Single
  <2>4. session' # << >>
    BY <2>3
  <2>5. OnTime(first) /\ RevFound(first) = rev
    BY <1>0, <2>1 DEF OnTime, RevFound
  <2> QED
    BY <1>0, <2>1, <2>3, <2>4, <2>5
<1>2. CASE session # << >>
  <2>1. session \in Seq(SessionType) /\ Len(session) <= 1
    BY DEF IInv, TypeInv
  <2>2. 1 \in DOMAIN session
    BY <1>2, <2>1, EmptySeq, LenProperties
  <2>3. session[1] \in SessionType
    BY <2>1, <2>2, OneOnly
  <2> DEFINE late == session[1].stage = "answered" \/ RevFound(session[1]) # rev
             e == [session[1] EXCEPT !.joined = late]
  <2>4. session' = [session EXCEPT ![1] = e]
    BY <1>2 DEF RefreshAuth
  <2>0. late \in BOOLEAN
    OBVIOUS
  <2> HIDE DEF late
  <2>5. /\ e \in SessionType /\ e.stage = session[1].stage /\ e.rev = session[1].rev
        /\ e.signs = session[1].signs /\ e.joined = late
    BY <2>0, <2>3 DEF SessionType
  <2>7. auth.rev <= session[1].rev /\ OnTime(session[1])
    BY <2>2 DEF IInv, GuardInv
  <2> HIDE DEF e
  <2>8. /\ auth.rev <= e.rev /\ OnTime(e)
        /\ RevFound(e) = RevFound(session[1])
    BY <2>5, <2>7 DEF OnTime, RevFound
  <2>9. ~late => session[1].stage = "asked" /\ RevFound(session[1]) = rev
    BY <2>3 DEF late, SessionType
  <2>6. /\ session' \in Seq(SessionType) /\ Len(session') = 1 /\ DOMAIN session' = {1}
        /\ session'[1] = e /\ session' # << >>
    BY <2>1, <2>2, <2>4, <2>5, OneChanged
  <2> QED
    BY <2>5, <2>6, <2>8, <2>9
<1> QED
  BY <1>1, <1>2

LEMMA HearsNews ==
    ASSUME IInv, RefreshAuth, UNCHANGED <<server, route, flight, broken, retry, shown, auth, authBehind, faults>>,
           queued' \in Nat, news' \in [data : Nat, sign : Nat]
    PROVE  IInv'
<1>1. /\ session' \in Seq(SessionType) /\ Len(session') = 1 /\ DOMAIN session' = {1} /\ session' # << >>
      /\ auth.rev <= session'[1].rev /\ OnTime(session'[1])
      /\ ~session'[1].joined => session'[1].stage = "asked" /\ RevFound(session'[1]) = rev
  BY RefreshAuthEffect
<1>2. TypeInv'
  <2>1. session' \in Seq(SessionType) /\ Len(session') <= 1
    BY <1>1
  <2>2. TypeOK'
    BY <2>1 DEF IInv, TypeInv, TypeOK, SessionType, server, route, shown
  <2> QED
    BY <2>1, <2>2 DEF IInv, TypeInv
<1>3. GuardInv'
  BY <1>1 DEF IInv, GuardInv, OnTime, RevFound, server
<1>4. ~Last'
  BY <1>1 DEF Last
<1>5. QueueInv'
  BY <1>4 DEF IInv, QueueInv, RouteInv, ContextInv, RevInv, OnTime, PermissionsOfTheWorkspace,
     server, route, shown
<1> QED
  BY <1>2, <1>3, <1>5 DEF IInv

LEMMA HearChangeStep ==
    ASSUME IInv, HearChange
    PROVE  IInv'
<1>1. TypeInv /\ queued \in Nat /\ news.data \in Nat /\ news.sign \in Nat
      /\ news = [data |-> news.data, sign |-> news.sign]
  BY Typed DEF IInv
<1>2. news.data > 0 /\ queued' = queued + 1 /\ news' = [news EXCEPT !.data = @ - 1]
  BY DEF HearChange
<1>3. queued' \in Nat /\ news.data - 1 \in Nat
  BY <1>1, <1>2
<1>4. news' \in [data : Nat, sign : Nat]
  BY <1>1, <1>2, <1>3
<1> QED
  BY <1>3, <1>4, HearsNews DEF HearChange

LEMMA SignedInOrOutStep ==
    ASSUME IInv, SignedInOrOut
    PROVE  IInv'
<1>1. TypeInv /\ queued \in Nat /\ news.data \in Nat /\ news.sign \in Nat
      /\ news = [data |-> news.data, sign |-> news.sign]
  BY Typed DEF IInv
<1>2. news.sign > 0 /\ queued' = queued /\ news' = [news EXCEPT !.sign = @ - 1]
  BY DEF SignedInOrOut, queue
<1>3. queued' \in Nat /\ news.sign - 1 \in Nat
  BY <1>1, <1>2
<1>4. news' \in [data : Nat, sign : Nat]
  BY <1>1, <1>2, <1>3
<1> QED
  BY <1>3, <1>4, HearsNews DEF SignedInOrOut, queue

LEMMA AnswerSessionStep ==
    ASSUME IInv, NEW k \in DOMAIN session, AnswerSession(k)
    PROVE  IInv'
<1> DEFINE in == SignedIn(session[k])
           found == RevFound(session[k])
           e == [session[k] EXCEPT !.stage = "answered", !.in = in, !.rev = found]
<1>0. /\ TypeInv /\ session[k] \in SessionType /\ session[k].rev \in Nat /\ rev \in Nat
      /\ auth.rev \in Nat /\ auth.rev <= session[k].rev /\ session[k].stage = "asked"
      /\ in \in BOOLEAN
  BY Typed DEF IInv, GuardInv, AnswerSession, SignedIn
<1>1. /\ found \in Nat /\ auth.rev <= found /\ found <= rev
      /\ found = rev => in = signedIn
      /\ NoNews /\ ~session[k].joined => found = rev
  <2>1. /\ found \in Nat /\ session[k].rev <= found /\ found <= rev
        /\ found = rev => in = signedIn
    BY <1>0, Found DEF IInv, GuardInv
  <2>2. NoNews /\ ~session[k].joined => found = rev
    BY <1>0 DEF IInv, GuardInv
  <2> HIDE DEF in, found
  <2> QED
    BY <1>0, <2>1, <2>2
<1>2. /\ session' = [session EXCEPT ![k] = e]
      /\ UNCHANGED <<server, news, route, queue, shown, auth, authBehind, faults>>
  BY DEF AnswerSession
<1> HIDE DEF in, found
<1>3. /\ e \in SessionType /\ e.stage = "answered" /\ e.in = in /\ e.rev = found
      /\ e.joined = session[k].joined
  BY <1>0, <1>1 DEF SessionType
<1> HIDE DEF e
<1>4. /\ k = 1 /\ session' \in Seq(SessionType) /\ Len(session') = 1 /\ DOMAIN session' = {1}
      /\ session'[1] = e /\ session' # << >>
  BY <1>0, <1>2, <1>3, OneOnly, OneChanged DEF TypeInv
<1>5. TypeInv'
  BY <1>2, <1>4 DEF IInv, TypeInv, TypeOK, SessionType, server, route, queue, shown
<1>6. GuardInv'
  <2>1. auth' = auth /\ rev' = rev /\ signedIn' = signedIn /\ news' = news /\ auth.rev <= rev
    BY <1>2 DEF server, IInv, GuardInv
  <2> QED
    BY <1>1, <1>3, <1>4, <2>1 DEF GuardInv, OnTime, NoNews
<1>7. ~Last'
  BY <1>4 DEF Last
<1>8. QueueInv'
  BY <1>2, <1>7 DEF IInv, QueueInv, RouteInv, ContextInv, RevInv, OnTime, PermissionsOfTheWorkspace,
     server, route, queue, shown
<1> QED
  BY <1>5, <1>6, <1>8 DEF IInv

LEMMA DropOne ==
    ASSUME IInv, NEW k \in DOMAIN session, DropSession(k)
    PROVE  session' = << >> /\ session' \in Seq(SessionType) /\ Len(session') = 0 /\ DOMAIN session' = {}
<1>1. session' = << >>
  BY OneOnly DEF IInv, TypeInv, DropSession
<1> QED
  BY <1>1, NothingAtAll

LEMMA ApplySessionStep ==
    ASSUME IInv, NEW k \in DOMAIN session, ApplySession(k)
    PROVE  IInv'
<1>1. /\ session[k].stage = "answered" /\ auth' = [in |-> session[k].in, rev |-> session[k].rev]
      /\ authBehind' = IF session[k].joined THEN "joined" ELSE "no"
      /\ queued' = queued + 1
      /\ UNCHANGED <<server, news, route, flight, broken, retry, shown, faults>>
  BY DEF ApplySession
<1>2. session' = << >> /\ session' \in Seq(SessionType) /\ Len(session') = 0 /\ DOMAIN session' = {}
  BY DropOne DEF ApplySession
<1>3. queued \in Nat /\ session[k] \in SessionType
  BY Typed DEF IInv
<1>4. queued' \in Nat /\ queued' # 0
  BY <1>1, <1>3
<1>5. auth' \in [in : BOOLEAN, rev : Nat] /\ authBehind' \in {"no", "failed", "joined"}
  BY <1>1, <1>3 DEF SessionType
<1>6. TypeInv'
  BY <1>1, <1>2, <1>4, <1>5 DEF IInv, TypeInv, TypeOK, SessionType, server, route, shown
<1>7. GuardInv'
  <2>1. rev' = rev /\ signedIn' = signedIn /\ news' = news
    BY <1>1 DEF server
  <2> QED
    BY <1>1, <1>2, <2>1 DEF IInv, GuardInv, NoNews, OnTime
<1>8. ~Last'
  BY <1>4 DEF Last
<1>9. QueueInv'
  BY <1>1, <1>8 DEF IInv, QueueInv, RouteInv, ContextInv, RevInv, OnTime, PermissionsOfTheWorkspace,
     server, route, shown
<1> QED
  BY <1>6, <1>7, <1>9 DEF IInv

LEMMA SessionFailsStep ==
    ASSUME IInv, NEW k \in DOMAIN session, NEW transient \in BOOLEAN, SessionFails(k, transient)
    PROVE  IInv'
<1>1. /\ authBehind' = "failed" /\ faults' = faults + 1
      /\ auth' = IF transient THEN auth ELSE [auth EXCEPT !.in = FALSE]
      /\ queued' = IF transient THEN queued ELSE queued + 1
      /\ UNCHANGED <<server, news, route, flight, broken, retry, shown>>
  BY DEF SessionFails
<1>2. session' = << >> /\ session' \in Seq(SessionType) /\ Len(session') = 0 /\ DOMAIN session' = {}
  BY DropOne DEF SessionFails
<1>3. queued \in Nat /\ faults \in Nat /\ auth \in [in : BOOLEAN, rev : Nat]
  BY DEF IInv, TypeInv, TypeOK
<1>4. queued' \in Nat /\ faults' \in Nat
  BY <1>1, <1>3
<1>5. auth' \in [in : BOOLEAN, rev : Nat] /\ auth'.rev = auth.rev
  BY <1>1, <1>3
<1>6. TypeInv'
  BY <1>1, <1>2, <1>4, <1>5 DEF IInv, TypeInv, TypeOK, SessionType, server, route, shown
<1>7. GuardInv'
  <2>1. rev' = rev
    BY <1>1 DEF server
  <2> QED
    BY <1>1, <1>2, <1>5, <2>1 DEF IInv, GuardInv
<1>8. ~Last'
  BY <1>1 DEF Last
<1>9. QueueInv'
  BY <1>1, <1>8 DEF IInv, QueueInv, RouteInv, ContextInv, RevInv, OnTime, PermissionsOfTheWorkspace,
     server, route, shown
<1> QED
  BY <1>6, <1>7, <1>9 DEF IInv

-----------------------------------------------------------------------------
LEMMA NextStep ==
    ASSUME IInv, [Next]_vars
    PROVE  IInv'
<1>1. CASE Server
  BY <1>1, SeatChangesStep, SignsInOrOutStep DEF Server
<1>2. CASE User
  BY <1>2, RetryStep, MoveStep DEF User
<1>3. CASE Queue
  BY <1>3, BeginStep, ListWorkspacesStep, ResolveWorkspaceStep, ApplyStep DEF Queue
<1>4. CASE Guard
  BY <1>4, HearChangeStep, SignedInOrOutStep, AnswerSessionStep, ApplySessionStep DEF Guard
<1>5. CASE Trouble
  BY <1>5, HandlerThrowsStep, RefreshFailsStep, SessionFailsStep DEF Trouble
<1>6. CASE UNCHANGED vars
  <2> USE <1>6 DEF vars, server, route, queue, shown, guard
  <2>1. TypeInv'
    BY DEF IInv, TypeInv, TypeOK
  <2>2. GuardInv'
    BY GuardFrame DEF IInv
  <2>3. Last' = Last /\ IsCurrent' = IsCurrent
    BY DEF Last, NoNews, IsCurrent, Workspaces, Standing
  <2>4. ContextInv'
    BY <2>3 DEF IInv, QueueInv, ContextInv, Workspaces, Standing, RevFound
  <2> QED
    BY <2>1, <2>2, <2>4 DEF IInv, QueueInv, RouteInv, RevInv, OnTime, PermissionsOfTheWorkspace
<1> QED
  BY <1>1, <1>2, <1>3, <1>4, <1>5, <1>6 DEF Next

THEOREM IInvHolds == Spec => []IInv
BY InitIInv, NextStep, PTL DEF Spec

(* The types of the tab's state, for any paths, workspaces and bounds.     *)
THEOREM TypeOKHolds == Spec => []TypeOK
<1>1. IInv => TypeOK
  BY DEF IInv, TypeInv
<1> QED
  BY <1>1, IInvHolds, PTL

(* A guard that has nothing left to do knows who is signed in, for any     *)
(* number of sign-ins, changes and moves, if its last fetch succeeded and  *)
(* no refresh that the fetch could not answer has joined it.               *)
THEOREM QuietAuthIsCurrentHolds == Spec => []QuietAuthIsCurrent
<1>1. IInv => QuietAuthIsCurrent
  <2> SUFFICES ASSUME IInv, Quiet, authBehind = "no" PROVE auth = [in |-> signedIn, rev |-> rev]
    BY DEF QuietAuthIsCurrent
  <2>1. auth.in = signedIn /\ auth.rev = rev
    BY DEF IInv, GuardInv, NoNews, Quiet
  <2>2. auth \in [in : BOOLEAN, rev : Nat]
    BY DEF IInv, TypeInv, TypeOK
  <2> QED
    BY <2>1, <2>2
<1> QED
  BY <1>1, IInvHolds, PTL

(* A tab that has nothing left to do shows the workspace it is on as the   *)
(* server has it, however its user moved meanwhile.                        *)
THEOREM QuietContextIsCurrentHolds == Spec => []QuietContextIsCurrent
<1>1. IInv => QuietContextIsCurrent
  <2> SUFFICES ASSUME IInv, Quiet, behind = "no", authBehind = "no", ~broken PROVE IsCurrent
    BY DEF QuietContextIsCurrent, IsCurrent
  <2>1. Last
    BY DEF Last, Quiet, NoNews
  <2> QED
    BY <2>1 DEF IInv, QueueInv, ContextInv, Quiet
<1> QED
  BY <1>1, IInvHolds, PTL

(* Permissions never come from another workspace than the one shown.       *)
THEOREM PermissionsOfTheWorkspaceHolds == Spec => []PermissionsOfTheWorkspace
<1>1. IInv => PermissionsOfTheWorkspace
  BY DEF IInv, QueueInv
<1> QED
  BY <1>1, IInvHolds, PTL

(* An answer is never older than what it replaces.                         *)
LEMMA RefreshForward ==
    ASSUME IInv, NEW k \in DOMAIN flight,
           Apply(k) \/ HandlerThrows(k) \/ \E code \in Code : RefreshFails(k, code)
    PROVE  context'.rev >= context.rev /\ auth'.rev >= auth.rev
<1>1. context.rev \in Nat /\ auth.rev \in Nat /\ context \in ContextType
  BY Typed DEF IInv, TypeInv, TypeOK, ContextType
<1>2. auth' = auth
  BY DEF Apply, HandlerThrows, RefreshFails, guard
<1>3. \/ flight[k].stage = "answered" /\ flight[k].path = path /\ Show(flight[k])
      \/ context' = context
      \/ context' = [context EXCEPT !.slug = NoSlug, !.permissions = NoSlug]
  BY DEF Apply, HandlerThrows, RefreshFails
<1>4. CASE flight[k].stage = "answered" /\ flight[k].path = path /\ Show(flight[k])
  <2>1. context'.rev = flight[k].rev
    BY <1>4 DEF Show
  <2>2. context.rev <= context'.rev
    BY <1>4, ShowIsSafe
  <2>3. flight[k].rev \in Nat
    BY Typed DEF IInv
  <2> QED
    BY <1>1, <1>2, <2>1, <2>2, <2>3
<1>5. CASE context' = context \/ context' = [context EXCEPT !.slug = NoSlug, !.permissions = NoSlug]
  <2>1. context'.rev = context.rev
    BY <1>1, <1>5 DEF ContextType
  <2> QED
    BY <1>1, <1>2, <2>1
<1> QED
  BY <1>3, <1>4, <1>5

LEMMA SessionForward ==
    ASSUME IInv, NEW k \in DOMAIN session,
           ApplySession(k) \/ \E transient \in BOOLEAN : SessionFails(k, transient)
    PROVE  context'.rev >= context.rev /\ auth'.rev >= auth.rev
<1>1. /\ context.rev \in Nat /\ auth.rev \in Nat /\ session[k].rev \in Nat
      /\ auth \in [in : BOOLEAN, rev : Nat]
  BY Typed DEF IInv, TypeInv, TypeOK
<1>2. context' = context
  BY DEF ApplySession, SessionFails, shown
<1>3. \/ session[k].stage = "answered" /\ auth'.rev = session[k].rev
      \/ auth' = auth \/ auth' = [auth EXCEPT !.in = FALSE]
  BY DEF ApplySession, SessionFails
<1>4. session[k].stage = "answered" => auth.rev <= session[k].rev
  BY DEF IInv, GuardInv
<1>5. auth'.rev = auth.rev \/ (auth'.rev = session[k].rev /\ auth.rev <= session[k].rev)
  <2>1. CASE session[k].stage = "answered" /\ auth'.rev = session[k].rev
    BY <1>4, <2>1
  <2>2. CASE auth' = auth \/ auth' = [auth EXCEPT !.in = FALSE]
    BY <1>1, <2>2
  <2> QED
    BY <1>3, <2>1, <2>2
<1> QED
  BY <1>1, <1>2, <1>5

(* Overlapping refreshes and fetches, failures and retries never put the   *)
(* context or the guard back to an older answer.                           *)
THEOREM NeverGoesBackHolds == Spec => NeverGoesBack
<1>1. IInv /\ [Next]_vars => [context'.rev >= context.rev /\ auth'.rev >= auth.rev]_vars
  <2> SUFFICES ASSUME IInv, Next PROVE context'.rev >= context.rev /\ auth'.rev >= auth.rev
    OBVIOUS
  <2>1. CASE \E k \in DOMAIN flight :
                 Apply(k) \/ HandlerThrows(k) \/ \E code \in Code : RefreshFails(k, code)
    BY <2>1, RefreshForward
  <2>2. CASE \E k \in DOMAIN session :
                 ApplySession(k) \/ \E transient \in BOOLEAN : SessionFails(k, transient)
    BY <2>2, SessionForward
  <2>3. CASE context' = context /\ auth' = auth
    <3>1. context.rev \in Nat /\ auth.rev \in Nat
      BY Typed DEF IInv
    <3> QED
      BY <2>3, <3>1
  <2>4. CASE Server \/ User
    BY <2>3, <2>4 DEF Server, User, SeatChanges, SignsInOrOut, Move, Retry, shown, guard
  <2>5. CASE Queue
    BY <2>1, <2>3, <2>5 DEF Queue, Begin, ListWorkspaces, ResolveWorkspace, shown, guard
  <2>6. CASE Guard
    BY <2>2, <2>3, <2>6 DEF Guard, HearChange, SignedInOrOut, AnswerSession, shown
  <2>7. CASE Trouble
    BY <2>1, <2>2, <2>7 DEF Trouble
  <2> QED
    BY <2>4, <2>5, <2>6, <2>7 DEF Next
<1> QED
  BY <1>1, IInvHolds, PTL DEF Spec, NeverGoesBack

=============================================================================
