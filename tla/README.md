# JSKIT: a TLA+ verification project

JSKIT is a toolkit of Node packages and a CLI for building multi-user web
applications: a kernel, authentication, workspaces, an AI assistant, realtime
events, CRUD, uploads, rewarded ads. Most of it is glue, but some parts run
protocols of their own over files, a database, cookies or a third party's
script. Those are modelled here in TLA+, checked with TLC on small instances
and proved with TLAPS for every size.

All source paths below are relative to `src/`; "the code" is the one
`PROJECT.json` maps line by line.

## 1. Inventory

| Part | State it keeps | Operations | What is hard | What makes it correct |
|---|---|---|---|---|
| local auth file backend (`packages/auth-provider-local-core/.../fileBackend.js`) | three record files, `transaction.journal`, `store.lock` | `withTransaction` | calls interleave at every await, crashes between any two I/O steps, stale locks of dead processes | atomic, durable, exclusive transactions; every call settles |
| local auth service (`.../service.js`) behind `packages/auth-web` `AuthController.js` | users, sessions, recovery tokens; cookies in browsers | register, login, devLoginAs, authenticateRequest, recovery, reset, change password, logout, signOutOtherSessions | requests in flight from several tabs, replies out of order or lost, cookies of two sessions in one browser | a reset cuts off what is older; a token resets once; logout ends the session |
| local auth database backend (`packages/auth-provider-local-db-core`) | the same records in SQL tables | the same transactions | read-then-update below serializable isolation | as for the file backend |
| rewarded gates, server (`packages/google-rewarded-core/.../service.js`) | rules, provider configs, watch sessions, unlock receipts | current, start, grant, close | handlers interleave at each await, one transaction only | a grant asked for again adds no receipt, closed grants nothing, limits bind |
| rewarded gates, client (`packages/google-rewarded-web/.../googleRewardedRuntime.js`) | one prompt, its session, a grant in flight, the publisher tag | requireUnlock, beginWatch, cancelPrompt, slot events | callbacks that resume after the prompt changed, lost replies, double clicks | granted means a receipt, rewards reach the server, prompts settle |
| workspaces (`packages/workspaces-core`) | a workspace, its memberships and invites | create, access, invite, accept, refuse, revoke, change role, remove | several unprotected writes per operation, requests interleave at each | one pending invite per address; the owner gets in; who was removed stays out |
| workspace bootstrap (`shell-web` `bootstrapRuntime.js`, `workspaces-web` `bootstrapPlacementRuntime.js`, `auth-web` guard) | a tab's placement context, a queue of refreshes, the guard's state | refresh, apply a payload, retry, move, refresh the session | answers that belong to another page, joined fetches, a handler that throws | a quiet tab shows what the server holds; nothing goes back to an older answer |
| http runtime (`packages/http-runtime`) | CSRF token cache per client, shared fetch, one cookie for all | request, retry once, clear, read the session | overlapping fetches, clients that invalidate each other's tokens | a request takes effect once; the retry repairs |
| assistant (`packages/assistant-core`, `assistant-runtime`) | conversations, messages, turns and their streams, a tab's messages | streamChat, tool rounds, recovery, cancel, select, new | abort, tool failures, errors after the stream began, turns that overlap | done means stored; a conversation is active while a turn runs; replies belong to the conversation shown |
| realtime (`packages/realtime`) | sockets in rooms | connect, publish | rooms joined once, memberships change, offline tabs | rooms are for members; a change reaches the tabs in the room |
| kernel (`packages/kernel`) | providers, containers, action registry | boot, shutdown, execute an action, publish service events | partial failure, idempotency claims | start order, nothing executed twice |
| uploads (`packages/uploads-image-web`) | an asset in the browser | upload, delete | overlapping asynchronous calls | the newest answer wins |
| users (`packages/users-core`) | app profiles | upsert by identity | concurrent first logins | one profile per identity |
| jskit CLI (`tooling/jskit-cli`) | an app's lock file and managed files | add, remove, update | failure half way | the lock file tells what is installed |

The remaining packages (CRUD and resource helpers, database drivers,
Supabase provider, console, mobile shell, generators, catalog, documentation)
keep no state of their own or delegate it to a library or a service; they are
listed in `PROJECT.json` with the reason they are not modelled.

How the modelled parts interact: a browser sends its cookies to
`AuthController`, which calls the auth service, which runs one or more
`backend.withTransaction` callbacks and returns a session that the controller
turns into cookies. The auth service projects an app profile through
`users-core`. The rewarded runtime in the browser calls the four routes of the
rewarded service and reacts to the events of Google's publisher tag. A service
call of `workspaces-core` publishes an event after its last write; `realtime`
sends it to the sockets in its rooms, the tab queues a refresh of its bootstrap
payload and its auth guard reads the session again, and the payload's handler
writes the placement context. Every unsafe request, the assistant's included,
goes through `http-runtime`, which fetches the CSRF token with the session.

## 2. Modules

| Module | What it is |
|---|---|
| `LocalAuthStore` | the abstract specification: what `withTransaction` promises to the auth service |
| `LocalAuthFileBackend` | `fileBackend.js`, one I/O operation per step; implements `LocalAuthStore` |
| `LocalAuthFileBackendProofs` | the theorems and proofs of both |
| `LocalAuthService` | `service.js` and the cookie handling of `AuthController.js` |
| `LocalAuthServiceProofs` | its theorems and proofs |
| `GoogleRewardedService` | the four operations of the rewarded server |
| `GoogleRewardedServiceProofs` | its theorems and proofs |
| `GoogleRewardedRuntime` | the rewarded client of one tab, composed with `GoogleRewardedService` |
| `GoogleRewardedRuntimeProofs` | its theorems and proofs, with those of the server by INSTANCE |
| `WorkspaceMembers` | the server of `workspaces-core` for one workspace, one query per step |
| `WorkspaceRealtime` | `WorkspaceMembers` with service events, rooms and the tabs that hear them |
| `WorkspaceMembersProofs` | the theorems and proofs of both |
| `WebBootstrap` | a tab's bootstrap queue, payload handler and auth guard |
| `WebBootstrapProofs` | its theorems and proofs |
| `HttpClient` | the CSRF tokens of `http-runtime`'s clients in one browser |
| `HttpClientProofs` | its theorems and proofs |
| `AssistantChat` | the turns of a user's chat on the server, the transcript and the tab |
| `AssistantChatProofs` | its theorems and proofs |
| `MC...` | instances for TLC: model values, bounds, symmetry |

Definitions called `Mut...` are plausible mistakes in the definition that
follows them. No specification uses them; they show that each property can
fail.

### LocalAuthStore and LocalAuthFileBackend

A record set is abstracted to the set of transactions whose changes it
contains, so a lost update is a transaction missing from the set. In
`LocalAuthFileBackend` a call of `withTransaction` walks through the program
counter `pc[c]`:

    idle - open - (retry - stat - read - kill - rm)* - pid - replay - (redo* - redone)
         - load* - callback - (journal - write* - clear) - release - idle

`open ... rm` is `acquireLock` with `removeStaleLock`, `replay ... redone` is
`replayCommitJournal`, `load` reads the record files one by one, `journal ...
clear` is the commit. `writeAtomic` is one step: a temporary file no one else
reads, then a rename. Processes crash at any step (`Crash`) and come back with
a pid (`Restart`); I/O operations fail at any step (`LockIoError`,
`StoreIoError`, `ReleaseIoError`). `mkdir` at the start and the closing of file
handles are not separate steps.

The refinement maps the abstract `store` to `Committed`: the image in the
journal for the files it names, the record file itself for the others. The
rename of the journal is the commit point.

Two constants name the environments: `LockRaces` (may other calls use the lock
file while one is inside `removeStaleLock`?) and `IoFaults`. The code does not
rule lock races out, and with them exclusion fails (finding
`FileBackendLockRace`); `~LockRaces` states the condition under which the other
safety properties hold. A process that restarts may get any pid that is free,
that of a dead one included, in every run: an orphaned lock is then taken for
that of a live process, is never removed, and calls that meet it are refused
when their wait is over.

### LocalAuthService

A transaction is one step: that is the promise of `LocalAuthStore`. Everything
between transactions interleaves. A request carries the cookies its browser had
when it was sent (`Send`), goes through the transactions of its operation and
ends in a reply that sets or clears cookies when it arrives (`Deliver`), if it
does (`LoseReply`); a reply that touches no cookie ends it at once. A password
is its version number, a cookie or token the record it resolves to. Cookies,
sessions and tokens expire at any moment; an operator may disable an account.
`since` (on sessions and tokens), `cutoff` and `resets` are history variables:
the password version behind a session, the version set by the last reset and
the resets a token led to.

`SignInAt` and `RecoverAt` say in which browsers people sign in and open
recovery links; in the run, and in the theorems, they may be the same. A
recovery session's refresh cookie then overwrites the normal one beside an
access cookie that stays, and logout and `signOutOtherSessions`, which go by the
refresh cookie, act on the recovery session: `Overtaken` names that situation,
and both properties except it and no other mixture of cookies. `Mixes` are sets
of operations; `Init` picks one, `mix`, which only these are used of: with
`{all operations}` it restricts nothing.
Left out: `updateDisplayName` (the display name is not modelled; its
transaction changes nothing else), `getSecurityStatus` (reads only), the
throttling in front of the routes and invitations during registration.

### GoogleRewardedService

One user of one workspace. `Slot` is the number of requests in flight; each
goes `run - write - done` with a step per phase between which other requests
run. `grantReward` reads in its first step and writes in its second
(`GrantReward`, `CommitReward`), both inside one transaction; nothing in the code
locks the session's row, makes receipts unique or asks the database for more
than its default isolation, so other requests commit in between. Two grants may
both read the session before either writes, and then it gets two receipts: the
run `RewardedDoubleGrant` shows it. `RetryAddsNoReceipt` says that this overlap is
the only way: a grant sent after an answer, or whose reading found what another
had written, adds none.
`evaluateGate` is one step: rule, provider config and receipts are read one
after another, but the first two are changed by operators only. Time is in
minutes and moves by `Tick`; `ReceiptWindow` is the `limit: 25` of
`resolveUnlockReceipts`. `n`, `seen` and `at` are history: the order of
receipts and what a start or a grant could see. A daily limit above `ReceiptWindow` is
never reached; the run keeps it below.

### GoogleRewardedRuntime

Code between two awaits is one step, microtasks included. `ui` is the shared
reactive state with `pendingResolve` and `activeGrantPromise`; `flow[r]` is how
far `requireUnlock` and `beginWatch` have got for prompt `r`; `cont[q]` is the
await which the reply in slot `q` resumes. The composition is by
`INSTANCE GoogleRewardedService`: `Request` is `Arrive` of the server, `Receive`
its `Respond`, or an error in its place when `Lossy`. The publisher tag is
external: slots, events and the script's load and error events happen as its
documentation orders them (ready, perhaps granted, closed). The host component
offers "Watch ad" and "Not now" in phase prompt and "Close" in phase error only.
A second click on "Close" is a constant, `DoubleClicks`: its `cancelPrompt` meets
the next prompt, and `RewardReachesServer` fails. A tag that failed to load once
is waited for in vain by the next prompt, which `SettlesWithTag` excepts.
Left out: the content of gate states, a start answered with a session but no
ad unit path (a configuration error).

### WorkspaceMembers

One workspace, any users; an invitation names the user its address belongs to.
A request is a record in `call[q]` that walks through the queries of its
service method, `stage` by `stage`; nothing the repository does wraps them in a
transaction, so other requests run between any two, and `CallFails` ends one
after any of them with its writes kept. `Authorize` is the access check with
its healing of the owner's membership (`workspaceContextService`), `Upsert` the
repository's find, then update or insert, where an insert that meets a row is
dropped. `gone`, `granted` and the fields `seen` and `older` are history: how
often a user was removed, which invitations gave their role, and what a request
could see when it was made. Left out: personal workspaces, settings, the
workspace directory, the sending of e-mails.

### WorkspaceRealtime

Extends `WorkspaceMembers`. A call that has done its last write is at stage
`publish` until its event goes out (`Bridge`); `Audience` are the tabs in the
rooms of that event at that moment. A tab connects, is authenticated, has its
memberships listed and joins its rooms, in separate steps (`sock`, `joins`,
`rooms`); going offline loses its rooms and perhaps what is under way (`Drop`).
`due` counts queued refreshes, `fetching` those answered and not yet applied.
`behind` is history: a change the tab has yet to see, or has asked for. Other
services' events and audiences are left out.

### WebBootstrap

One tab after its boot. `queued` and `flight` are the promise chain of
`refreshQueue` and the request it performs; the payload is read from the server
in two steps (`ListWorkspaces`, `ResolveWorkspace`) and applied in one
(`Apply`), or dropped when the user has moved. `broken` tells that a handler
threw: the queue's promise stays rejected and no refresh begins again. `session`
are the auth guard's fetches of `/api/session`: `RefreshAuth` joins the one in
flight. `signs` counts sign-ins and sign-outs. A request carries the cookies of
its sending, so it is answered as signed out when the user has signed in since
or has signed out of the session they name (`SignedIn`), and what it then finds
is no newer than its sending (`RevFound`). `rev` counts the server's changes, `context.rev` and `auth.rev` say how
old the tab's picture is; `behind` and `authBehind` are history and name the
ways in which the code leaves the tab behind: a failed refresh, a payload dropped
after a move inside the workspace, a fetch joined after its answer, or joined by
the refresh after a sign-in although it was sent before. Redirects of the route
guards are moves. Left out: themes, the OAuth callback, the boot, and the
cookies that a late refusal of an earlier session's fetch clears
(`AuthController.js:133`).

### HttpClient

Unsafe requests of the clients in one browser. A token is the number of the
secret it was made from; `jar` is the cookie they share, `cache[c]` and
`promise[c]` the token and the fetch of client `c`, `fetch` all session fetches
in the order they were sent, each with the cookie of that moment. A request goes
`new - (wait) - sent - (403 - rewait - sent) - answered`: `Prepare`, `Proceed`,
`Verify`, `Succeed`, `MaybeRetry`, `RetryRequest`. The cookie's arrival
(`StoreCookie`) and the settling of the fetch (`SettleFetch`) are separate, for
another fetch may come between. `disturbed` is history: the cookie or the cache
was changed by something else than the request's own token fetch. Left out: the
client with transient retries, streams, the JSON:API transport.

### AssistantChat

A turn is one call of `streamChat`; a conversation has the number of the turn
that created it. `turn[t]` walks through `find`, `reopen`, `seq` and `insert`
(`appendMessage` with its read of the next seq), `prompt`, `ask` (the provider's
answer), `execute` (a tool), `complete` or `catch`, `ended`. `rows[t]` are the
kinds of the messages it stored, `last[c]` the largest seq of conversation `c`,
on which the database has a unique index. What is returned without `await`
inside the `try` ends in `Rejects`, the awaited rest in `Throws`: the source's
order of `return` and `await` decides which failures complete the conversation.
`chan[t]` is the stream as far as the tab has not read it; after the tab has
stopped reading, the server may learn of it at any time or never. `shown[t]` is
the reply's bubble, `restores` the requests for the messages of a selected
conversation, `crossed` history: the answer to a selection that "new
conversation" had overtaken was shown. Texts, deltas, tool arguments, titles
and message counts are left out, as are the lists, the settings and a selection
that would join a request for the same messages.

## 3. Runs

| Run | Instance | What it shows |
|---|---|---|
| `FileBackendOneProcess` | 1 process, 2 calls, 3 transactions, 2 files, 2 crashes, reused pids, I/O errors | store promises, refinement, snapshots |
| `FileBackendLiveness` | 2 processes that may get each other's pids, 2 calls at a time, 3 transactions, 1 file, lock races, 1 crash | every call settles, also when two race to remove a third one's lock |
| `FileBackendLockRace` (violation) | two calls and one stale lock | both enter the critical section |
| `AuthService` | 1 user, 1 browser, 2 requests, 4 mixes of operations: password recovery with 3 sessions, 2 tokens and 3 passwords, the others with 2, 1 and 2; projector | resets cut off, tokens reset once, profiles, logout, sign-out of others |
| `RewardedGrants` | 2 watch sessions, 2 requests, 4 minutes, days of 3, reconfiguration | a grant asked for again adds no receipt; unlock, cooldown and limit bind later starts |
| `RewardedDoubleGrant` (violation) | 1 watch session, 2 requests | two grants that overlap make two receipts |
| `RewardedPrompts` | 2 prompts, 2 sessions, lossy, tag may fail | granted has a receipt, rewards are sent, rows are closed, prompts settle |
| `WorkspaceCalls` | 2 users, 2 requests in flight, 3 calls, 2 invitations, 1 failing query | what acceptances, revocations, newer invitations, removals and role changes leave of each other |
| `WorkspaceAccess` | 2 users, 1 tab, 2 requests, 2 calls, 1 invitation, 1 lost connection, 1 failing query | a change reaches the tab; rooms are for members |
| `WebBootstrap` | 3 pages of 2 workspaces, 2 moves, 2 changes of the server, 1 failure | a quiet tab is current, permissions belong to the workspace, no older answer wins |
| `HttpClientTokens` | 2 requests of a client, another client, 1 read, 1 clear, 1 failure, with and without cookies | once at most; a refusal for good means another disturbance |
| `AssistantTurns` | 2 turns, 1 tool round, 2 recovery passes, 1 call per answer, 1 restore at a time, 1 failure | done means stored, active means in use, replies belong to the conversation |

Why the bounds are enough: each hazard involves two actors (two calls, two
requests, two tabs or a prompt and its successor) and one or two faults. Two
transactions race and a third replays or overwrites what they left, or leaves
the lock for which they race; two crashes allow a crash during recovery from a
crash. `FileBackendLiveness` has one file, since more only lengthen the time a
call holds the lock, and one crash, the one that leaves the lock. Three
transactions and two processes with I/O errors as well are too many states for
it: an error ends its own call, and one in the release leaves the lock of a
process that lives, which is as lasting to the others as an orphan with a live
process's pid, a case the run has. `FileBackendOneProcess` has I/O errors at every
step, for safety. Three sessions are a login before,
the recovery session and a login after a reset; two tokens are one used and one
still out. Where two of a kind suffice for the interleaving, a further one only
repeats it: a late callback of the first prompt meets the second. Two files
are the least of which a crash can leave one new and one old. Two calls
interleave on a membership or invitation and a third finds what they left; two
requests share a token fetch and the other client takes the cookie from under
both; two moves leave a workspace and come back to it while a refresh is in
flight; two turns are one the tab has left and one it reads. One round of tools
and two passes stand for the code's four and three: they reach every action, but
not what a second round finds of the first (a failed tool, an answer already
said); the theorems of `AssistantChatProofs` hold for any number of both. `AssistantTurns`
has one fault, since a second one only ends a second turn. Deadlock is not
checked: a system whose transactions, sessions or prompts are used up really
stops, and no part of these systems promises to go on for ever.

Symmetry is used over identities that no action tells apart, and in runs
without liveness properties only.

Fairness. `FairSpec` of the file backend assumes that the event loop of a live
process keeps running each call and that the two-second polling ends: nothing
is assumed of crashes, restarts, faults and the ageing of locks. `FairSpec` of
the rewarded runtime assumes that the server answers or the connection breaks,
that the tag loads or reports an error, that ads time out or are closed, and
that people answer a prompt that shows them a button. The runtime's own timer
of ten seconds justifies the third, the browser the first two. `RFairSpec` of
`WorkspaceRealtime` assumes that a call which has done its last write publishes
or fails, and that a tab works off the refreshes it has queued: both are
continuations of running code. Nothing is assumed of users or of connections.
The other specifications state no fairness; their properties are safety.

`AuthService` asks one question of four sets of operations, since all of them at
once are too many: `Resetting` (login and recovery), `SharedBrowser` (recovery
links in the signed-in browser, logout, sign-out of others), `Changing`
(password changes beside the session route) and `Leaving` (logout and sign-out
of others beside logins). Each mix is explored with all its interleavings. The
constraint `Fits` of `MCLocalAuthService` gives each as many records as it
needs and lets one session or token expire: a further one only takes another
record out of play.

## 4. Proofs

Every safety and action property of the passing runs is stated by a theorem;
its premises, where it has any, are conditions on constants of the module, which
the sections below and chapter 5 explain.

`LocalAuthFileBackendProofs`, for any processes, calls, pids, transactions,
files and bounds. `StorePromises` is about the abstract store: it keeps its
promises by the inductive invariant `StoreInv`, the three promises with
`NewUntouched` (a call that has not begun left no trace; without it `Begin`
could adopt old traces). The others are about the backend:

1. `TypeCorrect`: `TypeInv` (types and the bookkeeping of calls, `CallInv`) is
   inductive, without any condition. `TypeCorrectHolds` states `TypeOK`.
2. `MutualExclusionHolds`, under `~LockRaces`: `LockInv` is inductive. It says
   whose lock file is at the path, that its pid is that of a live process while
   somebody holds it, and that in the break window the old file stays the same.
   Exclusion alone is not inductive: it does not exclude that a call about to
   remove a stale lock coexists with a holder.
3. `ImplementsStoreHolds`, under `~LockRaces`: `DiskInv` follows the
   transaction of each call (`CallTx`) and what its loops have read or written
   (`CallDisk`); with it every step of the backend is a step of the store or
   leaves `Committed`, `status` and `wrote` alone (`StepRefines`).
4. `AllOrNothingHolds`, `AckedIsDurableHolds`, `RefusedHasNoEffectHolds` follow
   from the refinement and the store's own theorem, `PromisesKeptHolds` joins
   them; `SnapshotIsCurrentHolds` follows from `DiskInv`.

These proofs assume `ConstantsAssumption` only (hosts are processes, the null
values are none of the others, bounds are naturals). `~LockRaces` is a premise
of the theorems: the run `FileBackendLockRace` shows it is needed.

`LocalAuthServiceProofs`, for any accounts, browsers, sessions and tokens:

1. `TypeCorrect`: `TypeInv` (the types of the store, `ViaInv` on where a
   session comes from, `WebInv` on what a request knows at each of its stages)
   is inductive; `TypeOKHolds` states `TypeOK`.
2. `ResetCutsOffHolds`: `CutInv` adds `cutoff <= password`. Without it a
   session made after the reset could still belong to a password before it.
3. `TokenResetsOnceHolds`: `OnceInv` follows a recovery token: unused, it has
   led to no reset and no session; a session's token is its own; once the token
   has led to a reset its session is revoked. The count of resets alone is not
   inductive, for a second live session of the token could reset again.
4. `SignedInHasProfileHolds`, `LogoutEndsSessionHolds` and
   `SignOutSparesOnlyOwnHolds`: `CookieInv` says of the cookies in each browser
   and in each request in flight, and of the session a reply is about to set,
   where it may have come from: a recovery session only where recovery links are
   opened, a normal one only where people sign in, and then its account has its
   profile. Beside an access cookie stands the refresh cookie of the same session
   or one that a recovery link has taken (`CookiesOK`), which is the heart of the
   last two: where it is the same, the refresh cookie by which logout and
   sign-out go is the session that the access cookie authenticates; where it is
   not, the properties' own exception applies. What a sign-out in several steps
   has found out must stay true while others run (`ReqOK`): a session that was
   not valid never becomes valid again. Replies are part of the invariant because
   one that arrives late brings the cookies of its own moment back.

They assume `ServiceAssumption` only.

`GoogleRewardedServiceProofs`, for any sessions, gates, rules and requests:

1. `TypeCorrect` and `TypeOKHolds`.
2. `RetryAddsNoReceiptHolds`: `ReceiptInv` says that a session with a receipt is
   rewarded or closed, so one that a grant finds started has none yet; `ReadInv`
   carries that to the write: all receipts of the session have numbers above what
   the grant saw (`Unpaid`), because receipts written later have later numbers.
   That a session has one receipt is not provable: `RewardedDoubleGrant` shows two.
   `GrantedInv` says that an answer "granted" has its receipt.
3. `LimitsBindLaterWatchesHolds`: receipts are numbered
   in the order of their grants (`NumberInv`), and `Bound`, what a start found out
   about the receipts there were, stays true of the request and of the row it
   writes, because later receipts have later numbers. A start sees the newest
   `ReceiptWindow` receipts of a gate only: the unlock and the cooldown are judged
   by the newest one, which is the last to end, and the count of the day by a
   lemma about windows (`NewestCount`, `NewestOfAll`): a window that is not full
   misses none, one that is full holds at least the limit. Hence the theorem's
   hypotheses, a window that is not empty and a daily limit not above it.
4. `AnswerInv` is what a client may rely on in an answer, and `AnyStep` keeps
   it, and the invariants above, in any surroundings of the server: a request is
   added or an answer taken away.

They assume `RewardedAssumption` only.

`GoogleRewardedRuntimeProofs`, for any prompts, sessions, gates and requests of
a tab with its server, lossy or not, under `~DoubleClicks`. `UiInv` says that one
prompt at most is open, that an ad is under way for that prompt only, and that a
reply finds what it resumes where it left it (`Resumes`). This is what
`DoubleClicks` breaks: the second `cancelPrompt` takes the next prompt away from
under its ad. The server's invariants come from `AnyStep` by
`INSTANCE GoogleRewardedServiceProofs`.

1. `RewardReachesServerHolds`: with the server's
   `AnswerInv`, an ad plays only for a session that the server has recorded.
2. `GrantedHasReceiptHolds`: `SessInv` assigns to each
   prompt the session it was opened with (`Sess(f)`), no two the same, and says
   that a prompt told "granted" has a receipt of its session. Counting prompts
   against receipts is not inductive without the assignment. `Asks` and
   `CallsInv` tie each request in flight to the prompt that sent it.
3. `NoAbandonedSessionHolds`: `KeptInv` follows every
   started session, while nothing was lost, to the open prompt or to the answer
   that brings it there.

They assume `RuntimeAssumption` and the server's assumption
(`ServerAssumption`).

`WorkspaceMembersProofs`, for any users, roles, requests and bounds: the
inductive invariant is `IInv`, the types, `AcceptedIsMember` and for each
request `CallInv`, which says what it knows at its stage: that the membership
it found is there, that the invitation it read was pending or is handled, that
what it is to expire was pending when it was made. Every step changes one
request, and what it does to the tables only lets them grow (`Grows`:
memberships stay, handled invitations stay handled, history counts up), which
keeps the other requests' `CallInv`; so each action is looked at once for its
own request and once for all others. The properties alone are not inductive:
an answer is right only by what its request read several steps before.
`RemovedStaysOutHolds` is an action property from the same invariant.
`ServerUnchangedByTabs` shows that `WorkspaceRealtime` implements
`WorkspaceMembers`, so that all of this holds there; `RoomsAreForMembersHolds`
adds `RoomsInv`: who is in the room or was listed as a member to join it has a
row in the memberships, and rows stay. They assume `WorkspaceAssumption` and, in
`WorkspaceRealtime`, `RealtimeAssumption`.

`HttpClientProofs`, for any clients, requests and bounds: `TakesEffectOnceHolds`
from `CountInv` (how often a request was sent and performed at each stage) and
`RetryRepairsHolds` from `RetryInv`, which follows the token of a retry from its
own fetch to the second sending: while nothing disturbed the request, the
fetch's secret is the one in the cookie and in the cache. They assume
`HttpAssumption` only.

`WebBootstrapProofs`, for any paths, workspaces, moves, changes and failures:
at most one refresh and one session fetch are under way at a time. `GuardInv`
and `ContextInv` say what an answer under way is worth once nothing else is to
come (`Last`: no event, no fetch, no queued refresh). Every change of the server
puts an event on its way, every event leads to a fetch and every fetch to a
refresh, so an answer older than the last change is never the last one; this is
the induction behind `QuietAuthIsCurrentHolds` and `QuietContextIsCurrentHolds`,
which alone say nothing of a tab that is busy. `OnTime` says that a request knows
all changes up to its sending and that one sent before a sign-in or sign-out is
behind by it, so that an answer as new as the last change was given to the right
user (`Found`). `RevInv` (an answer is at least
as new as what it replaces) gives `NeverGoesBackHolds`, `RouteInv` (a request's
workspace is that of its path) gives `PermissionsOfTheWorkspaceHolds`. They
assume `BootstrapAssumption` only.

`AssistantChatProofs`, for any turns, rounds, passes, tool calls and failures:
a step of the server changes one turn, a step of the tab none but for its link.
`RowsOK` ties a turn's stage to the rows it has stored (`Half` a transcript,
odd or even, until the reply makes it `Whole`), `StreamOK` says what the events
not yet read imply: only `meta` while the turn runs, a `message` only when the
transcript is whole, one `end` and that the last. Without it `DoneIsWhole` is
not inductive, for the tab learns of a turn long after it ended. `ActiveInv` is
`ActiveIsInUse` itself, which needs `TurnOK` (a rejected turn has ended and its
record keeps its stage and conversation). `RepliesAreOfConversation` needs
`ConvInv` beside that: `LinkInv` (nothing is written of a turn before its `meta`
or refusal, and what is read is linked and not being restored), `ReadInv` (the
tab is in the conversation of the turn it reads, or the turn's next event tells
it) and `RestoreInv` (at most one selection counts, and remembers where the
replies shown came from). `Shape` is what every step of the server has in common
as far as that goes. They assume `ChatAssumption` only.

TLC evaluates all these assumptions in the runs.

Only model-checked: the liveness properties `EveryCallSettles`,
`SettlesWithTag` and `TabCatchesUp`. Their proofs would need ENABLED of the fair
actions, which the prover does not reason about.

## 5. Findings and known limits

`PROJECT.json` lists two disagreements with a run of their own: the race in
removing a stale lock (`FileBackendLockRace`) and the second receipt of two
overlapping grants (`RewardedDoubleGrant`). Others are behaviours that the models
have and their properties except or a constant switches off:

- calls of a process, restarted or not, are refused while an orphaned lock has
  the pid of a live one, the process's own included: in all runs of the file
  backend;
- a recovery link opened in the signed-in browser misleads logout and sign-out of
  others: they go by its refresh cookie, and the session that was signed in lives
  on (`plan.md:270` says "logout revokes the current refresh session and
  invalidates future backend session checks"; `Overtaken` in `AuthService`);
- the second click on "Close" cancels the next prompt (`DoubleClicks = TRUE` in
  `RewardedPrompts`); a tag that failed once is waited for;
- a rule's daily limit may be any natural number
  (`packages/google-rewarded-core/src/shared/googleRewardedRuleResource.js:65`),
  but only the newest 25 receipts are read: a limit above 25 is never reached
  (`DailyLimit > ReceiptWindow` in `RewardedGrants`);
- a `closed` reported late closes a session that was granted;
- two invitations at once leave two pending for one address; an invitation of
  the owner, once accepted, lowers the owner's role;
- a payload dropped after a move inside a workspace leaves the older context; a
  payload handler that throws stops the queue for good; a session fetch joined
  after its answer, or sent before a sign-in and joined after it, leaves the guard
  with what was before;
- an assistant turn whose reply, empty answer or recovery fails leaves its
  conversation active; "new conversation" during a restore shows the restored
  messages in the new one.

## 6. Not modelled, and what is next

Not modelled: the parts of the inventory that wrap a library or a service, the
CRUD and resource packages, generators and the CLI's commands (code and
documents written from templates, one process, no protocol), and in the
modelled packages what each section of chapter 2 leaves out. The idempotency
claims of the kernel's action pipeline are not modelled either: the adapter the
repository installs does nothing.

Next, in order of importance:

1. `LocalAuthDbBackend`: the service's transactions at weaker isolation.
2. `KernelLifecycle` and `ActionPipeline`: boot and shutdown, what a failure
   after an action's execution means for its claim.
3. `RequestRecovery`, `ManagedImageAsset`, `PackageInstall`.
