------------------------ MODULE LocalAuthFileBackend ------------------------
(***************************************************************************)
(* The file backend of the local auth provider (fileBackend.js): calls of  *)
(* withTransaction interleave at every await, one I/O operation per step,  *)
(* in processes that crash and come back over the files they left.         *)
(*                                                                         *)
(* Paths under .jskit/auth: store.lock, transaction.journal and one file   *)
(* per record set.  Files are numbered in commit order: 1 users.passwd,    *)
(* 2 sessions.passwd, 3 recovery.passwd.  A file's content is abstracted   *)
(* to the set of transactions it contains.                                 *)
(***************************************************************************)
EXTENDS Naturals

CONSTANTS
    Proc,       \* operating-system processes that use the store
    Call,       \* request slots: each runs one withTransaction at a time
    Host,       \* Host[c]: the process that runs call c
    Pid, NoPid, \* process ids; NoPid is a lock file without a readable one
    NoCall,
    Tx, NoTx,   \* identities of transactions
    NumFiles,
    MaxCrashes, \* bound on process crashes
    LockRaces,  \* may other calls use store.lock inside removeStaleLock?
    IoFaults    \* may an I/O operation fail?

File == 1..NumFiles

ASSUME ConstantsAssumption ==
    /\ Host \in [Call -> Proc]
    /\ NoPid \notin Pid /\ NoCall \notin Call /\ NoTx \notin Tx
    /\ NumFiles \in Nat /\ MaxCrashes \in Nat
    /\ LockRaces \in BOOLEAN /\ IoFaults \in BOOLEAN

VARIABLES
    up,         \* up[p]: pid of process p, NoPid while it is down
    crashes,
    lock,       \* store.lock; by = NoCall when there is no such file
    files,      \* files[f]: content of record file f
    journaled,  \* names in transaction.journal; {} when there is no such file
    image,      \* contents in transaction.journal
    pc,         \* where each call is in withTransaction
    tx,         \* the transaction it runs
    seen,       \* pid it read from the lock file
    todo,       \* files its current loop still has to read or write
    mem,        \* its in-memory record sets, or the entries it replays
    outcome,    \* how its promise will settle once the lock is released
    status,     \* history: how each transaction's promise settled
    wrote       \* history: the files each transaction's callback touched

procVars == <<up, crashes>>
diskVars == <<files, journaled, image>>
workVars == <<todo, mem>>
historyVars == <<status, wrote>>
vars == <<procVars, lock, diskVars, pc, tx, seen, workVars, outcome, historyVars>>

-----------------------------------------------------------------------------
(***************************************************************************)
(* Control points.  Holding: the call has created store.lock and not yet   *)
(* released it.  BreakWindow: it is inside removeStaleLock, past the stat. *)
(***************************************************************************)
Critical == {"replay", "redo", "redone", "load", "callback",
             "journal", "write", "clear", "release"}
Holding == {"pid"} \union Critical
BreakWindow == {"read", "kill", "rm"}
Control == {"idle", "open", "retry", "stat"} \union BreakWindow \union Holding

Outcome == {"none", "acked", "refused", "lost"}
NoLock == [by |-> NoCall, pid |-> NoPid, old |-> FALSE]
Empty == [f \in File |-> {}]

(* Under ~LockRaces nobody else touches store.lock while a call is between *)
(* the stat and the rm of removeStaleLock; the code does not ensure it.    *)
Quiet(c) == LockRaces \/ \A b \in Call \ {c} : pc[b] \notin BreakWindow

LivePids == {up[p] : p \in Proc} \ {NoPid}

MutAliveIgnoresOwner(pid) == FALSE

(* process.kill(pid, 0): a pid is all that identifies the owner. *)
IsProcessAlive(pid) == pid \in LivePids

(* The promise of c settles and its stack is gone. *)
Return(c, result) ==
    /\ status' = [status EXCEPT ![tx[c]] = result]
    /\ pc' = [pc EXCEPT ![c] = "idle"]
    /\ tx' = [tx EXCEPT ![c] = NoTx]
    /\ seen' = [seen EXCEPT ![c] = NoPid]
    /\ todo' = [todo EXCEPT ![c] = {}]
    /\ mem' = [mem EXCEPT ![c] = Empty]
    /\ outcome' = [outcome EXCEPT ![c] = "none"]
    /\ UNCHANGED wrote

(* acquireLock throws "Could not acquire local auth store lock". *)
Throw(c) == Return(c, "refused") /\ UNCHANGED <<procVars, lock, diskVars>>

Goto(c, label) == pc' = [pc EXCEPT ![c] = label]

-----------------------------------------------------------------------------
Init ==
    /\ up = [p \in Proc |-> NoPid]
    /\ crashes = 0
    /\ lock = NoLock
    /\ files = Empty
    /\ journaled = {}
    /\ image = Empty
    /\ pc = [c \in Call |-> "idle"]
    /\ tx = [c \in Call |-> NoTx]
    /\ seen = [c \in Call |-> NoPid]
    /\ todo = [c \in Call |-> {}]
    /\ mem = [c \in Call |-> Empty]
    /\ outcome = [c \in Call |-> "none"]
    /\ status = [t \in Tx |-> "new"]
    /\ wrote = [t \in Tx |-> {}]

Begin(c, t) ==
    /\ pc[c] = "idle" /\ up[Host[c]] # NoPid
    /\ status[t] = "new"
    /\ status' = [status EXCEPT ![t] = "running"]
    /\ tx' = [tx EXCEPT ![c] = t]
    /\ Goto(c, "open")
    /\ UNCHANGED <<procVars, lock, diskVars, seen, workVars, outcome, wrote>>

(* fs.open(store.lock, "wx") succeeds only where there is no such file;    *)
(* the 25 ms poll on EEXIST is a stuttering step until the timeout.        *)
OpenLock(c) ==
    /\ pc[c] \in {"open", "retry"} /\ Quiet(c)
    /\ lock = NoLock
    /\ lock' = [NoLock EXCEPT !.by = c]
    /\ Goto(c, "pid")
    /\ UNCHANGED <<procVars, diskVars, tx, seen, workVars, outcome, historyVars>>

WaitTimesOut(c) ==
    /\ pc[c] = "open"
    /\ Goto(c, "retry")
    /\ UNCHANGED <<procVars, lock, diskVars, tx, seen, workVars, outcome, historyVars>>

(* EEXIST after timeoutMs: on to removeStaleLock. *)
FindLockHeld(c) ==
    /\ pc[c] = "retry" /\ Quiet(c)
    /\ lock # NoLock
    /\ Goto(c, "stat")
    /\ UNCHANGED <<procVars, lock, diskVars, tx, seen, workVars, outcome, historyVars>>

MutWritePid(c) ==
    /\ pc[c] = "pid"
    /\ lock' = IF lock.by = c THEN [lock EXCEPT !.pid = "time"] ELSE lock
    /\ Goto(c, "replay")
    /\ UNCHANGED <<procVars, diskVars, tx, seen, workVars, outcome, historyVars>>

(* handle.writeFile: the pid goes into the file c created, which may no    *)
(* longer be the one at the path.                                          *)
WritePid(c) ==
    /\ pc[c] = "pid"
    /\ lock' = IF lock.by = c THEN [lock EXCEPT !.pid = up[Host[c]]] ELSE lock
    /\ Goto(c, "replay")
    /\ UNCHANGED <<procVars, diskVars, tx, seen, workVars, outcome, historyVars>>

MutStatLock(c) ==
    /\ pc[c] = "stat" /\ Quiet(c)
    /\ Goto(c, IF lock # NoLock /\ lock.old THEN "read" ELSE "open")
    /\ UNCHANGED <<procVars, lock, diskVars, tx, seen, workVars, outcome, historyVars>>

StatLock(c) ==
    /\ pc[c] = "stat" /\ Quiet(c)
    /\ \/ /\ lock = NoLock
          /\ Goto(c, "retry")
          /\ UNCHANGED <<procVars, lock, diskVars, tx, seen, workVars, outcome, historyVars>>
       \/ /\ lock # NoLock /\ lock.old
          /\ Goto(c, "read")
          /\ UNCHANGED <<procVars, lock, diskVars, tx, seen, workVars, outcome, historyVars>>
       \/ /\ lock # NoLock /\ ~lock.old
          /\ Throw(c)

(* readText returns "" for a missing file, which parses to no pid. *)
ReadLock(c) ==
    /\ pc[c] = "read"
    /\ seen' = [seen EXCEPT ![c] = lock.pid]
    /\ Goto(c, "kill")
    /\ UNCHANGED <<procVars, lock, diskVars, tx, workVars, outcome, historyVars>>

OwnerIsAlive(c) ==
    /\ pc[c] = "kill" /\ IsProcessAlive(seen[c])
    /\ Throw(c)

OwnerIsDead(c) ==
    /\ pc[c] = "kill" /\ ~IsProcessAlive(seen[c])
    /\ seen' = [seen EXCEPT ![c] = NoPid]
    /\ Goto(c, "rm")
    /\ UNCHANGED <<procVars, lock, diskVars, tx, workVars, outcome, historyVars>>

(* fs.rm removes whatever file is at the path by now. *)
RmStaleLock(c) ==
    /\ pc[c] = "rm"
    /\ lock' = NoLock
    /\ Goto(c, "retry")
    /\ UNCHANGED <<procVars, diskVars, tx, seen, workVars, outcome, historyVars>>

-----------------------------------------------------------------------------
(* replayCommitJournal, then the three record files are read in order. *)
MutReadJournal(c) ==
    /\ pc[c] = "replay"
    /\ todo' = [todo EXCEPT ![c] = File] /\ Goto(c, "load") /\ UNCHANGED mem
    /\ UNCHANGED <<procVars, lock, diskVars, tx, seen, outcome, historyVars>>

ReadJournal(c) ==
    /\ pc[c] = "replay"
    /\ \/ /\ journaled = {}
          /\ todo' = [todo EXCEPT ![c] = File]
          /\ Goto(c, "load")
          /\ UNCHANGED mem
       \/ /\ journaled # {}
          /\ todo' = [todo EXCEPT ![c] = journaled]
          /\ mem' = [mem EXCEPT ![c] = image]
          /\ Goto(c, "redo")
    /\ UNCHANGED <<procVars, lock, diskVars, tx, seen, outcome, historyVars>>

(* The file the loop of call c handles next. *)
NextFile(c, f) == f \in todo[c] /\ \A g \in todo[c] : f <= g

(* One writeAtomic of a loop: f gets the content c holds for it. *)
WriteFile(c, f, last) ==
    /\ NextFile(c, f)
    /\ files' = [files EXCEPT ![f] = mem[c][f]]
    /\ todo' = [todo EXCEPT ![c] = @ \ {f}]
    /\ pc' = [pc EXCEPT ![c] = IF todo[c] = {f} THEN last ELSE @]
    /\ UNCHANGED <<procVars, lock, journaled, image, tx, seen, mem, outcome, historyVars>>

RedoFile(c, f) == pc[c] = "redo" /\ WriteFile(c, f, "redone")

RmReplayedJournal(c) ==
    /\ pc[c] = "redone"
    /\ journaled' = {} /\ image' = Empty
    /\ todo' = [todo EXCEPT ![c] = File]
    /\ Goto(c, "load")
    /\ UNCHANGED <<procVars, lock, files, tx, seen, mem, outcome, historyVars>>

LoadFile(c, f) ==
    /\ pc[c] = "load"
    /\ NextFile(c, f)
    /\ mem' = [mem EXCEPT ![c][f] = files[f]]
    /\ todo' = [todo EXCEPT ![c] = @ \ {f}]
    /\ pc' = [pc EXCEPT ![c] = IF todo[c] = {f} THEN "callback" ELSE @]
    /\ UNCHANGED <<procVars, lock, diskVars, tx, seen, outcome, historyVars>>

(* The callback runs on the in-memory state and marks what it touched. *)
RunCallback(c, touched) ==
    /\ pc[c] = "callback"
    /\ wrote' = [wrote EXCEPT ![tx[c]] = touched]
    /\ mem' = [mem EXCEPT ![c] =
                  [f \in File |-> IF f \in touched THEN @[f] \union {tx[c]} ELSE @[f]]]
    /\ \/ /\ touched # {}
          /\ Goto(c, "journal")
          /\ UNCHANGED outcome
       \/ /\ touched = {}
          /\ outcome' = [outcome EXCEPT ![c] = "acked"]
          /\ Goto(c, "release")
    /\ UNCHANGED <<procVars, lock, diskVars, tx, seen, todo, status>>

(* What a throw at each point of the critical section means for the call.  *)
CallbackThrows(c) ==
    /\ pc[c] = "callback"
    /\ outcome' = [outcome EXCEPT ![c] = "refused"]
    /\ Goto(c, "release")
    /\ UNCHANGED <<procVars, lock, diskVars, tx, seen, workVars, historyVars>>

MutWriteJournal(c) ==
    /\ pc[c] = "journal"
    /\ todo' = [todo EXCEPT ![c] = wrote[tx[c]]]
    /\ Goto(c, "write")
    /\ UNCHANGED <<procVars, lock, diskVars, tx, seen, mem, outcome, historyVars>>

(* The rename of transaction.journal is the commit point. *)
WriteJournal(c) ==
    /\ pc[c] = "journal"
    /\ journaled' = wrote[tx[c]]
    /\ image' = [f \in File |-> IF f \in wrote[tx[c]] THEN mem[c][f] ELSE {}]
    /\ todo' = [todo EXCEPT ![c] = wrote[tx[c]]]
    /\ Goto(c, "write")
    /\ UNCHANGED <<procVars, lock, files, tx, seen, mem, outcome, historyVars>>

MutCommitFile(c, f) == pc[c] = "write" /\ WriteFile(c, f, "release")

CommitFile(c, f) == pc[c] = "write" /\ WriteFile(c, f, "clear")

RmJournal(c) ==
    /\ pc[c] = "clear"
    /\ journaled' = {} /\ image' = Empty
    /\ outcome' = [outcome EXCEPT ![c] = "acked"]
    /\ Goto(c, "release")
    /\ UNCHANGED <<procVars, lock, files, tx, seen, workVars, historyVars>>

(* The finally clause removes the file at the path, whoever created it. *)
Release(c) ==
    /\ pc[c] = "release" /\ Quiet(c)
    /\ lock' = NoLock
    /\ Return(c, outcome[c])
    /\ UNCHANGED <<procVars, diskVars>>

-----------------------------------------------------------------------------
(***************************************************************************)
(* Faults.  A failing open, pid write, stat, read or rm in acquireLock     *)
(* rejects the call and leaves the lock file as it is; a failing operation *)
(* in the critical section still runs the finally clause; a failing        *)
(* release rejects a call that had already succeeded.                      *)
(***************************************************************************)
LockIoError(c) ==
    /\ IoFaults
    /\ pc[c] \in {"open", "retry", "pid", "stat", "read", "rm"}
    /\ Throw(c)

StoreIoError(c) ==
    /\ IoFaults
    /\ \/ /\ pc[c] \in {"replay", "redo", "redone", "load", "journal"}
          /\ outcome' = [outcome EXCEPT ![c] = "refused"]
       \/ /\ pc[c] \in {"write", "clear"}
          /\ outcome' = [outcome EXCEPT ![c] = "lost"]
    /\ Goto(c, "release")
    /\ UNCHANGED <<procVars, lock, diskVars, tx, seen, workVars, historyVars>>

ReleaseIoError(c) ==
    /\ IoFaults
    /\ pc[c] = "release"
    /\ Return(c, IF outcome[c] = "refused" THEN "refused" ELSE "lost")
    /\ UNCHANGED <<procVars, lock, diskVars>>

(* More than LOCK_STALE_MS pass after the lock file was written; writing   *)
(* the pid into a new lock file is assumed to take less than that.         *)
LockGrowsOld ==
    /\ lock # NoLock /\ ~lock.old /\ pc[lock.by] # "pid"
    /\ lock' = [lock EXCEPT !.old = TRUE]
    /\ UNCHANGED <<procVars, diskVars, pc, tx, seen, workVars, outcome, historyVars>>

(* The system may give the process a pid that was in use before. *)
Restart(p, q) ==
    /\ up[p] = NoPid /\ q \notin LivePids
    /\ up' = [up EXCEPT ![p] = q]
    /\ UNCHANGED <<crashes, lock, diskVars, pc, tx, seen, workVars, outcome, historyVars>>

(* Every call of the process dies with it; the files stay as they are. *)
Crash(p) ==
    LET victims == {c \in Call : Host[c] = p /\ pc[c] # "idle"} IN
    /\ up[p] # NoPid /\ crashes < MaxCrashes
    /\ up' = [up EXCEPT ![p] = NoPid]
    /\ crashes' = crashes + 1
    /\ pc' = [c \in Call |-> IF c \in victims THEN "idle" ELSE pc[c]]
    /\ tx' = [c \in Call |-> IF c \in victims THEN NoTx ELSE tx[c]]
    /\ seen' = [c \in Call |-> IF c \in victims THEN NoPid ELSE seen[c]]
    /\ todo' = [c \in Call |-> IF c \in victims THEN {} ELSE todo[c]]
    /\ mem' = [c \in Call |-> IF c \in victims THEN Empty ELSE mem[c]]
    /\ outcome' = [c \in Call |-> IF c \in victims THEN "none" ELSE outcome[c]]
    /\ status' = [t \in Tx |-> IF \E c \in victims : tx[c] = t THEN "lost" ELSE status[t]]
    /\ UNCHANGED <<lock, diskVars, wrote>>

-----------------------------------------------------------------------------
AcquireStep(c) ==
    \/ OpenLock(c) \/ FindLockHeld(c) \/ WritePid(c) \/ StatLock(c)
    \/ ReadLock(c) \/ OwnerIsAlive(c) \/ OwnerIsDead(c) \/ RmStaleLock(c)

StoreStep(c) ==
    \/ ReadJournal(c) \/ RmReplayedJournal(c)
    \/ \E f \in File : RedoFile(c, f) \/ LoadFile(c, f) \/ CommitFile(c, f)
    \/ \E touched \in SUBSET File : RunCallback(c, touched)
    \/ CallbackThrows(c) \/ WriteJournal(c) \/ RmJournal(c) \/ Release(c)

Next ==
    \/ \E c \in Call : AcquireStep(c) \/ StoreStep(c) \/ WaitTimesOut(c)
    \/ \E c \in Call : LockIoError(c) \/ StoreIoError(c) \/ ReleaseIoError(c)
    \/ \E c \in Call, t \in Tx : Begin(c, t)
    \/ \E p \in Proc : Crash(p) \/ \E q \in Pid : Restart(p, q)
    \/ LockGrowsOld

Spec == Init /\ [][Next]_vars

(* The event loop of a live process runs every call that can go on, and    *)
(* time passes for one that waits; requests, faults, crashes, restarts and *)
(* the lock growing old owe nothing.                                       *)
FairSpec ==
    /\ Spec
    /\ \A c \in Call : WF_vars(AcquireStep(c) \/ StoreStep(c)) /\ WF_vars(WaitTimesOut(c))

-----------------------------------------------------------------------------
TypeOK ==
    /\ up \in [Proc -> Pid \union {NoPid}]
    /\ crashes \in 0..MaxCrashes
    /\ lock \in [by : Call \union {NoCall}, pid : Pid \union {NoPid}, old : BOOLEAN]
    /\ files \in [File -> SUBSET Tx]
    /\ journaled \subseteq File
    /\ image \in [File -> SUBSET Tx]
    /\ pc \in [Call -> Control]
    /\ tx \in [Call -> Tx \union {NoTx}]
    /\ seen \in [Call -> Pid \union {NoPid}]
    /\ todo \in [Call -> SUBSET File]
    /\ mem \in [Call -> [File -> SUBSET Tx]]
    /\ outcome \in [Call -> Outcome]
    /\ status \in [Tx -> {"new", "running", "acked", "refused", "lost"}]
    /\ wrote \in [Tx -> SUBSET File]

(* At most one call at a time is between the creation of store.lock and    *)
(* its release: the read-modify-write of the record files is exclusive.    *)
MutualExclusion ==
    \A c, d \in Call : pc[c] \in Holding /\ pc[d] \in Holding => c = d

(* What a reader that replays the journal first would find on disk. *)
Committed == [f \in File |-> IF f \in journaled THEN image[f] ELSE files[f]]

Store == INSTANCE LocalAuthStore WITH store <- Committed

(* The files, the lock and the journal together implement the atomic       *)
(* store: every commit lands whole on top of everything committed before.  *)
ImplementsStore == Store!Spec

(* The promises of the store, about what is on disk at every moment:       *)
(* a crash leaves a transaction in all the files it touched or in none.    *)
AllOrNothing == Store!AllOrNothing

(* What a resolved promise wrote is never lost from the files and journal. *)
AckedIsDurable == Store!AckedIsDurable

(* What a call rejected before the rename of the journal is never applied, *)
(* not even by another call that finds a journal to replay.                *)
RefusedHasNoEffect == Store!RefusedHasNoEffect

(* The three together, in any interleaving with crashes and I/O errors.    *)
PromisesKept == AllOrNothing /\ AckedIsDurable /\ RefusedHasNoEffect

(* The records a callback works on are the committed ones of that moment,  *)
(* no pending journal left unapplied and no file of another generation.    *)
SnapshotIsCurrent ==
    \A c \in Call : pc[c] = "callback" => mem[c] = Committed /\ journaled = {}

(* Every call of withTransaction settles, or dies with its process.        *)
EveryCallSettles == \A c \in Call : pc[c] # "idle" ~> pc[c] = "idle"

(***************************************************************************)
(* Parts of the inductive invariant.  CallInv: a call that is not idle     *)
(* runs one transaction of its own in a live process, and has an outcome   *)
(* exactly while it releases the lock.                                     *)
(***************************************************************************)
CallInv ==
    \A c \in Call :
        /\ pc[c] # "idle" =>
               tx[c] \in Tx /\ status[tx[c]] = "running" /\ up[Host[c]] # NoPid
        /\ pc[c] = "idle" => tx[c] = NoTx
        /\ outcome[c] # "none" <=> pc[c] = "release"
        /\ \A d \in Call : tx[c] = tx[d] /\ tx[c] \in Tx => c = d

(* LockInv: a holder's lock file is its own and carries the pid of its     *)
(* live process; inside the break window the old lock file stays the same, *)
(* and once its owner is found dead nobody holds it.                       *)
LockInv ==
    /\ lock.by = NoCall => lock = NoLock
    /\ \A c \in Call :
        /\ pc[c] \in Holding => lock.by = c
        /\ pc[c] = "pid" => ~lock.old
        /\ pc[c] \in Critical => lock.pid = up[Host[c]]
        /\ pc[c] \in BreakWindow =>
               /\ lock.by \in Call /\ lock.old
               /\ \A d \in Call : pc[d] \in BreakWindow => d = c
        /\ pc[c] = "kill" => seen[c] = lock.pid
        /\ pc[c] = "rm" => \A d \in Call : pc[d] \notin Holding

(* CallTx: how far the transaction of a call has got in the committed      *)
(* store.  CallDisk: what its loops have read from or written to the disk. *)
Unwritten == {"open", "retry", "stat", "read", "kill", "rm", "pid",
              "replay", "redo", "redone", "load", "callback"}

CallTx(c) ==
    /\ pc[c] \in Unwritten => wrote[tx[c]] = {}
    /\ pc[c] \in Unwritten \union {"journal"} \/ outcome[c] = "refused" =>
           \A f \in File : tx[c] \notin Committed[f]
    /\ pc[c] \in {"write", "clear"} \/ outcome[c] = "acked" =>
           \A f \in wrote[tx[c]] : tx[c] \in Committed[f]

CallDisk(c) ==
    /\ pc[c] \in {"redo", "write"} =>
           /\ todo[c] \subseteq journaled
           /\ \A f \in journaled : mem[c][f] = image[f]
           /\ \A f \in journaled \ todo[c] : files[f] = image[f]
    /\ pc[c] \in {"redone", "clear"} => \A f \in journaled : files[f] = image[f]
    /\ pc[c] \in {"load", "callback", "journal"} => journaled = {}
    /\ pc[c] = "load" => \A f \in File \ todo[c] : mem[c][f] = files[f]
    /\ pc[c] = "callback" => mem[c] = files
    /\ pc[c] = "journal" =>
           mem[c] = [f \in File |-> IF f \in wrote[tx[c]]
                                   THEN files[f] \union {tx[c]} ELSE files[f]]

DiskInv == \A c \in Call : CallTx(c) /\ CallDisk(c)

=============================================================================
