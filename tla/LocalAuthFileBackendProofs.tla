--------------------- MODULE LocalAuthFileBackendProofs ---------------------
(***************************************************************************)
(* Proofs about LocalAuthFileBackend, for every number of processes,       *)
(* calls, transactions, files, crashes and pids.                           *)
(***************************************************************************)
EXTENDS LocalAuthFileBackend, TLAPS

TypeInv == TypeOK /\ CallInv

(* Every step keeps the types and the pairing of calls with transactions.  *)
LEMMA TypeInvStep == TypeInv /\ [Next]_vars => TypeInv'
<1> SUFFICES ASSUME TypeInv, [Next]_vars PROVE TypeInv'
  OBVIOUS
<1> USE ConstantsAssumption DEF TypeInv, TypeOK, CallInv, procVars, diskVars, workVars,
        historyVars, Goto, Control, Holding, Critical, BreakWindow, Outcome, NoLock, Empty
<1>1. ASSUME NEW c \in Call, NEW t \in Tx, Begin(c, t) PROVE TypeInv'
  BY <1>1 DEF Begin
<1>2. ASSUME NEW c \in Call, OpenLock(c) PROVE TypeInv'
  <2>1. lock' \in [by : Call \union {NoCall}, pid : Pid \union {NoPid}, old : BOOLEAN]
    BY <1>2 DEF OpenLock
  <2>2. TypeOK'
    BY <1>2, <2>1 DEF OpenLock
  <2>3. CallInv'
    BY <1>2 DEF OpenLock
  <2> QED
    BY <2>2, <2>3
<1>3. ASSUME NEW c \in Call, WaitTimesOut(c) PROVE TypeInv'
  BY <1>3 DEF WaitTimesOut
<1>4. ASSUME NEW c \in Call, FindLockHeld(c) PROVE TypeInv'
  BY <1>4 DEF FindLockHeld
<1>5. ASSUME NEW c \in Call, WritePid(c) PROVE TypeInv'
  <2>1. lock' \in [by : Call \union {NoCall}, pid : Pid \union {NoPid}, old : BOOLEAN]
    BY <1>5 DEF WritePid
  <2>2. TypeOK'
    BY <1>5, <2>1 DEF WritePid
  <2>3. CallInv'
    BY <1>5 DEF WritePid
  <2> QED
    BY <2>2, <2>3
<1>6. ASSUME NEW c \in Call, ReadLock(c) PROVE TypeInv'
  BY <1>6 DEF ReadLock
<1>7. ASSUME NEW c \in Call, OwnerIsDead(c) PROVE TypeInv'
  BY <1>7 DEF OwnerIsDead
<1>8. ASSUME NEW c \in Call, RmStaleLock(c) PROVE TypeInv'
  BY <1>8 DEF RmStaleLock
<1>9. ASSUME NEW c \in Call, ReadJournal(c) PROVE TypeInv'
  <2>1. PICK label \in {"load", "redo"}, S \in SUBSET File, m \in [File -> SUBSET Tx] :
           /\ pc[c] = "replay" /\ pc' = [pc EXCEPT ![c] = label]
           /\ todo' = [todo EXCEPT ![c] = S]
           /\ mem' = [mem EXCEPT ![c] = m]
           /\ UNCHANGED <<procVars, lock, diskVars, tx, seen, outcome, historyVars>>
    <3>1. CASE journaled = {}
      <4>1. mem' = [mem EXCEPT ![c] = mem[c]] /\ mem[c] \in [File -> SUBSET Tx]
        BY <1>9, <3>1 DEF ReadJournal
      <4> QED
        BY <1>9, <3>1, <4>1 DEF ReadJournal
    <3>2. CASE journaled # {}
      BY <1>9, <3>2 DEF ReadJournal
    <3> QED
      BY <3>1, <3>2
  <2> QED
    BY <2>1
<1>10. ASSUME NEW c \in Call, NEW f \in File, RedoFile(c, f) PROVE TypeInv'
  BY <1>10 DEF RedoFile, WriteFile, NextFile
<1>11. ASSUME NEW c \in Call, RmReplayedJournal(c) PROVE TypeInv'
  BY <1>11 DEF RmReplayedJournal
<1>12. ASSUME NEW c \in Call, NEW f \in File, LoadFile(c, f) PROVE TypeInv'
  BY <1>12 DEF LoadFile, NextFile
<1>13. ASSUME NEW c \in Call, NEW touched \in SUBSET File, RunCallback(c, touched) PROVE TypeInv'
  <2>1. mem' \in [Call -> [File -> SUBSET Tx]]
    BY <1>13 DEF RunCallback
  <2>2. wrote' \in [Tx -> SUBSET File]
    BY <1>13 DEF RunCallback
  <2>3. CASE touched # {}
    <3>1. TypeOK'
      BY <1>13, <2>1, <2>2, <2>3 DEF RunCallback
    <3>2. CallInv'
      BY <1>13, <2>1, <2>2, <2>3 DEF RunCallback
    <3> QED
      BY <3>1, <3>2
  <2>4. CASE touched = {}
    <3>1. /\ pc[c] = "callback" /\ pc' = [pc EXCEPT ![c] = "release"]
          /\ outcome' = [outcome EXCEPT ![c] = "acked"]
          /\ UNCHANGED <<procVars, lock, diskVars, tx, seen, todo, status>>
      BY <1>13, <2>4 DEF RunCallback
    <3> QED
      BY <2>1, <2>2, <3>1
  <2> QED
    BY <2>3, <2>4
<1>14. ASSUME NEW c \in Call, CallbackThrows(c) PROVE TypeInv'
  BY <1>14 DEF CallbackThrows
<1>15. ASSUME NEW c \in Call, WriteJournal(c) PROVE TypeInv'
  BY <1>15 DEF WriteJournal
<1>16. ASSUME NEW c \in Call, NEW f \in File, CommitFile(c, f) PROVE TypeInv'
  BY <1>16 DEF CommitFile, WriteFile, NextFile
<1>17. ASSUME NEW c \in Call, RmJournal(c) PROVE TypeInv'
  BY <1>17 DEF RmJournal
<1>18. ASSUME NEW c \in Call, StoreIoError(c) PROVE TypeInv'
  <2>1. CASE pc[c] \in {"write", "clear"}
    <3>1. TypeOK'
      BY <1>18, <2>1 DEF StoreIoError
    <3>2. CallInv'
      BY <1>18, <2>1 DEF StoreIoError
    <3> QED
      BY <3>1, <3>2
  <2>2. CASE pc[c] \notin {"write", "clear"}
    <3>1. TypeOK'
      BY <1>18, <2>2 DEF StoreIoError
    <3>2. CallInv'
      BY <1>18, <2>2 DEF StoreIoError
    <3> QED
      BY <3>1, <3>2
  <2> QED
    BY <2>1, <2>2
<1>19. ASSUME LockGrowsOld PROVE TypeInv'
  <2>1. lock' \in [by : Call \union {NoCall}, pid : Pid \union {NoPid}, old : BOOLEAN]
    BY <1>19 DEF LockGrowsOld
  <2> QED
    BY <1>19, <2>1 DEF LockGrowsOld
<1>20. ASSUME NEW p \in Proc, NEW q \in Pid, Restart(p, q) PROVE TypeInv'
  BY <1>20 DEF Restart
<1>21. ASSUME NEW c \in Call, NEW r \in Outcome \ {"none"}, pc[c] # "idle", Return(c, r)
       PROVE /\ pc' \in [Call -> Control] /\ tx' \in [Call -> Tx \union {NoTx}]
             /\ seen' \in [Call -> Pid \union {NoPid}] /\ todo' \in [Call -> SUBSET File]
             /\ mem' \in [Call -> [File -> SUBSET Tx]] /\ outcome' \in [Call -> Outcome]
             /\ status' \in [Tx -> {"new", "running", "acked", "refused", "lost"}]
             /\ wrote' \in [Tx -> SUBSET File]
             /\ up' = up => CallInv'
  BY <1>21 DEF Return
<1>22. ASSUME NEW c \in Call, pc[c] # "idle", Throw(c) PROVE TypeInv'
  BY <1>21, <1>22 DEF Throw
<1>23. ASSUME NEW c \in Call, StatLock(c) PROVE TypeInv'
  <2>1. CASE lock # NoLock /\ ~lock.old
    <3>1. Throw(c) /\ pc[c] = "stat"
      BY <1>23, <2>1 DEF StatLock
    <3> QED
      BY <1>22, <3>1
  <2>2. CASE lock = NoLock
    <3>1. /\ pc[c] = "stat" /\ Goto(c, "retry")
          /\ UNCHANGED <<procVars, lock, diskVars, tx, seen, workVars, outcome, historyVars>>
      BY <1>23, <2>2, Zenon DEF StatLock
    <3> QED
      BY <3>1
  <2>3. CASE lock # NoLock /\ lock.old
    <3>1. /\ pc[c] = "stat" /\ Goto(c, "read")
          /\ UNCHANGED <<procVars, lock, diskVars, tx, seen, workVars, outcome, historyVars>>
      BY <1>23, <2>3, Zenon DEF StatLock
    <3> QED
      BY <3>1
  <2> QED
    BY <2>1, <2>2, <2>3
<1>24. ASSUME NEW c \in Call, OwnerIsAlive(c) PROVE TypeInv'
  BY <1>22, <1>24 DEF OwnerIsAlive
<1>25. ASSUME NEW c \in Call, LockIoError(c) PROVE TypeInv'
  BY <1>22, <1>25 DEF LockIoError
<1>26. ASSUME NEW c \in Call, Release(c) PROVE TypeInv'
  BY <1>21, <1>26 DEF Release
<1>27. ASSUME NEW c \in Call, ReleaseIoError(c) PROVE TypeInv'
  BY <1>21, <1>27 DEF ReleaseIoError
<1>28. ASSUME NEW p \in Proc, Crash(p) PROVE TypeInv'
  <2>1. lock' \in [by : Call \union {NoCall}, pid : Pid \union {NoPid}, old : BOOLEAN]
    BY <1>28 DEF Crash
  <2>2. /\ up' \in [Proc -> Pid \union {NoPid}]
        /\ crashes' \in 0..MaxCrashes
    BY <1>28 DEF Crash
  <2>3. /\ pc' \in [Call -> Control] /\ tx' \in [Call -> Tx \union {NoTx}]
        /\ seen' \in [Call -> Pid \union {NoPid}]
    BY <1>28 DEF Crash
  <2>4. /\ todo' \in [Call -> SUBSET File] /\ mem' \in [Call -> [File -> SUBSET Tx]]
        /\ outcome' \in [Call -> Outcome]
        /\ status' \in [Tx -> {"new", "running", "acked", "refused", "lost"}]
    BY <1>28 DEF Crash
  <2>5. TypeOK'
    BY <1>28, <2>1, <2>2, <2>3, <2>4 DEF Crash
  <2>6. CallInv'
    BY <1>28 DEF Crash
  <2> QED
    BY <2>5, <2>6
<1>29. CASE UNCHANGED vars
  BY <1>29 DEF vars
<1> QED
  BY <1>1, <1>2, <1>3, <1>4, <1>5, <1>6, <1>7, <1>8, <1>9, <1>10, <1>11, <1>12, <1>13,
     <1>14, <1>15, <1>16, <1>17, <1>18, <1>19, <1>20, <1>23, <1>24, <1>25, <1>26, <1>27,
     <1>28, <1>29 DEF Next, AcquireStep, StoreStep

(* The backend stays in its domains, lock races or not.                    *)
THEOREM TypeCorrect == Spec => []TypeInv
<1>1. Init => TypeInv
  BY ConstantsAssumption DEF Init, TypeInv, TypeOK, CallInv, Control, Outcome, NoLock, Empty
<1> QED
  BY <1>1, TypeInvStep, PTL DEF Spec

-----------------------------------------------------------------------------
(* A step inside the critical section that leaves the lock file alone.     *)
LEMMA LockInvMove ==
    ASSUME TypeInv, LockInv, NEW c \in Call, NEW label \in Critical,
           pc[c] \in Critical, pc' = [pc EXCEPT ![c] = label], UNCHANGED <<up, lock, seen>>
    PROVE  LockInv'
BY DEF TypeInv, TypeOK, LockInv, Holding, Critical, BreakWindow

(* A step of a call that is neither a holder nor in the break window and   *)
(* does not become one, or that returns and leaves the lock file behind.   *)
LEMMA LockInvLeave ==
    ASSUME TypeInv, LockInv, NEW c \in Call, NEW label \in {"idle", "open", "retry", "stat"},
           pc' = [pc EXCEPT ![c] = label],
           seen' = seen \/ seen' = [seen EXCEPT ![c] = NoPid],
           UNCHANGED <<up, lock>>
    PROVE  LockInv'
BY DEF TypeInv, TypeOK, LockInv, Holding, Critical, BreakWindow

(* While nobody else uses store.lock inside removeStaleLock, every step    *)
(* keeps the lock invariant.                                               *)
LEMMA LockInvStep == ~LockRaces /\ TypeInv /\ LockInv /\ [Next]_vars => LockInv'
<1> SUFFICES ASSUME ~LockRaces, TypeInv, LockInv, [Next]_vars PROVE LockInv'
  OBVIOUS
<1> USE ConstantsAssumption DEF procVars, diskVars, workVars, historyVars, Goto
<1>1. ASSUME NEW c \in Call, NEW t \in Tx, Begin(c, t) PROVE LockInv'
  BY <1>1, LockInvLeave DEF Begin
<1>2. ASSUME NEW c \in Call, OpenLock(c) PROVE LockInv'
  <2>1. \A d \in Call : pc[d] \notin Holding /\ pc[d] \notin BreakWindow
    BY <1>2 DEF OpenLock, Quiet, LockInv, NoLock, BreakWindow, TypeInv, TypeOK
  <2>2. lock' = [by |-> c, pid |-> NoPid, old |-> FALSE]
    BY <1>2 DEF OpenLock, NoLock
  <2> QED
    <3>1. lock'.by = c /\ ~lock'.old /\ c # NoCall
      BY <2>2
    <3>2. /\ pc'[c] = "pid"
          /\ \A d \in Call \ {c} : pc'[d] \notin Holding /\ pc'[d] \notin BreakWindow
      BY <1>2, <2>1 DEF OpenLock, TypeInv, TypeOK
    <3> QED
      BY <3>1, <3>2 DEF LockInv, Holding, Critical, BreakWindow
<1>3. ASSUME NEW c \in Call, WaitTimesOut(c) PROVE LockInv'
  BY <1>3, LockInvLeave DEF WaitTimesOut
<1>4. ASSUME NEW c \in Call, FindLockHeld(c) PROVE LockInv'
  BY <1>4, LockInvLeave DEF FindLockHeld
<1>5. ASSUME NEW c \in Call, WritePid(c) PROVE LockInv'
  <2>1. lock.by = c /\ ~lock.old /\ \A d \in Call : pc[d] \in Holding => d = c
    BY <1>5 DEF WritePid, LockInv, Holding
  <2>2. \A d \in Call : pc[d] \notin BreakWindow
    BY <2>1 DEF LockInv
  <2>3. lock' = [lock EXCEPT !.pid = up[Host[c]]]
    BY <1>5, <2>1 DEF WritePid
  <2> QED
    BY <1>5, <2>1, <2>2, <2>3 DEF WritePid, LockInv, Holding, Critical, BreakWindow,
       TypeInv, TypeOK
<1>6. ASSUME NEW c \in Call, ReadLock(c) PROVE LockInv'
  BY <1>6 DEF ReadLock, LockInv, Holding, Critical, BreakWindow, TypeInv, TypeOK
<1>7. ASSUME NEW c \in Call, OwnerIsDead(c) PROVE LockInv'
  <2>1. lock.pid \notin LivePids /\ lock.old
    BY <1>7 DEF OwnerIsDead, IsProcessAlive, LockInv, BreakWindow
  <2>2. ASSUME NEW d \in Call, pc[d] \in Critical PROVE FALSE
    BY <2>1, <2>2 DEF LockInv, LivePids, TypeInv, TypeOK, CallInv, Critical
  <2>3. \A d \in Call : pc[d] \notin Holding
    BY <2>1, <2>2 DEF LockInv, Holding
  <2> QED
    BY <1>7, <2>3 DEF OwnerIsDead, LockInv, Holding, Critical, BreakWindow, TypeInv, TypeOK
<1>8. ASSUME NEW c \in Call, RmStaleLock(c) PROVE LockInv'
  BY <1>8 DEF RmStaleLock, LockInv, NoLock, Holding, Critical, BreakWindow, TypeInv, TypeOK
<1>9. ASSUME NEW c \in Call, StatLock(c) PROVE LockInv'
  <2>1. CASE lock # NoLock /\ ~lock.old
    BY <1>9, <2>1, LockInvLeave DEF StatLock, Throw, Return
  <2>2. CASE lock = NoLock
    BY <1>9, <2>2, LockInvLeave DEF StatLock, Throw
  <2>3. CASE lock # NoLock /\ lock.old
    <3>1. \A d \in Call : pc[d] \in BreakWindow => FALSE
      BY <1>9 DEF StatLock, Quiet, BreakWindow
    <3>2. /\ pc[c] = "stat" /\ Goto(c, "read")
          /\ UNCHANGED <<procVars, lock, diskVars, tx, seen, workVars, outcome, historyVars>>
      BY <1>9, <2>3, Zenon DEF StatLock
    <3> QED
      BY <2>3, <3>1, <3>2 DEF LockInv, Holding, Critical, BreakWindow, TypeInv, TypeOK
  <2> QED
    BY <2>1, <2>2, <2>3
<1>10. ASSUME NEW c \in Call, OwnerIsAlive(c) \/ LockIoError(c) \/ ReleaseIoError(c)
       PROVE  LockInv'
  BY <1>10, LockInvLeave DEF OwnerIsAlive, LockIoError, ReleaseIoError, Throw, Return
<1>11. ASSUME NEW c \in Call, Release(c) PROVE LockInv'
  <2>1. \A d \in Call : (pc[d] \in Holding => d = c) /\ pc[d] \notin BreakWindow
    BY <1>11 DEF Release, Quiet, LockInv, Holding, Critical, BreakWindow
  <2> QED
    BY <1>11, <2>1 DEF Release, Return, LockInv, NoLock, Holding, Critical, BreakWindow,
       TypeInv, TypeOK
<1>12. ASSUME NEW c \in Call, NEW f \in File,
              RedoFile(c, f) \/ LoadFile(c, f) \/ CommitFile(c, f)
       PROVE  LockInv'
  <2>1. PICK label \in Critical : pc[c] \in Critical /\ pc' = [pc EXCEPT ![c] = label]
    BY <1>12 DEF RedoFile, LoadFile, CommitFile, WriteFile, Critical
  <2> QED
    BY <1>12, <2>1, LockInvMove DEF RedoFile, LoadFile, CommitFile, WriteFile
<1>13. ASSUME NEW c \in Call,
              \/ ReadJournal(c) \/ RmReplayedJournal(c) \/ CallbackThrows(c)
              \/ WriteJournal(c) \/ RmJournal(c) \/ StoreIoError(c)
              \/ \E touched \in SUBSET File : RunCallback(c, touched)
       PROVE  LockInv'
  <2>1. PICK label \in Critical : pc[c] \in Critical /\ pc' = [pc EXCEPT ![c] = label]
    BY <1>13 DEF ReadJournal, RmReplayedJournal, CallbackThrows, WriteJournal, RmJournal,
       StoreIoError, RunCallback, Critical
  <2>2. UNCHANGED <<up, lock, seen>>
    BY <1>13 DEF ReadJournal, RmReplayedJournal, CallbackThrows, WriteJournal, RmJournal,
       StoreIoError, RunCallback
  <2> QED
    BY <2>1, <2>2, LockInvMove
<1>14. ASSUME LockGrowsOld PROVE LockInv'
  BY <1>14 DEF LockGrowsOld, LockInv, NoLock, Holding, Critical, BreakWindow, TypeInv, TypeOK
<1>15. ASSUME NEW p \in Proc, NEW q \in Pid, Restart(p, q) PROVE LockInv'
  BY <1>15 DEF Restart, LockInv, Holding, Critical, BreakWindow, TypeInv, TypeOK, CallInv
<1>16. ASSUME NEW p \in Proc, Crash(p) PROVE LockInv'
  <2>1. lock' = lock
    BY <1>16 DEF Crash
  <2>2. \A c \in Call :
          \/ pc'[c] = "idle"
          \/ pc'[c] = pc[c] /\ seen'[c] = seen[c] /\ up'[Host[c]] = up[Host[c]]
    BY <1>16 DEF Crash, TypeInv, TypeOK
  <2> QED
    BY <2>1, <2>2 DEF LockInv, Holding, Critical, BreakWindow
<1>17. CASE UNCHANGED vars
  BY <1>17 DEF vars, LockInv, Holding, Critical, BreakWindow
<1> QED
  BY <1>1, <1>2, <1>3, <1>4, <1>5, <1>6, <1>7, <1>8, <1>9, <1>10, <1>11, <1>12, <1>13,
     <1>14, <1>15, <1>16, <1>17 DEF Next, AcquireStep, StoreStep

(* Without lock races, store.lock admits one transaction at a time.        *)
THEOREM MutualExclusionHolds == ~LockRaces => (Spec => []MutualExclusion)
<1> SUFFICES ASSUME ~LockRaces PROVE Spec => []MutualExclusion
  OBVIOUS
<1>1. Init => LockInv
  BY DEF Init, LockInv, Holding, Critical, BreakWindow
<1>2. TypeInv /\ LockInv /\ [Next]_vars => LockInv'
  BY LockInvStep
<1>3. LockInv => MutualExclusion
  BY DEF LockInv, MutualExclusion
<1> QED
  BY <1>1, <1>2, <1>3, TypeCorrect, PTL DEF Spec

-----------------------------------------------------------------------------
(* The abstract store, seen through the files and the journal: its         *)
(* inductive invariant is its three promises, and that a call that has not *)
(* begun left no trace.  Nothing of the files is used here.                *)
StoreInv ==
    /\ Store!TypeOK /\ Store!NewUntouched
    /\ Store!AllOrNothing /\ Store!AckedIsDurable /\ Store!RefusedHasNoEffect

(* Nothing has happened: the invariant holds.                              *)
LEMMA StoreInvInit == Store!Init => StoreInv
BY DEF Store!Init, StoreInv, Store!TypeOK, Store!Status, Store!NewUntouched, Store!AllOrNothing,
       Store!AckedIsDurable, Store!RefusedHasNoEffect, Store!Applied

(* Every operation of the store keeps its promises.                        *)
LEMMA StoreInvStep == StoreInv /\ [Store!Next]_(Store!vars) => StoreInv'
<1> SUFFICES ASSUME StoreInv, [Store!Next]_(Store!vars) PROVE StoreInv'
  OBVIOUS
<1> USE DEF StoreInv, Store!TypeOK, Store!Status, Store!NewUntouched, Store!AllOrNothing,
            Store!AckedIsDurable, Store!RefusedHasNoEffect, Store!Applied
<1>1. ASSUME NEW t \in Tx, Store!Begin(t) PROVE StoreInv'
  BY <1>1 DEF Store!Begin
<1>2. ASSUME NEW t \in Tx, NEW touched \in SUBSET File, Store!RunCallback(t, touched) PROVE StoreInv'
  <2>1. ~Store!Applied(t)
    BY <1>2 DEF Store!RunCallback
  <2> QED
    BY <1>2, <2>1 DEF Store!RunCallback
<1>3. ASSUME NEW t \in Tx, Store!Commit(t) PROVE StoreInv'
  <2>1. /\ Committed' \in [File -> SUBSET Tx]
        /\ \A u \in Tx, f \in File : u \in Committed'[f] <=> u \in Committed[f] \/ (u = t /\ f \in wrote[t])
    BY <1>3 DEF Store!Commit
  <2>2. Store!AllOrNothing'
    BY <1>3, <2>1 DEF Store!Commit
  <2> QED
    BY <1>3, <2>1, <2>2 DEF Store!Commit
<1>4. ASSUME NEW t \in Tx, Store!Ack(t) PROVE StoreInv'
  BY <1>4 DEF Store!Ack, Store!Settle
<1>5. ASSUME NEW t \in Tx, Store!Refuse(t) PROVE StoreInv'
  BY <1>5 DEF Store!Refuse, Store!Settle
<1>6. ASSUME NEW S \in SUBSET Tx, Store!Lose(S) PROVE StoreInv'
  BY <1>6 DEF Store!Lose
<1>7. CASE UNCHANGED (Store!vars)
  BY <1>7 DEF Store!vars
<1> QED
  BY <1>1, <1>2, <1>3, <1>4, <1>5, <1>6, <1>7 DEF Store!Next

(* A store that runs by its specification is atomic and durable: no        *)
(* transaction is torn, no acknowledged one lost, no refused one applied.  *)
THEOREM StorePromises == ImplementsStore => []PromisesKept
<1>1. StoreInv => PromisesKept
  BY DEF StoreInv, PromisesKept, AllOrNothing, AckedIsDurable, RefusedHasNoEffect
<1> QED
  BY <1>1, StoreInvInit, StoreInvStep, PTL DEF ImplementsStore, Store!Spec

-----------------------------------------------------------------------------
(* Steps that leave the disk alone leave the committed store alone.        *)
LEMMA CommittedSame == UNCHANGED diskVars => Committed' = Committed
BY DEF diskVars, Committed

(* Copying a journaled image over its file does not change what is         *)
(* committed.                                                              *)
LEMMA CommittedCopy ==
    ASSUME TypeInv, NEW c \in Call, NEW f \in journaled, mem[c][f] = image[f],
           files' = [files EXCEPT ![f] = mem[c][f]], UNCHANGED <<journaled, image>>
    PROVE  Committed' = Committed
BY DEF Committed, TypeInv, TypeOK

(* Neither does removing a journal whose images are all in place.          *)
LEMMA CommittedClear ==
    ASSUME TypeInv, \A f \in journaled : files[f] = image[f],
           journaled' = {}, files' = files
    PROVE  Committed' = Committed
BY DEF Committed, TypeInv, TypeOK

(* The rename of the journal adds the transaction to the files it touched. *)
LEMMA CommittedAdd ==
    ASSUME TypeInv, DiskInv, NEW c \in Call, WriteJournal(c)
    PROVE  /\ journaled = {}
           /\ Committed' = [f \in File |-> IF f \in wrote[tx[c]]
                                          THEN Committed[f] \union {tx[c]} ELSE Committed[f]]
<1>1. /\ pc[c] = "journal" /\ CallDisk(c)
      /\ journaled' = wrote[tx[c]] /\ files' = files
      /\ image' = [f \in File |-> IF f \in wrote[tx[c]] THEN mem[c][f] ELSE {}]
  BY DEF WriteJournal, DiskInv
<1>2. /\ journaled = {}
      /\ mem[c] = [f \in File |-> IF f \in wrote[tx[c]]
                                 THEN files[f] \union {tx[c]} ELSE files[f]]
  BY <1>1 DEF CallDisk
<1> QED
  BY <1>1, <1>2 DEF Committed

(* The committed store only changes at the rename of a journal.            *)
LEMMA CommittedStep ==
    ASSUME TypeInv, DiskInv, Next, \A c \in Call : ~WriteJournal(c)
    PROVE  Committed' = Committed
<1> USE ConstantsAssumption DEF procVars, diskVars, workVars, historyVars
<1>1. ASSUME NEW c \in Call, NEW f \in File, RedoFile(c, f) \/ CommitFile(c, f)
      PROVE  Committed' = Committed
  <2>1. f \in journaled /\ mem[c][f] = image[f]
    <3>1. pc[c] \in {"redo", "write"} /\ f \in todo[c] /\ CallDisk(c)
      BY <1>1 DEF RedoFile, CommitFile, WriteFile, NextFile, DiskInv
    <3>2. todo[c] \subseteq journaled /\ \A g \in journaled : mem[c][g] = image[g]
      BY <3>1 DEF CallDisk
    <3> QED
      BY <3>1, <3>2
  <2> QED
    BY <1>1, <2>1, CommittedCopy DEF RedoFile, CommitFile, WriteFile
<1>2. ASSUME NEW c \in Call, RmReplayedJournal(c) \/ RmJournal(c)
      PROVE  Committed' = Committed
  BY <1>2, CommittedClear DEF RmReplayedJournal, RmJournal, DiskInv, CallDisk
<1>3. ASSUME UNCHANGED diskVars PROVE Committed' = Committed
  BY <1>3, CommittedSame
<1>4. ASSUME NEW c \in Call, AcquireStep(c) \/ WaitTimesOut(c) \/ \E t \in Tx : Begin(c, t)
      PROVE  UNCHANGED diskVars
  BY <1>4 DEF AcquireStep, WaitTimesOut, Begin, OpenLock, FindLockHeld, WritePid, StatLock,
     ReadLock, OwnerIsAlive, OwnerIsDead, RmStaleLock, Throw
<1>5. ASSUME NEW c \in Call, LockIoError(c) \/ StoreIoError(c) \/ ReleaseIoError(c)
      PROVE  UNCHANGED diskVars
  BY <1>5 DEF LockIoError, StoreIoError, ReleaseIoError, Throw
<1>6. ASSUME NEW c \in Call,
             \/ ReadJournal(c) \/ CallbackThrows(c) \/ Release(c)
             \/ \E f \in File : LoadFile(c, f)
             \/ \E touched \in SUBSET File : RunCallback(c, touched)
      PROVE  UNCHANGED diskVars
  BY <1>6 DEF ReadJournal, CallbackThrows, Release, LoadFile, RunCallback
<1>7. ASSUME LockGrowsOld \/ \E p \in Proc : Crash(p) \/ \E q \in Pid : Restart(p, q)
      PROVE  UNCHANGED diskVars
  BY <1>7 DEF LockGrowsOld, Crash, Restart
<1> QED
  BY <1>1, <1>2, <1>3, <1>4, <1>5, <1>6, <1>7 DEF Next, StoreStep

-----------------------------------------------------------------------------
(* What a call knows of the store survives a step that changes none of its *)
(* local state and adds nothing of its transaction.                        *)
LEMMA KeepCallTx ==
    ASSUME TypeInv, NEW d \in Call, CallTx(d),
           pc'[d] = pc[d], tx'[d] = tx[d], outcome'[d] = outcome[d],
           pc[d] # "idle" => wrote'[tx[d]] = wrote[tx[d]],
           pc[d] # "idle" => \A f \in File : tx[d] \in Committed'[f] <=> tx[d] \in Committed[f]
    PROVE  CallTx(d)'
<1>1. CASE pc[d] = "idle"
  BY <1>1 DEF TypeInv, CallInv, CallTx, Unwritten
<1>2. CASE pc[d] # "idle"
  <2>1. wrote[tx[d]] \subseteq File
    BY <1>2 DEF TypeInv, TypeOK, CallInv
  <2> QED
    BY <1>2, <2>1 DEF CallTx
<1> QED
  BY <1>1, <1>2

(* What it knows of the disk survives if the disk stays as it is, or if    *)
(* the call does not hold the lock and so relies on nothing.               *)
LEMMA KeepCallDisk ==
    ASSUME NEW d \in Call, CallDisk(d),
           pc'[d] = pc[d], tx'[d] = tx[d], todo'[d] = todo[d], mem'[d] = mem[d],
           pc[d] # "idle" => wrote'[tx[d]] = wrote[tx[d]],
           UNCHANGED diskVars \/ pc[d] \notin Holding
    PROVE  CallDisk(d)'
<1>1. CASE pc[d] \notin Holding
  BY <1>1 DEF CallDisk, Holding, Critical
<1>2. CASE pc[d] \in Holding /\ UNCHANGED diskVars
  BY <1>2 DEF CallDisk, diskVars, Holding, Critical
<1> QED
  BY <1>1, <1>2

(* A call that is over knows nothing.                                      *)
LEMMA IdleCall ==
    ASSUME NEW d \in Call, pc'[d] = "idle", outcome'[d] = "none"
    PROVE  CallTx(d)' /\ CallDisk(d)'
BY DEF CallTx, CallDisk, Unwritten

(* So the other calls keep what they know through a step of call c.        *)
LEMMA OthersKeepDisk ==
    ASSUME TypeInv, LockInv, DiskInv, NEW c \in Call, pc[c] # "idle",
           \A d \in Call \ {c} :
              /\ pc'[d] = pc[d] /\ tx'[d] = tx[d] /\ todo'[d] = todo[d] /\ mem'[d] = mem[d]
              /\ outcome'[d] = outcome[d],
           \A t \in Tx \ {tx[c]} : wrote'[t] = wrote[t],
           \A t \in Tx \ {tx[c]}, f \in File : t \in Committed'[f] <=> t \in Committed[f],
           UNCHANGED diskVars \/ pc[c] \in Holding
    PROVE  \A d \in Call \ {c} : CallTx(d)' /\ CallDisk(d)'
<1> SUFFICES ASSUME NEW d \in Call \ {c} PROVE CallTx(d)' /\ CallDisk(d)'
  OBVIOUS
<1>1. pc[d] # "idle" => tx[d] \in Tx \ {tx[c]}
  BY DEF TypeInv, CallInv
<1>2. UNCHANGED diskVars \/ pc[d] \notin Holding
  BY DEF LockInv
<1>3. CallTx(d) /\ CallDisk(d)
  BY DEF DiskInv
<1> QED
  BY <1>1, <1>2, <1>3, KeepCallTx, KeepCallDisk

IInv == TypeInv /\ LockInv /\ DiskInv /\ StoreInv

(* One step of call c that leaves the disk and the history of touched      *)
(* files alone keeps the disk invariant if c itself does.                  *)
LEMMA DiskInvQuiet ==
    ASSUME TypeInv, LockInv, DiskInv, NEW c \in Call, pc[c] # "idle",
           \A d \in Call \ {c} :
              /\ pc'[d] = pc[d] /\ tx'[d] = tx[d] /\ todo'[d] = todo[d] /\ mem'[d] = mem[d]
              /\ outcome'[d] = outcome[d],
           UNCHANGED <<diskVars, wrote>>, CallTx(c)', CallDisk(c)'
    PROVE  DiskInv'
<1>1. Committed' = Committed
  BY CommittedSame
<1>2. \A d \in Call \ {c} : CallTx(d)' /\ CallDisk(d)'
  BY <1>1, OthersKeepDisk
<1> QED
  BY <1>2 DEF DiskInv

(* Every step keeps what the calls know about the disk.                    *)
LEMMA DiskInvStep == ~LockRaces /\ IInv /\ [Next]_vars => DiskInv'
<1> SUFFICES ASSUME ~LockRaces, IInv, [Next]_vars PROVE DiskInv'
  OBVIOUS
<1> USE ConstantsAssumption DEF IInv, procVars, workVars, historyVars, Goto
<1>1. ASSUME NEW c \in Call, NEW t \in Tx, Begin(c, t) PROVE DiskInv'
  <2>1. Committed' = Committed
    BY <1>1, CommittedSame DEF Begin
  <2>2. wrote[t] = {} /\ \A f \in File : t \notin Committed[f]
    BY <1>1 DEF Begin, StoreInv, Store!NewUntouched, Store!Applied
  <2>3. CallTx(c)' /\ CallDisk(c)'
    BY <1>1, <2>1, <2>2 DEF Begin, CallTx, CallDisk, Unwritten, TypeInv, TypeOK, CallInv
  <2>4. ASSUME NEW d \in Call \ {c} PROVE CallTx(d)' /\ CallDisk(d)'
    BY <1>1, <2>1, KeepCallTx, KeepCallDisk DEF Begin, DiskInv, TypeInv, TypeOK
  <2> QED
    BY <2>3, <2>4 DEF DiskInv
<1>2. ASSUME NEW c \in Call,
             \/ OpenLock(c) \/ WaitTimesOut(c) \/ FindLockHeld(c) \/ WritePid(c)
             \/ ReadLock(c) \/ OwnerIsDead(c) \/ RmStaleLock(c)
             \/ StatLock(c) /\ pc'[c] # "idle"
      PROVE  DiskInv'
  <2>1. \E label \in {"pid", "retry", "stat", "replay", "kill", "rm", "read"} :
           /\ pc[c] \in Unwritten /\ pc' = [pc EXCEPT ![c] = label]
           /\ UNCHANGED <<diskVars, tx, workVars, outcome, historyVars>>
    BY <1>2 DEF OpenLock, WaitTimesOut, FindLockHeld, WritePid, ReadLock, OwnerIsDead,
       RmStaleLock, StatLock, Throw, Return, Unwritten, TypeInv, TypeOK
  <2>2. Committed' = Committed
    BY <2>1, CommittedSame
  <2>3. CallTx(c)' /\ CallDisk(c)'
    BY <2>1, <2>2 DEF CallTx, CallDisk, Unwritten, TypeInv, TypeOK, CallInv, DiskInv
  <2> QED
    BY <2>1, <2>3, DiskInvQuiet DEF Unwritten, TypeInv, TypeOK
<1>3. ASSUME NEW c \in Call, pc[c] # "idle", NEW r, Return(c, r), UNCHANGED diskVars
      PROVE  DiskInv'
  <2>1. CallTx(c)' /\ CallDisk(c)'
    BY <1>3, IdleCall DEF Return, TypeInv, TypeOK
  <2> QED
    BY <1>3, <2>1, DiskInvQuiet DEF Return, TypeInv, TypeOK
<1>4. ASSUME NEW c \in Call,
             \/ (StatLock(c) /\ pc'[c] = "idle") \/ OwnerIsAlive(c) \/ LockIoError(c)
             \/ ReleaseIoError(c) \/ Release(c)
      PROVE  DiskInv'
  <2>1. PICK r : pc[c] # "idle" /\ Return(c, r) /\ UNCHANGED diskVars
    BY <1>4 DEF StatLock, OwnerIsAlive, LockIoError, ReleaseIoError, Release, Throw, TypeInv, TypeOK
  <2> QED
    BY <1>3, <2>1
<1>5. ASSUME NEW c \in Call, ReadJournal(c) PROVE DiskInv'
  <2>1. Committed' = Committed
    BY <1>5, CommittedSame DEF ReadJournal
  <2>2. CallTx(c)'
    BY <1>5, <2>1 DEF ReadJournal, CallTx, Unwritten, DiskInv, TypeInv, TypeOK, CallInv
  <2>3. CallDisk(c)'
    BY <1>5 DEF ReadJournal, diskVars, CallDisk, TypeInv, TypeOK
  <2> QED
    BY <1>5, <2>2, <2>3, DiskInvQuiet DEF ReadJournal, TypeInv, TypeOK
<1>6. ASSUME NEW c \in Call, NEW f \in File, LoadFile(c, f) PROVE DiskInv'
  <2>1. Committed' = Committed
    BY <1>6, CommittedSame DEF LoadFile
  <2>2. CallTx(c)'
    BY <1>6, <2>1 DEF LoadFile, CallTx, Unwritten, DiskInv, TypeInv, TypeOK, CallInv
  <2>3. CallDisk(c)'
    BY <1>6 DEF LoadFile, NextFile, diskVars, CallDisk, DiskInv, TypeInv, TypeOK
  <2> QED
    BY <1>6, <2>2, <2>3, DiskInvQuiet DEF LoadFile, TypeInv, TypeOK
<1>7. ASSUME NEW c \in Call, CallbackThrows(c) \/ StoreIoError(c) PROVE DiskInv'
  <2>1. Committed' = Committed
    BY <1>7, CommittedSame DEF CallbackThrows, StoreIoError
  <2>2. CallTx(c)'
    BY <1>7, <2>1 DEF CallbackThrows, StoreIoError, CallTx, Unwritten, DiskInv, TypeInv, TypeOK, CallInv
  <2>3. CallDisk(c)'
    BY <1>7 DEF CallbackThrows, StoreIoError, CallDisk, TypeInv, TypeOK
  <2> QED
    BY <1>7, <2>2, <2>3, DiskInvQuiet DEF CallbackThrows, StoreIoError, TypeInv, TypeOK
<1>8. ASSUME NEW c \in Call, NEW touched \in SUBSET File, RunCallback(c, touched) PROVE DiskInv'
  <2>1. Committed' = Committed
    BY <1>8, CommittedSame DEF RunCallback
  <2>2. /\ pc[c] = "callback" /\ tx'[c] = tx[c] /\ tx[c] \in Tx /\ mem[c] = files
        /\ journaled = {} /\ \A f \in File : tx[c] \notin Committed[f]
    BY <1>8 DEF RunCallback, DiskInv, CallTx, CallDisk, Unwritten, TypeInv, CallInv
  <2>3. wrote'[tx[c]] = touched
    BY <1>8, <2>2 DEF RunCallback, TypeInv, TypeOK
  <2>4. /\ pc'[c] \in {"journal", "release"}
        /\ touched # {} => outcome'[c] = "none"
        /\ touched = {} => pc'[c] = "release" /\ outcome'[c] = "acked"
    BY <1>8, <2>2 DEF RunCallback, TypeInv, TypeOK, CallInv
  <2>5. CallTx(c)'
    BY <2>1, <2>2, <2>3, <2>4 DEF CallTx, Unwritten
  <2>6. mem'[c] = [f \in File |-> IF f \in touched THEN files[f] \union {tx[c]} ELSE files[f]]
    BY <1>8, <2>2 DEF RunCallback, TypeInv, TypeOK
  <2>7. CallDisk(c)'
    BY <1>8, <2>2, <2>3, <2>4, <2>6 DEF RunCallback, diskVars, CallDisk
  <2>8. \A d \in Call \ {c} : CallTx(d)' /\ CallDisk(d)'
    BY <1>8, <2>1, OthersKeepDisk DEF RunCallback, TypeInv, TypeOK
  <2> QED
    BY <2>5, <2>7, <2>8 DEF DiskInv
<1>9. ASSUME NEW c \in Call, NEW f \in File, RedoFile(c, f) \/ CommitFile(c, f) PROVE DiskInv'
  <2>1. /\ pc[c] \in {"redo", "write"} /\ CallTx(c) /\ CallDisk(c) /\ f \in todo[c]
        /\ files' = [files EXCEPT ![f] = mem[c][f]] /\ UNCHANGED <<journaled, image, wrote>>
    BY <1>9 DEF RedoFile, CommitFile, WriteFile, NextFile, DiskInv
  <2>2. Committed' = Committed
    BY <2>1, CommittedCopy DEF CallDisk
  <2>3. /\ pc'[c] = IF todo[c] = {f} THEN IF pc[c] = "redo" THEN "redone" ELSE "clear" ELSE pc[c]
        /\ tx'[c] = tx[c] /\ todo'[c] = todo[c] \ {f} /\ mem'[c] = mem[c]
        /\ outcome'[c] = outcome[c]
    BY <1>9 DEF RedoFile, CommitFile, WriteFile, TypeInv, TypeOK
  <2>4. CallTx(c)'
    BY <2>1, <2>2, <2>3 DEF CallTx, Unwritten
  <2>5. \A g \in journaled \ todo'[c] : files'[g] = image[g]
    BY <2>1, <2>3 DEF CallDisk, TypeInv, TypeOK
  <2>6. CallDisk(c)'
    BY <2>1, <2>3, <2>5 DEF CallDisk
  <2>7. \A d \in Call \ {c} : CallTx(d)' /\ CallDisk(d)'
    BY <1>9, <2>1, <2>2, OthersKeepDisk DEF RedoFile, CommitFile, WriteFile, Holding, Critical,
       TypeInv, TypeOK
  <2> QED
    BY <2>4, <2>6, <2>7 DEF DiskInv
<1>10. ASSUME NEW c \in Call, RmReplayedJournal(c) \/ RmJournal(c) PROVE DiskInv'
  <2>1. /\ pc[c] \in {"redone", "clear"} /\ CallTx(c) /\ CallDisk(c)
        /\ journaled' = {} /\ files' = files /\ wrote' = wrote
    BY <1>10 DEF RmReplayedJournal, RmJournal, DiskInv
  <2>2. Committed' = Committed
    BY <2>1, CommittedClear DEF CallDisk
  <2>3. /\ tx'[c] = tx[c]
        /\ pc[c] = "redone" => pc'[c] = "load" /\ todo'[c] = File /\ outcome'[c] = outcome[c]
        /\ pc[c] = "clear" => pc'[c] = "release" /\ outcome'[c] = "acked"
    BY <1>10 DEF RmReplayedJournal, RmJournal, TypeInv, TypeOK
  <2>4. outcome[c] = "none"
    BY <2>1 DEF TypeInv, CallInv
  <2>5. CallTx(c)'
    BY <2>1, <2>2, <2>3, <2>4 DEF CallTx, Unwritten
  <2>6. CallDisk(c)'
    BY <2>1, <2>3 DEF CallDisk
  <2>7. \A d \in Call \ {c} : CallTx(d)' /\ CallDisk(d)'
    BY <1>10, <2>1, <2>2, OthersKeepDisk DEF RmReplayedJournal, RmJournal, Holding, Critical,
       TypeInv, TypeOK
  <2> QED
    BY <2>5, <2>6, <2>7 DEF DiskInv
<1>11. ASSUME NEW c \in Call, WriteJournal(c) PROVE DiskInv'
  <2>1. /\ journaled = {}
        /\ Committed' = [f \in File |-> IF f \in wrote[tx[c]]
                                       THEN Committed[f] \union {tx[c]} ELSE Committed[f]]
    BY <1>11, CommittedAdd
  <2>2. /\ pc[c] = "journal" /\ tx[c] \in Tx /\ outcome[c] = "none" /\ wrote[tx[c]] \subseteq File
        /\ pc'[c] = "write" /\ tx'[c] = tx[c] /\ outcome'[c] = outcome[c] /\ wrote' = wrote
        /\ mem'[c] = mem[c] /\ todo'[c] = wrote[tx[c]] /\ journaled' = wrote[tx[c]]
        /\ image' = [f \in File |-> IF f \in wrote[tx[c]] THEN mem[c][f] ELSE {}]
    BY <1>11 DEF WriteJournal, TypeInv, TypeOK, CallInv
  <2>3. CallTx(c)'
    BY <2>1, <2>2 DEF CallTx, Unwritten
  <2>4. CallDisk(c)'
    BY <2>2 DEF CallDisk
  <2>5. \A t \in Tx \ {tx[c]}, f \in File : t \in Committed'[f] <=> t \in Committed[f]
    BY <2>1
  <2>6. \A d \in Call \ {c} : CallTx(d)' /\ CallDisk(d)'
    BY <1>11, <2>2, <2>5, OthersKeepDisk DEF WriteJournal, Holding, Critical, TypeInv, TypeOK
  <2> QED
    BY <2>3, <2>4, <2>6 DEF DiskInv
<1>12. ASSUME NEW p \in Proc, Crash(p) PROVE DiskInv'
  <2>1. Committed' = Committed /\ UNCHANGED diskVars
    BY <1>12, CommittedSame DEF Crash, diskVars
  <2>2. ASSUME NEW d \in Call PROVE CallTx(d)' /\ CallDisk(d)'
    <3>1. CASE Host[d] = p /\ pc[d] # "idle"
      BY <1>12, <3>1, IdleCall DEF Crash
    <3>2. CASE ~(Host[d] = p /\ pc[d] # "idle")
      BY <1>12, <2>1, <3>2, KeepCallTx, KeepCallDisk DEF Crash, DiskInv
    <3> QED
      BY <3>1, <3>2
  <2> QED
    BY <2>2 DEF DiskInv
<1>13. ASSUME \/ LockGrowsOld \/ UNCHANGED vars
              \/ \E p \in Proc, q \in Pid : Restart(p, q)
       PROVE  DiskInv'
  <2>1. UNCHANGED <<diskVars, pc, tx, workVars, outcome, wrote>>
    BY <1>13 DEF LockGrowsOld, vars, Restart
  <2>2. Committed' = Committed
    BY <2>1, CommittedSame
  <2>3. ASSUME NEW d \in Call PROVE CallTx(d)' /\ CallDisk(d)'
    BY <2>1, <2>2, KeepCallTx, KeepCallDisk DEF DiskInv
  <2> QED
    BY <2>3 DEF DiskInv
<1> QED
  BY <1>1, <1>2, <1>4, <1>5, <1>6, <1>7, <1>8, <1>9, <1>10, <1>11, <1>12, <1>13
     DEF Next, AcquireStep, StoreStep

-----------------------------------------------------------------------------
(* Refinement, step by step.  A returning call settles its transaction in  *)
(* the store the way its outcome says.                                     *)
LEMMA ReturnRefines ==
    ASSUME IInv, NEW c \in Call, pc[c] # "idle", NEW r \in {"acked", "refused", "lost"},
           Return(c, r), UNCHANGED diskVars,
           r = "acked" => outcome[c] = "acked",
           r = "refused" => pc[c] \in Unwritten \/ outcome[c] = "refused"
    PROVE  Store!Next
<1>1. /\ tx[c] \in Tx /\ status[tx[c]] = "running" /\ CallTx(c) /\ wrote[tx[c]] \subseteq File
      /\ Committed' = Committed /\ wrote' = wrote
      /\ status' = [status EXCEPT ![tx[c]] = r]
  BY CommittedSame DEF IInv, TypeInv, TypeOK, CallInv, DiskInv, Return
<1>2. CASE r = "acked"
  <2>1. Store!Ack(tx[c])
    BY <1>1, <1>2 DEF CallTx, Store!Ack, Store!Settle
  <2> QED
    BY <1>1, <2>1 DEF Store!Next
<1>3. CASE r = "refused"
  <2>1. Store!Refuse(tx[c])
    BY <1>1, <1>3 DEF CallTx, Store!Refuse, Store!Settle, Store!Applied
  <2> QED
    BY <1>1, <2>1 DEF Store!Next
<1>4. CASE r = "lost"
  <2>1. status' = [t \in Tx |-> IF t \in {tx[c]} THEN "lost" ELSE status[t]]
    BY <1>1, <1>4 DEF IInv, TypeInv, TypeOK
  <2>2. Store!Lose({tx[c]})
    BY <1>1, <2>1 DEF Store!Lose
  <2> QED
    BY <1>1, <2>2 DEF Store!Next
<1> QED
  BY <1>2, <1>3, <1>4

(* Every step of the files and the lock is a step of the atomic store or   *)
(* leaves it alone.                                                        *)
LEMMA StepRefines == IInv /\ [Next]_vars => [Store!Next]_(Store!vars)
<1> SUFFICES ASSUME IInv, [Next]_vars PROVE Store!Next \/ UNCHANGED Store!vars
  OBVIOUS
<1> USE ConstantsAssumption DEF procVars, workVars, historyVars, Goto
<1>1. ASSUME NEW c \in Call, NEW t \in Tx, Begin(c, t) PROVE Store!Next
  <2>1. Store!Begin(t)
    BY <1>1, CommittedSame DEF Begin, Store!Begin
  <2> QED
    BY <2>1 DEF Store!Next
<1>2. ASSUME NEW c \in Call, NEW touched \in SUBSET File, RunCallback(c, touched)
      PROVE  Store!Next
  <2>1. Store!RunCallback(tx[c], touched) /\ tx[c] \in Tx
    BY <1>2, CommittedSame DEF RunCallback, Store!RunCallback, IInv, TypeInv, CallInv, DiskInv,
       CallTx, Unwritten
  <2> QED
    BY <2>1 DEF Store!Next
<1>3. ASSUME NEW c \in Call, WriteJournal(c) PROVE Store!Next
  <2>1. /\ tx[c] \in Tx /\ status[tx[c]] = "running" /\ \A f \in File : tx[c] \notin Committed[f]
        /\ UNCHANGED <<status, wrote>>
    BY <1>3 DEF WriteJournal, IInv, TypeInv, CallInv, DiskInv, CallTx
  <2>2. Store!Commit(tx[c])
    BY <1>3, <2>1, CommittedAdd DEF IInv, Store!Commit, Store!Applied
  <2> QED
    BY <2>1, <2>2 DEF Store!Next
<1>4. ASSUME NEW c \in Call, pc[c] \in Unwritten, Throw(c) PROVE Store!Next
  BY <1>4, ReturnRefines DEF Throw, Unwritten
<1>5. ASSUME NEW c \in Call, OwnerIsAlive(c) \/ LockIoError(c) \/ (StatLock(c) /\ Throw(c))
      PROVE  Store!Next
  BY <1>4, <1>5 DEF OwnerIsAlive, LockIoError, StatLock, Unwritten
<1>6. ASSUME NEW c \in Call, Release(c) \/ ReleaseIoError(c) PROVE Store!Next
  <2>1. /\ pc[c] = "release" /\ outcome[c] \in {"acked", "refused", "lost"}
        /\ UNCHANGED diskVars
    BY <1>6 DEF Release, ReleaseIoError, IInv, TypeInv, TypeOK, CallInv, Outcome
  <2>2. CASE Release(c)
    BY <2>1, <2>2, ReturnRefines DEF Release
  <2>3. CASE ReleaseIoError(c)
    BY <2>1, <2>3, ReturnRefines DEF ReleaseIoError
  <2> QED
    BY <1>6, <2>2, <2>3
<1>7. ASSUME NEW p \in Proc, Crash(p) PROVE Store!Next
  <2> DEFINE S == {tx[c] : c \in {d \in Call : Host[d] = p /\ pc[d] # "idle"}}
  <2>1. S \in SUBSET Tx /\ \A t \in S : status[t] = "running"
    BY DEF IInv, TypeInv, CallInv
  <2>2. status' = [t \in Tx |-> IF t \in S THEN "lost" ELSE status[t]]
    BY <1>7 DEF Crash
  <2>3. Committed' = Committed /\ wrote' = wrote
    BY <1>7, CommittedSame DEF Crash
  <2>4. Store!Lose(S)
    BY <2>1, <2>2, <2>3 DEF Store!Lose
  <2> QED
    BY <2>1, <2>4 DEF Store!Next
<1>8. CASE UNCHANGED vars
  BY <1>8, CommittedSame DEF vars, diskVars, Store!vars
<1>9. ASSUME NEW c \in Call,
             \/ OpenLock(c) \/ WaitTimesOut(c) \/ FindLockHeld(c) \/ WritePid(c) \/ ReadLock(c)
             \/ OwnerIsDead(c) \/ RmStaleLock(c)
             \/ (StatLock(c) /\ ~Throw(c))
             \/ ReadJournal(c) \/ RmReplayedJournal(c) \/ CallbackThrows(c) \/ RmJournal(c)
             \/ StoreIoError(c)
             \/ \E f \in File : RedoFile(c, f) \/ LoadFile(c, f) \/ CommitFile(c, f)
      PROVE  UNCHANGED <<status, wrote>>
  BY <1>9 DEF OpenLock, WaitTimesOut, FindLockHeld, WritePid, ReadLock, OwnerIsDead, RmStaleLock,
     StatLock, ReadJournal, RmReplayedJournal, CallbackThrows, RmJournal, StoreIoError,
     RedoFile, LoadFile, CommitFile, WriteFile
<1>10. ASSUME LockGrowsOld \/ \E p \in Proc, q \in Pid : Restart(p, q)
       PROVE  UNCHANGED <<status, wrote>>
  BY <1>10 DEF LockGrowsOld, Restart
<1>11. CASE \E c \in Call : WriteJournal(c)
  BY <1>3, <1>11
<1>12. ASSUME Next, UNCHANGED <<status, wrote>>, \A c \in Call : ~WriteJournal(c)
       PROVE  UNCHANGED Store!vars
  BY <1>12, CommittedStep DEF IInv, Store!vars
<1>13. CASE Next /\ \A c \in Call : ~WriteJournal(c)
  <2>1. CASE UNCHANGED <<status, wrote>>
    BY <1>12, <1>13, <2>1
  <2>2. ASSUME NEW c \in Call, AcquireStep(c) \/ WaitTimesOut(c) \/ LockIoError(c)
        PROVE  Store!Next \/ UNCHANGED <<status, wrote>>
    <3>1. CASE LockIoError(c) \/ OwnerIsAlive(c) \/ (StatLock(c) /\ Throw(c))
      BY <1>5, <3>1
    <3>2. CASE WaitTimesOut(c) \/ (StatLock(c) /\ ~Throw(c))
      BY <1>9, <3>2
    <3>3. CASE \/ OpenLock(c) \/ FindLockHeld(c) \/ WritePid(c)
               \/ ReadLock(c) \/ OwnerIsDead(c) \/ RmStaleLock(c)
      BY <1>9, <3>3
    <3> QED
      BY <2>2, <3>1, <3>2, <3>3 DEF AcquireStep
  <2>3. ASSUME NEW c \in Call, StoreStep(c) \/ StoreIoError(c) \/ ReleaseIoError(c)
        PROVE  Store!Next \/ UNCHANGED <<status, wrote>>
    BY <1>2, <1>6, <1>9, <1>13, <2>3 DEF StoreStep
  <2> QED
    BY <1>1, <1>7, <1>10, <1>13, <2>1, <2>2, <2>3 DEF Next
<1> QED
  BY <1>8, <1>11, <1>13

(* The inductive invariant: types, lock, disk and store together.          *)
LEMMA IInvHolds == ~LockRaces => (Spec => []IInv)
<1> SUFFICES ASSUME ~LockRaces PROVE Spec => []IInv
  OBVIOUS
<1>1. Init => TypeInv /\ Store!Init
  BY ConstantsAssumption DEF Init, TypeInv, TypeOK, CallInv, Control, Outcome, NoLock, Empty,
     Store!Init, Committed
<1>2. Init => LockInv /\ DiskInv
  BY DEF Init, LockInv, DiskInv, CallTx, CallDisk, Unwritten, Holding, Critical, BreakWindow
<1>3. Init => IInv
  BY <1>1, <1>2, StoreInvInit DEF IInv
<1>4. IInv /\ [Next]_vars => IInv'
  <2> SUFFICES ASSUME IInv, [Next]_vars PROVE IInv'
    OBVIOUS
  <2>1. TypeInv' /\ LockInv' /\ DiskInv'
    BY TypeInvStep, LockInvStep, DiskInvStep DEF IInv
  <2>2. StoreInv'
    BY StepRefines, StoreInvStep DEF IInv
  <2> QED
    BY <2>1, <2>2 DEF IInv
<1> QED
  BY <1>3, <1>4, PTL DEF Spec

(* Every variable keeps its type.                                          *)
THEOREM TypeCorrectHolds == Spec => []TypeOK
<1>1. TypeInv => TypeOK
  BY DEF TypeInv
<1> QED
  BY <1>1, TypeCorrect, PTL

(* The file backend implements the atomic store: while nobody else touches *)
(* store.lock inside removeStaleLock, its lock, journal and record files   *)
(* behave as one store that changes in single steps, through any crashes,  *)
(* restarts and I/O errors.                                                *)
THEOREM ImplementsStoreHolds == ~LockRaces => (Spec => ImplementsStore)
<1> SUFFICES ASSUME ~LockRaces PROVE Spec => ImplementsStore
  OBVIOUS
<1>1. Init => Store!Init
  BY ConstantsAssumption DEF Init, Empty, Store!Init, Committed
<1> QED
  BY <1>1, StepRefines, IInvHolds, PTL DEF Spec, ImplementsStore, Store!Spec

(* No transaction is ever torn: it is in all the files it touched or none. *)
THEOREM AllOrNothingHolds == ~LockRaces => (Spec => []AllOrNothing)
<1> SUFFICES ASSUME ~LockRaces PROVE Spec => []AllOrNothing
  OBVIOUS
<1>1. PromisesKept => AllOrNothing
  BY DEF PromisesKept
<1> QED
  BY <1>1, ImplementsStoreHolds, StorePromises, PTL

(* What a resolved promise wrote stays on disk, across crashes and the     *)
(* read-modify-write cycles of later calls.                                *)
THEOREM AckedIsDurableHolds == ~LockRaces => (Spec => []AckedIsDurable)
<1> SUFFICES ASSUME ~LockRaces PROVE Spec => []AckedIsDurable
  OBVIOUS
<1>1. PromisesKept => AckedIsDurable
  BY DEF PromisesKept
<1> QED
  BY <1>1, ImplementsStoreHolds, StorePromises, PTL

(* What a call rejected before the commit point never reaches the disk.    *)
THEOREM RefusedHasNoEffectHolds == ~LockRaces => (Spec => []RefusedHasNoEffect)
<1> SUFFICES ASSUME ~LockRaces PROVE Spec => []RefusedHasNoEffect
  OBVIOUS
<1>1. PromisesKept => RefusedHasNoEffect
  BY DEF PromisesKept
<1> QED
  BY <1>1, ImplementsStoreHolds, StorePromises, PTL

(* The promises of the store as one property of the files and journal.     *)
THEOREM PromisesKeptHolds == ~LockRaces => (Spec => []PromisesKept)
BY ImplementsStoreHolds, StorePromises, PTL

(* A callback always works on the committed records, with no journal       *)
(* pending: nothing it commits can undo what another call has committed.   *)
THEOREM SnapshotIsCurrentHolds == ~LockRaces => (Spec => []SnapshotIsCurrent)
<1> SUFFICES ASSUME ~LockRaces PROVE Spec => []SnapshotIsCurrent
  OBVIOUS
<1>1. ASSUME IInv PROVE SnapshotIsCurrent
  <2> SUFFICES ASSUME NEW c \in Call, pc[c] = "callback"
               PROVE  mem[c] = Committed /\ journaled = {}
    BY DEF SnapshotIsCurrent
  <2>1. journaled = {} /\ mem[c] = files /\ files \in [File -> SUBSET Tx]
    BY <1>1 DEF IInv, DiskInv, CallDisk, TypeInv, TypeOK
  <2>2. Committed = [f \in File |-> files[f]]
    BY <2>1 DEF Committed
  <2> QED
    BY <2>1, <2>2
<1> QED
  BY <1>1, IInvHolds, PTL

=============================================================================
