CONSTANTS
    c1 = c1
    c2 = c2
    p1 = p1
    p2 = p2
    Proc = {p1}
    Call = {c1, c2}
    Host <- OneProcess
    Pid = {q1, q2}
    NoPid = NoPid
    NoCall = NoCall
    Tx = {t1, t2, t3}
    NoTx = NoTx
    NumFiles = 2
    MaxCrashes = 2
    LockRaces = FALSE
    IoFaults = TRUE
SPECIFICATION Spec
SYMMETRY TxSymmetry
INVARIANTS TypeOK MutualExclusion PromisesKept SnapshotIsCurrent
PROPERTY ImplementsStore
CHECK_DEADLOCK FALSE
