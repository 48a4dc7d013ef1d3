CONSTANTS
    c1 = c1
    c2 = c2
    p1 = p1
    p2 = p2
    Proc = {p1, p2}
    Call = {c1, c2}
    Host <- OwnProcess
    Pid = {q1, q2}
    NoPid = NoPid
    NoCall = NoCall
    Tx = {t1, t2, t3}
    NoTx = NoTx
    NumFiles = 1
    MaxCrashes = 1
    LockRaces = TRUE
    IoFaults = FALSE
SPECIFICATION FairSpec
PROPERTY EveryCallSettles
CHECK_DEADLOCK FALSE
