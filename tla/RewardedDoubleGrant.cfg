SPECIFICATION Spec
CONSTANTS
    g1 = g1  g2 = g2  w1 = w1  w2 = w2  w3 = w3  q1 = q1  q2 = q2
    Gate = {g1}
    Watch = {w1}
    NoWatch = NoWatch
    Slot = {q1, q2}
    UnlockMinutes = 1
    CooldownMinutes = 0
    DailyLimit = NoLimit
    NoLimit = NoLimit
    ReceiptWindow = 2
    DayLength = 3
    MaxTime = 3
    Reconfigures = FALSE
SYMMETRY Symmetry
CHECK_DEADLOCK FALSE
INVARIANT OneReceiptPerWatch
