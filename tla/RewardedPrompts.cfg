SPECIFICATION FairSpec
CONSTANTS
    g1 = g1  w1 = w1  w2 = w2  q1 = q1  q2 = q2  q3 = q3  r1 = r1  r2 = r2  r3 = r3
    Gate = {g1}
    Watch = {w1, w2}
    NoWatch = NoWatch
    Slot = {q1, q2}
    Prompt = {r1, r2}
    NoPrompt = NoPrompt
    Lossy = TRUE
    DoubleClicks = FALSE
    ScriptFails = TRUE
    UnlockMinutes = 1
    CooldownMinutes = 0
    DailyLimit = NoLimit
    NoLimit = NoLimit
    ReceiptWindow = 2
    DayLength = 2
    MaxTime = 1
    Reconfigures = FALSE
CHECK_DEADLOCK FALSE
INVARIANTS GrantedHasReceipt NoAbandonedSession
PROPERTIES RewardReachesServer SettlesWithTag
