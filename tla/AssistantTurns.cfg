SPECIFICATION Spec
CONSTANTS
    MaxTurns = 2
    MaxRounds = 1
    MaxPasses = 2
    MaxCalls = 1
    MaxFetches = 1
    MaxFaults = 1
    None = None
CHECK_DEADLOCK FALSE
INVARIANTS TypeOK DoneIsWhole ActiveIsInUse RepliesAreOfConversation
