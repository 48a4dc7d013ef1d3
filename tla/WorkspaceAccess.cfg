SPECIFICATION RFairSpec
CONSTANTS
    owner = owner  guest = guest  t1 = t1  q1 = q1  q2 = q2
    User = {owner, guest}
    Owner = owner
    Manager = {"owner", "admin"}
    Assignable = {"member"}
    OwnerRole = "owner"
    NoRole = "none"
    Slot = {q1, q2}
    MaxInvites = 1
    MaxCalls = 2
    MaxFaults = 1
    Tab = {t1}
    UserOf <- GuestTab
    MaxDrops = 1
CHECK_DEADLOCK FALSE
INVARIANT RoomsAreForMembers
PROPERTY TabCatchesUp
