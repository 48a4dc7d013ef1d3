SPECIFICATION Spec
CONSTANTS
    owner = owner  guest = guest  q1 = q1  q2 = q2
    User = {owner, guest}
    Owner = owner
    Manager = {"owner", "admin"}
    Assignable = {"admin"}
    OwnerRole = "owner"
    NoRole = "none"
    Slot = {q1, q2}
    MaxInvites = 2
    MaxCalls = 3
    MaxFaults = 1
SYMMETRY SlotSymmetry
CHECK_DEADLOCK FALSE
INVARIANTS TypeOK HandledInviteGrantsNothing AcceptedIsIn NewInviteReplacesOlder OwnerHasAccess
PROPERTY RemovedStaysOut
