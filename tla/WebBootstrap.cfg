SPECIFICATION Spec
CONSTANTS
    a = a  b = b  none = none  a1 = a1  a2 = a2  b1 = b1
    Path = {a1, a2, b1}
    Slug = {a, b}
    NoSlug = none
    Seat = {"resolved", "forbidden"}
    SlugOf <- SlugOfPath
    Code = {0, 403}
    HandlersThrow = TRUE
    MaxMoves = 2
    MaxChanges = 2
    MaxFaults = 1
SYMMETRY PageSymmetry
CHECK_DEADLOCK FALSE
INVARIANTS TypeOK QuietAuthIsCurrent QuietContextIsCurrent PermissionsOfTheWorkspace
PROPERTY NeverGoesBack
