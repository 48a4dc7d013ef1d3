SPECIFICATION Spec
CONSTANTS
    r1 = r1  r2 = r2  c1 = c1  c2 = c2
    Request = {r1, r2}
    Client = {c1, c2}
    ClientOf <- Clients
    CookiesKept = {TRUE, FALSE}
    MaxReads = 1
    MaxClears = 1
    MaxFaults = 1
SYMMETRY RequestSymmetry
CHECK_DEADLOCK FALSE
INVARIANTS TypeOK TakesEffectOnce RetryRepairs
