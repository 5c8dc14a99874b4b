SPECIFICATION Spec
CONSTANTS
    w1 = w1
    w2 = w2
    r1 = r1
    p1 = p1
    None = None
    Jobs = {j1}
    Workers = {w1, w2}
    Recoverers = {r1}
    Procs = {p1}
    MaxRetries = 1
    Home <- HomeTogether
    Budget <- LateAndStop
INVARIANTS
    TypeOK
    NoJobLost
    ClaimHasHolder
    StopDrains
