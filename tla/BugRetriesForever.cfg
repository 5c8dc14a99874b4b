SPECIFICATION FairSpec
CONSTANTS
    w1 = w1
    w2 = w2
    r1 = r1
    p1 = p1
    None = None
    Jobs = {j1}
    Workers = {w1, w2}
    Recoverers = {}
    Procs = {p1}
    MaxRetries = 3
    Home <- HomeTogether
    Budget <- NoFaults
PROPERTIES
    Settles
