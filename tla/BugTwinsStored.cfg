SPECIFICATION Spec
CONSTANTS
    a = a
    b = b
    c = c
    Products = {a, b, c}
    Lanes = 2
    Modes = {"BLOCK"}
    Alike <- LikeTwins
    MaxRetries = 0
    MaxFaults = 0
INVARIANTS
    NoDuplicateStored
CHECK_DEADLOCK FALSE
