SPECIFICATION Spec
CONSTANTS
    a = a
    b = b
    c = c
    Products = {a, b, c}
    Lanes = 1
    Modes = {"BLOCK"}
    Alike <- LikeTwins
    MaxRetries = 1
    MaxFaults = 1
INVARIANTS
    BlockedNeverStored
CHECK_DEADLOCK FALSE
