SPECIFICATION FairSpec
CONSTANTS
    Keys = {k1, k2, k3}
    Malformed = {k3}
    Reporters = {r1, r2}
    MaxSpool = 2
    BatchSize = 2
    MaxAttempts = 2
    MaxSpooled = 3
    MaxDropped = 1
    MaxCrashes = 1
    MaxLate = 1
INVARIANTS
    NoLoss
    NoDuplication
PROPERTIES
    FlushReturns
    EventuallyMetered
CHECK_DEADLOCK FALSE
