SPECIFICATION FairSpec
CONSTANTS
    r1 = r1
    r2 = r2
    r3 = r3
    d1 = d1
    d2 = d2
    Requests = {r1, r2}
    Devices = {d1}
    MaxRetry = 1
    MaxFaults = 2
PROPERTIES
    ImplementsLifecycle
    PendingSettles
CHECK_DEADLOCK FALSE
