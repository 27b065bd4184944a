SPECIFICATION Spec
CONSTANTS
    a1 = a1
    a2 = a2
    r1 = r1
    r2 = r2
    r3 = r3
    owner = owner
    other = other
    Actions = {a1}
    Requests = {r1, r2, r3}
    Users = {owner, other}
    Owner <- MCOwner
    MaxFaults = 2
    CleanupJobStarted = TRUE
SYMMETRY RequestSymmetry
INVARIANTS
    CancelHonoured
    NoLateEffect
    OnlyOwnerConfirms
    UndisturbedTruth
PROPERTIES
    ImplementsLifecycle
CHECK_DEADLOCK FALSE
