SPECIFICATION Spec
CONSTANTS
    a1 = a1
    a2 = a2
    r1 = r1
    r2 = r2
    r3 = r3
    owner = owner
    other = other
    Actions = {a1}
    Requests = {r1, r2}
    Users = {owner, other}
    Owner <- MCOwner
    MaxFaults = 0
    CleanupJobStarted = FALSE
SYMMETRY RequestSymmetry
INVARIANTS
    ExecutedAtMostOnce
CHECK_DEADLOCK FALSE
