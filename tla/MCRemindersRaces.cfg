SPECIFICATION Spec
CONSTANTS
    r1 = r1
    r2 = r2
    r3 = r3
    d1 = d1
    d2 = d2
    Requests = {r1, r2, r3}
    Devices = {d1}
    MaxRetry = 1
    MaxFaults = 1
SYMMETRY Symmetry
INVARIANTS
    UnsubscribeNeverLies
    LateRunsAreSilent
    RemindedOnce
    NoReminderForgotten
CHECK_DEADLOCK FALSE
