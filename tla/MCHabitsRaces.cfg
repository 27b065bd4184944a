SPECIFICATION Spec
CONSTANTS
    Saves = {s1, s2, s3, s4}
    Requests = {q1, q2}
    Threshold = 3
    Weeks = 2
    MaxFaults = 1
SYMMETRY Symmetry
CHECK_DEADLOCK FALSE
INVARIANT SuggestionsAreEarned
INVARIANT AcceptedIsComplete
INVARIANT OncePerCycle
INVARIANT AnsweredOnce
