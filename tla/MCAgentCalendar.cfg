SPECIFICATION AgentSpec
CONSTANTS
    Actions = {a1, a2}
    Existing = {e1}
    Times <- MCTimes
    Start = 10
    Latest = 13
    MinDuration = 2
    MaxDuration = 3
    Tolerance = 1
    Horizon = 1
    u1 = u1
    u2 = u2
    u3 = u3
    Instants = {0, 1, 2, 3}
    UserEvents = {u1, u2, u3}
    Recurring = {u3}
    DefaultDuration = 2
SYMMETRY AgentSymmetry
INVARIANTS
    CalendarRespectsPolicy
    NotIntoThePast
    SlotsAreConfirmed
    SlotsAreFree
    NothingMissed
CHECK_DEADLOCK FALSE
