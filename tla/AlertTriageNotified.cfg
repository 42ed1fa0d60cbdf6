SPECIFICATION Spec
CONSTANTS
    Nobody = Nobody
    States = {open, closed}
    FinalStates = {closed}
    FirstState = open
    NUsers = 2
    Requests = {r1}
    Workers = {w1}
    MaxSaves = 1
    MaxStops = 0
    MaxPrefers = 0
INVARIANT CriticalIsNotified
CHECK_DEADLOCK FALSE
