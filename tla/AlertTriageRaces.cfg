SPECIFICATION Spec
CONSTANTS
    Nobody = Nobody
    States = {open, closed}
    FinalStates = {closed}
    FirstState = open
    NUsers = 2
    Requests = {r1, r2}
    Workers = {w1}
    MaxSaves = 2
    MaxStops = 1
    MaxPrefers = 2
INVARIANTS
    TypeOK
    FlagTellsAlert
    DuplicateIfRaced
    AuditFollowsState
CHECK_DEADLOCK FALSE
