SPECIFICATION FairSpec
CONSTANTS
    None = None
    Runs = {e1, e2, e3}
    MaxSent = 1
    MaxLoads = 2
    MaxRenders = 2
    MaxFailures = 1
PROPERTIES
    KeepsTrying
    PollingCatchesUp
INVARIANTS
    TypeOK
    NeverDeaf
    OneSocket
    OrphanIfInterrupted
CHECK_DEADLOCK FALSE
