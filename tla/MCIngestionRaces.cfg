SPECIFICATION Spec
CONSTANTS
    k1 = k1
    k2 = k2
    t1 = t1
    NoAlert = NoAlert
    Runs = {r1, r2}
    Keys = {k1, k2}
    Titles = {t1}
    Batches <- MCRaceBatches
    MaxActive = 2
    MaxRequests = 1
SYMMETRY MCSymmetry
INVARIANTS
    TypeOK
    DuplicateOnlyIfRaced
    
    EveryEventLoggedOnce
CHECK_DEADLOCK FALSE
