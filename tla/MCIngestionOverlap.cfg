SPECIFICATION FairSpec
CONSTANTS
    k1 = k1
    k2 = k2
    t1 = t1
    NoAlert = NoAlert
    Runs = {r1, r2}
    Keys = {k1, k2}
    Titles = {t1}
    Batches <- MCOverlapBatches
    MaxActive = 2
    MaxRequests = 0
INVARIANTS
    OccurrenceIsSound
    StatusTellsLog
    HealthTellsTheRun
PROPERTIES
    DuplicatedKeyIsFrozen
    
CHECK_DEADLOCK FALSE
