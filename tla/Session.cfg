SPECIFICATION FairSpec
CONSTANTS
    Requests = {r1, r2}
    Boot = Boot
    MaxVisits = 2
INVARIANTS
    TypeOK
    StateTellsUser
    WaitersHaveRefresh
PROPERTIES
    ImplementsRenewal
    NothingHangs
CHECK_DEADLOCK FALSE
