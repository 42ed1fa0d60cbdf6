SPECIFICATION FairSpec
CONSTANTS
    Nobody = Nobody
    Workers = {w1, w2}
    Requests = {r1, r2}
    Alerts = {a1}
    BrokerMayFail = TRUE
    MaxWrites = 2
    MaxOutages = 1
    MaxCrashes = 1
    MaxFaults = 1
    MaxRebuilds = 1
INVARIANTS
    TypeOK
    OnlyCommittedShown
    StaleOnlyIfNew
PROPERTIES
    IndexNeverGoesBack
    Settles
CHECK_DEADLOCK FALSE
