SPECIFICATION FairSpec
CONSTANTS
    Requests = {r1}
    Boot = Boot
    MaxVisits = 0
PROPERTY ForcedLogout
CHECK_DEADLOCK FALSE
