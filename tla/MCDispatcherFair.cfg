SPECIFICATION FairSpec
CONSTANTS
    NoCall = NoCall
    Calls = {e1, i1, i2}
    External = {e1}
    MaxClientId = 3
    MinWorkers = 1
    MaxWorkers = 2
    PreLaunched = 1
    MaxEstimate = 2
    AlwaysRequest = TRUE
    RequestInterval = TRUE
    DelayDiscards = TRUE
    AllowDisconnect = FALSE
PROPERTIES
    EveryCallEnds
CHECK_DEADLOCK FALSE
