SPECIFICATION Spec
CONSTANTS
    NoCall = NoCall
    Calls = {e1, i1, i2}
    External = {e1}
    MaxClientId = 3
    MinWorkers = 0
    MaxWorkers = 2
    PreLaunched = 1
    MaxEstimate = 2
    AlwaysRequest = FALSE
    RequestInterval = TRUE
    DelayDiscards = TRUE
    AllowDisconnect = TRUE
INVARIANT ProcessingTimeSampled
CHECK_DEADLOCK FALSE
