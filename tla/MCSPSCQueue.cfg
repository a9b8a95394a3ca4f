SPECIFICATION FairSpec
CONSTANTS
    Messages = {m1, m2}
    NoMessage = NoMessage
    QueueSize = 4
    SleepEvery = {0, 1, 2, 3}
INVARIANTS
    NoCellReadWhileWritten
    OneWakeupPerSleep
PROPERTIES
    RefinesBoundedQueue
    SleeperWokenUnlessEveryTime
CHECK_DEADLOCK FALSE
