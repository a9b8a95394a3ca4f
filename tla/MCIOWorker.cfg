SPECIFICATION FairSpec
CONSTANTS
    c1 = c1
    c2 = c2
    t1 = t1
    f1 = f1
    f2 = f2
    Conns = {c1, c2}
    Types = {t1}
    TypeOf <- MCTypeOf
    Functions = {f1, f2}
    OwnerOf <- MCOwnerOf
    NoPick = NoPick
    MaxPicks = 2
INVARIANTS
    ConnectionInOnePlace
    PickListAgrees
    PipeOutlivesConnections
PROPERTIES
    QueuedFunctionsHandled
    StopCompletes
CHECK_DEADLOCK FALSE
