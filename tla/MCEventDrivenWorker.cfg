\* The process may stop whenever nothing is sent to it.
CONSTANTS
    Bindings = {"node", "python"}
    Clients = {1, 2}
    MaxExternal = 1
    ExternalCalls <- MCExternalCalls
    MaxNested = 2
SPECIFICATION Spec
INVARIANTS
    FdsHaveTheirOwner
    PooledObjectsHaveOneUser
    NestedCallsAnswered
    RepliesOnce
CHECK_DEADLOCK FALSE
