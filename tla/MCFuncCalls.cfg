SPECIFICATION Spec
CONSTANTS
    fa = fa
    fb = fb
    w1 = w1
    w2 = w2
    x1 = x1
    x2 = x2
    g1 = g1
    g2 = g2
    Funcs = {fa, fb}
    Workers = {w1, w2}
    FuncOf <- MCFuncOf
    ExternalCalls = {x1}
    NestedCalls = {g1, g2}
    Callee <- MCCallee
    Caller <- MCCaller
    NoCall = NoCall
    Libs = {"v1", "event", "go"}
    MayDiscard = TRUE
    MayLoseGateway = TRUE
    MaxCrashes = 1
    MaxFaults = 1
INVARIANTS
    MessagesAreExpected
    AnswersAreTrue
    RegionsHaveOwner
CHECK_DEADLOCK FALSE
