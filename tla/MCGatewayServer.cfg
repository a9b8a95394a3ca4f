SPECIFICATION FairSpec
CONSTANTS
    f1 = f1
    f2 = f2
    f3 = f3
    http = http
    grpc = grpc
    w1 = w1
    w2 = w2
    n1 = n1
    n2 = n2
    Calls = {f1, f2, f3}
    Conns = {http, grpc}
    Nodes = {n1, n2}
    Workers = {w1, w2}
    NoNode = NoNode
    Grpc = {grpc}
    ConnOf <- MCConnOf
    WorkerOf <- MCWorkerOf
    MaxRunning = 1
    Deployments <- MCDeployments
INVARIANTS
    RunningBounded
    CallInOnePlace
    InflightCovered
PROPERTIES
    QueueIsFIFO
    EveryCallAnswered
CHECK_DEADLOCK FALSE
