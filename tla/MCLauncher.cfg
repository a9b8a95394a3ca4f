\* One launcher of either kind, two workers asked for, and any order of bytes,
\* exits, closes and signals.
SPECIFICATION Spec
CONSTANTS
    Modes = {"kCppMode", "kGoMode"}
    MessageSize = 2
    PayloadSize = 1
    MaxWorkers = 2
    MaxReadable = 3
INVARIANTS
    MessagesWhole
    ReportsWhenClosed
PROPERTIES
    LauncherStops
    WorkersStart
CHECK_DEADLOCK FALSE
