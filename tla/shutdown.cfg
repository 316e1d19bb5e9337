CONSTANTS
    a = a
    b = b
    c = c
    p1 = p1
    p2 = p2
    w1 = w1
    w2 = w2
    TaskId = {a, b}
    NoTask = NoTask
    NoId = NoId
    EmptyId = EmptyId
    Worker = {w1}
    Producer = {p1}
    Admin = Admin
    FaultKinds = {}
    MaxFaults = 0
    MaxCrashes = 1
    MaxPurges = 0
    QueryLimit = {0, 1, 2}
    MayCancel = TRUE
    MayDisconnect = FALSE
    Request <- OneBatch
SPECIFICATION FairSpec
PROPERTIES ShutdownCompletes BackoffSurvivesShutdown
CHECK_DEADLOCK FALSE
