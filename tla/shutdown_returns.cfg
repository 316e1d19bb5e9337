CONSTANTS
    a = a
    b = b
    c = c
    p1 = p1
    p2 = p2
    w1 = w1
    w2 = w2
    TaskId = {a}
    NoTask = NoTask
    NoId = NoId
    EmptyId = EmptyId
    Worker = {w1, w2}
    Producer = {p1}
    Admin = Admin
    FaultKinds = {}
    MaxFaults = 0
    MaxCrashes = 0
    MaxPurges = 0
    QueryLimit = {0, 1, 2}
    MayCancel = TRUE
    MayDisconnect = FALSE
    Request <- OneTask
SPECIFICATION Spec
INVARIANTS InFlightCompletesOrReturns
CHECK_DEADLOCK FALSE
