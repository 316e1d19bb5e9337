CONSTANTS
    a = a
    b = b
    c = c
    p1 = p1
    p2 = p2
    w1 = w1
    w2 = w2
    TaskId = {a, b}
    NoTask = NoTask
    NoId = NoId
    EmptyId = EmptyId
    Worker = {w1, w2}
    Producer = {p1, p2}
    Admin = Admin
    FaultKinds = {}
    MaxFaults = 0
    MaxCrashes = 0
    MaxPurges = 0
    QueryLimit = {0, 1, 2}
    MayCancel = FALSE
    MayDisconnect = FALSE
    Request <- TwoRequests
SPECIFICATION FairSpec
INVARIANTS TypeOK NoLostTask PriorityRespected ResultMatchesState Accounting QueryFindsAll
PROPERTIES ImplementsLifecycle EventuallyFinished
