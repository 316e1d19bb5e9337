CONSTANTS
    a = a
    b = b
    c = c
    p1 = p1
    p2 = p2
    w1 = w1
    w2 = w2
    TaskId = {a, b}
    NoTask = NoTask
    NoId = NoId
    EmptyId = EmptyId
    Worker = {w1, w2}
    Producer = {p1}
    Admin = Admin
    FaultKinds = {"error", "lost"}
    MaxFaults = 1
    MaxCrashes = 1
    MaxPurges = 0
    QueryLimit = {0, 1, 2}
    MayCancel = TRUE
    MayDisconnect = FALSE
    Request <- OneBatch
SPECIFICATION Spec
VIEW WithoutBookkeeping
SYMMETRY WorkerSymmetry
INVARIANTS Custody AttemptsBounded DeadLetterSound DataKept LossBounded
PROPERTIES OutcomeIsFinal
CHECK_DEADLOCK FALSE
