SPECIFICATION FairSpec
CONSTANTS
    Client = {c1}
    SendBuffer = 1
    BroadcastBuffer = 2
    TaskEventBuffer = 1
    FeedBuffer = 1
    MaxRecentEvents = 1
    MaxTasks = 1
INVARIANTS TypeOK NoSendOnClosed NoPanicWhileServing PipelineInOrder
PROPERTIES ClientSeesAll ClientLeavesNothing StopEnds
CHECK_DEADLOCK FALSE
