SPECIFICATION FairSpec
CONSTANTS
    Client = {c1, c2}
    SendBuffer = 1
    BroadcastBuffer = 1
    TaskEventBuffer = 1
    FeedBuffer = 1
    MaxRecentEvents = 1
    MaxTasks = 0
PROPERTIES HandlersEnd
CHECK_DEADLOCK FALSE
