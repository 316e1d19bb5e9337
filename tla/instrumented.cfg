SPECIFICATION FairSpec
CONSTANTS
    WorkerId = {v1, v2}
    Stoppable = {v1}
    ScaleDownIdleTime = 1
    MaxTasks = 2
INVARIANTS TypeOK CountedOnce CopiedOnce GhostsOnly StopWaits
PROPERTIES CatchesUp StopEnds
CHECK_DEADLOCK FALSE
