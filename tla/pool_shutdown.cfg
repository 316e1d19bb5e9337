SPECIFICATION Spec
CONSTANTS
    WorkerId = {v1, v2, v3}
    MinWorkers = 1
    MaxWorkers = 2
    Depth <- Depths
    ScaleUpThreshold = 100
    ScaleDownIdleTime = 0
    ScaleUpCooldown = 1
    ScaleDownCooldown = 1
    MaxManualAdds = 0
INVARIANTS ShutdownWaits
