SPECIFICATION Spec
CONSTANTS
    WorkerId = {v1, v2, v3, v4, v5}
    MinWorkers = 2
    MaxWorkers = 4
    Depth <- Depths
    ScaleUpThreshold = 100
    ScaleDownIdleTime = 0
    ScaleUpCooldown = 1
    ScaleDownCooldown = 1
    MaxManualAdds = 1
INVARIANTS TypeOK PoolBounds CountsAgree TargetsInRange NoLeak
SYMMETRY WorkerSymmetry
