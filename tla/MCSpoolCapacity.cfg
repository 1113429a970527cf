CONSTANTS
    Collectors = {c1}
    EmitCounts = {1, 2}
    Sizes = {2}
    LossSize = 1
    MaxBytes = 3
    NormalLimit = 1
    BackfillLimit = 2
    BatchBytes = 4
    ServerNormal = 1
    ServerBackfill = 2
    MaxEvents = 3
    MaxFaults = 1
    MaxCrashes = 0
SPECIFICATION Spec
PROPERTY SpoolWithinCapacity
