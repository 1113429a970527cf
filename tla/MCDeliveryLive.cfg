CONSTANTS
    Collectors = {c1, c2}
    EmitCounts = {1, 2}
    Sizes = {2}
    LossSize = 1
    MaxBytes = 4
    NormalLimit = 1
    BackfillLimit = 2
    BatchBytes = 4
    ServerNormal = 1
    ServerBackfill = 1
    MaxEvents = 2
    MaxFaults = 1
    MaxCrashes = 0
SPECIFICATION FairSpec
PROPERTY Drains
