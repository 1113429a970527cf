CONSTANTS
    Collectors = {c1}
    EmitCounts = {1, 2}
    Sizes = {2}
    LossSize = 1
    MaxBytes = 3
    NormalLimit = 1
    BackfillLimit = 2
    BatchBytes = 3
    ServerNormal = 1
    ServerBackfill = 2
    MaxEvents = 3
    MaxFaults = 2
    MaxCrashes = 1
SPECIFICATION Spec
INVARIANTS
    TypeOK
    Accounted
    OnlyRefusedQuarantined
    StoredOnce
    RepliesBacked
    
PROPERTIES
    
    
    ImplementsCustody
