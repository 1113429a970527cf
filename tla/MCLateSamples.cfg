CONSTANTS
    Samples = {s1}
    Workers = {w1}
    Width = 2
    Hour = 4
    Day = 8
    Lateness = 2
    RawRetention = 2
    RollupRetention = 2
    Skew = 1
    MaxTime = 13
CHECK_DEADLOCK FALSE
SPECIFICATION Spec
INVARIANT DroppedAreRolledUp
