CONSTANTS
    Samples = {s1, s2}
    Workers = {w1, w2}
    Width = 2
    Hour = 4
    Day = 8
    Lateness = 2
    RawRetention = 2
    RollupRetention = 2
    Skew = 1
    MaxTime = 13
SYMMETRY Symmetry
CHECK_DEADLOCK FALSE
SPECIFICATION Spec
INVARIANTS
    TypeOK
    TimelySurvive
    QueryExact
PROPERTIES
    RollupsOnlyGrow
