CONSTANTS
    Processes = {1, 2}
    Services = {web}
    Dependencies = {redis}
    Cap = 1
    Lease = 3
    Timeout = 1
    Skew = 0
    MaxDelay = 1
    MaxChanges = 2
    MaxFaults = 2
    MaxCrashes = 1
SPECIFICATION FairSpec
INVARIANTS
    TypeOK
    ActiveDuringLease
    ReferencesKnown
PROPERTIES
    EventsCurrent
    Converges
