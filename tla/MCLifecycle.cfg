CONSTANTS
    Processes = {1}
    Services = {web}
    Dependencies = {redis}
    Cap = 2
    Lease = 3
    Timeout = 1
    Skew = 0
    MaxDelay = 1
    MaxChanges = 2
    MaxFaults = 1
    MaxCrashes = 0
SPECIFICATION FairSpec
PROPERTY ChangesReported
