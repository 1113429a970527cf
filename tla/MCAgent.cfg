SPECIFICATION FairSpec
CONSTANTS
  MaxFaults = 3
  LastIncarnation = 2
INVARIANTS
  TypeOK
  OneIdentity
  SamplesUnmixed
PROPERTY DeadShown
CHECK_DEADLOCK FALSE
