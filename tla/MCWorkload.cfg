SPECIFICATION FairSpec
CONSTANTS
  Consumers = {c1, c2}
  ReadCount = 2
  MaxLen = 1
  MaxItems = 2
  MaxFailures = 2
INVARIANTS
  TypeOK
  Accounted
  HandledOnce
  StreamUnbroken
  SampleConsistent
  
PROPERTY Drains
CHECK_DEADLOCK FALSE
