SPECIFICATION FairSpec
CONSTANTS
  Viewers = {v1}
  Plans <- MCPlans
  MaxFailures = 2
  MaxOthers = 1
INVARIANTS
  TypeOK
  TruthHonest
  
  
PROPERTY ViewersCatchUp
CHECK_DEADLOCK FALSE
