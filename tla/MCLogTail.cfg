SPECIFICATION FairSpec
CONSTANTS
  MaxLineBytes = 1
  MaxLines = 1
  MaxBytes = 3
  MaxGenerations = 2
  MaxFailures = 1
  MaxCrashes = 1
INVARIANTS
  TypeOK
  
  LinesWhole
  OnceUnlessFailed
 
CHECK_DEADLOCK FALSE
