SPECIFICATION FairSpec
CONSTANTS
  Days = 2
  Attempts = 2
  MaxFailures = 2
  MaxFaults = 2
  MaxEvents = 2
INVARIANTS
  RecordTruthful
  

  
CHECK_DEADLOCK FALSE
