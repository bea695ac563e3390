SPECIFICATION FairSpec
CONSTANTS
  Host <- MCHost
  MaxCores = 2
  Tests <- MCTests
INVARIANTS
  LoggedTraffic
  DumpComplete
PROPERTY
  Ends
CHECK_DEADLOCK FALSE
