SPECIFICATION Spec
CONSTANTS
  Caller <- MCCaller
  Place <- MCPlace
  Size <- MCSize
  AckSizes = {4}
  MaxPolls = 2
  MaxCalls = 4
  Asks <- MCAsks
  Running <- MCTimedOut
CHECK_DEADLOCK FALSE
INVARIANT BytesPresent
