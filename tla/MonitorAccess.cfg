SPECIFICATION FairSpec
CONSTANTS
  Caller <- MCCaller
  Place <- MCPlace
  Size <- MCSize
  AckSizes = {1, 2, 4}
  MaxPolls = 2
  MaxCalls = 4
  Asks <- MCAsks
  Running <- MCRunning
CHECK_DEADLOCK FALSE
INVARIANTS TypeOK AnswersTheCall BytesPresent NothingLeftOver
PROPERTIES SilenceBeforeGiveUp CallEnds
