SPECIFICATION Spec
CONSTANTS
  NREGS = 7
  MAX_NUM_INTER = 2
  LoopIterations = {0}
  FirstIndices = {5}
  MainMenu <- OneMove
  ISRMenu <- AllMoves
  MainLength = 1
  ISRLength = 3
  MaxInterrupts = 1
PROPERTY ReturnsAsItWas
\* The core stops at the end of the routine.
CHECK_DEADLOCK FALSE
