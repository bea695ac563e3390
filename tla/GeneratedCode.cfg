SPECIFICATION Spec
CONSTANTS
  NREGS = 7
  MAX_NUM_INTER = 3
  LoopIterations = {0, 1}
  FirstIndices = {3, 5}
  MainMenu <- Body
  ISRMenu <- ISRBody
  MainLength = 2
  ISRLength = 1
  MaxInterrupts = 2
INVARIANT BeliefsHold
PROPERTY ReturnsAsItWas
\* The core stops at the end of the routine.
CHECK_DEADLOCK FALSE
