SPECIFICATION FairSpec
CONSTANTS
  MAX_SUB_ROUTINE_SIZE = 256
  LS_MIN_BUFFER_SIZE = 16
  Initial <- MCInitial
  EXT_MEM_START = 1048576
  MAX_CHAIN_ADDRESS = 65536
  MAX_ALLOWED_DMA_TRAN_SIZE_INGEN = 1024
  ShapeDraw = {0, 1, 8, 9, 100}
  NREGS = 2
  PROGRAM_START = 256
  MAX_NUM_INTER = 2
  Options <- MCOptions
  LengthDraw = {8, 32, 200}
  Uninitialised = {"small", "large"}
CHECK_DEADLOCK FALSE
INVARIANTS GeneratorAsserts FreeIsUnclaimed FreeIsRoomy ClaimsApart SubroutineFits LinksWithoutOverlap OnlyFirstBranchLost SectionsMerged TransfersApart TransferInside ChainEnds VectorFollows LoopsFit
PROPERTIES Finishes
