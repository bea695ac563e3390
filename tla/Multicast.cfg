CONSTANTS
  NCORES = 3
  HostSeq <- MCHostSeq
  SliceSeq <- MCSliceSeq
  ExtendedSlice = 3
  OptionSets <- MCOptionSets
  MaxExternal = 2
  Losses = 0
  None = None
SPECIFICATION Spec
INVARIANT GoodChipPasses
CHECK_DEADLOCK FALSE
