CONSTANTS
  NCORES = 3
  HostSeq <- MCHostSeq
  SliceSeq <- MCSliceSeq
  ExtendedSlice = 3
  OptionSets <- MCOptionSets
  MaxExternal = 2
  Losses = 1
  None = None
SPECIFICATION Spec
INVARIANTS VerdictIsRight MulticastStaysHome
CHECK_DEADLOCK FALSE
