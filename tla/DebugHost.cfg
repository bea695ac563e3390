CONSTANTS
  NCORES = 2
  Reg = {"r"}
  Val = {"zero", "one"}
  Traps = {"WRITE", "CLOSE", "EXIT", "OTHER", "BKPT"}
  MaxTraps = 2
  MaxPosts = 1
  Modes = {"gdb_server", "batch"}
  MaxQueue = 1
  Addresses <- MCAddresses
  None = None
SPECIFICATION Spec
INVARIANT RunsServed
PROPERTIES MemorySpec TrapsServed
CHECK_DEADLOCK FALSE
