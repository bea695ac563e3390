CONSTANTS
  NCORES = 2
  Reg = {"r"}
  Val = {"zero", "one"}
  Traps = {"WRITE", "CLOSE", "EXIT", "OTHER", "BKPT"}
  MaxTraps = 2
  MaxPosts = 1
  Modes = {"gdb_server"}
  MaxQueue = 1
  Addresses <- MCAddresses
  None = None
SPECIFICATION Spec
PROPERTY SeesOneMemory
CHECK_DEADLOCK FALSE
