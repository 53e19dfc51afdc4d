SPECIFICATION Spec
CONSTANTS
  NPmp = 2
  AddrBits = 2
  Perm = {"X"}
  Size = {1, 4}
  PageSize = 8
  TlbSize = 1
  NPages = 2
  Offset = {0}
  Leaf <- UserLeaf
  MprvTraps = FALSE
  Irqs = {5, 7}
  RamPage = 4
  DevReg = 2
  RamSize = 8
  Second = 4
  Device = 8
  MemSize = {2, 4}
  Closed = {1}
  AllowMisaligned = TRUE
  MaxStores = 2
  Harts = {1, 2}
  Cells = {"x", "y", "o"}
  Broken = {"y"}
  Watched = {"o"}
  Unaligned = {"o"}
  MaxVal = 1
INVARIANTS
  IntegerExact
  FloatExact
  AccessRight
PROPERTIES
  PrivilegeKept
  MemoryRight
