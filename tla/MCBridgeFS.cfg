SPECIFICATION Spec
CONSTANTS
  o1 = o1
  o2 = o2
  Ops = {o1, o2}
  Paths <- MCPaths
  Asks <- MCAsks
  Tree <- MCTree
  CacheTTL = 1
  Timeout = 1
  Confirm = TRUE
  AllowWrite = TRUE
  Buffer = 1
  MaxTime = 3
  MaxEdits = 1
  None = None
INVARIANTS
  TypeOK
  AckedSeen
  Fresh
SYMMETRY MCSymmetry
