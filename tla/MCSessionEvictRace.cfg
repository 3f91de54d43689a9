\* An eviction between the lookup of a session and the lock of its mutex.
CONSTANTS
  Requests = {r1, r2, r3}
  Clients = {c1}
  Workspaces = {w1}
  Unknown = unknown
  None = none
  TTL = 1
  CanStop = FALSE
SYMMETRY MCSymmetry
SPECIFICATION Spec
INVARIANT OneRunPerClient
