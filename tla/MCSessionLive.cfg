\* Liveness, with every way the server stops; no symmetry, which TLC does not combine
\* with liveness.
CONSTANTS
  Requests = {r1, r2}
  Clients = {c1}
  Workspaces = {}
  Unknown = unknown
  None = none
  TTL = 1
  CanStop = TRUE
SPECIFICATION FairSpec
PROPERTIES RequestsFinish DirsReclaimed ShutdownCompletes
