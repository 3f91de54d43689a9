\* evictAll while a request is being drained.
CONSTANTS
  Requests = {r1}
  Clients = {c1}
  Workspaces = {w1}
  Unknown = unknown
  None = none
  TTL = 1
  CanStop = TRUE
SPECIFICATION Spec
PROPERTY WorkspaceKeptInDrain
