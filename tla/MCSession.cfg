\* Two client ids, two requests, and every way the server stops.
CONSTANTS
  Requests = {r1, r2}
  Clients = {c1, c2}
  Workspaces = {w1}
  Unknown = unknown
  None = none
  TTL = 1
  CanStop = TRUE
SYMMETRY MCSymmetry
SPECIFICATION Spec
INVARIANTS TypeOK ConversationExclusive ConversationIsolated OneConversationPerSession DirsOwned
PROPERTIES WorkspaceKept StopReclaims StoreSpec
