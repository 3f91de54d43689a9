\* A connection and its successor, and two chat requests.
CONSTANTS
  Conns = {k1, k2}
  Requests = {r1, r2}
  None = none
SPECIFICATION FairSpec
INVARIANTS TypeOK RegistryCurrent
PROPERTIES LiveMountKept DeadMountGoes
