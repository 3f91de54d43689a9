\* The CLI and calls on the server's own Store; two requests at a time, one row.
CONSTANTS
  Bearers = {b1, b2}
  MaxRows = 1
  Auths = {a1, a2}
  CacheTTL = 1
  Gap = 1
  MaxLife = 1
  Managers = {"cli", "server"}
  None = none
SYMMETRY MCSymmetry
SPECIFICATION Spec
INVARIANT TypeOK
PROPERTIES StalenessBounded SettingBounded
