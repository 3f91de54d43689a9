\* Close comes before supervise and claude ignores SIGINT.
CONSTANTS
  Lines = 1
  PipeCap = 1
  ChanCap = 1
  CanHang = TRUE
SPECIFICATION FairSpec
PROPERTY CloseTerminates
CHECK_DEADLOCK FALSE
