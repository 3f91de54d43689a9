\* Pipe and channel both fill up, and claude may hang: then Close may wait for ever,
\* and the deadlock is real.
CONSTANTS
  Lines = 7
  PipeCap = 2
  ChanCap = 2
  CanHang = TRUE
SPECIFICATION FairSpec
INVARIANTS TypeOK TruncationReported
PROPERTIES HandleSpec SuperviseKills HandlerReturns
CHECK_DEADLOCK FALSE
