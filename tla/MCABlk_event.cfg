SPECIFICATION Spec
CONSTANTS
  RingSize = 4
  MAX_IOVEC = 2
  CountMod = 32
  FirstCount = 29
  SgCounts = {0, 1, 3}
  MaxRequests = 2
  MaxEvents = 2
  Errors = FALSE
CHECK_DEADLOCK FALSE
INVARIANT EventPending
