SPECIFICATION Spec
CONSTANTS
  RingSize = 4
  MAX_IOVEC = 2
  CountMod = 32
  FirstCount = 29
  SgCounts = {0, 1, 3}
  MaxRequests = 2
  MaxEvents = 0
  Errors = TRUE
CHECK_DEADLOCK FALSE
PROPERTY ErrorStopsChannel
