SPECIFICATION FairSpec
CONSTANTS
  RingSize = 4
  MAX_IOVEC = 2
  CountMod = 32
  FirstCount = 29
  SgCounts = {0, 3}
  MaxRequests = 2
  MaxEvents = 1
  Errors = TRUE
INVARIANTS RingIntact CompletionsAreReal BuffersFollowHeader KickNotNeeded
PROPERTIES RequestsComplete
CHECK_DEADLOCK FALSE
