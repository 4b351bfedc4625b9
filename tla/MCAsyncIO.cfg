SPECIFICATION Spec
CONSTANTS
  Fds = {f1, f2}
  Conditions = {"IN"}
  AevFd = aev
  MAX_NUM_HANDLERS = 3
  MAX_NUM_AEVENTS = 2
  MaxHandlerId = 3
  MaxToken = 2
  MaxQueued = 1
SYMMETRY FdSymmetry
INVARIANTS TableIntact TableExclusive RestartSkipsNothing
PROPERTIES LiveTokenDelivered
