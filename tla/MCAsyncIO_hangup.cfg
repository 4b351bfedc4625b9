SPECIFICATION FairSpec
CONSTANTS
  Fds = {f1}
  Conditions = {"IN", "HUP"}
  AevFd = aev
  MAX_NUM_HANDLERS = 3
  MAX_NUM_AEVENTS = 1
  MaxHandlerId = 2
  MaxToken = 0
  MaxQueued = 1
PROPERTIES HangupServed
