SPECIFICATION FairSpec
CONSTANTS
  Cmds = {c1, c2}
  Cancels = {x1}
  Sizes = {0, 1, 2, 4}
  MAX_NUM_SG = 1
  PAGE_EL = 2
  OverflowPages = {0, 1}
  MaxLost = 1
  NULL = NULL
INVARIANTS ChainIntact ListsIntact Covers
PROPERTIES CommandsEnd
CHECK_DEADLOCK FALSE
