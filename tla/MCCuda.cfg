SPECIFICATION FairSpec
CONSTANTS
  VIA_BUFFER_LEN = 3
  KEY_BUF_SIZE = 4
  ReplyLen = 2
  MaxMotion = 2
  MaxEvents = 3
  MaxTimers = 2
  VncThreads = {TRUE, FALSE}
  Guests = {"driver", "wild"}
INVARIANTS PacketsIntact NeverExits
PROPERTIES KeysFetched
CHECK_DEADLOCK FALSE
