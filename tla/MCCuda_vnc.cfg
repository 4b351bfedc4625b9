SPECIFICATION Spec
CONSTANTS
  VIA_BUFFER_LEN = 3
  KEY_BUF_SIZE = 4
  ReplyLen = 2
  MaxMotion = 2
  MaxEvents = 2
  MaxTimers = 2
  VncThreads = {TRUE}
  Guests = {"driver"}
INVARIANTS MessageAvailable
CHECK_DEADLOCK FALSE
