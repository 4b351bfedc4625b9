SPECIFICATION FairSpec
CONSTANTS
  Slots = {t1}
  OVERFLOW = ovf
  TIMER_MAX = 3
  Delays = {}
  Periods = {2}
  MaxIds = 1
  MaxNow = 8
  MaxLate = 2
  Freezes = {}
PROPERTIES DueAlwaysFires
