SPECIFICATION FairSpec
CONSTANTS
  Slots = {t1}
  OVERFLOW = ovf
  TIMER_MAX = 3
  Delays = {1, 5}
  Periods = {2}
  MaxIds = 2
  MaxNow = 6
  MaxLate = 1
  Freezes = {2}
PROPERTIES DueFires
