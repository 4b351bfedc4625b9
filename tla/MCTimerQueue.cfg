SPECIFICATION Spec
CONSTANTS
  Slots = {t1, t2}
  OVERFLOW = ovf
  TIMER_MAX = 3
  Delays = {1, 5}
  Periods = {2}
  MaxIds = 2
  MaxNow = 5
  MaxLate = 1
  Freezes = {2}
INVARIANTS QueueIntact StampCovers
PROPERTIES ImplementsTimers
SYMMETRY SlotSymmetry
