SPECIFICATION FairSpec
CONSTANTS
  Threads = {t1, t2}
  Main = main
  NoOne = none
  Irqs = {i1}
  Smp = TRUE
  MaxAbort = 1
  MaxDozing = 1
INVARIANTS NoLostWakeup RequestNoticed NoStuckIrq
PROPERTIES InterruptServed
