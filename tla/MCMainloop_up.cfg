SPECIFICATION Spec
CONSTANTS
  Threads = {t1}
  Main = main
  NoOne = none
  Irqs = {i1}
  Smp = FALSE
  MaxAbort = 1
  MaxDozing = 1
INVARIANTS FlagClearInGuest
