SPECIFICATION Spec
CONSTANTS
  Threads = {t1}
  Main = main
  NoOne = none
  Irqs = {i1}
  Smp = TRUE
  MaxAbort = 1
  MaxDozing = 1
INVARIANTS IrqLineAgrees
