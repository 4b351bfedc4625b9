SPECIFICATION FairSpec
CONSTANTS
  Callers = {main, cpu}
  main = main
  cpu = cpu
  MaxJobs = 3
  ZeroBytes = 3
INVARIANTS PoolIntact RanOnce
PROPERTIES JobsStart
CHECK_DEADLOCK FALSE
