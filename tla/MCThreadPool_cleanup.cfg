SPECIFICATION FairSpec
CONSTANTS
  Callers = {main, cpu}
  main = main
  cpu = cpu
  MaxJobs = 3
  ZeroBytes = 3
PROPERTY CleanupEnds
CHECK_DEADLOCK FALSE
