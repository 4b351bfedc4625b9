SPECIFICATION FairSpec
CONSTANTS
  Kinds = {"osx", "classic"}
  Modes = {m22, m44, m48}
  NosoundModes = {m22, m44}
  BoingMode = m22
  Boing = TRUE
  BoingSize = 3
  DbufSize = 2
  ShortSizes = {1}
  RingFrags = 3
  MayFail = TRUE
  NULL = NULL
INVARIANTS ThreadIntact DrainedAtClose QuietAfterStop
PROPERTIES StopEnds RingInterrupts
CHECK_DEADLOCK FALSE
