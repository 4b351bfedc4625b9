SPECIFICATION Spec
CONSTANTS
  Kinds = {"classic"}
  Modes = {m44}
  NosoundModes = {m44}
  BoingMode = m22
  Boing = FALSE
  BoingSize = 3
  DbufSize = 2
  ShortSizes = {1}
  RingFrags = 3
  MayFail = FALSE
  NULL = NULL
PROPERTIES WriteFindsEmpty
CHECK_DEADLOCK FALSE
