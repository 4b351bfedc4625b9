SPECIFICATION Spec
CONSTANTS
  Vsids = {v1}
  Tops = {0, 1}
  Lev2 = {0}
  Pel = {0}
  Pages = {ga, gb}
  Pool = {p1, p2}
  Tables = {T1, T2}
  Slots = {s1, s2}
  PentsPerChunk = 2
  NULL = NULL
  Accesses <- MCAccesses
SYMMETRY Symmetry
VIEW View
INVARIANTS RingsIntact MemoryEnsured PteRecorded NoStalePte
PROPERTIES Flushed
