CONSTANTS
  Calls = {c1, c2, c3}
  None = None
  ULONG_MAX = 4
  MaxBody = 2
  Chunk = 1
  CODIUS_MAX_RESPONSE_SIZE = 2
  HostMayDie = TRUE
SYMMETRY CallSymmetry
SPECIFICATION Spec
INVARIANTS CallbackOnce
PROPERTIES FirstWrongIsShort
