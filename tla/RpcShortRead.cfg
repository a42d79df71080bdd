CONSTANTS
  Calls = {c1, c2}
  None = None
  ULONG_MAX = 3
  MaxBody = 2
  Chunk = 1
  CODIUS_MAX_RESPONSE_SIZE = 2
  HostMayDie = FALSE

SPECIFICATION Spec
INVARIANTS OwnReply
