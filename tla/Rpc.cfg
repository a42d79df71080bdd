CONSTANTS
  Calls = {c1, c2, c3}
  None = None
  ULONG_MAX = 3
  MaxBody = 2
  Chunk = 2
  CODIUS_MAX_RESPONSE_SIZE = 2
  HostMayDie = FALSE
SPECIFICATION FairSpec
INVARIANTS
  TypeOK
  OwnReply
  Lockstep
  CallbackOrder
PROPERTIES
  ExitComplete
  ImplementsService
  Answered
