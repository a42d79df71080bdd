CONSTANTS
  Delays = {1, 2}
  MaxClock = 3
  LastStart = 1
  MaxTimeouts = 2
  MaxOps = 4
  CompactAt = 1
SPECIFICATION FairSpec
INVARIANTS
  LoopInv
  TicksDrained
PROPERTIES
  NothingOwed
  OnTime
  TickOrder
  Progress
