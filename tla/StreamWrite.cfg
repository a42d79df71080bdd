CONSTANTS
  Lens = {0, 2}
  MaxBufs = 2
  MaxReqs = 4
SPECIFICATION FairSpec
INVARIANTS
  WriteInv
  InOrder
  CallbacksTruthful
  Woken
PROPERTIES
  AllCalled
