CONSTANTS
  f1 = f1
  f2 = f2
  f3 = f3
  common = common
  Files = {f1, f2, f3}
  Projects <- MCProjects
  PoolSize = 2
  MaxDeaths = 1
SPECIFICATION FairSpec
INVARIANTS
  LoadInv
  LoadedOnce
PROPERTIES
  ImplementsLoader
  LoadEnds
CHECK_DEADLOCK FALSE
