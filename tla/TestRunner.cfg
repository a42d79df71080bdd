CONSTANTS
  Workers = {w1, w2}
  Main = main
  Nobody = nobody
  NCases = 2
  Rules <- MCRules
  ExitCodes <- MCExitCodes
  MaxFaults = 1
SPECIFICATION FairSpec
INVARIANTS
  RunnerInv
  VerdictSound
  NoOrphans
PROPERTIES
  RunEnds
