CONSTANTS
  HEADER_SIZE = 3
  MaxSize = 2
  MaxId = 1
  MaxMessages = 3
SPECIFICATION FairSpec
INVARIANTS
  ParserInv
  FramesIntact
PROPERTIES
  AllEmitted
