CONSTANTS
  Clients = {c1}
  Servers = {}
  Peers = {}
  Arrivals = {}
  c1 = c1
  None = None
  Named = {}
  MaxData = 0
  BufLen = 1
  MaxReads = 1
  AllowHalfOpen = FALSE
SPECIFICATION FairSpec
CHECK_DEADLOCK FALSE
PROPERTY
  ConnectReturns
