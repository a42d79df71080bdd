CONSTANTS
  Clients = {c1}
  Servers = {s1}
  Peers = {p1}
  Arrivals = {a1}
  c1 = c1
  s1 = s1
  p1 = p1
  a1 = a1
  None = None
  Named = {c1}
  MaxData = 2
  BufLen = 1
  MaxReads = 1
  AllowHalfOpen = TRUE
SPECIFICATION FairSpec
CHECK_DEADLOCK FALSE
INVARIANTS
  BridgeInv
  StreamIntact
  
PROPERTY
  DataRead
