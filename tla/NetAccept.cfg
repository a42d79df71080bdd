CONSTANTS
  Clients = {}
  Servers = {s1}
  Peers = {p1, p2}
  Arrivals = {a1, a2}
  s1 = s1
  p1 = p1
  p2 = p2
  a1 = a1
  a2 = a2
  None = None
  Named = {}
  MaxData = 0
  BufLen = 1
  MaxReads = 1
  AllowHalfOpen = FALSE
SPECIFICATION Spec
CHECK_DEADLOCK FALSE
INVARIANT
  ConnectionKept
