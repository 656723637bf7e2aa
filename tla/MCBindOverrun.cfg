CONSTANTS
  p1 = p1
  p2 = p2
  i1 = i1
  i2 = i2
  Ifaces <- MCIfaces
  Peers <- MCPeers1
  MaxRecv = 1
  MaxRouteChanges = 2
  MaxSends = 0
  NlCap = 1
SPECIFICATION FairSpec
PROPERTY StaleSourceCleared
CHECK_DEADLOCK FALSE
