CONSTANTS
  p1 = p1
  p2 = p2
  i1 = i1
  i2 = i2
  Ifaces <- MCIfaces
  Peers <- MCPeers1
  MaxRecv = 2
  MaxRouteChanges = 2
  MaxSends = 2
  NlCap = 4
SPECIFICATION FairSpec
PROPERTY StaleSourceCleared
CHECK_DEADLOCK FALSE
