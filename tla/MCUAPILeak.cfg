CONSTANTS
  c1 = c1
  c2 = c2
  NoConn = NoConn
  Conns <- MCConns
SPECIFICATION FairSpec
PROPERTY WatcherExitsAfterClose
CHECK_DEADLOCK FALSE
