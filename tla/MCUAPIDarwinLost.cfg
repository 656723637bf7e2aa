CONSTANTS
  c1 = c1
  NoConn = NoConn
  Conns <- MCConns1
SPECIFICATION DarwinFairSpec
PROPERTY DeletionReported
CHECK_DEADLOCK FALSE
