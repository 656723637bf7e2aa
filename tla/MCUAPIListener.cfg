CONSTANTS
  c1 = c1
  c2 = c2
  NoConn = NoConn
  Conns <- MCConns
SPECIFICATION FairSpec
INVARIANT ErrorSendsNeverStick
PROPERTY DeletionReported
PROPERTY ConnDelivered
CHECK_DEADLOCK FALSE
