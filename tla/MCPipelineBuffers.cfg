CONSTANTS
  p1 = p1
  p2 = p2
  w1 = w1
  w2 = w2
  Workers <- MCWorkers
  QueueCap = 1
  EncQueueCap = 1
  MaxKeypairs = 1
  RekeyAfterMessages = 1
  RejectAfterMessages = 2
  RekeyTimeout = 1
  RekeyAfterTime = 1
  Peers <- MCPeers1
  MaxReads = 2
  MaxKeepalives = 0
  MaxTime = 1
  RejectAfterTime = 2
SPECIFICATION Spec
INVARIANT BuffersReturned
