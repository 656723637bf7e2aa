CONSTANTS
  p1 = p1
  p2 = p2
  w1 = w1
  w2 = w2
  Workers <- MCWorkers
  QueueCap = 1
  EncQueueCap = 1
  MaxKeypairs = 2
  RekeyAfterMessages = 1
  RejectAfterMessages = 1
  RekeyTimeout = 1
  RekeyAfterTime = 1
  Peers <- MCPeers1
  MaxReads = 2
  MaxKeepalives = 0
  MaxTime = 1
  RejectAfterTime = 2
SPECIFICATION FairSpec
PROPERTY KeyArrivalWakesSequencer
