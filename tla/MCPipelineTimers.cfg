CONSTANTS
  p1 = p1
  p2 = p2
  w1 = w1
  w2 = w2
  Workers <- MCWorkers
  QueueCap = 1
  EncQueueCap = 1
  MaxKeypairs = 2
  RekeyAfterMessages = 1
  RejectAfterMessages = 2
  RekeyTimeout = 1
  RekeyAfterTime = 1
  Peers <- MCPeers1
  MaxReads = 1
  MaxKeepalives = 1
  MaxTime = 2
  RejectAfterTime = 3
SPECIFICATION FairSpec
INVARIANT SentOnlySealed
INVARIANT LatchReleasable
PROPERTY UnlockOnlyLocked
PROPERTY SenderProgress
