CONSTANTS
  w1 = w1
  w2 = w2
  Workers <- MCWorkers2
  QueueCap = 1
  MaxReads = 2
SPECIFICATION FairSpec
PROPERTY ShutdownCompletes
CHECK_DEADLOCK FALSE
