CONSTANTS
  a = a u = u x = x w1 = w1 w2 = w2
  Logs <- WithUnstorable
  Admitted <- WithUnstorable
  Unstorable <- TableRefuses
  Consumers <- TwoWorkers
  BatchCount = 2
  RedisRetries = 1
  MaxRedisFaults = 1
  MaxDbFaults = 1
  MaxCrashes = 1
  MaxKeyLosses = 1
SPECIFICATION FairSpec
PROPERTIES BacklogDrains QueuedIsDelivered
CHECK_DEADLOCK FALSE
