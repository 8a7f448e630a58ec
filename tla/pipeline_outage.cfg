CONSTANTS
  a = a u = u x = x w1 = w1 w2 = w2
  Logs <- Storable
  Admitted <- Storable
  Unstorable <- Nothing
  Consumers <- TwoWorkers
  BatchCount = 2
  RedisRetries = 1
  MaxRedisFaults = 0
  MaxDbFaults = 1
  MaxCrashes = 0
  MaxKeyLosses = 0
SPECIFICATION FairSpec
PROPERTIES OutageLosesNothing
CHECK_DEADLOCK FALSE
