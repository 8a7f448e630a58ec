CONSTANTS
  a = a u = u x = x w1 = w1 w2 = w2
  Logs <- WithUnadmitted
  Admitted <- WithUnstorable
  Unstorable <- TableRefuses
  Consumers <- TwoWorkers
  BatchCount = 2
  RedisRetries = 1
  MaxRedisFaults = 2
  MaxDbFaults = 1
  MaxCrashes = 1
  MaxKeyLosses = 1
SPECIFICATION Spec
SYMMETRY SameRole
PROPERTIES ImplementsDelivery
INVARIANTS TypeOK OneRowPerEntry NothingSkipped NoSharedEntry AckedIsStoredAndAired AnswerMatchesStream
CHECK_DEADLOCK FALSE
