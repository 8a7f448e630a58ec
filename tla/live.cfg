CONSTANTS
  s1 = s1 s2 = s2
  Sockets <- TwoSockets
  MaxMessages = 2
  MaxBreaks = 2
SPECIFICATION FairSpec
INVARIANTS TypeOK NoGap
PROPERTIES ImplementsFeed Forwarded CleanedUpByNextMessage
CHECK_DEADLOCK FALSE
