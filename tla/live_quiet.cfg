CONSTANTS
  s1 = s1 s2 = s2
  Sockets <- OneSocket
  MaxMessages = 1
  MaxBreaks = 0
SPECIFICATION FairSpec
PROPERTIES CleanedUpOnDisconnect
CHECK_DEADLOCK FALSE
