CONSTANTS
  e1 = e1 e2 = e2 main = main other = other flusher = flusher
  Main = main
  Flushers <- TheFlusher
  BatchSize = 2
  Credentials = "given"
  Entries <- TwoEntries
  AppThreads <- TwoAppThreads
  MaxFaults = 1
  MaxExpiries = 2
SPECIFICATION FairSpec
INVARIANTS TypeOK OnePlace ExitLeavesOnlyLate
PROPERTIES OneExpiryLosesNothing CallsReturn BufferDrains
CHECK_DEADLOCK FALSE
