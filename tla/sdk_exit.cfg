CONSTANTS
  e1 = e1 e2 = e2 main = main other = other flusher = flusher
  Main = main
  Flushers <- TheFlusher
  BatchSize = 2
  Credentials = "given"
  Entries <- TwoEntries
  AppThreads <- MainAlone
  MaxFaults = 0
  MaxExpiries = 0
SPECIFICATION Spec
INVARIANTS ExitSendsAll
CHECK_DEADLOCK FALSE
