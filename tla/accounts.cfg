CONSTANTS
  ann = ann ben = ben None = None
  Addresses <- TwoAddresses
  MaxRequests = 4
  MaxFaults = 1
SPECIFICATION FairSpec
INVARIANTS TypeOK OneOfEach WholeTransactions
PROPERTIES EveryRequestEnds
\* every request sent has ended
CHECK_DEADLOCK FALSE
