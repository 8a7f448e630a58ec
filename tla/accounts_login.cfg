CONSTANTS
  ann = ann ben = ben None = None
  Addresses <- TwoAddresses
  MaxRequests = 2
  MaxFaults = 0
SPECIFICATION Spec
PROPERTIES RegisteredCanLogIn
CHECK_DEADLOCK FALSE
