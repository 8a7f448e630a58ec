SPECIFICATION FairSpec
CONSTANTS
  ann = ann
  bob = bob
  x = x
  None = None
  Users <- MCUsers
  Rejected <- MCRejected
  MaxClicks = 3
  MaxFaults = 1
  MaxProjects = 2
CHECK_DEADLOCK FALSE
INVARIANTS TypeOK UserFitsToken LastChoiceShown
PROPERTIES SessionSettles
