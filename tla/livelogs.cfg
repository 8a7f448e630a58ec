CONSTANTS
  web = web jobs = jobs None = None
  Projects <- TwoProjects
  Levels <- TwoLevels
  LevelOf <- EveryOther
  MaxMessages = 2
  MaxAttempts = 2
  MaxPublished = 3
  MaxFailures = 3
  MaxClicks = 5
  MaxLooks = 2
SPECIFICATION FairSpec
INVARIANTS TypeOK OneSocket FollowsUser StatusFits TailFits
PROPERTIES Reconnects
\* the bounds on clicks, failures and logs are used up
CHECK_DEADLOCK FALSE
