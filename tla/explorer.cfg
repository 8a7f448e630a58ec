SPECIFICATION FairSpec
CONSTANTS
  home = home
  bare = bare
  Projects <- MCProjects
  Home = home
  Limit = 1
  MaxLogs = 3
  Retries = 1
  MaxClicks = 2
  MaxFaults = 2
INVARIANTS TypeOK ShownFits AnswersAddUp NotStranded WalkMissesNothing
PROPERTIES CatchesUp
