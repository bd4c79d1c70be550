SPECIFICATION FairSpec
CONSTANTS
  None = None
  MaxSize = 2
  MaxFiles = 2
  MaxCuts = 1
  Unparsable <- NoLine
  Events <- Replacements
PROPERTIES
  LinesEventuallyStored
  FollowsPath
CHECK_DEADLOCK FALSE
