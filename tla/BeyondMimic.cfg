SPECIFICATION FairSpec
CONSTANTS
  TrajLength = 5
  FinishMargin = 1
  StartupOffset = 0
  StartupFrames = {1, 2}
  Decimation = 2
  AutoStart = TRUE
  BlendTime = 2
  MaxDances = 2
INVARIANTS
  RequestIsExclusive
  FinishedOnTime
  JoinsFirstFrame
PROPERTIES
  TargetsInOrder
  DanceFinishes
