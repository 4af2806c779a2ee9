CONSTANTS
  Images = {v1, v2}
  None = None
  MaxConfigs = 3
  MaxPolls = 1
  MaxFaults = 1
SPECIFICATION FairSpec
INVARIANTS TypeOK AnnotationAchieved
PROPERTIES ReadyAtGoalOrWaiting Settles
CHECK_DEADLOCK FALSE
