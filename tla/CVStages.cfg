CONSTANTS
  LastStage = 2
  Workers = {w1, w2}
  MaxMessages = 2
  MaxTier = 1
  MaxArtifacts = 1
  EventsStage = 1
  RequiredStages = {1}
SPECIFICATION FairSpec
INVARIANTS StageRunsOnce ChainInOrder ResultIsEntitled
PROPERTY StageSettles
CHECK_DEADLOCK FALSE
