SPECIFICATION Spec
CHECK_DEADLOCK FALSE
CONSTANTS
  WorldSize = 3
  Total = 3
  SyncEvery = 2
  RequireBatches = 2
  KeepVersions = 2
  Leftovers = {}
  UseRolloutLogProbs = TRUE
  SaveEvery = 1
  GenerateMayFail = TRUE
  PushMayFail = TRUE
  RemoveMayFail = TRUE
INVARIANT CollectivesPaired
