SPECIFICATION FairSpec
CHECK_DEADLOCK FALSE
CONSTANTS
  WorldSize = 3
  Total = 4
  SyncEvery = 2
  RequireBatches = 2
  KeepVersions = 2
  Leftovers = {2, 9}
  UseRolloutLogProbs = FALSE
  SaveEvery = 0
  GenerateMayFail = TRUE
  PushMayFail = TRUE
  RemoveMayFail = TRUE
INVARIANTS CollectivesPaired
PROPERTIES SnapshotKept AllFinish
