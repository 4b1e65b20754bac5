SPECIFICATION FairSpec
CHECK_DEADLOCK FALSE
CONSTANTS
  NumReplicas = 2
  Total = 3
  Jobs <- MCJobs
  MaxRounds = 2
  TrainPrompts = 2
  ValBatches = 2
  CallsMayFail = TRUE
  ValidationSleepMayFail = FALSE
INVARIANTS GenerateReady TrainsAlone
PROPERTIES ImplementsOnPolicy EventuallyEnds
