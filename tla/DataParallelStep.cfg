CONSTANTS
  WorldSize = 2
  Jobs <- MCJobs
SPECIFICATION FairSpec
CHECK_DEADLOCK FALSE
INVARIANTS LogProbsAligned CollectivesPaired EveryRowOnce TokensNormalised GroupsWhole
PROPERTIES StepEnds
