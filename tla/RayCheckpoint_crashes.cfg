\* Two crashes or new trainings anywhere, in four saves of two ranks.
SPECIFICATION FairSpec
CONSTANTS
  head = head
  trainer = trainer
  other = other
  WorldSize = 2
  Nodes <- MCNodes
  Placements <- MCPlacements
  SaveInterval = 2
  Limit = 3
  Total = 8
  HasParameterState = TRUE
  ResumeFlags = {TRUE, FALSE}
  RemoveMayFail = TRUE
  MaxStarts = 3
INVARIANTS PeakUsage TrackedIsComplete
PROPERTIES BoundedRedo FinishesOnceTracked
