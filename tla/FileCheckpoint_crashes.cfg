SPECIFICATION FairSpec
CONSTANTS
  Kinds = {"rl", "sddd"}
  SaveInterval = 2
  Limit = 2
  Total = 9
  ResumeFlags = {TRUE, FALSE}
  UnlinkMayFail = TRUE
  MaxCrashes = 3
INVARIANTS PeakUsage NewestKept ScheduleDrift
PROPERTIES BoundedRedo EndsOrBreaks
