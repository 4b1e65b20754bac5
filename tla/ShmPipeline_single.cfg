\* One rank: no barrier orders the release of a slot after its claim.
SPECIFICATION FairSpec
CONSTANTS
  WorldSize = 1
  Slots = 2
  PrefetchDepth = 2
  Start = 0
  Total = 5
  Sharded = FALSE
  Accums <- MCEven
  TeacherMayFail = FALSE
  ShmMayFail = TRUE
  TimeoutsMayFire = TRUE
PROPERTY ImplementsLockstep
