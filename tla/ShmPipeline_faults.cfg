\* Failing inference and expiring waits, two slots.
SPECIFICATION FairSpec
CONSTANTS
  WorldSize = 2
  Slots = 2
  PrefetchDepth = 2
  Start = 1
  Total = 4
  Sharded = TRUE
  Accums <- MCUneven
  TeacherMayFail = TRUE
  ShmMayFail = TRUE
  TimeoutsMayFire = TRUE
INVARIANT UnreadSlotKept
PROPERTIES StaysInLockstep EventuallyEnds
