\* Two ranks, the code's three slots, a run long enough to reuse every slot.
SPECIFICATION FairSpec
CONSTANTS
  WorldSize = 2
  Slots = 3
  PrefetchDepth = 2
  Start = 1
  Total = 6
  Sharded = TRUE
  Accums <- MCEven
  TeacherMayFail = FALSE
  ShmMayFail = FALSE
  TimeoutsMayFire = FALSE
INVARIANTS TypeOK ClaimNeverWaits
PROPERTY ImplementsLockstep
