SPECIFICATION FairSpec
CHECK_DEADLOCK FALSE
CONSTANTS
  NumReceivers = 2
  Jobs <- MCJobs
  Syncs = 2
  SenderMayFail = TRUE
  ReceiverMayFail = TRUE
  TimeoutsMayFire = TRUE
INVARIANTS BroadcastsPair CommittedEverywhere
PROPERTIES AllReleased
