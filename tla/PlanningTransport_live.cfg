SPECIFICATION FairSpec
CONSTANTS
  Deliveries = {d1, d2}
  Consumer = consumer
  TimerAttempts = 2
  Prefetch = 2
  LostReplies = {"enqueue", "publish"}
  MaxChunks = 2
  MaxDuplicates = 0
  MaxFaults = 1
CHECK_DEADLOCK FALSE
INVARIANTS
  PlannedOnce
  RequestedOnce
  ClaimsInv
PROPERTIES
  LifecycleSpec
  AcceptedJobEnds
  TimeoutEndsGathering
