SPECIFICATION Spec
CONSTANTS
  Deliveries = {d1, d2}
  Consumer = consumer
  TimerAttempts = 1
  Prefetch = 2
  LostReplies = {}
  MaxChunks = 2
  MaxDuplicates = 1
  MaxFaults = 2
CHECK_DEADLOCK FALSE
SYMMETRY DeliverySymmetry
INVARIANTS
  TypeOK
  ChunkStoredOnce
  ContextComplete
PROPERTIES
  InactiveNotServed
