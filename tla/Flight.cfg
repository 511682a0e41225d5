SPECIFICATION FairSpec
CONSTANTS
  bob = bob
  planner = planner
  r1 = r1
  r2 = r2
  r3 = r3
  None = None
  Workers <- OneWorker
  Virtual = planner
  Requests <- ThreeRequests
  WorkerOf <- AllBobs
  MaxConcurrentRequests = 2
  MaxSpawns = 1
  Commands <- AllCommands
INVARIANTS SlotHeldByItsFlight SingleFlightUnlessInterrupted HonestUnlessInterrupted
PROPERTIES RequestsSettle
CHECK_DEADLOCK FALSE
