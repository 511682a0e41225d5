SPECIFICATION FairSpec
CONSTANTS
  alice = alice
  None = None
  Workers <- OneWorker
  Generations = {1, 2, 3}
  MaxCrashesInWindow = 1
  Commands <- AllCommands
INVARIANTS BreakerOpensInTime PendingRestartsBounded
PROPERTIES CrashIsHandled
CHECK_DEADLOCK FALSE
