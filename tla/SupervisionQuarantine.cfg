SPECIFICATION Spec
CONSTANTS
  alice = alice
  None = None
  Workers <- OneWorker
  Generations = {1, 2, 3}
  MaxCrashesInWindow = 1
  Commands <- RestartCommands
PROPERTIES QuarantineStopsRestarts
CHECK_DEADLOCK FALSE
