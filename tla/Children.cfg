CONSTANTS
  Calls <- MCCalls
  CliWorkers = {alice}
  CliCalls = {c1, c2}
  NpmCalls = {n1}
  NoCall = NoCall
SPECIFICATION MCSpec
INVARIANTS RunningIsReachable
PROPERTIES CallsAreRuns EveryCallIsAnswered
CHECK_DEADLOCK FALSE
