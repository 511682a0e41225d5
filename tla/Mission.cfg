SPECIFICATION FairSpec
CONSTANTS
  design = design
  api = api
  ui = ui
  test = test
  docs = docs
  Tasks <- FiveTasks
  Position <- PlanPosition
  Deps <- PlanDeps
  Reviewed <- ReviewedTasks
  MaxParallelWorkers = 2
  MaxTaskRetries = 1
  MaxReviewRepairAttempts = 1
  MaxRejections = 2
  Disturbances <- AllDisturbances
INVARIANTS ListsPartitionTasks SuccessIsReal
PROPERTIES MissionEnds GraphExecution
CHECK_DEADLOCK FALSE
