SPECIFICATION Spec
CONSTANTS
  api = api
  ui = ui
  test = test
  docs = docs
  bob = bob
  alice = alice
  None = None
  Tasks <- FourTasks
  Workers <- TwoWorkers
  WorkerOf <- Team
  Deps <- Plan
  Suspends <- SlowTasks
  MaxTaskRetries = 1
  MaxQuestions = 1
INVARIANTS SuccessIsOnMain
CHECK_DEADLOCK FALSE
