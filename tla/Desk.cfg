CONSTANTS
  alice = alice
  bob = bob
  carol = carol
  Workers = {alice, bob, carol}
  NoWorker = NoWorker
  DepartmentOf <- MCDepartmentOf
  SkillsOf <- MCSkillsOf
  Goals <- MCGoals
  MaxTime = 0
  TaskIds = {t1, t2, t3}
  NodeIds = {t1, t2, t3, ghost}
  MaxDeps = 2
  Colleagues = {alice, bob}
  ReviewTasks = {t1}
  Nobody = Nobody
  LastMoment = 1
  mock = mock
  mock2 = mock2
  mock3 = mock3
  mockId = mockId
  Ids = {mockId, claudeId}
  Plugins = {mock, mock2, mock3}
  Manifest <- MCManifest
  Callers = {alice}
  DefaultPluginId = claudeId
  NaN = NaN
  None = None
  MaxCalls = 2
SPECIFICATION MCSpec
CONSTRAINT MCBounded
INVARIANTS GraphRunsInBatches DeliveredIsRecorded ProcessesAreOwned
PROPERTIES AssignmentIsFair
CHECK_DEADLOCK FALSE
