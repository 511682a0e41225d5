SPECIFICATION MCSpec
CONSTANTS
  shop = shop
  blog = blog
  Projects <- TwoProjects
  NoProject = NoProject
  MaxGoals = 3
  MaxRestarts = 2
  Files = {f1}
  Tasks = {t1, t2}
  Nothing = Nothing
  Users = Users
  c1 = c1
  c2 = c2
  cart = cart
  CART = CART
  site = site
  Calls = {c1, c2}
  Titles = {cart, CART, site}
  Keys = {cart, site}
  KeyOf <- MCKeyOf
  GoalChoices <- MCChoices
  AdrTitles <- MCAdrTitles
  MaxTime = 1
SYMMETRY Alike
CONSTRAINT MCBounded
CHECK_DEADLOCK FALSE
INVARIANTS TurnsAreKept FileFollowsMemory StaleRunsAreMarked DeliveredIsMerged
INVARIANTS PlanCoversItsGoal DecisionsArePersisted PlansAreSound
