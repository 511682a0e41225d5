CONSTANTS
  Sessions = {s1, s2}
  Nobody = Nobody
  f1 = f1
  f2 = f2
  p1 = p1
  A = A
  B = B
  ProjectIds = {p1, p2}
  TaskIds = {t1}
  ExecutionIds = {e1}
  me = s1
  Files = {f1, f2}
  Contents = {A, B, Bad}
  Malformed = Bad
  Lists <- MCLists
  Releases = {1, 2}
  MaxTime = 3
SPECIFICATION MCSpec
CONSTRAINT MCBounded
INVARIANTS StoreIsWhole CachesAreCurrent
PROPERTIES OnlyARaceIsRefused IndexIsCurrent
