CONSTANT
  Workers = {alice, bob}
  Eventful = {alice}
SPECIFICATION FairSpec
INVARIANTS NobodyIsAbandoned ZeroMeansDrained
PROPERTIES ShutdownEnds
CHECK_DEADLOCK FALSE
