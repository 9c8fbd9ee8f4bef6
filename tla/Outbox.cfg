SPECIFICATION FairSpec
CONSTANTS
  Keys = {1, 2}
  Topic <- FanOutAndUnlock
  Instances = {n1, n2}
  MaxAttempts = 2
  BatchSize = 1
INVARIANTS
  TypeOK
PROPERTIES
  EventsResolve
  ImplementsEventLedger
CHECK_DEADLOCK FALSE
