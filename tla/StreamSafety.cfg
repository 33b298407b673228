SPECIFICATION Spec
CONSTANTS
  Dialect = "sqlite"
  NoKey = NoKey
  Keys = {k1, k2}
  EventIds = {1, 2}
  Capacity = 1
  Tasks = {t1, t2}
  ReplayWindow = 1
  KeyRetention = 0
  MaxKeyRows = 1
  MaxAge = 0
  MaxEvents = 1
  Retained = FALSE
  Overlaps = TRUE
  Redacts = {k1}
  CallTime = 9
  MaxTime = 0
  MaxFaults = 1
SYMMETRY Symmetry
INVARIANTS  FollowerMissesNothing
PROPERTIES ImplementsEventLog
CHECK_DEADLOCK FALSE
