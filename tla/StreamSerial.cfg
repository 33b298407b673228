SPECIFICATION LiveSpec
CONSTANTS
  Dialect = "postgres"
  NoKey = NoKey
  Keys = {k1}
  EventIds = {1, 2, 3}
  Capacity = 1
  Tasks = {t1, t2}
  ReplayWindow = 1
  KeyRetention = 2
  MaxKeyRows = 0
  MaxAge = 1
  MaxEvents = 1
  Retained = TRUE
  Overlaps = FALSE
  Redacts = {}
  CallTime = 1
  MaxTime = 3
  MaxFaults = 1
 
PROPERTIES DurableIsFannedOut
CHECK_DEADLOCK FALSE
