SPECIFICATION LiveSpec
CONSTANTS
  Dialect = "sqlite"
  Policy = "versionPrecondition"
  Tasks = {t1, t2}
  Nobody = Nobody
  Apps = {a, b}
  NoApp = NoApp
  MaxCalls = 4
  MaxFaults = 1
INVARIANTS TypeOK NoLostUpdate
PROPERTIES AppsKeepTheirRows CallsReturn
CHECK_DEADLOCK FALSE
