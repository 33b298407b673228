SPECIFICATION LiveSpec
CONSTANTS
  k1 = k1
  mail = mail
  nohandler = nohandler
  JobIds = {1, 2}
  Keys = {k1}
  Types = {mail, nohandler}
  Workers = {w1, w2}
  MaxAttempts = {0, 2}
  NoKey = NoKey
  Nobody = Nobody
  Legacy = Legacy
  Callers = {c1, c2}
  Requests <- KeyedAndUnhandled
  Handled = {mail}
  LegacyTypes = {nohandler}
  BatchSize = 2
  MaxTime = 2
  MaxLost = 1
  MaxAborts = 1
INVARIANTS TypeOK ExclusiveExecution AttemptBudget SameKeySameJob
PROPERTIES TerminalIsFinal JobsSettle
CHECK_DEADLOCK FALSE
