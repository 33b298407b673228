SPECIFICATION SchedulerLiveSpec
CONSTANTS
  s1 = s1
  s2 = s2
  JobIds = {1, 2, 3}
  Keys <- MCKeys
  Types = {poll}
  Workers = {w1}
  MaxAttempts = {5}
  NoKey = NoKey
  Nobody = Nobody
  Legacy = Legacy
  Nodes = {n1, n2}
  Specs = {s1, s2}
  Targets = {t1}
  interval <- TwoIntervals
  Times <- ShortClock
  MaxFailures = 1
INVARIANTS OneJobPerWindow TickCoversItsWindow
PROPERTIES TickedWindowsAreServed
CHECK_DEADLOCK FALSE
