SPECIFICATION Spec
CONSTANTS
  r1 = r1
  r2 = r2
  r3 = r3
  r4 = r4
  t1 = t1
  t2 = t2
  t3 = t3
  Requests = {r1, r2, r3, r4}
  Tokens = {t1, t2, t3}
  FirstToken = t1
  Links = {l1, l2}
  Original = original
  Nobody = nobody
  MaxFaults = 1
  MaxExpiries = 1
SYMMETRY Symmetry
INVARIANTS SameUser FamilyIsALine ResetOnce ResetCutsOff
CHECK_DEADLOCK FALSE
