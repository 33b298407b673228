SPECIFICATION Spec
CONSTANTS
  d1 = d1
  d2 = d2
  d3 = d3
  ada = ada
  bob = bob
  cat = cat
  Devices = {d1, d2, d3}
  Users = {ada, bob, cat}
  UserOf <- MCUserOf
  Creator = ada
  Planes = {"p2p", "sfu"}
  P2PCap = 2
  MaxCommands = 5
  MaxFaults = 1
INVARIANTS  ActiveCallHasMedia EndedCallHoldsNoMedia NoMediaLeaks CapacityRespected
CHECK_DEADLOCK FALSE
