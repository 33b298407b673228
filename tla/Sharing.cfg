SPECIFICATION Spec
CONSTANTS
  Users = {u}
  Owner = owner
  Remote = {}
  Invites = {i1, i2}
  GrantIds = {1, 2}
  NoUser = NoUser
  MaxWrites = 2
  MaxFaults = 1
SYMMETRY Symmetry
INVARIANTS NothingAfterRevoke RevokedRowIsDropped GranteeHasTheRow
CHECK_DEADLOCK FALSE
