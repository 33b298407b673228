SPECIFICATION Spec
CONSTANTS
  Users = {u, w}
  Owner = owner
  Remote = {}
  Invites = {i1}
  GrantIds = {1, 2}
  NoUser = NoUser
  MaxWrites = 1
  MaxFaults = 0
INVARIANTS InvitationIsSingleUse
CHECK_DEADLOCK FALSE
