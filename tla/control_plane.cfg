SPECIFICATION Spec
CONSTANTS
  Requests = {r1, r2}
  MaxFaults = 1
  Users = {u1, u2}
  Custom = {"lead"}
  Saved = {{}}
  Given = {"admin", "lead"}
  Invites = {i1}
  MaxCalls = 3
  AccountIds = {1, 2}
  MaxSteps = 2
  MaxTime = 4
  Calls = {c1, c2}
  MaxIssued = 4
  MaxLost = 1
INVARIANTS
  RolesStand
  InvitesEnd
  UsedOnce
  AccessEnds
  
SYMMETRY Interchangeable
CHECK_DEADLOCK FALSE
