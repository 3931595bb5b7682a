SPECIFICATION FairSpec
CONSTANTS
  Projects = {p1}
  Requests = {r1, r2}
  Checks = {c1, c2}
  Providers = {1, 2, 3, 4}
  Clients = {1, 2, 3, 4, 5}
  MaxOps = 2
  MaxFaults = 2

  
PROPERTY
  SessionsRecover
CHECK_DEADLOCK FALSE
