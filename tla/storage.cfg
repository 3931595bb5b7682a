SPECIFICATION Spec
CONSTANTS
  Requests = {r1, r2}
  MaxFaults = 1
  NumParts = 2
  MaxCalls = 4
  Short = {t1}
  Long = {t2, t3}
  LongParts = 2
  Page = 2
  MaxChainCalls = 3
  Members = {u1}
  Accounts = {a1, a2}
  Writers = {q1}
  Retention = 1
  MaxRequests = 2
  MaxBackups = 2
INVARIANTS
  ObjectsStand
  ChainsStand
  ReadersAreServed
  
PROPERTY
  PatchesAddUp
SYMMETRY Interchangeable
CHECK_DEADLOCK FALSE
