SPECIFICATION Spec
CONSTANTS
  Movers = {p1, p2}
  Tables = {"t", "n"}
  Columns = {"a", "b", "c"}
  Migrations <- AllMigrations
  Additions <- AllAdditions
  Starts <- AllStarts
  MaxCalls = 2
  MaxFaults = 1
  First = b1
  More = {b2}
  Requests = {r1, r2}
  MaxRequests = 2
  MaxWrites = 1
INVARIANTS
  TablesAgree
  PoliciesDecide
  MeansWhatItSays
PROPERTY
  FailedLeavesNoTrace
SYMMETRY Interchangeable
CHECK_DEADLOCK FALSE
