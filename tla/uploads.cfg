SPECIFICATION Spec
CONSTANTS
  Requests = {r1, r2, r3}
  Size = 3
  Chunks = {1, 2}
  MaxCalls = 5
  MaxFaults = 1
INVARIANTS
  BytesKept
  SequentialIsSafe
PROPERTY
  ImplementsLog
SYMMETRY Interchangeable
CHECK_DEADLOCK FALSE
