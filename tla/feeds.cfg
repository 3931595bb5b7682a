SPECIFICATION Spec
CONSTANTS
  Clients = {c1, c2}
  Users = {u}
  MaxConns = 2
  MaxOps = 4
  MaxFaults = 1
  Subscribers = {s1}
  Channels = {x, y}
  RowFilters = {"f"}
  MaxCalls = 3
  MaxChanges = 1
  MaxTotal = 4
  Hooks = {h1, h2}
  Existing = {h1}
  Changes = {d1}
  Attempts = 2
  Cap = 1
  MaxEdits = 2
  MaxMishaps = 1
  NumRows = 2
  Limit = 1
  MaxWrites = 1
INVARIANTS
  PresenceTrue
  ViewsConverge
  SubscriptionsStand
  EachChangeOnce
  
  HooksTruthful
  LettersInOrder
  AsWritten
  
SYMMETRY Interchangeable
CHECK_DEADLOCK FALSE
