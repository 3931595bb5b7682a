SPECIFICATION FairSpec
CONSTANTS
  Hooks = {h1}
  Existing = {h1}
  Changes = {c1, c2}
  Attempts = 1
  Cap = 2
  MaxOps = 1
  MaxMishaps = 1
PROPERTY
  EveryDeliverySettled
CHECK_DEADLOCK FALSE
