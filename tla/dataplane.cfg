SPECIFICATION Spec
CONSTANTS
  k1 = k1
  k2 = k2
  v1 = v1
  v2 = v2
  t1 = t1
  d1 = d1
  t2 = t2
  Keys <- KeySet
  Vals <- ValSet
  NoKey = NoKey
  NoRow = NoRow
  Free = Free
  All = All
  Keep = Keep
  MaxMsg = 5
  KeyIndexed = TRUE
  MissingDeleteThrows = FALSE
  Txns = {t1, t2}
  Direct = {d1}
  Trusted = {t1, d1}
  Private <- Hidden
  Programs <- MixedPrograms
  Seeds <- TwoRows
  MaxFaults = 1
  TTLMayPass = TRUE
  MayCrash = FALSE
INVARIANTS
  UniqueKeys
  IndexInStep
CHECK_DEADLOCK FALSE
