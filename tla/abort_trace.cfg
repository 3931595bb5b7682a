SPECIFICATION Spec
CONSTANTS
  k1 = k1
  k2 = k2
  v1 = v1
  v2 = v2
  Keys <- KeySet
  Vals <- ValSet
  NoKey = NoKey
  NoRow = NoRow
  Free = Free
  All = All
  Keep = Keep
  MaxMsg = 6
  KeyIndexed = FALSE
  MissingDeleteThrows = TRUE
  Txns = {t1, t2}
  Direct = {}
  Trusted = {t1}
  Private <- Hidden
  Programs <- RewritePrograms
  Seeds <- AnySeed
  MaxFaults = 0
  TTLMayPass = FALSE
  MayCrash = FALSE
INVARIANT
  AbortLeavesNoTrace
CHECK_DEADLOCK FALSE
