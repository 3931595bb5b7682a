SPECIFICATION FairSpec
CONSTANTS
  k1 = k1
  k2 = k2
  v1 = v1
  v2 = v2
  Keys <- KeySet
  Vals <- ValSet
  NoKey = NoKey
  NoRow = NoRow
  Free = Free
  All = All
  Keep = Keep
  MaxMsg = 6
  KeyIndexed = FALSE
  MissingDeleteThrows = TRUE
  Txns = {t1, t2}
  Direct = {}
  Trusted = {t1}
  Private <- Hidden
  Programs <- LockedPrograms
  Seeds <- AnySeed
  MaxFaults = 1
  TTLMayPass = FALSE
  MayCrash = TRUE
INVARIANTS
  LockSuffices
  RollbackAccounted
  FeedReplaysTable
PROPERTY
  EveryCallEnds
CHECK_DEADLOCK FALSE
