SPECIFICATION Spec
CONSTANTS
  Advances <- MCAdvances
  Drops = {0}
  MemFiles <- MCMemFiles
  CpuCounts <- MCCpuCounts
  MaxUpdates = 3
  W = 256
INVARIANTS
  TypeOK
  NothingStale
  ComparesLastGood
  UnknownUntilSecond
  WithinHundred
  UsedWithinSize
CHECK_DEADLOCK FALSE
