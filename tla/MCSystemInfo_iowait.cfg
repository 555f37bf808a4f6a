SPECIFICATION Spec
CONSTANTS
  Advances <- MCAdvances
  Drops = {0, 2}
  MemFiles <- MCOneFile
  CpuCounts <- MCCpuCounts
  MaxUpdates = 2
  W = 256
INVARIANT
  PrintedWithinHundred
CHECK_DEADLOCK FALSE
