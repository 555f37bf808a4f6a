SPECIFICATION WSpec
CONSTANTS
  Pids = {1, 2}
  Mem <- MCMem
  Threads <- MCThreads
  CpuTimes = {0, 2}
  Clock = {0, 1, 4}
  MaxCalls = 3
  Counts <- MCCounts
INVARIANTS
  TypeOK
  OnePartsHolder
  NoDangling
  ResultAgrees
  SubtreeSums
  TopOfReal
  UsageNeedsTwoReadings
  NoClockNoUsage
PROPERTY
  Answers
CHECK_DEADLOCK FALSE
