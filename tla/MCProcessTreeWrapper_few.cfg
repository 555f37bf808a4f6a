SPECIFICATION WSpec
CONSTANTS
  Pids = {1, 2}
  Mem <- MCMem
  Threads <- MCThreads
  CpuTimes = {0}
  Clock = {1}
  MaxCalls = 1
  Counts <- MCCounts
INVARIANT
  ListedOnce
CHECK_DEADLOCK FALSE
