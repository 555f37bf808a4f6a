SPECIFICATION Spec
CONSTANTS
  Pids = {1, 2, 3}
  Mem <- MCMem
  Threads <- MCThreads
  CpuTimes = {0}
  Clock = {1, 4}
  MaxCalls = 1
INVARIANT
  AllRootedVisited
