SPECIFICATION Spec
CONSTANTS
  Pids = {1, 2}
  Mem <- MCMem
  Threads <- MCThreads
  CpuTimes = {0}
  Clock = {1, 4}
  MaxCalls = 2
INVARIANT
  NoLeak
