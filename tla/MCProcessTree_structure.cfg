SPECIFICATION Spec
CONSTANTS
  Pids = {1, 2, 3, 4}
  Mem <- MCMem
  Threads <- MCThreads
  CpuTimes = {0}
  Clock = {1}
  MaxCalls = 1
INVARIANTS
  UniquePids
  ParentsAgree
  ListsAgree
  FillsFromRoot
  FillWalksTree
  SubtreeSums
  OneTreeVisited
PROPERTY
  CallReturns
  CollectsInOrder
