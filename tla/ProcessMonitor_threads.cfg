SPECIFICATION Spec
CONSTANTS
  Kinds = {"all", "one"}
  Ops = {"cpu", "ram"}
  Pids = {1, 2}
  LogCount = 3
  Interval = 2
  MaxTime = 1
  Paces = {TRUE, FALSE}
INVARIANTS
  SlotsOutliveWorkers
  SecondInterval
  TotalTime
PROPERTIES
  Returns
  ReportsInOrder
CHECK_DEADLOCK FALSE
