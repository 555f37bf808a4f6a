SPECIFICATION Spec
CONSTANTS
  Pids = {1, 2, 3, 4}
  NoCmdline = {2}
  IoDenied = {3}
  IoOdd = {4}
  FdDenied = {2}
  HasIo = TRUE
INVARIANT
  IoOwn
CHECK_DEADLOCK FALSE
