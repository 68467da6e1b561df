SPECIFICATION ProcessSpec
CONSTANTS
  NULL = NULL
  IOThread = {t1, t2}
  Path = {l1, l2}
  MaxUpdates = 2
  Proc <- MCProc
  Pid = {11, 12}
  MaxUuids = 2
SYMMETRY Threads
CHECK_DEADLOCK FALSE
INVARIANTS
  LogLocationWhole
  UuidsDistinct
