SPECIFICATION Spec
CONSTANTS
  NULL = NULL
  RowsObj = {r1, r2, r3}
  FutObj = {f1, f2}
  MaxReq = 3
  NPages = 3
  Session = session
  Statement = statement
  Outcome = {"ok", "error", "garbled"}
SYMMETRY Objects
INVARIANTS
  RefCountExact
  PageOrder
  LastPageExact
  FuturesFreedOnce
  FuturesAccounted
