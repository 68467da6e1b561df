SPECIFICATION Spec
CONSTANTS
  NULL = NULL
  Kinds = {"set", "map", "collection", "tuple", "user_type_value", "rows"}
  Obj = {o1, o2}
  Key = {k1, k2, k3}
  Value = {v1, v2}
  NFields = 2
  NRows = 3
  MaxEntries = 4
  MaxNext = 5
SYMMETRY Symmetric
CHECK_DEADLOCK FALSE
INVARIANTS
  NextEntryLive
  LoopComplete
  LoopOrder
  EqualExact
  IndexesFresh
