SPECIFICATION Spec
CONSTANTS
  NULL = NULL
  c1 = c1
  c2 = c2
  hidden = hidden
  Config <- Settings3
  HashKey <- PrintedKey
  Handle = {h1, h2, h3, h4}
  Obj = {o1, o2, o3}
SYMMETRY Handles
INVARIANTS
  CounterExact
  NoDoubleFree
  SharedIfRecognised
  SessionOfKey
