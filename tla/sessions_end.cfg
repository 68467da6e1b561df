SPECIFICATION Spec
CONSTANTS
  NULL = NULL
  Key = {k1, k2}
  Sess = {s1, s2}
  DSess = {d1, d2}
  FSess = {f1, f2}
  Outcome = {"ok", "error"}
  Builds = {FALSE}
INVARIANT WorkerEndCleansUp
