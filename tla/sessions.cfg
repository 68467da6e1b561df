SPECIFICATION FairSpec
CONSTANTS
  NULL = NULL
  Key = {k1, k2}
  Sess = {s1, s2}
  DSess = {d1, d2}
  FSess = {f1, f2}
  Outcome = {"ok", "error"}
  Builds = {TRUE, FALSE}
INVARIANTS
  TypeOK
  RefCountExact
  NoDoubleFree
  CounterExact
  PooledNeverClosed
  NeverWaitsOnNull
  SharedSession
  FailureNotListed
  FutureFollowsEntry
PROPERTIES
  EntryNeverReplaced
  CallReturns
