SPECIFICATION Spec
CONSTANTS
  Value <- MCValue
  Classes <- MCClasses
  MaxEntries = 4
  MaxDumped = 1
  InitialBuckets = 2
  Threshold = 2
  Golden = 1
INVARIANTS HASH_FSCK
PROPERTY ImplementsSet
CHECK_DEADLOCK FALSE
