SPECIFICATION Spec
CONSTANTS
  NULL = NULL
  Catalog <- Versions
  Unreadable = {"c2"}
  MaxObjects = 6
  MaxSnapshots = 2
VIEW WithoutAnswer
INVARIANTS
  SchemaAlive
  KeysAgree
CHECK_DEADLOCK FALSE
CONSTRAINT Bounded
