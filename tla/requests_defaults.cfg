SPECIFICATION RequestsSpec
CONSTANTS
  NULL = NULL
  IntRange = 262144
  Zvals <- MCZvals
  Lists <- MCLists
  OptionArrays <- MCOptionArrays
  Arguments <- MCArguments
  Markers <- MCMarkers
  MaxWith = 2
  MaxAdd = 2
VIEW WithoutOutcome
CHECK_DEADLOCK FALSE
INVARIANT DefaultsHonoured
