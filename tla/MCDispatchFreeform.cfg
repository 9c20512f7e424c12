SPECIFICATION SpecCheck
CONSTANTS
  Words <- MCWords
  Refs <- MCRefs
  MaxSegments = 5
INVARIANT
  FreeformNamesServeBlobs
CHECK_DEADLOCK FALSE
