SPECIFICATION SpecCheck
CONSTANTS
  Words <- MCWords
  Refs <- MCRefs
  MaxSegments = 5
INVARIANTS
  RequestReachesHandler
  CallIsSpelled
CHECK_DEADLOCK FALSE
