SPECIFICATION FairSpec
CONSTANTS
  Settings <- MCSettings
  Requests = {r1, r2}
  Kinds <- MCKinds
  Keys = {"k1", "k2"}
  FirstKeys = {"k1"}
  MaxRotations = 1
  NoSubject = "no subject"
  None = None
CHECK_DEADLOCK FALSE
INVARIANTS
  TypeOKServer
  OnlyDocumentedTokens
  LogTellsAnswer
PROPERTIES
  ImplementsGate
  RequestsEnd
