SPECIFICATION Spec
CONSTANTS
  Inputs <- MCInputs
  Handlers = {h1, h2}
  Engines = {"conforma", "opa"}
  Rules = {"branch", "review"}
  Nil = Nil
  None = None
INVARIANTS
  ListsAreArrays
CHECK_DEADLOCK FALSE
