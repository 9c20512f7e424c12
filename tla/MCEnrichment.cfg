SPECIFICATION Spec
CONSTANTS
  Inputs <- MCInputs
  Handlers = {h1, h2}
  Engines = {"conforma", "opa"}
  Rules = {"branch", "review"}
  Nil = Nil
  None = None
INVARIANTS
  TypeOK
  AnswersAgree
  AnswerMatchesFiles
  ServesOnlyWhatLoads
CHECK_DEADLOCK FALSE
