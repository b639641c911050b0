CONSTANTS
  None = None
  Contents = {"payload"}
  KeyBytes = 20
  U32Max = 255
  MaxScripts = 3
  Inputs <- MCInputs
SPECIFICATION Spec
INVARIANTS
  TypeOK
  AnswersTheRequest
  RefusesExactlyTheFaulty
CHECK_DEADLOCK FALSE
