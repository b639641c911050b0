CONSTANTS
  MaxScript = 6000
  SafetyMargin = 128
  EvidenceLens <- MCEvidenceLens
  None = None
SPECIFICATION Spec
INVARIANTS
  DepositTypeOK
  Reassembles
  ScriptsFit
  ChunksFull
PROPERTIES
  Delivers
  OnlyAppends
