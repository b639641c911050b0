CONSTANTS
  None = None
  MaxScript = 6000
  SafetyMargin = 128
  EvidenceLens <- MCEvidenceLens
  MaxCalls = 2
  MaxOthers = 1
  MaxFaults = 3
SPECIFICATION Spec
INVARIANTS
  TypeOK
  PlacedReadsBack
  NoPartPasses
CHECK_DEADLOCK FALSE
