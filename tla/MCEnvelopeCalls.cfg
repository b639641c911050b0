CONSTANTS
  None = None
  Contents <- MCContents
  MaxScript = 6000
  SafetyMargin = 128
  Q = 23
  Diversifiers = {d1, d2, bad}
  ValidDiversifiers = {d1, d2}
  RetryBudget = 1
  Stream <- Stream11
  Requests <- ManyCallsRequests
SPECIFICATION Spec
INVARIANTS
  KeyNeverReused
  IvkOpensItsCallOnly
PROPERTY
  EveryCallReturns
CHECK_DEADLOCK FALSE
