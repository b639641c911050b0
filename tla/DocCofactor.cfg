CONSTANTS
  None = None
  Contents <- MCContents
  MaxScript = 6000
  SafetyMargin = 128
  Q = 23
  Diversifiers = {d1, d2, bad}
  ValidDiversifiers = {d1, d2}
  RetryBudget = 2
  Stream <- Stream5
  Requests <- ManyCallsRequests
SPECIFICATION Spec
INVARIANT CofactorIsNoOp
CHECK_DEADLOCK FALSE
