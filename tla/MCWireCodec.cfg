CONSTANTS
  Base = 4
  WordBytes = 7
  MaxSize = 1000
  Fields <- MCFields
  MaxFields = 2
SPECIFICATION Spec
INVARIANTS
  TypeOK
  ReadsBack
  NoOtherEncoding
  TruncationNoticed
CHECK_DEADLOCK FALSE
