CONSTANTS
  None = None
  Base = 4
  WordBytes = 7
  KeyBytes = 2
  LabelCap = 5
  MimeCap = 6
  MaxSize = 100
  Descriptors <- MCDescriptors
  MaxWrites = 2
SPECIFICATION Spec
INVARIANTS
  TypeOK
  ReadsBackCanonical
  LeftoverNoticed
CHECK_DEADLOCK FALSE
