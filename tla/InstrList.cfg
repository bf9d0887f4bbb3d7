SPECIFICATION Spec
CONSTANTS
  Blocks = {b1, b2}
  Instrs = {i1, i2, i3, i4}
  Null = Null
  Gone = Gone
  KeepOne = TRUE
  CleanInsert = TRUE
INVARIANTS
  ChainsAgree
  BbNeverAnotherBlock
PROPERTIES
  ListsSpec
