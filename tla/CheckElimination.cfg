SPECIFICATION Spec
CONSTANTS
  b0 = b0
  b1 = b1
  b2 = b2
  NoDef = NoDef
  Label = Label
  NoArg = NoArg
  Dynamic = {}
  Entry = b0
  Blocks <- MCBlocks
  Instrs <- MCInstrs
  Shapes <- MCShapes
  Codes <- MCCodes
INVARIANTS
  DefsDominateUses
  UsesResolved
  EliminatedIsRedundant
  LeftoversExplained
  FaultsExplained
CHECK_DEADLOCK FALSE
