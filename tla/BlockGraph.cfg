SPECIFICATION Spec
CONSTANTS
  Blocks = {b1, b2, b3, b4}
  None = None
  FreshTargets = TRUE
  MaxEdges = 2
INVARIANTS
  TypeOK
  EdgeMirror
  IdsDistinct
PROPERTIES
  IdsStable
  FlowSpec
SYMMETRY BlockSymmetry
