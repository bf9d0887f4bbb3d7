SPECIFICATION Spec
CONSTANTS
  Blocks = {r, b1, b2, e}
  Root = r
  End = e
  MaxSuccs = 2
  Graphs <- MCGraphs
INVARIANTS
  RecursionBounded
PROPERTIES
  Terminates
  WalkSpec
