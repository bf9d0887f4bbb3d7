SPECIFICATION DomSpec
CONSTANTS
  Blocks = {r, b1, b2, e}
  None = None
  FreshTargets = TRUE
  MaxEdges = 20
  Entry = r
  Exit = e
  EdgeSets <- MCEdgeSets
  MaxRuns = 2
INVARIANTS
  DominatorsCorrect
  ImmDomClosest
  MissingIsFound
PROPERTIES
  GraphIntact
  RunReturns
CHECK_DEADLOCK FALSE
