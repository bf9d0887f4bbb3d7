SPECIFICATION DomSpec
CONSTANTS
  Blocks = {r, b1, b2, e}
  None = None
  FreshTargets = TRUE
  MaxEdges = 20
  Entry = r
  Exit = e
  EdgeSets <- MCEdgeSets
  MaxRuns = 2
INVARIANTS
  RunSucceeds
CHECK_DEADLOCK FALSE
