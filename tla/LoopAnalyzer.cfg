SPECIFICATION LoopSpec
CONSTANTS
  Blocks = {r, b1, b2, b3, e, p}
  None = None
  FreshTargets = TRUE
  MaxEdges = 20
  Entry = r
  Exit = e
  PreHeader = p
  Edges <- MCEdges
  Numberings <- MCNumbered
  MaxSuccs = 2
  Aside = {b3}
INVARIANTS
  LoopsAreNatural
  LoopTreeIsNesting
  AbortsOnlyOnParallel
  ReserveSuffices
  OutLoopsEnd
CHECK_DEADLOCK FALSE
