SPECIFICATION Spec
CONSTANTS
  NoId = NoId
  MaxAny = 3
  MaxPlain = 5
  Streams <- MCStreams
INVARIANTS
  StreamPartitioned
  FallThroughCovered
  OutcomeExplained
  IdsSharedWithEnd
CHECK_DEADLOCK FALSE
