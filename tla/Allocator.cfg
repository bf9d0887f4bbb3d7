SPECIFICATION AllocSpec
CONSTANTS
  Classes = {block, arg}
  Reserve = 2
  PoolSizes = {0, 2}
  MaxObjects = 5
INVARIANTS
  PointersStayWithinReserve
  PoolPointersStay
CHECK_DEADLOCK FALSE
