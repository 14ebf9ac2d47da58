SPECIFICATION Spec
CONSTANTS
  Pushers = {s1, s2}
  Poppers = {v1, v2}
  Priorities = {1, 2, 3}
  StarveBytes <- MCStarveBytes
  MAX_POOL_SIZE = 2
  MaxObjects = 4
INVARIANTS TypeOK OvershootBound NoDuplication
PROPERTIES NothingLost LowItemsAreFifo
CHECK_DEADLOCK FALSE
