SPECIFICATION UplinkFairSpec
CONSTANTS
  Sizes = {1, 3}
  MaxMessages = 2
  ReadSize = 6
  MaxRepeats = 1
INVARIANTS NothingLost RequestsWhole NoBacklogBefore
PROPERTIES RequestsArrive
CHECK_DEADLOCK FALSE
