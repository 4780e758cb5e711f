SPECIFICATION Spec
CONSTANTS
  Sizes = {1, 3}
  MaxMessages = 3
INVARIANTS WholeQueueTooShort
CHECK_DEADLOCK FALSE
