SPECIFICATION FairSpec
CONSTANTS
  Sizes = {1, 3}
  MaxMessages = 2
INVARIANTS HandledWhole
PROPERTIES AllHandled
CHECK_DEADLOCK FALSE
