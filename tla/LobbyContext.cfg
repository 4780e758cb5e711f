SPECIFICATION FairSpec
CONSTANTS
  Sessions = {s1, s2}
  MaxCalls = 5
INVARIANTS LiveLobbiesFound
PROPERTIES ImplementsRegistry CreateReturns
CHECK_DEADLOCK FALSE
