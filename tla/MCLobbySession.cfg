SPECIFICATION Spec
CONSTANTS
  MaxPlayers = 2
  Sessions = {s1, s2, s3}
  Lobbies = {l1, l2}
  NumThreads = 2
  MaxRequests = 4
  Null = Null
SYMMETRY Symmetry
INVARIANTS IInv IterationSafe
PROPERTIES NoEntryWhenClosed SeatsAreStable LostLobbiesStayLost
