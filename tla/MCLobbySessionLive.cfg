SPECIFICATION FairSpec
CONSTANTS
  MaxPlayers = 2
  Sessions = {s1, s2}
  Lobbies = {l1}
  NumThreads = 2
  MaxRequests = 4
  Null = Null
CONSTRAINTS FirstSpeaksFirst NoHeartbeats
INVARIANTS RelaysInOrder
PROPERTIES RequestsHandled
