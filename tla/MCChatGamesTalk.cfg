SPECIFICATION System
CONSTANTS
  MaxPlayers = 2
  Sessions = {s1, s2, s3}
  Lobbies = {l1}
  NumThreads = 2
  MaxRequests = 4
  MaxPresses = 1
  Null = Null
SYMMETRY Symmetry
INVARIANTS OnlyFullLobbyAborts OwnSeat ViewCurrent KnownAuthor
