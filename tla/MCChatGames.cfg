SPECIFICATION FairSystem
CONSTANTS
  MaxPlayers = 2
  Sessions = {s1, s2}
  Lobbies = {l1}
  NumThreads = 2
  MaxRequests = 3
  MaxPresses = 2
  Null = Null
INVARIANTS AnswerFirst
PROPERTIES CreateAnswered
