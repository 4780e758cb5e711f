SPECIFICATION FairSpec
CONSTANTS
  MaxPlayers = 3
  PaletteSizes = {2, 3}
  Games <- MCGames
  MaxVotes = 2
CONSTRAINT ShortInboxes
INVARIANTS ColorsDistinct
PROPERTIES StartIsAgreed ColorsStay Agreement
CHECK_DEADLOCK FALSE
