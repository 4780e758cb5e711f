SPECIFICATION Spec
CONSTANTS
  c1 = c1
  c2 = c2
  Base = 12
  MaxPlayers = 11
  Connections = {c1, c2}
  NameOf <- MCNameOf
  LobbyName <- MCLobbyName
  Texts <- MCTexts
CONSTRAINT OneShortName
INVARIANTS Sorted LookupsAgree UpdatesDecoded AnswersDecoded RequestsDecoded
PROPERTIES ImplementsSeats
