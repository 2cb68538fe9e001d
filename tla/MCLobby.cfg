CONSTANTS
  a = a
  b = b
  c = c
  Player = {a, b, c}
  Host = a
  Taker = b
  MaxMatches = 2
  MaxCalls = 1
SPECIFICATION LobbySpec
SYMMETRY Members
CHECK_DEADLOCK FALSE
INVARIANTS
  LobbyTypeOK
  SessionKnowsItsMatch
  ChallengeStartsOnce
PROPERTIES
  SeekerIsNotForgotten
