CONSTANTS
  MaxMatches = 2
  MaxMishaps = 2
  MaxOnTheWay = 1
SPECIFICATION Spec
CHECK_DEADLOCK FALSE
INVARIANTS
  TypeOK
  ScreenFollowsTheMatch
  RememberedMatchIsAnswered
  SubmitIsNotDead
