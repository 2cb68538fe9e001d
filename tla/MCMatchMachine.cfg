CONSTANT MaxMs = 3
SPECIFICATION Spec
CHECK_DEADLOCK FALSE
INVARIANTS
  TypeOK
  EarliestCorrectWins
  HoldIsExact
  DrawIsEarned
  WalkoverGoesToThePresentPlayer
PROPERTY
  KeepsThePromise
