CONSTANTS
  MaxMs = 2
  DbMayFail = TRUE
SPECIFICATION LiveSpec
CHECK_DEADLOCK FALSE
INVARIANTS
  LiveTypeOK
  HoldHasAJob
  ReplayExplainsTheResult
  ClockStartsOnceAfterRow
  AbsenceIsTimed
