CONSTANTS
  MaxMs = 1
  DbMayFail = FALSE
SPECIFICATION LiveSpec
CHECK_DEADLOCK FALSE
ACTION_CONSTRAINT PlayedFromThePage
INVARIANT EndSentOnce
