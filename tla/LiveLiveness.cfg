CONSTANTS
  MaxMs = 1
  DbMayFail = TRUE
SPECIFICATION EndlessSpec
CHECK_DEADLOCK FALSE
PROPERTY
  EventuallySettled
