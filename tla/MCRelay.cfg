CONSTANTS
  MaxEdits = 3
  MaxChanges = 2
  MaxBreaks = 2
  MaxDetaches = 1
SPECIFICATION FairSpec
CHECK_DEADLOCK FALSE
INVARIANTS
  OnlyWrittenText
  ReplayIsTheDocument
  ViewCatchesUp
PROPERTY
  GapIsRepaired
