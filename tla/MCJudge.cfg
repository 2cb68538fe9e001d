CONSTANTS
  Job = {sub, practice}
  Practice = {practice}
  Slot = {s1}
  Tests = 2
  WallClock = 2
  ReapAge = 1
  Ceiling = 3
  Programs <- MCPrograms
  MaxFaults = 1
  sub = sub
  practice = practice
  s1 = s1
SPECIFICATION FairSpec
CHECK_DEADLOCK FALSE
INVARIANTS
  TypeOK
  StreamIsWhole
  TimeLimitIsSpent
PROPERTIES
  KeepsJudgePromise
  EverythingEnds
