CONSTANTS
  Player = {ann, ben}
  Match = {m1, m2}
  MaxCrashes = 2
  Remembered = {m1}
SPECIFICATION FairSpec
CHECK_DEADLOCK FALSE
INVARIANTS
  RejoinForeseesTheRecord
  NoGhostsInThePool
PROPERTIES
  ResultIsKept
  VerdictsAreNotAnnulled
  StartMendsEverything
