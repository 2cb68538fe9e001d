CONSTANTS
  Player = {ann, ben, gus}
  Guest = {gus}
  Match = {m1, m2}
SPECIFICATION Spec
SYMMETRY Alike
CHECK_DEADLOCK FALSE
INVARIANTS
  CountedOnce
  CountedByRight
  DeltasAreOnRecord
